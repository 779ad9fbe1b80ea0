-------------------------- MODULE SoftwareBusProofs --------------------------
(***************************************************************************)
(* Proofs about SoftwareBus, for any messages, applications, buffers,      *)
(* depths and limits: its types, and that a message is only put on a pipe  *)
(* that is in use.                                                         *)
(***************************************************************************)
EXTENDS SoftwareBus, TLAPS

PipeType == [owner : Apps \cup {None}, queue : Seq(Buffers),
             current : Buffers \cup {None}, trash : Buffers \cup {None}]
BufType == [use : Nat, msg : Msgs \cup {None}]
Places == {"idle", "send", "read", "took", "ended", "routes", "drain", "close"}
TaskType == [at : Places, pipe : Pipes \cup {None}, buf : Buffers \cup {None},
             rest : SUBSET Pipes]

\* A receive and a clean up know their pipe, a send its buffer.
Located ==
  /\ \A t \in Tasks : task[t].at \in {"read", "took"} => task[t].pipe \in Pipes
  /\ task[ES].at \in {"routes", "drain", "close"} => task[ES].pipe \in Pipes
  /\ \A a \in Apps : task[a].at = "send" => task[a].buf \in Buffers

TypeInv == SbTypeOK /\ Located

-----------------------------------------------------------------------------
\* Lemmas about the helpers.

LEMMA AtTypes ==
  ASSUME NEW pc \in Places
  PROVE  At(pc) \in TaskType /\ At(pc).at = pc
  BY DEF At, TaskType

LEMMA DropTypes ==
  ASSUME TypeInv, NEW b \in Buffers \cup {None}, Drop(b)
  PROVE  buf' \in [Buffers -> BufType] /\ pool' \in SUBSET Buffers
<1>0. buf \in [Buffers -> BufType] /\ pool \in SUBSET Buffers
  BY DEF TypeInv, SbTypeOK, BufType
<1>1. CASE ~(b # None /\ buf[b].use > 0)
  BY <1>0, <1>1 DEF Drop
<1>2. CASE b # None /\ buf[b].use > 0
  <2>1. b \in Buffers /\ buf[b] \in BufType /\ Freed \in BufType
    BY <1>0, <1>2 DEF Freed, BufType
  <2>2. [buf[b] EXCEPT !.use = @ - 1] \in BufType
    BY <1>2, <2>1 DEF BufType
  <2> QED
    BY <1>0, <1>2, <2>1, <2>2 DEF Drop
<1> QED
  BY <1>1, <1>2

LEMMA QueuedTypes ==
  ASSUME NEW q \in PipeType, NEW b \in Buffers
  PROVE  [q EXCEPT !.queue = Append(q.queue, b)] \in PipeType
<1>1. Append(q.queue, b) \in Seq(Buffers)
  BY DEF PipeType
<1> QED
  BY <1>1 DEF PipeType

LEMMA UsedTypes ==
  ASSUME NEW d \in BufType
  PROVE  [d EXCEPT !.use = d.use + 1] \in BufType
<1>1. d.use + 1 \in Nat
  BY DEF BufType
<1> QED
  BY <1>1 DEF BufType

LEMMA LeaveTypes ==
  ASSUME TypeInv, NEW m \in Msgs, NEW p \in Pipes, Leave(m, p)
  PROVE  /\ routed' \in SUBSET Msgs
         /\ dests' \in [Msgs -> SUBSET Pipes]
         /\ count' \in [Msgs -> [Pipes -> Nat]]
         /\ active' \in [Msgs -> [Pipes -> BOOLEAN]]
  BY DEF TypeInv, SbTypeOK, Leave

LEMMA ReleaseTypes ==
  ASSUME TypeInv, NEW b \in Buffers \cup {None}, NEW p \in Pipes, Release(b, p)
  PROVE  count' \in [Msgs -> [Pipes -> Nat]]
<1>0. /\ count \in [Msgs -> [Pipes -> Nat]] /\ dests \in [Msgs -> SUBSET Pipes]
      /\ buf \in [Buffers -> BufType]
  BY DEF TypeInv, SbTypeOK, BufType
<1>1. CASE count' = count
  BY <1>0, <1>1
<1>2. CASE count' # count
  <2> DEFINE m == buf[b].msg
  <2>1. /\ b \in Buffers /\ p \in dests[m] /\ count[m][p] > 0
        /\ count' = [count EXCEPT ![m][p] = @ - 1]
    BY <1>2 DEF Release
  <2>2. CASE m \in Msgs
    <3>1. count[m] \in [Pipes -> Nat] /\ count[m][p] - 1 \in Nat
      BY <1>0, <2>1, <2>2
    <3> QED
      BY <1>0, <2>1, <2>2, <3>1
  <2>3. CASE m \notin Msgs
    BY <1>0, <2>1, <2>3
  <2> QED
    BY <2>2, <2>3
<1> QED
  BY <1>1, <1>2
-----------------------------------------------------------------------------
\* Types.

LEMMA TypeInit == ASSUME SbInit PROVE TypeInv
<1>0. None \notin Tasks /\ ES \in Tasks /\ Apps \subseteq Tasks
  BY SbAssumption DEF Tasks
<1>1. Closed \in PipeType
  BY DEF Closed, PipeType
<1>2. Freed \in BufType
  BY DEF Freed, BufType
<1>3. At("idle") \in TaskType /\ At("idle").at = "idle"
  BY AtTypes DEF Places
<1>4. /\ pipe \in [Pipes -> PipeType] /\ buf \in [Buffers -> BufType]
      /\ task \in [Tasks -> TaskType]
  BY <1>1, <1>2, <1>3 DEF SbInit
<1>5. SbTypeOK
  BY <1>4 DEF SbTypeOK, SbInit, PipeType, BufType, TaskType, Places
<1>6. \A t \in Tasks : task[t].at = "idle"
  BY <1>3 DEF SbInit
<1> QED
  BY <1>0, <1>5, <1>6 DEF TypeInv, Located

\* A step that changes the record of one task keeps the types and places.
LEMMA TaskStep ==
  ASSUME TypeInv, NEW t \in Tasks, NEW r \in TaskType,
         task' = [task EXCEPT ![t] = r],
         r.at \in {"read", "took", "routes", "drain", "close"} => r.pipe \in Pipes,
         r.at = "send" => r.buf \in Buffers
  PROVE  task' \in [Tasks -> TaskType] /\ Located'
<1>1. task \in [Tasks -> TaskType]
  BY DEF TypeInv, SbTypeOK, TaskType, Places
<1>2. task' \in [Tasks -> TaskType] /\ task'[t] = r
  BY <1>1
<1>3. \A u \in Tasks : u # t => task'[u] = task[u]
  BY <1>1
<1>4. ES \in Tasks /\ Apps \subseteq Tasks
  BY DEF Tasks
<1> QED
  BY <1>2, <1>3, <1>4 DEF TypeInv, Located

\* The types of the variables one by one, and again after a step.
LEMMA Types ==
  TypeInv <=>
    /\ lock \in Apps \cup {None} /\ cleaned \in Apps \cup {None}
    /\ forced \in BOOLEAN
    /\ pipe \in [Pipes -> PipeType] /\ routed \in SUBSET Msgs
    /\ dests \in [Msgs -> SUBSET Pipes]
    /\ count \in [Msgs -> [Pipes -> Nat]]
    /\ active \in [Msgs -> [Pipes -> BOOLEAN]]
    /\ pool \in SUBSET Buffers /\ buf \in [Buffers -> BufType]
    /\ held \in [Apps -> SUBSET Buffers]
    /\ task \in [Tasks -> TaskType]
    /\ Located
  BY DEF TypeInv, SbTypeOK, PipeType, BufType, TaskType, Places

LEMMA TypesNext ==
  ASSUME
    /\ lock' \in Apps \cup {None} /\ cleaned' \in Apps \cup {None}
    /\ forced' \in BOOLEAN
    /\ pipe' \in [Pipes -> PipeType] /\ routed' \in SUBSET Msgs
    /\ dests' \in [Msgs -> SUBSET Pipes]
    /\ count' \in [Msgs -> [Pipes -> Nat]]
    /\ active' \in [Msgs -> [Pipes -> BOOLEAN]]
    /\ pool' \in SUBSET Buffers /\ buf' \in [Buffers -> BufType]
    /\ held' \in [Apps -> SUBSET Buffers]
    /\ task' \in [Tasks -> TaskType]
    /\ Located'
  PROVE  TypeInv'
  BY DEF TypeInv, SbTypeOK, PipeType, BufType, TaskType, Places

\* A receive by an application or by ES.
LEMMA RcvTypes ==
  ASSUME TypeInv, NEW t \in Tasks,
         \/ \E p \in Pipes, from \in {"idle", "drain"} : StartRcv(t, p, from)
         \/ ReadQueue(t)
         \/ \E next \in {"idle", "drain", "close"} :
              EndRcv(t, next) /\ (next # "idle" => t = ES)
  PROVE  TypeInv'
<1> USE Types
<1>0. pipe \in [Pipes -> PipeType] /\ task \in [Tasks -> TaskType]
  OBVIOUS
<1>1. ASSUME NEW p \in Pipes, NEW from \in {"idle", "drain"}, StartRcv(t, p, from)
      PROVE  TypeInv'
  <2>1. pipe' \in [Pipes -> PipeType]
    BY <1>0, <1>1 DEF StartRcv, PipeType
  <2> DEFINE r == [At("read") EXCEPT !.pipe = p]
  <2>2. At("read") \in TaskType /\ At("read").at = "read"
    BY AtTypes DEF Places
  <2>3. r \in TaskType /\ r.at = "read" /\ r.pipe = p
    BY <2>2 DEF TaskType
  <2>4. task' = [task EXCEPT ![t] = r]
    BY <1>1 DEF StartRcv
  <2>5. task' \in [Tasks -> TaskType] /\ Located'
    BY <2>3, <2>4, TaskStep
  <2> QED
    BY <1>1, <2>1, <2>5, TypesNext DEF StartRcv
<1>2. ASSUME ReadQueue(t) PROVE TypeInv'
  <2> DEFINE p == task[t].pipe
  <2> DEFINE q == IF Keeps(t) THEN pipe[p].queue ELSE <<>>
  <2>1. task[t].at = "read" /\ p \in Pipes /\ task[t] \in TaskType
    BY <1>0, <1>2 DEF ReadQueue, TypeInv, Located
  <2>2. q \in Seq(Buffers) /\ pipe[p] \in PipeType
    BY <1>0, <2>1 DEF PipeType
  <2>3. CASE q # <<>>
    <3> DEFINE r == [task[t] EXCEPT !.at = "took", !.buf = Head(q)]
    <3>1. Head(q) \in Buffers /\ Tail(q) \in Seq(Buffers)
      BY <2>2, <2>3
    <3>2. r \in TaskType /\ r.at = "took" /\ r.pipe = p
      BY <2>1, <3>1 DEF TaskType, Places
    <3>3. /\ task' = [task EXCEPT ![t] = r]
          /\ pipe' = [pipe EXCEPT ![p].queue = Tail(q)]
      BY <1>2, <2>3 DEF ReadQueue
    <3>4. task' \in [Tasks -> TaskType] /\ Located'
      BY <2>1, <3>2, <3>3, TaskStep
    <3>5. pipe' \in [Pipes -> PipeType]
      BY <1>0, <2>1, <2>2, <3>1, <3>3 DEF PipeType
    <3> QED
      BY <1>2, <3>4, <3>5, TypesNext DEF ReadQueue
  <2>4. CASE q = <<>>
    <3> DEFINE r == [task[t] EXCEPT !.at = "took"]
    <3>1. r \in TaskType /\ r.at = "took" /\ r.pipe = p
      BY <2>1 DEF TaskType, Places
    <3>2. task' = [task EXCEPT ![t] = r] /\ pipe' = pipe
      BY <1>2, <2>4 DEF ReadQueue
    <3>3. task' \in [Tasks -> TaskType] /\ Located'
      BY <2>1, <3>1, <3>2, TaskStep
    <3> QED
      BY <1>0, <1>2, <3>2, <3>3, TypesNext DEF ReadQueue
  <2> QED
    BY <2>3, <2>4
<1>3. ASSUME NEW next \in {"idle", "drain", "close"}, EndRcv(t, next),
             next # "idle" => t = ES
      PROVE  TypeInv'
  <2> DEFINE p == task[t].pipe
  <2> DEFINE b == task[t].buf
  <2>1. p \in Pipes /\ b \in Buffers \cup {None}
    BY <1>0, <1>3 DEF EndRcv, TypeInv, Located, TaskType
  <2>2. pipe[p] \in PipeType /\ pipe[p].trash \in Buffers \cup {None}
    BY <1>0, <2>1 DEF PipeType
  <2>3. buf' \in [Buffers -> BufType] /\ pool' \in SUBSET Buffers
    BY <1>3, <2>2, DropTypes DEF EndRcv
  <2>4. count' \in [Msgs -> [Pipes -> Nat]]
    BY <1>3, <2>1, ReleaseTypes DEF EndRcv
  <2>5. pipe' \in [Pipes -> PipeType]
    <3> DEFINE pp == [pipe[p] EXCEPT !.trash = None, !.current = IF b = None THEN @ ELSE b]
    <3>1. pp \in PipeType
      BY <2>1, <2>2 DEF PipeType
    <3>2. pipe' = [pipe EXCEPT ![p] = pp]
      BY <1>0, <1>3, <2>1 DEF EndRcv, PipeType
    <3> QED
      BY <1>0, <3>1, <3>2
  <2> DEFINE r == [At(next) EXCEPT !.pipe = IF t = ES THEN p ELSE None]
  <2>6. At(next) \in TaskType /\ At(next).at = next
    BY AtTypes DEF Places
  <2>7. r \in TaskType /\ r.at = next /\ (t = ES => r.pipe = p)
    BY <2>1, <2>6 DEF TaskType
  <2>8. task' = [task EXCEPT ![t] = r]
    BY <1>3 DEF EndRcv
  <2>9. task' \in [Tasks -> TaskType] /\ Located'
    BY <1>3, <2>1, <2>7, <2>8, TaskStep
  <2> QED
    BY <1>3, <2>3, <2>4, <2>5, <2>9, TypesNext DEF EndRcv
<1> QED
  BY <1>1, <1>2, <1>3
\* A task that comes back from its call, or starts one without a buffer.
LEMMA Settled ==
  ASSUME TypeInv, NEW t \in Tasks, NEW pc \in {"idle", "ended"},
         task' = [task EXCEPT ![t] = At(pc)] \/ task' = [task EXCEPT ![t].at = pc]
  PROVE  task' \in [Tasks -> TaskType] /\ Located'
<1>0. task \in [Tasks -> TaskType]
  BY Types
<1>1. At(pc) \in TaskType /\ At(pc).at = pc
  BY AtTypes DEF Places
<1> DEFINE r == [task[t] EXCEPT !.at = pc]
<1>2. r \in TaskType /\ r.at = pc
  BY <1>0 DEF TaskType, Places
<1>3. task' = [task EXCEPT ![t] = At(pc)] \/ task' = [task EXCEPT ![t] = r]
  OBVIOUS
<1> QED
  BY <1>1, <1>2, <1>3, TaskStep

\* What the applications do besides receiving.
LEMMA AppTypes ==
  ASSUME TypeInv, NEW a \in Apps,
         \/ ZeroCopyGetPtr(a) \/ ZeroCopyReleasePtr(a) \/ CreatePipe(a)
         \/ \E m \in Msgs, p \in Pipes : Subscribe(a, m, p) \/ Unsubscribe(a, m, p)
         \/ \E m \in Msgs : SendMsg(a, m) \/ ZeroCopySend(a, m)
         \/ \E p \in Pipes : Deliver(a, p)
         \/ FinishSend(a) \/ ExitApp(a) \/ StartCleanUp(a)
  PROVE  TypeInv'
<1> USE Types
<1>0. /\ pipe \in [Pipes -> PipeType] /\ task \in [Tasks -> TaskType]
      /\ buf \in [Buffers -> BufType] /\ a \in Tasks /\ Freed \in BufType
  BY DEF Tasks, Freed, BufType
<1>1. CASE ZeroCopyGetPtr(a)
  <2>1. PICK b \in pool : /\ pool' = pool \ {b}
                          /\ buf' = [buf EXCEPT ![b] = [use |-> 1, msg |-> None]]
                          /\ held' = [held EXCEPT ![a] = @ \cup {b}]
    BY <1>1 DEF ZeroCopyGetPtr
  <2>2. buf' \in [Buffers -> BufType] /\ held' \in [Apps -> SUBSET Buffers]
    BY <1>0, <2>1 DEF BufType
  <2>3. Located'
    BY <1>1 DEF ZeroCopyGetPtr, Located
  <2> QED
    BY <1>0, <1>1, <2>1, <2>2, <2>3, TypesNext DEF ZeroCopyGetPtr
<1>2. CASE ZeroCopyReleasePtr(a)
  <2>1. PICK b \in held[a] : /\ held' = [held EXCEPT ![a] = @ \ {b}]
                             /\ pool' = pool \cup {b}
                             /\ buf' = [buf EXCEPT ![b] = Freed]
    BY <1>2 DEF ZeroCopyReleasePtr
  <2>2. /\ buf' \in [Buffers -> BufType] /\ held' \in [Apps -> SUBSET Buffers]
        /\ pool' \in SUBSET Buffers
    BY <1>0, <2>1
  <2>3. Located'
    BY <1>2 DEF ZeroCopyReleasePtr, Located
  <2> QED
    BY <1>0, <1>2, <2>2, <2>3, TypesNext DEF ZeroCopyReleasePtr
<1>3. CASE CreatePipe(a)
  <2>1. PICK p \in Pipes : pipe' = [pipe EXCEPT ![p] = [Closed EXCEPT !.owner = a]]
    BY <1>3 DEF CreatePipe
  <2>2. [Closed EXCEPT !.owner = a] \in PipeType
    <3>1. Closed \in PipeType
      BY DEF Closed, PipeType
    <3> QED
      BY <3>1 DEF PipeType
  <2>3. Located'
    BY <1>3 DEF CreatePipe, Located
  <2> QED
    BY <1>0, <1>3, <2>1, <2>2, <2>3, TypesNext DEF CreatePipe
<1>4. ASSUME NEW m \in Msgs, NEW p \in Pipes, Subscribe(a, m, p) PROVE TypeInv'
  <2>1. /\ dests' \in [Msgs -> SUBSET Pipes] /\ count' \in [Msgs -> [Pipes -> Nat]]
        /\ active' \in [Msgs -> [Pipes -> BOOLEAN]]
    <3>1. CASE UNCHANGED <<dests, count, active>>
      BY <3>1
    <3>2. CASE /\ dests' = [dests EXCEPT ![m] = @ \cup {p}]
               /\ count' = [count EXCEPT ![m][p] = 0]
               /\ active' = [active EXCEPT ![m][p] = TRUE]
      <4>1. dests' \in [Msgs -> SUBSET Pipes]
        BY <3>2
      <4>2. count' \in [Msgs -> [Pipes -> Nat]]
        BY <3>2
      <4>3. active' \in [Msgs -> [Pipes -> BOOLEAN]]
        BY <3>2
      <4> QED
        BY <4>1, <4>2, <4>3
    <3> QED
      BY <1>4, <3>1, <3>2 DEF Subscribe
  <2>2. Located'
    BY <1>4 DEF Subscribe, Located
  <2> QED
    BY <1>0, <1>4, <2>1, <2>2, TypesNext DEF Subscribe
<1>5. ASSUME NEW m \in Msgs, NEW p \in Pipes, Unsubscribe(a, m, p) PROVE TypeInv'
  <2>1. Located'
    BY <1>5 DEF Unsubscribe, Located
  <2> QED
    BY <1>0, <1>5, <2>1, LeaveTypes, TypesNext DEF Unsubscribe
<1>6. ASSUME NEW m \in Msgs, SendMsg(a, m) PROVE TypeInv'
  <2> DEFINE r(b) == [At("send") EXCEPT !.buf = b, !.rest = dests[m]]
  <2>1. PICK b \in pool : /\ pool' = pool \ {b}
                          /\ buf' = [buf EXCEPT ![b] = [use |-> 1, msg |-> m]]
                          /\ task' = [task EXCEPT ![a] = r(b)]
    BY <1>6 DEF SendMsg
  <2>2. At("send") \in TaskType /\ At("send").at = "send"
    BY AtTypes DEF Places
  <2>3. r(b) \in TaskType /\ r(b).at = "send" /\ r(b).buf = b
    BY <2>2 DEF TaskType
  <2>4. task' \in [Tasks -> TaskType] /\ Located'
    BY <1>0, <2>1, <2>3, TaskStep
  <2>5. buf' \in [Buffers -> BufType] /\ pool' \in SUBSET Buffers
    BY <1>0, <2>1 DEF BufType
  <2> QED
    BY <1>0, <1>6, <2>4, <2>5, TypesNext DEF SendMsg
<1>7. ASSUME NEW m \in Msgs, ZeroCopySend(a, m) PROVE TypeInv'
  <2> DEFINE r(b) == [At("send") EXCEPT !.buf = b, !.rest = dests[m]]
  <2>1. PICK b \in held[a] :
          /\ held' = [held EXCEPT ![a] = @ \ {b}]
          /\ IF m \in routed
             THEN /\ lock' = a /\ buf' = [buf EXCEPT ![b].msg = m]
                  /\ task' = [task EXCEPT ![a] = r(b)] /\ pool' = pool
             ELSE Drop(b) /\ UNCHANGED <<lock, task>>
    BY <1>7 DEF ZeroCopySend
  <2>2. b \in Buffers /\ held' \in [Apps -> SUBSET Buffers]
    BY <2>1
  <2>3. CASE m \in routed
    <3>1. At("send") \in TaskType /\ At("send").at = "send"
      BY AtTypes DEF Places
    <3>2. r(b) \in TaskType /\ r(b).at = "send" /\ r(b).buf = b
      BY <2>2, <3>1 DEF TaskType
    <3>3. task' \in [Tasks -> TaskType] /\ Located'
      BY <1>0, <2>1, <2>2, <2>3, <3>2, TaskStep
    <3>4. buf' \in [Buffers -> BufType]
      <4>1. [buf[b] EXCEPT !.msg = m] \in BufType
        BY <1>0, <2>2 DEF BufType
      <4> QED
        BY <1>0, <2>1, <2>2, <2>3, <4>1
    <3> QED
      BY <1>0, <1>7, <2>1, <2>2, <2>3, <3>3, <3>4, TypesNext DEF ZeroCopySend
  <2>4. CASE m \notin routed
    <3>1. buf' \in [Buffers -> BufType] /\ pool' \in SUBSET Buffers
      BY <2>1, <2>2, <2>4, DropTypes
    <3>2. Located'
      BY <2>1, <2>4 DEF Located
    <3> QED
      BY <1>0, <1>7, <2>1, <2>2, <2>4, <3>1, <3>2, TypesNext DEF ZeroCopySend
  <2> QED
    BY <2>3, <2>4
<1>8. ASSUME NEW p \in Pipes, Deliver(a, p) PROVE TypeInv'
  <2> DEFINE b == task[a].buf
  <2> DEFINE m == buf[b].msg
  <2>1. task[a].at = "send" /\ b \in Buffers /\ task[a] \in TaskType
    BY <1>0, <1>8 DEF Deliver, Located
  <2> DEFINE r == [task[a] EXCEPT !.rest = @ \ {p}]
  <2>2. r \in TaskType /\ r.at = "send" /\ r.buf = b
    BY <2>1 DEF TaskType
  <2>3. task' = [task EXCEPT ![a] = r]
    BY <1>0, <1>8 DEF Deliver
  <2>4. task' \in [Tasks -> TaskType] /\ Located'
    BY <1>0, <2>1, <2>2, <2>3, TaskStep
  <2>5. /\ pipe' \in [Pipes -> PipeType] /\ buf' \in [Buffers -> BufType]
        /\ count' \in [Msgs -> [Pipes -> Nat]]
    <3>1. CASE UNCHANGED <<pipe, buf, count>>
      BY <1>0, <3>1
    <3>2. CASE /\ pipe' = [pipe EXCEPT ![p].queue = Append(@, b)]
               /\ buf' = [buf EXCEPT ![b].use = @ + 1]
               /\ count' = [count EXCEPT ![m][p] = @ + 1]
      <4>1. pipe[p] \in PipeType /\ buf[b] \in BufType
        BY <1>0, <2>1
      <4>2. /\ [pipe[p] EXCEPT !.queue = Append(@, b)] \in PipeType
            /\ [buf[b] EXCEPT !.use = @ + 1] \in BufType
        BY <2>1, <4>1, QueuedTypes, UsedTypes
      <4>3. pipe' \in [Pipes -> PipeType]
        BY <1>0, <3>2, <4>2
      <4>4. buf' \in [Buffers -> BufType]
        BY <1>0, <2>1, <3>2, <4>2
      <4>5. CASE m \in Msgs
        <5>1. count[m] \in [Pipes -> Nat] /\ count[m][p] + 1 \in Nat
          BY <4>5
        <5>2. [count[m] EXCEPT ![p] = @ + 1] \in [Pipes -> Nat]
          BY <5>1
        <5>3. count' \in [Msgs -> [Pipes -> Nat]]
          BY <3>2, <5>2
        <5> QED
          BY <4>3, <4>4, <5>3
      <4>6. CASE m \notin Msgs
        <5>1. count' = count
          BY <3>2, <4>6
        <5> QED
          BY <4>3, <4>4, <5>1
      <4> QED
        BY <4>5, <4>6
    <3> QED
      BY <1>8, <3>1, <3>2 DEF Deliver
  <2> QED
    BY <1>0, <1>8, <2>4, <2>5, TypesNext DEF Deliver
<1>9. CASE FinishSend(a)
  <2>1. task[a].buf \in Buffers
    BY <1>9 DEF FinishSend, Located
  <2>2. buf' \in [Buffers -> BufType] /\ pool' \in SUBSET Buffers
    BY <1>9, <2>1, DropTypes DEF FinishSend
  <2>3. task' \in [Tasks -> TaskType] /\ Located'
    BY <1>0, <1>9, Settled DEF FinishSend
  <2> QED
    BY <1>0, <1>9, <2>2, <2>3, TypesNext DEF FinishSend
<1>10. CASE ExitApp(a)
  <2>1. task' \in [Tasks -> TaskType] /\ Located'
    BY <1>0, <1>10, Settled DEF ExitApp
  <2> QED
    BY <1>0, <1>10, <2>1, TypesNext DEF ExitApp
<1>11. CASE StartCleanUp(a)
  <2>1. Located'
    BY <1>11 DEF StartCleanUp, Located
  <2> QED
    BY <1>0, <1>11, <2>1, TypesNext DEF StartCleanUp
<1> QED
  BY <1>1, <1>2, <1>3, <1>4, <1>5, <1>6, <1>7, <1>8, <1>9, <1>10, <1>11

\* What ES does.
LEMMA CleanUpTypes ==
  ASSUME TypeInv, CleanUp
  PROVE  TypeInv'
<1> USE Types
<1>0. /\ pipe \in [Pipes -> PipeType] /\ task \in [Tasks -> TaskType]
      /\ buf \in [Buffers -> BufType] /\ ES \in Tasks /\ task[ES] \in TaskType
      /\ Freed \in BufType /\ Closed \in PipeType
  BY DEF Tasks, Freed, Closed, BufType, PipeType
<1>1. ASSUME NEW p \in Pipes, DeletePipe(p) PROVE TypeInv'
  <2> DEFINE r == [At("routes") EXCEPT !.pipe = p]
  <2>1. At("routes") \in TaskType /\ At("routes").at = "routes"
    BY AtTypes DEF Places
  <2>2. r \in TaskType /\ r.at = "routes" /\ r.pipe = p
    BY <2>1 DEF TaskType
  <2>3. task' \in [Tasks -> TaskType] /\ Located'
    BY <1>0, <1>1, <2>2, TaskStep DEF DeletePipe
  <2> QED
    BY <1>0, <1>1, <2>3, TypesNext DEF DeletePipe
<1>2. ASSUME NEW m \in Msgs, DeleteRoute(m) PROVE TypeInv'
  <2>1. task[ES].pipe \in Pipes /\ Leave(m, task[ES].pipe)
    BY <1>2 DEF DeleteRoute, Located
  <2>2. Located'
    BY <1>2 DEF DeleteRoute, Located
  <2> QED
    BY <1>0, <1>2, <2>1, <2>2, LeaveTypes, TypesNext DEF DeleteRoute
<1>3. CASE DeleteTrash
  <2> DEFINE p == task[ES].pipe
  <2> DEFINE r == [task[ES] EXCEPT !.at = "drain"]
  <2>1. p \in Pipes /\ pipe[p] \in PipeType /\ pipe[p].trash \in Buffers \cup {None}
    BY <1>0, <1>3 DEF DeleteTrash, Located, PipeType
  <2>2. buf' \in [Buffers -> BufType] /\ pool' \in SUBSET Buffers
    BY <1>3, <2>1, DropTypes DEF DeleteTrash
  <2>3. r \in TaskType /\ r.at = "drain" /\ r.pipe = p
    BY <1>0 DEF TaskType, Places
  <2>4. task' \in [Tasks -> TaskType] /\ Located'
    BY <1>0, <1>3, <2>1, <2>3, TaskStep DEF DeleteTrash
  <2>5. pipe' \in [Pipes -> PipeType]
    BY <1>0, <1>3, <2>1 DEF DeleteTrash, PipeType
  <2> QED
    BY <1>0, <1>3, <2>2, <2>4, <2>5, TypesNext DEF DeleteTrash
<1>4. CASE Drain
  <2>1. StartRcv(ES, task[ES].pipe, "drain") => task[ES].pipe \in Pipes
    BY DEF StartRcv, Located
  <2> QED
    BY <1>0, <1>4, <2>1, RcvTypes DEF Drain
<1>5. CASE ClosePipe
  <2>1. task' \in [Tasks -> TaskType] /\ Located'
    BY <1>0, <1>5, Settled DEF ClosePipe
  <2> QED
    BY <1>0, <1>5, <2>1, TypesNext DEF ClosePipe
<1>6. CASE ReleaseZeroCopy
  <2>1. cleaned \in Apps
    BY <1>6 DEF ReleaseZeroCopy, NoPipesLeft
  <2>2. PICK b \in held[cleaned] : /\ held' = [held EXCEPT ![cleaned] = @ \ {b}]
                                   /\ pool' = pool \cup {b}
                                   /\ buf' = [buf EXCEPT ![b] = Freed]
    BY <1>6 DEF ReleaseZeroCopy
  <2>3. /\ buf' \in [Buffers -> BufType] /\ held' \in [Apps -> SUBSET Buffers]
        /\ pool' \in SUBSET Buffers
    BY <1>0, <2>1, <2>2
  <2>4. Located'
    BY <1>6 DEF ReleaseZeroCopy, Located
  <2> QED
    BY <1>0, <1>6, <2>3, <2>4, TypesNext DEF ReleaseZeroCopy
<1>7. CASE DeleteTask
  <2>1. cleaned \in Tasks
    BY <1>7 DEF DeleteTask, NoPipesLeft, Tasks
  <2>2. task' \in [Tasks -> TaskType] /\ Located'
    BY <1>0, <1>7, <2>1, Settled DEF DeleteTask
  <2> QED
    BY <1>0, <1>7, <2>2, TypesNext DEF DeleteTask
<1> QED
  BY <1>1, <1>2, <1>3, <1>4, <1>5, <1>6, <1>7 DEF CleanUp

LEMMA TypeNext ==
  ASSUME TypeInv, [SbNext]_sbVars
  PROVE  TypeInv'
<1> USE Types
<1>1. ASSUME NEW a \in Apps, RcvMsg(a) PROVE TypeInv'
  BY <1>1, RcvTypes DEF RcvMsg, Tasks
<1>2. ASSUME NEW m \in Msgs, NEW p \in Pipes, NEW on \in BOOLEAN, SetRoute(m, p, on)
      PROVE  TypeInv'
  <2>1. active' \in [Msgs -> [Pipes -> BOOLEAN]]
    BY <1>2 DEF SetRoute
  <2>2. Located'
    BY <1>2 DEF SetRoute, Located
  <2> QED
    BY <1>2, <2>1, <2>2, TypesNext DEF SetRoute
<1>3. CASE UNCHANGED sbVars
  <2>1. Located'
    BY <1>3 DEF sbVars, Located
  <2> QED
    BY <1>3, <2>1, TypesNext DEF sbVars
<1> QED
  BY <1>1, <1>2, <1>3, AppTypes, CleanUpTypes DEF SbNext, Continue

\* Every variable keeps its type; a receive and a clean up always know the pipe
\* they work on, and a send its buffer.
THEOREM BusTypes == SbSpec => []SbTypeOK
<1>1. SbInit => TypeInv
  BY TypeInit
<1>2. TypeInv /\ [SbNext]_sbVars => TypeInv'
  BY TypeNext
<1>3. TypeInv => SbTypeOK
  BY DEF TypeInv
<1> QED
  BY <1>1, <1>2, <1>3, PTL DEF SbSpec
-----------------------------------------------------------------------------
\* Routes.  A sender holds the semaphore, and its buffer is its own; ES is at
\* a pipe of the application it cleans up, and once it has deleted its routes
\* nothing makes new ones: that application, if its task still runs, does not
\* subscribe.

Routed == \A m \in Msgs : \A p \in dests[m] : Open(p)

Sending ==
  \A a \in Apps : task[a].at = "send" =>
    /\ lock = a /\ buf[task[a].buf].msg \in Msgs
    /\ task[a].rest \subseteq dests[buf[task[a].buf].msg]

Apart ==
  /\ \A a \in Apps : task[a].at \notin {"routes", "drain", "close"}
  /\ task[ES].at \notin {"send", "ended"}

Cleaning ==
  task[ES].at # "idle" =>
    /\ cleaned # None /\ task[ES].pipe \in Pipes
    /\ pipe[task[ES].pipe].owner = cleaned

Unrouted ==
  task[ES].at \in {"drain", "read", "took", "close"} => RoutesTo(task[ES].pipe) = {}

RouteInv == TypeInv /\ Routed /\ Sending /\ Apart /\ Cleaning /\ Unrouted

LEMMA RouteInit == ASSUME SbInit PROVE RouteInv
<1>0. TypeInv
  BY TypeInit
<1>1. ES \in Tasks /\ Apps \subseteq Tasks
  BY DEF Tasks
<1>2. At("idle").at = "idle"
  BY DEF At
<1>3. /\ \A t \in Tasks : task[t].at = "idle"
      /\ cleaned = None /\ \A m \in Msgs : dests[m] = {}
  BY <1>2 DEF SbInit
<1> QED
  BY <1>0, <1>1, <1>3 DEF RouteInv, Routed, Sending, Apart, Cleaning, Unrouted

\* Where a step of one task leaves the others.
LEMMA OneMoves ==
  ASSUME TypeInv, NEW t \in Tasks, NEW r, task' = [task EXCEPT ![t] = r]
  PROVE  task'[t] = r /\ \A u \in Tasks : u # t => task'[u] = task[u]
  BY Types

\* An application that is idle, reads or has read changes nothing ES counts on.
LEMMA AppMoves ==
  ASSUME RouteInv, NEW a \in Apps, NEW r,
         task' = [task EXCEPT ![a] = r],
         r.at \in {"idle", "send", "read", "took", "ended"},
         cleaned' = cleaned, dests' = dests,
         \A p \in Pipes : pipe'[p].owner = pipe[p].owner
  PROVE  Routed' /\ Apart' /\ Cleaning' /\ Unrouted'
<1>1. a \in Tasks /\ ES \in Tasks /\ ES # a /\ Apps \subseteq Tasks
  BY SbAssumption DEF Tasks
<1>2. task'[a] = r /\ \A u \in Tasks : u # a => task'[u] = task[u]
  BY <1>1, OneMoves DEF RouteInv
<1>3. dests \in [Msgs -> SUBSET Pipes] /\ cleaned \in Apps \cup {None}
  BY Types DEF RouteInv
<1>5. Routed'
  BY <1>3 DEF RouteInv, Routed, Open
<1>6. Apart'
  BY <1>1, <1>2 DEF RouteInv, Apart
<1>7. Cleaning'
  BY <1>1, <1>2, <1>3 DEF RouteInv, Cleaning
<1>8. Unrouted'
  BY <1>1, <1>2 DEF RouteInv, Unrouted, RoutesTo
<1> QED
  BY <1>5, <1>6, <1>7, <1>8

\* While the semaphore is free no one sends.
LEMMA NoneSends ==
  ASSUME RouteInv, Free
  PROVE  \A a \in Apps : task[a].at # "send"
  BY SbAssumption DEF RouteInv, Sending, Free

\* A receive by an application.
LEMMA RcvRoutes ==
  ASSUME RouteInv, NEW a \in Apps, RcvMsg(a)
  PROVE  Routed' /\ Sending' /\ Apart' /\ Cleaning' /\ Unrouted'
<1>1. /\ a \in Tasks /\ Apps \subseteq Tasks /\ ES # a
      /\ pipe \in [Pipes -> PipeType] /\ task \in [Tasks -> TaskType]
      /\ buf \in [Buffers -> BufType]
  BY Types, SbAssumption DEF Tasks, RouteInv
<1>2. ASSUME NEW p \in Pipes, StartRcv(a, p, "idle")
      PROVE  Routed' /\ Sending' /\ Apart' /\ Cleaning' /\ Unrouted'
  <2> DEFINE r == [At("read") EXCEPT !.pipe = p]
  <2>1. task' = [task EXCEPT ![a] = r] /\ r.at = "read" /\ task[a].at = "idle"
    BY <1>2 DEF StartRcv, At
  <2>2. \A q \in Pipes : pipe'[q].owner = pipe[q].owner
    BY <1>1, <1>2 DEF StartRcv, PipeType
  <2>3. Routed' /\ Apart' /\ Cleaning' /\ Unrouted'
    BY <1>2, <2>1, <2>2, AppMoves DEF StartRcv
  <2>4. task'[a] = r /\ \A u \in Tasks : u # a => task'[u] = task[u]
    BY <1>1, <2>1, OneMoves DEF RouteInv
  <2>5. Sending'
    BY <1>1, <1>2, <2>1, <2>4 DEF RouteInv, Sending, StartRcv
  <2> QED
    BY <2>3, <2>5
<1>3. CASE ReadQueue(a)
  <2> DEFINE p == task[a].pipe
  <2> DEFINE q == IF Keeps(a) THEN pipe[p].queue ELSE <<>>
  <2> DEFINE r == IF q # <<>> THEN [task[a] EXCEPT !.at = "took", !.buf = Head(q)]
                  ELSE [task[a] EXCEPT !.at = "took"]
  <2>0. task[a].at = "read" /\ p \in Pipes /\ task[a] \in TaskType
    BY <1>1, <1>3 DEF ReadQueue, RouteInv, TypeInv, Located
  <2>1. task' = [task EXCEPT ![a] = r] /\ r.at = "took"
    BY <1>3, <2>0 DEF ReadQueue, TaskType
  <2>2. \A s \in Pipes : pipe'[s].owner = pipe[s].owner
    <3> DEFINE pp == [pipe[p] EXCEPT !.queue = Tail(q)]
    <3>1. pipe[p] \in PipeType /\ pp.owner = pipe[p].owner
      BY <1>1, <2>0 DEF PipeType
    <3>2. pipe' = pipe \/ pipe' = [pipe EXCEPT ![p] = pp]
      BY <1>3 DEF ReadQueue
    <3> QED
      BY <1>1, <2>0, <3>1, <3>2
  <2>3. Routed' /\ Apart' /\ Cleaning' /\ Unrouted'
    BY <1>3, <2>0, <2>1, <2>2, AppMoves DEF ReadQueue
  <2>4. task'[a] = r /\ \A u \in Tasks : u # a => task'[u] = task[u]
    BY <1>1, <2>1, OneMoves DEF RouteInv
  <2>5. Sending'
    BY <1>1, <1>3, <2>1, <2>4 DEF RouteInv, Sending, ReadQueue
  <2> QED
    BY <2>3, <2>5
<1>4. CASE EndRcv(a, "idle")
  <2> DEFINE p == task[a].pipe
  <2> DEFINE r == [At("idle") EXCEPT !.pipe = IF a = ES THEN p ELSE None]
  <2>0. task[a].at = "took" /\ p \in Pipes /\ Free
    BY <1>1, <1>4 DEF EndRcv, RouteInv, TypeInv, Located
  <2>1. task' = [task EXCEPT ![a] = r] /\ r.at = "idle"
    BY <1>4 DEF EndRcv, At
  <2>2. \A s \in Pipes : pipe'[s].owner = pipe[s].owner
    <3> DEFINE pp == [pipe[p] EXCEPT !.trash = None,
                       !.current = IF task[a].buf = None THEN @ ELSE task[a].buf]
    <3>1. pipe[p] \in PipeType /\ pp.owner = pipe[p].owner
      BY <1>1, <2>0 DEF PipeType
    <3>2. pipe' = [pipe EXCEPT ![p] = pp]
      BY <1>1, <1>4, <2>0, <3>1 DEF EndRcv, PipeType
    <3> QED
      BY <1>1, <2>0, <3>1, <3>2
  <2>3. Routed' /\ Apart' /\ Cleaning' /\ Unrouted'
    BY <1>4, <2>0, <2>1, <2>2, AppMoves DEF EndRcv
  <2>4. task'[a] = r /\ \A u \in Tasks : u # a => task'[u] = task[u]
    BY <1>1, <2>1, OneMoves DEF RouteInv
  <2>5. Sending'
    BY <1>1, <2>0, <2>1, <2>4, NoneSends DEF Sending
  <2> QED
    BY <2>3, <2>5
<1> QED
  BY <1>2, <1>3, <1>4 DEF RcvMsg

\* A send.
LEMMA SendRoutes ==
  ASSUME RouteInv, NEW a \in Apps,
         \/ \E m \in Msgs : SendMsg(a, m) \/ ZeroCopySend(a, m)
         \/ \E p \in Pipes : Deliver(a, p)
         \/ FinishSend(a)
  PROVE  Routed' /\ Sending' /\ Apart' /\ Cleaning' /\ Unrouted'
<1>1. /\ a \in Tasks /\ Apps \subseteq Tasks /\ ES # a
      /\ pipe \in [Pipes -> PipeType] /\ task \in [Tasks -> TaskType]
      /\ buf \in [Buffers -> BufType]
      /\ pool \subseteq Buffers /\ held \in [Apps -> SUBSET Buffers]
  BY Types, SbAssumption DEF Tasks, RouteInv
\* A buffer b of the message m is about to be sent.
<1>2. ASSUME NEW m \in Msgs, NEW b \in Buffers,
             task[a].at = "idle", Free, lock' = a, buf'[b].msg = m,
             task' = [task EXCEPT ![a] = [At("send") EXCEPT !.buf = b, !.rest = dests[m]]],
             UNCHANGED <<pipe, dests, cleaned>>
      PROVE  Routed' /\ Sending' /\ Apart' /\ Cleaning' /\ Unrouted'
  <2> DEFINE r == [At("send") EXCEPT !.buf = b, !.rest = dests[m]]
  <2>1. r.at = "send" /\ r.buf = b /\ r.rest = dests[m]
    BY DEF At
  <2>2. Routed' /\ Apart' /\ Cleaning' /\ Unrouted'
    BY <1>2, <2>1, AppMoves
  <2>3. task'[a] = r /\ \A u \in Tasks : u # a => task'[u] = task[u]
    BY <1>1, <1>2, OneMoves DEF RouteInv
  <2>4. Sending'
    BY <1>1, <1>2, <2>1, <2>3, NoneSends DEF Sending
  <2> QED
    BY <2>2, <2>4
<1>3. ASSUME NEW m \in Msgs, SendMsg(a, m)
      PROVE  Routed' /\ Sending' /\ Apart' /\ Cleaning' /\ Unrouted'
  <2>1. PICK b \in pool :
          /\ buf' = [buf EXCEPT ![b] = [use |-> 1, msg |-> m]]
          /\ task' = [task EXCEPT ![a] = [At("send") EXCEPT !.buf = b, !.rest = dests[m]]]
    BY <1>3 DEF SendMsg
  <2>2. b \in Buffers /\ buf'[b].msg = m
    BY <1>1, <2>1
  <2> QED
    BY <1>2, <1>3, <2>1, <2>2 DEF SendMsg, Idle
<1>4. ASSUME NEW m \in Msgs, ZeroCopySend(a, m)
      PROVE  Routed' /\ Sending' /\ Apart' /\ Cleaning' /\ Unrouted'
  <2>1. PICK b \in held[a] :
          IF m \in routed
          THEN /\ lock' = a /\ buf' = [buf EXCEPT ![b].msg = m]
               /\ task' = [task EXCEPT ![a] = [At("send") EXCEPT !.buf = b, !.rest = dests[m]]]
          ELSE UNCHANGED <<lock, task>>
    BY <1>4 DEF ZeroCopySend
  <2>2. CASE m \in routed
    <3>1. b \in Buffers
      BY <1>1
    <3>2. buf[b] \in BufType /\ buf' = [buf EXCEPT ![b] = [buf[b] EXCEPT !.msg = m]]
      BY <1>1, <2>1, <2>2, <3>1
    <3>3. buf'[b].msg = m
      BY <1>1, <3>1, <3>2 DEF BufType
    <3> QED
      BY <1>2, <1>4, <2>1, <2>2, <3>1, <3>3 DEF ZeroCopySend, Calls, Idle
  <2>3. CASE m \notin routed
    <3>1. UNCHANGED <<task, pipe, dests, cleaned>> /\ Free
      BY <1>4, <2>1, <2>3 DEF ZeroCopySend
    <3> QED
      BY <1>1, <3>1, NoneSends
      DEF RouteInv, Routed, Sending, Apart, Cleaning, Unrouted, Open, RoutesTo
  <2> QED
    BY <2>2, <2>3
\* Only the holder of the semaphore sends.
<1>5. task[a].at = "send" => \A u \in Apps : u # a => task[u].at # "send"
  BY DEF RouteInv, Sending
<1>6. ASSUME NEW p \in Pipes, Deliver(a, p)
      PROVE  Routed' /\ Sending' /\ Apart' /\ Cleaning' /\ Unrouted'
  <2> DEFINE b == task[a].buf
  <2> DEFINE m == buf[b].msg
  <2>0. task[a].at = "send" /\ b \in Buffers /\ task[a] \in TaskType
    BY <1>1, <1>6 DEF Deliver, RouteInv, TypeInv, Located
  <2> DEFINE r == [task[a] EXCEPT !.rest = @ \ {p}]
  <2>1. task' = [task EXCEPT ![a] = r] /\ r.at = "send" /\ r.buf = b
        /\ r.rest = task[a].rest \ {p}
    BY <1>1, <1>6, <2>0 DEF Deliver, TaskType
  <2>2. \A s \in Pipes : pipe'[s].owner = pipe[s].owner
    <3> DEFINE pp == [pipe[p] EXCEPT !.queue = Append(@, b)]
    <3>1. pipe[p] \in PipeType /\ pp.owner = pipe[p].owner
      BY <1>1 DEF PipeType
    <3>2. pipe' = pipe \/ pipe' = [pipe EXCEPT ![p] = pp]
      BY <1>6 DEF Deliver
    <3> QED
      BY <1>1, <3>1, <3>2
  <2>3. buf'[b].msg = m
    <3> DEFINE bb == [buf[b] EXCEPT !.use = @ + 1]
    <3>1. buf[b] \in BufType /\ bb.msg = m
      BY <1>1, <2>0 DEF BufType
    <3>2. buf' = buf \/ buf' = [buf EXCEPT ![b] = bb]
      BY <1>6 DEF Deliver
    <3> QED
      BY <1>1, <2>0, <3>1, <3>2
  <2>4. Routed' /\ Apart' /\ Cleaning' /\ Unrouted'
    BY <1>6, <2>0, <2>1, <2>2, AppMoves DEF Deliver
  <2>5. task'[a] = r /\ \A u \in Tasks : u # a => task'[u] = task[u]
    BY <1>1, <2>1, OneMoves DEF RouteInv
  <2>6. lock = a /\ m \in Msgs /\ task[a].rest \subseteq dests[m]
    BY <2>0 DEF RouteInv, Sending
  <2>7. lock' = lock /\ dests' = dests
    BY <1>6 DEF Deliver
  <2>8. Sending'
    BY <1>1, <1>5, <2>0, <2>1, <2>3, <2>5, <2>6, <2>7 DEF Sending
  <2> QED
    BY <2>4, <2>8
<1>7. CASE FinishSend(a)
  <2>1. task' = [task EXCEPT ![a] = At("idle")] /\ At("idle").at = "idle"
        /\ task[a].at = "send" /\ UNCHANGED <<pipe, dests, cleaned>>
    BY <1>7 DEF FinishSend, At
  <2>2. Routed' /\ Apart' /\ Cleaning' /\ Unrouted'
    BY <2>1, AppMoves
  <2>3. task'[a] = At("idle") /\ \A u \in Tasks : u # a => task'[u] = task[u]
    BY <1>1, <2>1, OneMoves DEF RouteInv
  <2>4. Sending'
    BY <1>1, <1>5, <2>1, <2>3 DEF Sending
  <2> QED
    BY <2>2, <2>4
<1> QED
  BY <1>3, <1>4, <1>6, <1>7

\* What an application does with its pipes, subscriptions and descriptors, and
\* its end, and ES finding it.
LEMMA TableRoutes ==
  ASSUME RouteInv, NEW a \in Apps,
         \/ ZeroCopyGetPtr(a) \/ ZeroCopyReleasePtr(a) \/ CreatePipe(a)
         \/ \E m \in Msgs, p \in Pipes : Subscribe(a, m, p) \/ Unsubscribe(a, m, p)
         \/ ExitApp(a) \/ StartCleanUp(a)
  PROVE  Routed' /\ Sending' /\ Apart' /\ Cleaning' /\ Unrouted'
<1>1. /\ a \in Tasks /\ Apps \subseteq Tasks /\ ES \in Tasks /\ ES # a /\ a # None
      /\ pipe \in [Pipes -> PipeType] /\ task \in [Tasks -> TaskType]
      /\ dests \in [Msgs -> SUBSET Pipes] /\ cleaned \in Apps \cup {None}
  BY Types, SbAssumption DEF Tasks, RouteInv
<1>3. CASE ZeroCopyGetPtr(a) \/ ZeroCopyReleasePtr(a)
  <2>1. UNCHANGED <<task, pipe, dests, cleaned>> /\ Free
    BY <1>3 DEF ZeroCopyGetPtr, ZeroCopyReleasePtr
  <2> QED
    BY <1>1, <2>1, NoneSends
    DEF RouteInv, Routed, Sending, Apart, Cleaning, Unrouted, Open, RoutesTo
<1>4. CASE CreatePipe(a)
  <2>1. PICK p \in Pipes :
          pipe[p].owner = None /\ pipe' = [pipe EXCEPT ![p] = [Closed EXCEPT !.owner = a]]
    BY <1>4 DEF CreatePipe, Open
  <2>2. [Closed EXCEPT !.owner = a].owner = a
    BY DEF Closed
  <2>3. pipe'[p].owner = a /\ \A q \in Pipes : q # p => pipe'[q] = pipe[q]
    BY <1>1, <2>1, <2>2
  <2>4. UNCHANGED <<task, dests, cleaned>> /\ Free
    BY <1>4 DEF CreatePipe
  <2>5. Routed'
    BY <1>1, <2>3, <2>4 DEF RouteInv, Routed, Open
  <2>6. Cleaning'
    BY <1>1, <2>1, <2>3, <2>4 DEF RouteInv, Cleaning
  <2> QED
    BY <1>1, <2>4, <2>5, <2>6, NoneSends DEF RouteInv, Sending, Apart, Unrouted, RoutesTo
<1>5. ASSUME NEW m \in Msgs, NEW p \in Pipes, Subscribe(a, m, p)
      PROVE  Routed' /\ Sending' /\ Apart' /\ Cleaning' /\ Unrouted'
  <2>1. /\ pipe[p].owner = a /\ cleaned # a /\ Free
        /\ UNCHANGED <<task, pipe, cleaned>>
    BY <1>5 DEF Subscribe, Calls
  <2>2. dests' = dests \/ dests' = [dests EXCEPT ![m] = @ \cup {p}]
    BY <1>5 DEF Subscribe
  <2>3. \A n \in Msgs, q \in Pipes : q \in dests'[n] => q \in dests[n] \/ q = p
    BY <1>1, <2>2
  <2>4. dests' \in [Msgs -> SUBSET Pipes]
    BY <1>1, <2>2
  <2>5. Routed'
    BY <1>1, <2>1, <2>3, <2>4 DEF RouteInv, Routed, Open
  <2>6. task[ES].at # "idle" => task[ES].pipe \in Pipes /\ task[ES].pipe # p
    BY <2>1 DEF RouteInv, Cleaning
  <2>7. Unrouted'
    BY <2>1, <2>3, <2>6 DEF RouteInv, Unrouted, RoutesTo
  <2> QED
    BY <1>1, <2>1, <2>5, <2>7, NoneSends DEF RouteInv, Sending, Apart, Cleaning
<1>6. ASSUME NEW m \in Msgs, NEW p \in Pipes, Unsubscribe(a, m, p)
      PROVE  Routed' /\ Sending' /\ Apart' /\ Cleaning' /\ Unrouted'
  <2>1. UNCHANGED <<task, pipe, cleaned>> /\ Free
    BY <1>6 DEF Unsubscribe
  <2>2. \A n \in Msgs : dests'[n] \subseteq dests[n]
    BY <1>1, <1>6 DEF Unsubscribe, Leave
  <2> QED
    BY <1>1, <2>1, <2>2, NoneSends
    DEF RouteInv, Routed, Sending, Apart, Cleaning, Unrouted, Open, RoutesTo
<1>7. CASE ExitApp(a)
  <2> DEFINE r == [task[a] EXCEPT !.at = "ended"]
  <2>1. task' = [task EXCEPT ![a] = r] /\ UNCHANGED <<lock, pipe, dests, buf, cleaned>>
    BY <1>7 DEF ExitApp
  <2>2. r.at = "ended"
    BY <1>1 DEF TaskType
  <2>3. Routed' /\ Apart' /\ Cleaning' /\ Unrouted'
    BY <2>1, <2>2, AppMoves
  <2>4. task'[a] = r /\ \A u \in Tasks : u # a => task'[u] = task[u]
    BY <1>1, <2>1, OneMoves DEF RouteInv
  <2>5. Sending'
    BY <1>1, <2>1, <2>2, <2>4 DEF RouteInv, Sending
  <2> QED
    BY <2>3, <2>5
<1>8. CASE StartCleanUp(a)
  <2>1. cleaned = None /\ UNCHANGED <<lock, pipe, dests, buf, task>>
    BY <1>8 DEF StartCleanUp
  <2>2. task[ES].at = "idle"
    BY <2>1 DEF RouteInv, Cleaning
  <2> QED
    BY <2>1, <2>2 DEF RouteInv, Routed, Sending, Apart, Cleaning, Unrouted, Open, RoutesTo
<1> QED
  BY <1>3, <1>4, <1>5, <1>6, <1>7, <1>8

\* A step of ES that leaves the pipes to their owners and routes as they are.
LEMMA EsMoves ==
  ASSUME RouteInv, NEW r,
         task' = [task EXCEPT ![ES] = r],
         r.at \notin {"send", "ended"},
         r.at # "idle" => /\ cleaned # None /\ r.pipe \in Pipes
                          /\ pipe[r.pipe].owner = cleaned,
         r.at \in {"drain", "read", "took", "close"} => RoutesTo(r.pipe) = {},
         cleaned' = cleaned, dests' = dests,
         \A p \in Pipes : pipe'[p].owner = pipe[p].owner,
         UNCHANGED <<lock, buf>> \/ Free
  PROVE  Routed' /\ Sending' /\ Apart' /\ Cleaning' /\ Unrouted'
<1>1. /\ ES \in Tasks /\ Apps \subseteq Tasks /\ \A a \in Apps : ES # a
      /\ dests \in [Msgs -> SUBSET Pipes] /\ cleaned \in Apps \cup {None}
  BY Types, SbAssumption DEF Tasks, RouteInv
<1>2. task'[ES] = r /\ \A a \in Apps : task'[a] = task[a]
  BY <1>1, OneMoves DEF RouteInv
<1>3. Routed'
  BY <1>1 DEF RouteInv, Routed, Open
<1>4. Sending'
  BY <1>1, <1>2, NoneSends DEF RouteInv, Sending
<1>5. Apart'
  BY <1>1, <1>2 DEF RouteInv, Apart
<1>6. Cleaning'
  BY <1>1, <1>2 DEF RouteInv, Cleaning
<1>7. Unrouted'
  BY <1>1, <1>2 DEF RouteInv, Unrouted, RoutesTo
<1> QED
  BY <1>3, <1>4, <1>5, <1>6, <1>7

\* A receive by ES.
LEMMA DrainRoutes ==
  ASSUME RouteInv, Drain
  PROVE  Routed' /\ Sending' /\ Apart' /\ Cleaning' /\ Unrouted'
<1> DEFINE p == task[ES].pipe
<1>1. /\ ES \in Tasks /\ task[ES] \in TaskType
      /\ pipe \in [Pipes -> PipeType]
  BY Types DEF Tasks, RouteInv
<1>2. /\ cleaned # None /\ p \in Pipes /\ pipe[p].owner = cleaned
      /\ RoutesTo(p) = {}
  BY DEF Drain, StartRcv, ReadQueue, EndRcv, RouteInv, Cleaning, Unrouted
<1>3. pipe[p] \in PipeType
  BY <1>1, <1>2
<1>4. CASE StartRcv(ES, p, "drain")
  <2> DEFINE r == [At("read") EXCEPT !.pipe = p]
  <2>1. r.at = "read" /\ r.pipe = p
    BY DEF At
  <2>2. \A s \in Pipes : pipe'[s].owner = pipe[s].owner
    BY <1>1, <1>4 DEF StartRcv, PipeType
  <2> QED
    BY <1>2, <1>4, <2>1, <2>2, EsMoves DEF StartRcv
<1>5. CASE ReadQueue(ES)
  <2> DEFINE q == IF Keeps(ES) THEN pipe[p].queue ELSE <<>>
  <2> DEFINE r == IF q # <<>> THEN [task[ES] EXCEPT !.at = "took", !.buf = Head(q)]
                  ELSE [task[ES] EXCEPT !.at = "took"]
  <2>1. task' = [task EXCEPT ![ES] = r] /\ r.at = "took" /\ r.pipe = p
    BY <1>1, <1>5 DEF ReadQueue, TaskType
  <2>2. \A s \in Pipes : pipe'[s].owner = pipe[s].owner
    <3> DEFINE pp == [pipe[p] EXCEPT !.queue = Tail(q)]
    <3>1. pp.owner = pipe[p].owner
      BY <1>3 DEF PipeType
    <3>2. pipe' = pipe \/ pipe' = [pipe EXCEPT ![p] = pp]
      BY <1>5 DEF ReadQueue
    <3> QED
      BY <1>1, <3>1, <3>2
  <2>3. task[ES].at = "read" /\ UNCHANGED <<lock, dests, buf, cleaned>>
    BY <1>5 DEF ReadQueue
  <2> HIDE DEF q, r
  <2> QED
    BY <1>2, <2>1, <2>2, <2>3, EsMoves
<1>6. ASSUME NEW next \in {"close", "drain"}, EndRcv(ES, next)
      PROVE  Routed' /\ Sending' /\ Apart' /\ Cleaning' /\ Unrouted'
  <2> DEFINE r == [At(next) EXCEPT !.pipe = IF ES = ES THEN p ELSE None]
  <2>1. task' = [task EXCEPT ![ES] = r] /\ r.at = next /\ r.pipe = p
    BY <1>6 DEF EndRcv, At
  <2>2. \A s \in Pipes : pipe'[s].owner = pipe[s].owner
    <3> DEFINE pp == [pipe[p] EXCEPT !.trash = None,
                       !.current = IF task[ES].buf = None THEN @ ELSE task[ES].buf]
    <3>1. pp.owner = pipe[p].owner
      BY <1>3 DEF PipeType
    <3>2. pipe' = [pipe EXCEPT ![p] = pp]
      BY <1>1, <1>2, <1>3, <1>6 DEF EndRcv, PipeType
    <3> QED
      BY <1>1, <3>1, <3>2
  <2> QED
    BY <1>2, <1>6, <2>1, <2>2, EsMoves DEF EndRcv
<1> QED
  BY <1>4, <1>5, <1>6 DEF Drain

\* The rest of a clean up.
LEMMA CleanUpRoutes ==
  ASSUME RouteInv, CleanUp
  PROVE  Routed' /\ Sending' /\ Apart' /\ Cleaning' /\ Unrouted'
<1> DEFINE p == task[ES].pipe
<1>1. /\ ES \in Tasks /\ Apps \subseteq Tasks /\ \A a \in Apps : ES # a
      /\ pipe \in [Pipes -> PipeType] /\ task \in [Tasks -> TaskType]
      /\ task[ES] \in TaskType
      /\ dests \in [Msgs -> SUBSET Pipes] /\ cleaned \in Apps \cup {None}
  BY Types, SbAssumption DEF Tasks, RouteInv
<1>2. At("idle").at = "idle"
  BY DEF At
<1>3. ASSUME NEW q \in Pipes, DeletePipe(q)
      PROVE  Routed' /\ Sending' /\ Apart' /\ Cleaning' /\ Unrouted'
  <2> DEFINE r == [At("routes") EXCEPT !.pipe = q]
  <2>1. r.at = "routes" /\ r.pipe = q
    BY DEF At
  <2> QED
    BY <1>3, <2>1, EsMoves DEF DeletePipe
<1>4. ASSUME NEW m \in Msgs, DeleteRoute(m)
      PROVE  Routed' /\ Sending' /\ Apart' /\ Cleaning' /\ Unrouted'
  <2>1. UNCHANGED <<task, pipe, cleaned>> /\ Free /\ task[ES].at = "routes"
    BY <1>4 DEF DeleteRoute
  <2>2. \A n \in Msgs : dests'[n] \subseteq dests[n]
    BY <1>1, <1>4 DEF DeleteRoute, Leave
  <2> QED
    BY <1>1, <2>1, <2>2, NoneSends
    DEF RouteInv, Routed, Sending, Apart, Cleaning, Unrouted, Open
<1>5. CASE DeleteTrash
  <2> DEFINE r == [task[ES] EXCEPT !.at = "drain"]
  <2>1. /\ task' = [task EXCEPT ![ES] = r] /\ r.at = "drain" /\ r.pipe = p
        /\ task[ES].at = "routes" /\ RoutesTo(p) = {}
    BY <1>1, <1>5 DEF DeleteTrash, TaskType
  <2>2. cleaned # None /\ p \in Pipes /\ pipe[p].owner = cleaned
    BY <2>1 DEF RouteInv, Cleaning
  <2>3. \A s \in Pipes : pipe'[s].owner = pipe[s].owner
    BY <1>1, <1>5 DEF DeleteTrash, PipeType
  <2> QED
    BY <1>5, <2>1, <2>2, <2>3, EsMoves DEF DeleteTrash
<1>6. CASE ClosePipe
  <2>1. /\ task' = [task EXCEPT ![ES] = At("idle")] /\ task[ES].at = "close"
        /\ pipe' = [pipe EXCEPT ![p] = Closed]
        /\ UNCHANGED <<dests, cleaned>> /\ Free
    BY <1>6 DEF ClosePipe
  <2>2. task'[ES] = At("idle") /\ \A a \in Apps : task'[a] = task[a]
    BY <1>1, <2>1, OneMoves DEF RouteInv
  <2>3. p \in Pipes /\ RoutesTo(p) = {}
    BY <2>1 DEF RouteInv, Cleaning, Unrouted
  <2>4. Routed'
    BY <1>1, <2>1, <2>3 DEF RouteInv, Routed, Open, RoutesTo
  <2>5. Cleaning'
    BY <1>1, <1>2, <2>1, <2>2 DEF RouteInv, Cleaning
  <2> QED
    BY <1>1, <1>2, <2>1, <2>2, <2>4, <2>5, NoneSends
    DEF RouteInv, Sending, Apart, Unrouted
<1>7. CASE ReleaseZeroCopy
  <2>1. UNCHANGED <<task, pipe, dests, cleaned>> /\ Free
    BY <1>7 DEF ReleaseZeroCopy
  <2> QED
    BY <1>1, <2>1, NoneSends
    DEF RouteInv, Routed, Sending, Apart, Cleaning, Unrouted, Open, RoutesTo
<1>8. CASE DeleteTask
  <2>1. /\ cleaned \in Apps /\ task' = [task EXCEPT ![cleaned] = At("idle")]
        /\ task[ES].at = "idle" /\ cleaned' = None
        /\ UNCHANGED <<lock, buf, pipe, dests>>
    BY <1>1, <1>8 DEF DeleteTask, NoPipesLeft
  <2>2. /\ task'[cleaned] = At("idle")
        /\ \A u \in Tasks : u # cleaned => task'[u] = task[u]
    BY <1>1, <2>1, OneMoves DEF RouteInv
  <2>3. Routed'
    BY <2>1 DEF RouteInv, Routed, Open
  <2>4. Sending'
    BY <1>1, <1>2, <2>1, <2>2 DEF RouteInv, Sending
  <2>5. task'[ES] = task[ES]
    BY <1>1, <2>1, <2>2
  <2> QED
    BY <1>1, <1>2, <2>1, <2>2, <2>3, <2>4, <2>5
    DEF RouteInv, Apart, Cleaning, Unrouted
<1> QED
  BY <1>3, <1>4, <1>5, <1>6, <1>7, <1>8, DrainRoutes DEF CleanUp

LEMMA RouteNext ==
  ASSUME RouteInv, [SbNext]_sbVars
  PROVE  RouteInv'
<1>0. TypeInv'
  BY TypeNext DEF RouteInv
<1>1. ASSUME NEW m \in Msgs, NEW p \in Pipes, NEW on \in BOOLEAN, SetRoute(m, p, on)
      PROVE  RouteInv'
  BY <1>0, <1>1
  DEF SetRoute, RouteInv, Routed, Sending, Apart, Cleaning, Unrouted, Open, RoutesTo
<1>2. CASE UNCHANGED sbVars
  BY <1>0, <1>2
  DEF sbVars, RouteInv, Routed, Sending, Apart, Cleaning, Unrouted, Open, RoutesTo
<1>3. ASSUME NEW a \in Apps,
             \/ ZeroCopyGetPtr(a) \/ ZeroCopyReleasePtr(a) \/ CreatePipe(a)
             \/ \E m \in Msgs, p \in Pipes : Subscribe(a, m, p) \/ Unsubscribe(a, m, p)
             \/ \E m \in Msgs : SendMsg(a, m) \/ ZeroCopySend(a, m)
             \/ Continue(a) \/ ExitApp(a) \/ StartCleanUp(a)
      PROVE  RouteInv'
  BY <1>0, <1>3, TableRoutes, SendRoutes, RcvRoutes DEF Continue, RouteInv
<1>4. CASE CleanUp
  BY <1>0, <1>4, CleanUpRoutes DEF RouteInv
<1> QED
  BY <1>1, <1>2, <1>3, <1>4 DEF SbNext

\* Every destination, and every one a sender that holds the semaphore has read
\* and not reached yet, is a pipe in use: the deletion of a pipe may let senders
\* in between its steps, it removes the routes before it closes the pipe, and no
\* one else subscribes that pipe again.
THEOREM DeliveriesReachPipes == SbSpec => []RoutesLeadToPipes
<1>1. SbInit => RouteInv
  BY RouteInit
<1>2. RouteInv /\ [SbNext]_sbVars => RouteInv'
  BY RouteNext
<1>3. RouteInv => RoutesLeadToPipes
  BY DEF RouteInv, Routed, Sending, RoutesLeadToPipes
<1> QED
  BY <1>1, <1>2, <1>3, PTL DEF SbSpec
=============================================================================
