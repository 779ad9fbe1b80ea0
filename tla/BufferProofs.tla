---------------------------- MODULE BufferProofs -----------------------------
(***************************************************************************)
(* More proofs about SoftwareBus: where a buffer is and who counts it,     *)
(* that no message limit is lowered for good, and that a pipe acts as      *)
(* SharedPipe says.  ES may delete an application between the read of its  *)
(* queue and the semaphore, and the buffer it has in hand does not come    *)
(* back, nor does one that it makes the current buffer of a pipe ES has    *)
(* closed.  So the places and the counts are exact until ES deletes one    *)
(* that had not ended (forced); what follows for good is that no buffer    *)
(* has more holders than its count.                                        *)
(***************************************************************************)
EXTENDS SoftwareBusProofs, FiniteSetTheorems, SequenceTheorems

-----------------------------------------------------------------------------
\* What the steps of a call do to the pipes and tasks, field by field.

LEMMA PipeMoves ==
  ASSUME TypeInv, NEW p \in Pipes, NEW r, pipe' = [pipe EXCEPT ![p] = r]
  PROVE  pipe'[p] = r /\ \A q \in Pipes : q # p => pipe'[q] = pipe[q]
  BY Types

LEMMA BufMoves ==
  ASSUME TypeInv, NEW b \in Buffers, NEW r, buf' = [buf EXCEPT ![b] = r]
  PROVE  buf'[b] = r /\ \A c \in Buffers : c # b => buf'[c] = buf[c]
  BY Types

LEMMA MoveEffect ==
  ASSUME TypeInv, NEW t \in Tasks, NEW pc, task' = [task EXCEPT ![t].at = pc]
  PROVE  /\ task'[t].at = pc /\ task'[t].buf = task[t].buf /\ task'[t].pipe = task[t].pipe
         /\ \A u \in Tasks : u # t => task'[u] = task[u]
<1>1. task \in [Tasks -> TaskType]
  BY Types
<1> QED
  BY <1>1 DEF TaskType

LEMMA StartRcvEffect ==
  ASSUME TypeInv, NEW t \in Tasks, NEW p \in Pipes, NEW from, StartRcv(t, p, from)
  PROVE  /\ task[t].at = from
         /\ \A q \in Pipes : /\ pipe'[q].owner = pipe[q].owner
                             /\ pipe'[q].queue = pipe[q].queue
         /\ pipe'[p].current = None /\ pipe'[p].trash = pipe[p].current
         /\ \A q \in Pipes : q # p => pipe'[q] = pipe[q]
         /\ task'[t].at = "read" /\ task'[t].pipe = p /\ task'[t].buf = None
         /\ \A u \in Tasks : u # t => task'[u] = task[u]
<1>1. pipe \in [Pipes -> PipeType] /\ pipe[p] \in PipeType
  BY Types
<1> DEFINE r == [At("read") EXCEPT !.pipe = p]
<1>2. task' = [task EXCEPT ![t] = r] /\ task[t].at = from
  BY DEF StartRcv
<1>3. task'[t] = r /\ \A u \in Tasks : u # t => task'[u] = task[u]
  BY <1>2, OneMoves
<1>4. r.at = "read" /\ r.pipe = p /\ r.buf = None
  BY DEF At
<1>5. \A q \in Pipes : q # p => pipe'[q] = pipe[q]
  BY <1>1 DEF StartRcv
<1>6. /\ pipe'[p].owner = pipe[p].owner /\ pipe'[p].queue = pipe[p].queue
      /\ pipe'[p].current = None /\ pipe'[p].trash = pipe[p].current
  BY <1>1 DEF StartRcv, PipeType
<1> HIDE DEF r
<1> QED
  BY <1>2, <1>3, <1>4, <1>5, <1>6

LEMMA ReadQueueEffect ==
  ASSUME TypeInv, NEW t \in Tasks, ReadQueue(t)
  PROVE  LET p == task[t].pipe
             q == pipe[p].queue
         IN  /\ task[t].at = "read" /\ p \in Pipes /\ q \in Seq(Buffers)
             /\ task'[t].at = "took" /\ task'[t].pipe = p
             /\ \A u \in Tasks : u # t => task'[u] = task[u]
             /\ \A s \in Pipes : s # p => pipe'[s] = pipe[s]
             /\ \A s \in Pipes : /\ pipe'[s].owner = pipe[s].owner
                                 /\ pipe'[s].current = pipe[s].current
                                 /\ pipe'[s].trash = pipe[s].trash
             /\ IF Keeps(t) /\ q # <<>>
                THEN task'[t].buf = Head(q) /\ pipe'[p].queue = Tail(q)
                ELSE pipe' = pipe /\ task'[t].buf = task[t].buf
<1> DEFINE p == task[t].pipe
<1> DEFINE q == pipe[p].queue
<1>1. /\ pipe \in [Pipes -> PipeType] /\ task[t] \in TaskType
      /\ task[t].at = "read" /\ p \in Pipes
  BY Types DEF ReadQueue, TypeInv, Located
<1>2. q \in Seq(Buffers) /\ pipe[p] \in PipeType
  BY <1>1 DEF PipeType
<1>3. CASE ~(Keeps(t) /\ q # <<>>)
  <2>1. pipe' = pipe /\ task' = [task EXCEPT ![t].at = "took"]
    BY <1>3 DEF ReadQueue
  <2>2. /\ task'[t].at = "took" /\ task'[t].pipe = p /\ task'[t].buf = task[t].buf
        /\ \A u \in Tasks : u # t => task'[u] = task[u]
    BY <2>1, MoveEffect
  <2> QED
    BY <1>1, <1>2, <1>3, <2>1, <2>2
<1>4. CASE Keeps(t) /\ q # <<>>
  <2> DEFINE r == [task[t] EXCEPT !.at = "took", !.buf = Head(q)]
  <2>1. /\ task' = [task EXCEPT ![t] = r]
        /\ pipe' = [pipe EXCEPT ![p].queue = Tail(q)]
    BY <1>4 DEF ReadQueue
  <2>2. r.at = "took" /\ r.pipe = p /\ r.buf = Head(q)
    BY <1>1 DEF TaskType
  <2> HIDE DEF r
  <2>3. /\ task'[t].at = "took" /\ task'[t].pipe = p /\ task'[t].buf = Head(q)
        /\ \A u \in Tasks : u # t => task'[u] = task[u]
    BY <2>1, <2>2, OneMoves
  <2>4. \A s \in Pipes : s # p => pipe'[s] = pipe[s]
    BY <1>1, <2>1
  <2>5. /\ pipe'[p].owner = pipe[p].owner /\ pipe'[p].queue = Tail(q)
        /\ pipe'[p].current = pipe[p].current /\ pipe'[p].trash = pipe[p].trash
    BY <1>1, <1>2, <2>1 DEF PipeType
  <2> QED
    BY <1>1, <1>2, <1>4, <2>3, <2>4, <2>5
<1> QED
  BY <1>3, <1>4

LEMMA EndRcvEffect ==
  ASSUME TypeInv, NEW t \in Tasks, NEW next, EndRcv(t, next)
  PROVE  LET p == task[t].pipe
             b == task[t].buf
         IN  /\ task[t].at = "took" /\ p \in Pipes /\ b \in Buffers \cup {None} /\ Free
             /\ pipe[p].trash \in Buffers \cup {None}
             /\ task'[t].at = next /\ task'[t].buf = None /\ (t = ES => task'[t].pipe = p)
             /\ \A u \in Tasks : u # t => task'[u] = task[u]
             /\ \A s \in Pipes : /\ pipe'[s].owner = pipe[s].owner
                                 /\ pipe'[s].queue = pipe[s].queue
             /\ pipe'[p].current = (IF b = None THEN pipe[p].current ELSE b)
             /\ pipe'[p].trash = None
             /\ \A s \in Pipes : s # p => pipe'[s] = pipe[s]
<1> DEFINE p == task[t].pipe
<1> DEFINE b == task[t].buf
<1>1. /\ pipe \in [Pipes -> PipeType] /\ task[t] \in TaskType
      /\ task[t].at = "took" /\ p \in Pipes /\ Free
  BY Types DEF EndRcv, TypeInv, Located
<1>2. /\ b \in Buffers \cup {None} /\ pipe[p] \in PipeType
      /\ pipe[p].trash \in Buffers \cup {None}
  BY <1>1 DEF PipeType, TaskType
<1> DEFINE r == [At(next) EXCEPT !.pipe = IF t = ES THEN p ELSE None]
<1>3. r.at = next /\ r.buf = None /\ (t = ES => r.pipe = p)
  BY DEF At
<1>4. task' = [task EXCEPT ![t] = r]
  BY DEF EndRcv
<1> HIDE DEF r
<1>5. /\ task'[t].at = next /\ task'[t].buf = None /\ (t = ES => task'[t].pipe = p)
      /\ \A u \in Tasks : u # t => task'[u] = task[u]
  BY <1>3, <1>4, OneMoves
<1>6. \A s \in Pipes : s # p => pipe'[s] = pipe[s]
  BY <1>1 DEF EndRcv
<1>7. /\ pipe'[p].owner = pipe[p].owner /\ pipe'[p].queue = pipe[p].queue
      /\ pipe'[p].current = (IF b = None THEN pipe[p].current ELSE b)
      /\ pipe'[p].trash = None
  BY <1>1, <1>2 DEF EndRcv, PipeType
<1> QED
  BY <1>1, <1>2, <1>5, <1>6, <1>7

LEMMA DeliverEffect ==
  ASSUME TypeInv, NEW a \in Apps, NEW p \in Pipes, Deliver(a, p)
  PROVE  LET b == task[a].buf
             m == buf[b].msg
         IN  /\ task[a].at = "send" /\ p \in task[a].rest /\ b \in Buffers
             /\ pipe[p].queue \in Seq(Buffers)
             /\ task'[a].at = "send" /\ task'[a].buf = b /\ task'[a].pipe = task[a].pipe
             /\ \A u \in Tasks : u # a => task'[u] = task[u]
             /\ \A s \in Pipes : s # p => pipe'[s] = pipe[s]
             /\ \A s \in Pipes : /\ pipe'[s].owner = pipe[s].owner
                                 /\ pipe'[s].current = pipe[s].current
                                 /\ pipe'[s].trash = pipe[s].trash
             /\ \/ UNCHANGED <<pipe, buf, count>>
                \/ /\ Admits(m, p)
                   /\ pipe'[p].queue = Append(pipe[p].queue, b)
                   /\ buf'[b].use = buf[b].use + 1 /\ buf'[b].msg = m
                   /\ \A c \in Buffers : c # b => buf'[c] = buf[c]
                   /\ count' = [count EXCEPT ![m][p] = @ + 1]
<1> DEFINE b == task[a].buf
<1> DEFINE m == buf[b].msg
<1>1. /\ pipe \in [Pipes -> PipeType] /\ task[a] \in TaskType /\ a \in Tasks
      /\ buf \in [Buffers -> BufType]
      /\ task[a].at = "send" /\ p \in task[a].rest /\ b \in Buffers
  BY Types DEF Deliver, TypeInv, Located, Tasks
<1>2. pipe[p].queue \in Seq(Buffers) /\ pipe[p] \in PipeType /\ buf[b] \in BufType
  BY <1>1 DEF PipeType
<1> DEFINE r == [task[a] EXCEPT !.rest = @ \ {p}]
<1>3. r.at = "send" /\ r.buf = b /\ r.pipe = task[a].pipe
  BY <1>1 DEF TaskType
<1>4. task' = [task EXCEPT ![a] = r]
  BY DEF Deliver
<1> HIDE DEF r
<1>5. /\ task'[a].at = "send" /\ task'[a].buf = b /\ task'[a].pipe = task[a].pipe
      /\ \A u \in Tasks : u # a => task'[u] = task[u]
  BY <1>1, <1>3, <1>4, OneMoves
<1>6. CASE UNCHANGED <<pipe, buf, count>>
  BY <1>1, <1>2, <1>5, <1>6
<1>7. CASE ~UNCHANGED <<pipe, buf, count>>
  <2>1. /\ Admits(m, p) /\ pipe' = [pipe EXCEPT ![p].queue = Append(@, b)]
        /\ buf' = [buf EXCEPT ![b].use = @ + 1]
        /\ count' = [count EXCEPT ![m][p] = @ + 1]
    BY <1>7 DEF Deliver
  <2>2. \A s \in Pipes : s # p => pipe'[s] = pipe[s]
    BY <1>1, <2>1
  <2>3. /\ pipe'[p].owner = pipe[p].owner /\ pipe'[p].queue = Append(pipe[p].queue, b)
        /\ pipe'[p].current = pipe[p].current /\ pipe'[p].trash = pipe[p].trash
    BY <1>1, <1>2, <2>1 DEF PipeType
  <2>4. /\ buf'[b].use = buf[b].use + 1 /\ buf'[b].msg = m
        /\ \A c \in Buffers : c # b => buf'[c] = buf[c]
    BY <1>1, <1>2, <2>1 DEF BufType
  <2> QED
    BY <1>1, <1>2, <1>5, <2>1, <2>2, <2>3, <2>4
<1> QED
  BY <1>6, <1>7

LEMMA SendEffect ==
  ASSUME TypeInv, NEW a \in Apps, NEW b, NEW rest,
         task' = [task EXCEPT ![a] = [At("send") EXCEPT !.buf = b, !.rest = rest]]
  PROVE  /\ task'[a].at = "send" /\ task'[a].buf = b
         /\ \A u \in Tasks : u # a => task'[u] = task[u]
<1> DEFINE r == [At("send") EXCEPT !.buf = b, !.rest = rest]
<1>1. r.at = "send" /\ r.buf = b
  BY DEF At
<1>2. a \in Tasks
  BY DEF Tasks
<1>3. task'[a] = r /\ \A u \in Tasks : u # a => task'[u] = task[u]
  BY <1>2, OneMoves
<1> HIDE DEF r
<1> QED
  BY <1>1, <1>3

LEMMA SettleEffect ==
  ASSUME TypeInv, NEW t \in Tasks, NEW pc, task' = [task EXCEPT ![t] = At(pc)]
  PROVE  /\ task'[t].at = pc /\ task'[t].buf = None
         /\ \A u \in Tasks : u # t => task'[u] = task[u]
<1>1. task \in [Tasks -> TaskType]
  BY Types
<1> QED
  BY <1>1 DEF At
-----------------------------------------------------------------------------
\* Where the buffers are between the steps of a receive and of a clean up.

\* The task of an application that had ended stays where it is.
Halted == ~forced /\ cleaned # None => task[cleaned].at = "ended"

\* A receiver owns the pipe it reads.
Reading ==
  \A a \in Apps : task[a].at \in {"read", "took"} =>
    forced \/ pipe[task[a].pipe].owner = a

\* A pipe that is not in use has no buffers.
Vacant ==
  \A p \in Pipes : pipe[p].owner = None =>
    pipe[p].queue = <<>> /\ (forced \/ pipe[p].current = None) /\ pipe[p].trash = None

\* A buffer is put aside during a receive, and where one was cut short.
PutAside ==
  /\ \A a \in Apps, p \in Pipes :
       pipe[p].owner = a /\ pipe[p].trash # None =>
         \/ task[a].at = "ended"
         \/ a = cleaned
         \/ task[a].at \in {"read", "took"} /\ task[a].pipe = p
  /\ task[ES].at \in {"drain", "close"} => pipe[task[ES].pipe].trash = None

\* A task has a buffer in hand while it sends, or has read one.
InHands ==
  \A t \in Tasks : task[t].buf # None => task[t].at \in {"send", "took"}

\* A pipe that is read has no current buffer, and one that is closed has none.
Emptied ==
  /\ \A t \in Tasks : task[t].at \in {"read", "took"} =>
       forced \/ pipe[task[t].pipe].current = None
  /\ task[ES].at = "close" \/ (task[ES].at = "took" /\ task[ES].buf = None) =>
       pipe[task[ES].pipe].queue = <<>>
  /\ task[ES].at = "close" => forced \/ pipe[task[ES].pipe].current = None

PlaceInv == RouteInv /\ Halted /\ Reading /\ Vacant /\ PutAside /\ InHands /\ Emptied

LEMMA PlaceInit == ASSUME SbInit PROVE PlaceInv
<1>1. RouteInv /\ ES \in Tasks /\ Apps \subseteq Tasks
  BY RouteInit DEF Tasks
<1>2. /\ \A t \in Tasks : task[t].at = "idle" /\ task[t].buf = None
      /\ \A p \in Pipes : /\ pipe[p].queue = <<>> /\ pipe[p].current = None
                          /\ pipe[p].trash = None
  BY DEF SbInit, At, Closed
<1> QED
  BY <1>1, <1>2 DEF SbInit, PlaceInv, Halted, Reading, Vacant, PutAside, InHands, Emptied

\* ES cleans up no pipe that an application reads, while those it cleans up have
\* ended.
LEMMA EsReadsAlone ==
  ASSUME PlaceInv, ~forced, NEW a \in Apps, task[a].at \in {"read", "took"},
         task[ES].at # "idle"
  PROVE  task[ES].pipe \in Pipes /\ task[a].pipe # task[ES].pipe
  BY DEF PlaceInv, Halted, Reading, RouteInv, Cleaning

\* No two tasks read the same pipe then.
LEMMA OneReader ==
  ASSUME PlaceInv, ~forced, NEW t \in Tasks, NEW u \in Tasks, t # u,
         task[t].at \in {"read", "took"}, task[u].at \in {"read", "took"}
  PROVE  task[t].pipe # task[u].pipe
<1>1. ASSUME NEW a \in Apps, task[a].at \in {"read", "took"},
             task[ES].at \in {"read", "took"}
      PROVE  task[a].pipe # task[ES].pipe
  BY <1>1, EsReadsAlone
<1>2. ASSUME NEW a \in Apps, NEW c \in Apps, a # c,
             task[a].at \in {"read", "took"}, task[c].at \in {"read", "took"}
      PROVE  task[a].pipe # task[c].pipe
  BY <1>2 DEF PlaceInv, Reading
<1> QED
  BY <1>1, <1>2 DEF Tasks

\* A receive by an application or by ES.
LEMMA RcvPlaces ==
  ASSUME PlaceInv, NEW t \in Tasks,
         \/ \E p \in Pipes : /\ pipe[p].owner = t /\ t \in Apps /\ t # cleaned
                             /\ StartRcv(t, p, "idle")
         \/ t = ES /\ StartRcv(t, task[t].pipe, "drain")
         \/ ReadQueue(t)
         \/ t \in Apps /\ EndRcv(t, "idle")
         \/ t = ES /\ EndRcv(t, IF task[t].buf = None THEN "close" ELSE "drain")
  PROVE  Halted' /\ Reading' /\ Vacant' /\ PutAside' /\ InHands' /\ Emptied'
<1>0. /\ ES \in Tasks /\ Apps \subseteq Tasks /\ ES \notin Apps /\ Tasks = Apps \cup {ES}
      /\ None \notin Apps /\ TypeInv /\ cleaned \in Apps \cup {None}
      /\ forced' = forced /\ cleaned' = cleaned
  BY SbAssumption, Types DEF Tasks, PlaceInv, RouteInv, StartRcv, ReadQueue, EndRcv
<1>h. ASSUME task[t].at # "ended", \A u \in Tasks : u # t => task'[u] = task[u]
      PROVE  Halted'
  BY <1>0, <1>h DEF PlaceInv, Halted
<1>1. ASSUME NEW p \in Pipes, NEW from \in {"idle", "drain"}, StartRcv(t, p, from),
             from = "idle" => t \in Apps /\ pipe[p].owner = t /\ t # cleaned,
             from = "drain" => t = ES /\ p = task[ES].pipe
      PROVE  Halted' /\ Reading' /\ Vacant' /\ PutAside' /\ InHands' /\ Emptied'
  <2>1. /\ task[t].at = from
        /\ \A q \in Pipes : /\ pipe'[q].owner = pipe[q].owner
                            /\ pipe'[q].queue = pipe[q].queue
        /\ pipe'[p].current = None /\ pipe'[p].trash = pipe[p].current
        /\ \A q \in Pipes : q # p => pipe'[q] = pipe[q]
        /\ task'[t].at = "read" /\ task'[t].pipe = p /\ task'[t].buf = None
        /\ \A u \in Tasks : u # t => task'[u] = task[u]
    BY <1>0, <1>1, StartRcvEffect
  <2>2. Reading'
    BY <1>0, <1>1, <2>1 DEF PlaceInv, Reading, TypeInv, Located
  <2>3. Vacant'
    BY <1>0, <1>1, <2>1 DEF PlaceInv, Vacant, RouteInv, Cleaning
  <2>4. PutAside'
    BY <1>0, <1>1, <2>1 DEF PlaceInv, PutAside, RouteInv, Cleaning
  <2>5. InHands'
    BY <1>0, <1>1, <2>1 DEF PlaceInv, InHands
  <2>6. Emptied'
    BY <1>0, <1>1, <2>1 DEF PlaceInv, Emptied, TypeInv, Located
  <2>7. Halted'
    BY <1>1, <1>h, <2>1
  <2> QED
    BY <2>2, <2>3, <2>4, <2>5, <2>6, <2>7
<1>2. CASE ReadQueue(t)
  <2> DEFINE p == task[t].pipe
  <2> DEFINE q == pipe[p].queue
  <2>1. /\ task[t].at = "read" /\ p \in Pipes /\ q \in Seq(Buffers)
        /\ task'[t].at = "took" /\ task'[t].pipe = p
        /\ \A u \in Tasks : u # t => task'[u] = task[u]
        /\ \A s \in Pipes : s # p => pipe'[s] = pipe[s]
        /\ \A s \in Pipes : /\ pipe'[s].owner = pipe[s].owner
                            /\ pipe'[s].current = pipe[s].current
                            /\ pipe'[s].trash = pipe[s].trash
        /\ IF Keeps(t) /\ q # <<>>
           THEN task'[t].buf = Head(q) /\ pipe'[p].queue = Tail(q)
           ELSE pipe' = pipe /\ task'[t].buf = task[t].buf
    BY <1>0, <1>2, ReadQueueEffect
  <2>0. t = ES => Keeps(t)
    BY <2>1 DEF PlaceInv, RouteInv, Cleaning, Keeps
  <2>10. Halted'
    BY <1>h, <2>1
  <2>2. Reading'
    BY <1>0, <2>1 DEF PlaceInv, Reading, TypeInv, Located
  <2>3. Vacant'
    BY <1>0, <2>1 DEF PlaceInv, Vacant
  <2>4. PutAside'
    BY <1>0, <2>1 DEF PlaceInv, PutAside, RouteInv, Cleaning
  <2>5. InHands'
    BY <1>0, <2>1 DEF PlaceInv, InHands
  <2>7. \A u \in Tasks : task'[u].at \in {"read", "took"} =>
          forced' \/ pipe'[task'[u].pipe].current = None
    <3>1. ASSUME NEW u \in Tasks, u # t, task'[u].at \in {"read", "took"}
          PROVE  forced' \/ pipe'[task'[u].pipe].current = None
      BY <1>0, <2>1, <3>1 DEF PlaceInv, Emptied, TypeInv, Located
    <3>2. forced' \/ pipe'[task'[t].pipe].current = None
      BY <1>0, <2>1 DEF PlaceInv, Emptied, TypeInv, Located
    <3> QED
      BY <3>1, <3>2
  <2>8. /\ task'[ES].at = "close" \/ (task'[ES].at = "took" /\ task'[ES].buf = None) =>
             pipe'[task'[ES].pipe].queue = <<>>
        /\ task'[ES].at = "close" => forced' \/ pipe'[task'[ES].pipe].current = None
    <3>1. CASE t = ES
      <4>1. q # <<>> => Head(q) # None
        BY <2>1, SbAssumption
      <4> QED
        BY <2>0, <2>1, <3>1, <4>1
    <3>2. CASE t \in Apps
      <4>1. task'[ES] = task[ES]
        BY <1>0, <2>1, <3>2
      <4>2. task[ES].at # "idle" =>
              /\ pipe'[task[ES].pipe].current = pipe[task[ES].pipe].current
              /\ pipe[task[ES].pipe].queue = <<>> => pipe'[task[ES].pipe].queue = <<>>
        BY <2>1 DEF PlaceInv, RouteInv, Cleaning
      <4> QED
        BY <1>0, <4>1, <4>2 DEF PlaceInv, Emptied
    <3> QED
      BY <1>0, <3>1, <3>2
  <2> QED
    BY <2>2, <2>3, <2>4, <2>5, <2>7, <2>8, <2>10 DEF Emptied
<1>3. ASSUME NEW next \in {"idle", "drain", "close"}, EndRcv(t, next),
             next = "idle" => t \in Apps,
             next # "idle" => t = ES,
             next = "close" => task[t].buf = None
      PROVE  Halted' /\ Reading' /\ Vacant' /\ PutAside' /\ InHands' /\ Emptied'
  <2> DEFINE p == task[t].pipe
  <2> DEFINE b == task[t].buf
  <2>1. /\ task[t].at = "took" /\ p \in Pipes /\ b \in Buffers \cup {None} /\ Free
        /\ task'[t].at = next /\ task'[t].buf = None /\ (t = ES => task'[t].pipe = p)
        /\ \A u \in Tasks : u # t => task'[u] = task[u]
        /\ \A s \in Pipes : /\ pipe'[s].owner = pipe[s].owner
                            /\ pipe'[s].queue = pipe[s].queue
        /\ pipe'[p].current = (IF b = None THEN pipe[p].current ELSE b)
        /\ pipe'[p].trash = None
        /\ \A s \in Pipes : s # p => pipe'[s] = pipe[s]
    BY <1>0, <1>3, EndRcvEffect
  <2>2. Reading'
    BY <1>0, <1>3, <2>1 DEF PlaceInv, Reading, TypeInv, Located
  <2>3. Vacant'
    BY <1>0, <1>3, <2>1 DEF PlaceInv, Vacant, Reading, RouteInv, Cleaning
  <2>4. PutAside'
    BY <1>0, <1>3, <2>1 DEF PlaceInv, PutAside, RouteInv, Cleaning
  <2>5. InHands'
    BY <1>0, <1>3, <2>1 DEF PlaceInv, InHands
  <2>10. Halted'
    BY <1>h, <2>1
  <2>6. ~forced => \A u \in Tasks : u # t /\ task[u].at \in {"read", "took"} =>
          task[u].pipe \in Pipes /\ task[u].pipe # p
    BY <1>0, <2>1, OneReader DEF TypeInv, Located
  <2>7. ~forced /\ t \in Apps /\ task[ES].at # "idle" =>
          task[ES].pipe \in Pipes /\ task[ES].pipe # p
    BY <2>1, EsReadsAlone
  <2>8. \A u \in Tasks : task'[u].at \in {"read", "took"} =>
          forced' \/ pipe'[task'[u].pipe].current = None
    <3>1. ASSUME NEW u \in Tasks, task'[u].at \in {"read", "took"}, ~forced
          PROVE  pipe'[task'[u].pipe].current = None
      <4>1. u # t /\ task'[u] = task[u] /\ task[u].pipe \in Pipes /\ task[u].pipe # p
        BY <1>3, <2>1, <2>6, <3>1
      <4>2. pipe'[task[u].pipe] = pipe[task[u].pipe]
        BY <2>1, <4>1
      <4> QED
        BY <3>1, <4>1, <4>2 DEF PlaceInv, Emptied
    <3> QED
      BY <1>0, <3>1
  <2>9. /\ task'[ES].at = "close" \/ (task'[ES].at = "took" /\ task'[ES].buf = None) =>
             pipe'[task'[ES].pipe].queue = <<>>
        /\ task'[ES].at = "close" => forced' \/ pipe'[task'[ES].pipe].current = None
    <3>1. CASE t = ES
      <4>1. (forced \/ pipe[p].current = None) /\ (b = None => pipe[p].queue = <<>>)
        BY <1>0, <2>1, <3>1 DEF PlaceInv, Emptied
      <4> QED
        BY <1>0, <1>3, <2>1, <3>1, <4>1
    <3>2. CASE t \in Apps
      <4>1. task'[ES] = task[ES]
        BY <1>0, <2>1, <3>2
      <4>2. task[ES].at # "idle" =>
              /\ ~forced => pipe'[task[ES].pipe].current = pipe[task[ES].pipe].current
              /\ pipe'[task[ES].pipe].queue = pipe[task[ES].pipe].queue
        BY <2>1, <2>7, <3>2 DEF PlaceInv, RouteInv, Cleaning
      <4> QED
        BY <1>0, <4>1, <4>2 DEF PlaceInv, Emptied
    <3> QED
      BY <1>0, <3>1, <3>2
  <2> QED
    BY <2>2, <2>3, <2>4, <2>5, <2>8, <2>9, <2>10 DEF Emptied
<1> QED
  <2>1. t = ES /\ task[t].at = "drain" => task[t].pipe \in Pipes
    BY DEF PlaceInv, RouteInv, TypeInv, Located
  <2> QED
    BY <1>0, <1>1, <1>2, <1>3, <2>1 DEF StartRcv

\* What an application does besides receiving.
LEMMA AppPlaces ==
  ASSUME PlaceInv, NEW a \in Apps,
         \/ ZeroCopyGetPtr(a) \/ ZeroCopyReleasePtr(a) \/ CreatePipe(a)
         \/ \E m \in Msgs, p \in Pipes : Subscribe(a, m, p) \/ Unsubscribe(a, m, p)
         \/ \E m \in Msgs : SendMsg(a, m) \/ ZeroCopySend(a, m)
         \/ \E p \in Pipes : Deliver(a, p)
         \/ FinishSend(a) \/ ExitApp(a) \/ StartCleanUp(a)
  PROVE  Halted' /\ Reading' /\ Vacant' /\ PutAside' /\ InHands' /\ Emptied'
<1>0. /\ ES \in Tasks /\ Apps \subseteq Tasks /\ ES \notin Apps /\ Tasks = Apps \cup {ES}
      /\ None \notin Apps /\ TypeInv /\ a \in Tasks /\ a # ES
      /\ pipe \in [Pipes -> PipeType] /\ cleaned \in Apps \cup {None}
  BY SbAssumption, Types DEF Tasks, PlaceInv, RouteInv
<1>1. ASSUME UNCHANGED <<pipe, task, cleaned, forced>>
      PROVE  Halted' /\ Reading' /\ Vacant' /\ PutAside' /\ InHands' /\ Emptied'
  BY <1>1 DEF PlaceInv, Halted, Reading, Vacant, PutAside, InHands, Emptied
<1>2. CASE CreatePipe(a)
  <2>1. PICK p \in Pipes :
          pipe[p].owner = None /\ pipe' = [pipe EXCEPT ![p] = [Closed EXCEPT !.owner = a]]
    BY <1>2 DEF CreatePipe, Open
  <2>2. /\ pipe'[p].owner = a /\ pipe'[p].queue = <<>> /\ pipe'[p].current = None
        /\ pipe'[p].trash = None /\ \A q \in Pipes : q # p => pipe'[q] = pipe[q]
    BY <1>0, <2>1 DEF Closed
  <2>3. pipe[p].queue = <<>> /\ pipe[p].trash = None
    BY <2>1 DEF PlaceInv, Vacant
  <2>4. UNCHANGED <<task, cleaned, forced>> /\ task[a].at = "idle"
    BY <1>2 DEF CreatePipe, Calls, Idle
  <2>9. Halted'
    BY <2>4 DEF PlaceInv, Halted
  <2>5. Reading'
    BY <1>0, <2>1, <2>2, <2>4 DEF PlaceInv, Reading, TypeInv, Located
  <2>6. Vacant'
    BY <1>0, <2>2, <2>4 DEF PlaceInv, Vacant
  <2>7. PutAside'
    BY <1>0, <2>1, <2>2, <2>3, <2>4 DEF PlaceInv, PutAside, TypeInv, Located
  <2>8. InHands'
    BY <2>4 DEF PlaceInv, InHands
  <2>10. Emptied'
    BY <1>0, <2>2, <2>4 DEF PlaceInv, Emptied, TypeInv, Located
  <2> QED
    BY <2>5, <2>6, <2>7, <2>8, <2>9, <2>10
\* The application starts a send, goes on with one, or ends one.
<1>3. ASSUME UNCHANGED <<cleaned, forced>>, task[a].at \in {"idle", "send"}, task'[a].at \in {"idle", "send"},
             task'[a].at = "idle" => task'[a].buf = None,
             \A u \in Tasks : u # a => task'[u] = task[u],
             \A p \in Pipes : /\ pipe'[p].owner = pipe[p].owner
                              /\ pipe'[p].current = pipe[p].current
                              /\ pipe'[p].trash = pipe[p].trash,
             \A p \in Pipes :
               \/ pipe'[p].queue = pipe[p].queue
               \/ /\ pipe[p].owner # None
                  /\ ~(p = task[ES].pipe /\ task[ES].at \in {"took", "close"})
      PROVE  Halted' /\ Reading' /\ Vacant' /\ PutAside' /\ InHands' /\ Emptied'
  <2>1. Reading'
    BY <1>0, <1>3 DEF PlaceInv, Reading, TypeInv, Located
  <2>2. Vacant'
    BY <1>0, <1>3 DEF PlaceInv, Vacant
  <2>3. PutAside'
    BY <1>0, <1>3 DEF PlaceInv, PutAside, TypeInv, Located
  <2>4. InHands'
    BY <1>0, <1>3 DEF PlaceInv, InHands
  <2>5. Emptied'
    BY <1>0, <1>3 DEF PlaceInv, Emptied, TypeInv, Located
  <2>6. Halted'
    BY <1>0, <1>3 DEF PlaceInv, Halted
  <2> QED
    BY <2>1, <2>2, <2>3, <2>4, <2>5, <2>6
<1>4. ASSUME NEW m \in Msgs, SendMsg(a, m)
      PROVE  Halted' /\ Reading' /\ Vacant' /\ PutAside' /\ InHands' /\ Emptied'
  <2>1. PICK b : task' = [task EXCEPT ![a] = [At("send") EXCEPT !.buf = b, !.rest = dests[m]]]
    BY <1>4 DEF SendMsg
  <2>2. task'[a].at = "send" /\ \A u \in Tasks : u # a => task'[u] = task[u]
    BY <1>0, <2>1, SendEffect
  <2>3. task[a].at = "idle" /\ UNCHANGED <<pipe, cleaned, forced>>
    BY <1>4 DEF SendMsg, Idle
  <2> QED
    BY <1>3, <2>2, <2>3
<1>5. ASSUME NEW m \in Msgs, ZeroCopySend(a, m)
      PROVE  Halted' /\ Reading' /\ Vacant' /\ PutAside' /\ InHands' /\ Emptied'
  <2>1. task[a].at = "idle" /\ UNCHANGED <<pipe, cleaned, forced>>
    BY <1>5 DEF ZeroCopySend, Calls, Idle
  <2>2. CASE m \in routed
    <3>1. PICK b : task' = [task EXCEPT ![a] = [At("send") EXCEPT !.buf = b, !.rest = dests[m]]]
      BY <1>5, <2>2 DEF ZeroCopySend
    <3>2. task'[a].at = "send" /\ \A u \in Tasks : u # a => task'[u] = task[u]
      BY <1>0, <3>1, SendEffect
    <3> QED
      BY <1>3, <2>1, <3>2
  <2>3. CASE m \notin routed
    <3>1. task' = task
      BY <1>5, <2>3 DEF ZeroCopySend
    <3> QED
      BY <1>1, <2>1, <3>1
  <2> QED
    BY <2>2, <2>3
<1>6. ASSUME NEW p \in Pipes, Deliver(a, p)
      PROVE  Halted' /\ Reading' /\ Vacant' /\ PutAside' /\ InHands' /\ Emptied'
  <2> DEFINE b == task[a].buf
  <2> DEFINE m == buf[b].msg
  <2>1. /\ task[a].at = "send" /\ p \in task[a].rest
        /\ task'[a].at = "send"
        /\ \A u \in Tasks : u # a => task'[u] = task[u]
        /\ \A s \in Pipes : s # p => pipe'[s] = pipe[s]
        /\ \A s \in Pipes : /\ pipe'[s].owner = pipe[s].owner
                            /\ pipe'[s].current = pipe[s].current
                            /\ pipe'[s].trash = pipe[s].trash
    BY <1>0, <1>6, DeliverEffect
  <2>2. m \in Msgs /\ p \in dests[m]
    BY <2>1 DEF PlaceInv, RouteInv, Sending
  <2>3. pipe[p].owner # None
    BY <2>2 DEF PlaceInv, RouteInv, Routed, Open
  <2>4. ~(p = task[ES].pipe /\ task[ES].at \in {"took", "close"})
    BY <2>2 DEF PlaceInv, RouteInv, Unrouted, RoutesTo
  <2>5. UNCHANGED <<cleaned, forced>>
    BY <1>6 DEF Deliver
  <2> QED
    BY <1>3, <2>1, <2>3, <2>4, <2>5
<1>7. CASE FinishSend(a)
  <2>1. /\ task[a].at = "send" /\ task' = [task EXCEPT ![a] = At("idle")]
        /\ UNCHANGED <<pipe, cleaned, forced>>
    BY <1>7 DEF FinishSend
  <2>2. /\ task'[a].at = "idle" /\ task'[a].buf = None
        /\ \A u \in Tasks : u # a => task'[u] = task[u]
    BY <1>0, <2>1, SettleEffect
  <2> QED
    BY <1>3, <2>1, <2>2
<1>8. CASE ExitApp(a)
  <2>1. /\ UNCHANGED <<pipe, cleaned, forced>> /\ task[a].at = "idle"
        /\ task' = [task EXCEPT ![a].at = "ended"]
    BY <1>8 DEF ExitApp, Idle
  <2>2. /\ task'[a].at = "ended" /\ task'[a].buf = task[a].buf
        /\ \A u \in Tasks : u # a => task'[u] = task[u]
    BY <1>0, <2>1, MoveEffect
  <2>3. Reading' /\ Halted'
    BY <1>0, <2>1, <2>2 DEF PlaceInv, Reading, Halted
  <2>4. PutAside'
    BY <1>0, <2>1, <2>2 DEF PlaceInv, PutAside
  <2>5. InHands'
    BY <1>0, <2>1, <2>2, SbAssumption DEF PlaceInv, InHands
  <2>6. Emptied'
    BY <1>0, <2>1, <2>2 DEF PlaceInv, Emptied
  <2> QED
    BY <2>1, <2>3, <2>4, <2>5, <2>6 DEF PlaceInv, Vacant
<1>9. ASSUME NEW m \in Msgs, NEW p \in Pipes, Subscribe(a, m, p) \/ Unsubscribe(a, m, p)
      PROVE  UNCHANGED <<pipe, task, cleaned, forced>>
  BY <1>9 DEF Subscribe, Unsubscribe
<1>10. CASE ZeroCopyGetPtr(a) \/ ZeroCopyReleasePtr(a)
  BY <1>1, <1>10 DEF ZeroCopyGetPtr, ZeroCopyReleasePtr
<1>11. CASE StartCleanUp(a)
  <2>1. /\ UNCHANGED <<pipe, task>> /\ cleaned = None /\ cleaned' = a
        /\ forced' = (forced \/ task[a].at # "ended")
    BY <1>11 DEF StartCleanUp
  <2> QED
    BY <1>0, <2>1 DEF PlaceInv, Halted, Reading, Vacant, PutAside, InHands, Emptied
<1> QED
  BY <1>1, <1>2, <1>4, <1>5, <1>6, <1>7, <1>8, <1>9, <1>10, <1>11

\* The rest of a clean up.
LEMMA CleanUpPlaces ==
  ASSUME PlaceInv, CleanUp
  PROVE  Halted' /\ Reading' /\ Vacant' /\ PutAside' /\ InHands' /\ Emptied'
<1> DEFINE p == task[ES].pipe
<1>0. /\ ES \in Tasks /\ Apps \subseteq Tasks /\ ES \notin Apps /\ Tasks = Apps \cup {ES}
      /\ None \notin Apps /\ TypeInv /\ cleaned \in Apps \cup {None}
      /\ pipe \in [Pipes -> PipeType]
  BY SbAssumption, Types DEF Tasks, PlaceInv, RouteInv
<1>1. ASSUME NEW q \in Pipes, DeletePipe(q)
      PROVE  Halted' /\ Reading' /\ Vacant' /\ PutAside' /\ InHands' /\ Emptied'
  <2> DEFINE r == [At("routes") EXCEPT !.pipe = q]
  <2>1. r.at = "routes" /\ r.buf = None
    BY DEF At
  <2>2. task' = [task EXCEPT ![ES] = r] /\ UNCHANGED <<pipe, cleaned, forced>>
    BY <1>1 DEF DeletePipe
  <2> HIDE DEF r
  <2>3. /\ task'[ES].at = "routes" /\ task'[ES].buf = None
        /\ \A u \in Tasks : u # ES => task'[u] = task[u]
    BY <1>0, <2>1, <2>2, OneMoves
  <2> QED
    BY <1>0, <2>2, <2>3 DEF PlaceInv, Halted, Reading, Vacant, PutAside, InHands, Emptied
<1>2. ASSUME NEW m \in Msgs, DeleteRoute(m)
      PROVE  Halted' /\ Reading' /\ Vacant' /\ PutAside' /\ InHands' /\ Emptied'
  <2>1. UNCHANGED <<pipe, task, cleaned, forced>>
    BY <1>2 DEF DeleteRoute
  <2> QED
    BY <2>1 DEF PlaceInv, Halted, Reading, Vacant, PutAside, InHands, Emptied
<1>3. CASE DeleteTrash
  <2>1. /\ task' = [task EXCEPT ![ES].at = "drain"] /\ task[ES].at = "routes"
        /\ pipe' = [pipe EXCEPT ![p].trash = None]
        /\ UNCHANGED <<cleaned, forced>>
    BY <1>3 DEF DeleteTrash
  <2>2. p \in Pipes
    BY <2>1 DEF PlaceInv, RouteInv, TypeInv, Located
  <2>3. /\ task'[ES].at = "drain" /\ task'[ES].buf = task[ES].buf /\ task'[ES].pipe = p
        /\ \A u \in Tasks : u # ES => task'[u] = task[u]
    BY <1>0, <2>1, MoveEffect
  <2>4. /\ \A s \in Pipes : /\ pipe'[s].owner = pipe[s].owner
                            /\ pipe'[s].queue = pipe[s].queue
                            /\ pipe'[s].current = pipe[s].current
        /\ pipe'[p].trash = None /\ \A s \in Pipes : s # p => pipe'[s] = pipe[s]
    BY <1>0, <2>1, <2>2 DEF PipeType
  <2>5. Reading' /\ Halted'
    BY <1>0, <2>1, <2>3, <2>4 DEF PlaceInv, Halted, Reading, TypeInv, Located
  <2>6. Vacant'
    BY <1>0, <2>1, <2>4 DEF PlaceInv, Vacant
  <2>7. PutAside'
    BY <1>0, <2>1, <2>3, <2>4 DEF PlaceInv, PutAside
  <2>8. InHands'
    BY <1>0, <2>1, <2>3 DEF PlaceInv, InHands
  <2>9. Emptied'
    BY <1>0, <2>1, <2>3, <2>4 DEF PlaceInv, Emptied, TypeInv, Located
  <2> QED
    BY <2>5, <2>6, <2>7, <2>8, <2>9
<1>4. CASE ClosePipe
  <2>1. /\ task' = [task EXCEPT ![ES] = At("idle")] /\ task[ES].at = "close"
        /\ pipe' = [pipe EXCEPT ![p] = Closed] /\ UNCHANGED <<cleaned, forced>>
    BY <1>4 DEF ClosePipe
  <2>2. p \in Pipes /\ cleaned # None /\ pipe[p].owner = cleaned
    BY <2>1 DEF PlaceInv, RouteInv, Cleaning
  <2>3. /\ task'[ES].at = "idle" /\ task'[ES].buf = None
        /\ \A u \in Tasks : u # ES => task'[u] = task[u]
    BY <1>0, <2>1, SettleEffect
  <2>4. /\ pipe'[p].owner = None /\ pipe'[p].queue = <<>> /\ pipe'[p].current = None
        /\ pipe'[p].trash = None /\ \A s \in Pipes : s # p => pipe'[s] = pipe[s]
    BY <1>0, <2>1, <2>2 DEF Closed
  <2>5. ~forced => \A a \in Apps : task[a].at \in {"read", "took"} =>
          task[a].pipe \in Pipes /\ task[a].pipe # p
    BY <1>0, <2>1, EsReadsAlone DEF TypeInv, Located
  <2>6. Reading' /\ Halted'
    BY <1>0, <2>1, <2>3, <2>4, <2>5 DEF PlaceInv, Halted, Reading
  <2>7. Vacant'
    BY <1>0, <2>1, <2>4 DEF PlaceInv, Vacant
  <2>8. PutAside'
    BY <1>0, <2>1, <2>3, <2>4 DEF PlaceInv, PutAside
  <2>9. InHands'
    BY <1>0, <2>3 DEF PlaceInv, InHands
  <2>10. Emptied'
    BY <1>0, <2>1, <2>3, <2>4, <2>5 DEF PlaceInv, Emptied
  <2> QED
    BY <2>6, <2>7, <2>8, <2>9, <2>10
<1>5. CASE DeleteTask
  <2>1. /\ cleaned \in Apps /\ task' = [task EXCEPT ![cleaned] = At("idle")]
        /\ \A s \in Pipes : pipe[s].owner # cleaned
        /\ pipe' = pipe /\ task[ES].at = "idle" /\ cleaned' = None /\ forced' = forced
    BY <1>0, <1>5 DEF DeleteTask, NoPipesLeft
  <2>2. /\ task'[cleaned].at = "idle" /\ task'[cleaned].buf = None
        /\ \A u \in Tasks : u # cleaned => task'[u] = task[u]
    BY <1>0, <2>1, SettleEffect
  <2> QED
    BY <1>0, <2>1, <2>2 DEF PlaceInv, Halted, Reading, Vacant, PutAside, InHands, Emptied
<1>7. CASE ReleaseZeroCopy
  <2>1. UNCHANGED <<pipe, task, cleaned, forced>>
    BY <1>7 DEF ReleaseZeroCopy
  <2> QED
    BY <2>1 DEF PlaceInv, Halted, Reading, Vacant, PutAside, InHands, Emptied
<1>6. CASE Drain
  BY <1>0, <1>6, RcvPlaces DEF Drain
<1> QED
  BY <1>1, <1>2, <1>3, <1>4, <1>5, <1>6, <1>7 DEF CleanUp

LEMMA PlaceNext ==
  ASSUME PlaceInv, [SbNext]_sbVars
  PROVE  PlaceInv'
<1>0. RouteInv'
  BY RouteNext DEF PlaceInv
<1>1. ASSUME NEW m \in Msgs, NEW p \in Pipes, NEW on \in BOOLEAN, SetRoute(m, p, on)
      PROVE  UNCHANGED <<pipe, task, cleaned, forced>>
  BY <1>1 DEF SetRoute
<1>2. ASSUME UNCHANGED <<pipe, task, cleaned, forced>>
      PROVE  Halted' /\ Reading' /\ Vacant' /\ PutAside' /\ InHands' /\ Emptied'
  BY <1>2 DEF PlaceInv, Halted, Reading, Vacant, PutAside, InHands, Emptied
<1>3. ASSUME NEW a \in Apps, RcvMsg(a)
      PROVE  Halted' /\ Reading' /\ Vacant' /\ PutAside' /\ InHands' /\ Emptied'
  BY <1>3, RcvPlaces DEF RcvMsg, Calls, Tasks
<1>4. ASSUME UNCHANGED sbVars PROVE UNCHANGED <<pipe, task, cleaned, forced>>
  BY <1>4 DEF sbVars
<1> QED
  BY <1>0, <1>1, <1>2, <1>3, <1>4, AppPlaces, CleanUpPlaces DEF SbNext, Continue, PlaceInv
-----------------------------------------------------------------------------
\* Positions in a queue.

LEMMA PositionsFinite ==
  ASSUME NEW T, NEW q \in Seq(T), NEW S
  PROVE  IsFiniteSet(Positions(q, S)) /\ Positions(q, S) \subseteq 1 .. Len(q)
<1>1. IsFiniteSet(1 .. Len(q))
  BY FS_Interval
<1>2. Positions(q, S) \subseteq 1 .. Len(q)
  BY DEF Positions
<1> QED
  BY <1>1, <1>2, FS_Subset

LEMMA AppendPositions ==
  ASSUME NEW T, NEW q \in Seq(T), NEW b \in T, NEW S
  PROVE  Positions(Append(q, b), S)
           = Positions(q, S) \cup (IF b \in S THEN {Len(q) + 1} ELSE {})
  BY DEF Positions

LEMMA TailPositions ==
  ASSUME NEW T, NEW q \in Seq(T), q # <<>>, NEW S
  PROVE  /\ \A i : i \in Positions(Tail(q), S) <=> i \in 1 .. Len(q) /\ i + 1 \in Positions(q, S)
         /\ 1 \in Positions(q, S) <=> Head(q) \in S
  BY DEF Positions

\* The head of a queue leaves one position less for the sets it belongs to.
LEMMA TailCount ==
  ASSUME NEW T, NEW q \in Seq(T), q # <<>>, NEW S
  PROVE  Cardinality(Positions(Tail(q), S))
           = Cardinality(Positions(q, S)) - (IF Head(q) \in S THEN 1 ELSE 0)
<1> DEFINE from == Positions(q, S) \ {1}
<1> DEFINE to == Positions(Tail(q), S)
<1> DEFINE f == [i \in from |-> i - 1]
<1>1. IsFiniteSet(Positions(q, S)) /\ Positions(q, S) \subseteq 1 .. Len(q)
  BY PositionsFinite
<1>2. /\ \A i : i \in to <=> i \in 1 .. Len(q) /\ i + 1 \in Positions(q, S)
      /\ 1 \in Positions(q, S) <=> Head(q) \in S
  BY TailPositions
<1>3. f \in [from -> to]
  BY <1>1, <1>2
<1>4. \A i, j \in from : f[i] = f[j] => i = j
  BY <1>1
<1>5. \A j \in to : \E i \in from : f[i] = j
  <2> TAKE j \in to
  <2>1. j + 1 \in from /\ f[j + 1] = j
    BY <1>1, <1>2
  <2> QED
    BY <2>1
<1> HIDE DEF f
<1>6. f \in Bijection(from, to)
  BY <1>3, <1>4, <1>5 DEF Bijection, Injection, Surjection, IsInjective
<1>7. /\ IsFiniteSet(from)
      /\ Cardinality(from) = IF 1 \in Positions(q, S) THEN Cardinality(Positions(q, S)) - 1
                             ELSE Cardinality(Positions(q, S))
  BY <1>1, FS_RemoveElement
<1>8. Cardinality(to) = Cardinality(from)
  BY <1>6, <1>7, FS_Bijection DEF ExistsBijection
<1>9. Cardinality(Positions(q, S)) \in Nat
  BY <1>1, FS_CardinalityType
<1> QED
  BY <1>2, <1>7, <1>8, <1>9
-----------------------------------------------------------------------------
\* Holders.

QueuedAt(b, h) ==
  \E p \in Pipes : \E i \in Positions(pipe[p].queue, {b}) : h = <<"queue", p, i>>
CurrentAt(b, h) == \E p \in Pipes : pipe[p].current = b /\ h = <<"current", p, 0>>
TrashAt(b, h) == \E p \in Pipes : pipe[p].trash = b /\ h = <<"trash", p, 0>>
HandOf(b, h) == \E t \in Tasks : task[t].buf = b /\ h = <<"task", t, 0>>
HeldBy(b, h) == \E a \in Apps : b \in held[a] /\ h = <<"held", a, 0>>

LEMMA HolderOf ==
  ASSUME NEW b, NEW h
  PROVE  h \in Holders(b) <=> \/ QueuedAt(b, h) \/ CurrentAt(b, h) \/ TrashAt(b, h)
                              \/ HandOf(b, h) \/ HeldBy(b, h)
<1> DEFINE Q == UNION {{<<"queue", p, i>> : i \in Positions(pipe[p].queue, {b})} : p \in Pipes}
<1> DEFINE C == {<<"current", p, 0>> : p \in {p \in Pipes : pipe[p].current = b}}
<1> DEFINE R == {<<"trash", p, 0>> : p \in {p \in Pipes : pipe[p].trash = b}}
<1> DEFINE K == {<<"task", t, 0>> : t \in {t \in Tasks : task[t].buf = b}}
<1> DEFINE L == {<<"held", a, 0>> : a \in {a \in Apps : b \in held[a]}}
<1>1. h \in Q <=> QueuedAt(b, h)
  BY DEF QueuedAt
<1>2. h \in C <=> CurrentAt(b, h)
  BY DEF CurrentAt
<1>3. h \in R <=> TrashAt(b, h)
  BY DEF TrashAt
<1>4. h \in K <=> HandOf(b, h)
  BY DEF HandOf
<1>5. h \in L <=> HeldBy(b, h)
  BY DEF HeldBy
<1>6. Holders(b) = Q \cup C \cup R \cup K \cup L
  BY DEF Holders
<1> HIDE DEF Q, C, R, K, L
<1>7. h \in Holders(b) <=> h \in Q \/ h \in C \/ h \in R \/ h \in K \/ h \in L
  BY <1>6
<1> QED
  BY <1>1, <1>2, <1>3, <1>4, <1>5, <1>7

\* The same after a step.
LEMMA HolderOfNext ==
  ASSUME NEW b, NEW h
  PROVE  h \in Holders(b)' <=> \/ QueuedAt(b, h)' \/ CurrentAt(b, h)' \/ TrashAt(b, h)'
                               \/ HandOf(b, h)' \/ HeldBy(b, h)'
<1> DEFINE Q == UNION {{<<"queue", p, i>> : i \in Positions(pipe'[p].queue, {b})} : p \in Pipes}
<1> DEFINE C == {<<"current", p, 0>> : p \in {p \in Pipes : pipe'[p].current = b}}
<1> DEFINE R == {<<"trash", p, 0>> : p \in {p \in Pipes : pipe'[p].trash = b}}
<1> DEFINE K == {<<"task", t, 0>> : t \in {t \in Tasks : task'[t].buf = b}}
<1> DEFINE L == {<<"held", a, 0>> : a \in {a \in Apps : b \in held'[a]}}
<1>1. h \in Q <=> QueuedAt(b, h)'
  BY DEF QueuedAt
<1>2. h \in C <=> CurrentAt(b, h)'
  BY DEF CurrentAt
<1>3. h \in R <=> TrashAt(b, h)'
  BY DEF TrashAt
<1>4. h \in K <=> HandOf(b, h)'
  BY DEF HandOf
<1>5. h \in L <=> HeldBy(b, h)'
  BY DEF HeldBy
<1>6. Holders(b)' = Q \cup C \cup R \cup K \cup L
  BY DEF Holders
<1> HIDE DEF Q, C, R, K, L
<1>7. h \in Holders(b)' <=> h \in Q \/ h \in C \/ h \in R \/ h \in K \/ h \in L
  BY <1>6
<1> QED
  BY <1>1, <1>2, <1>3, <1>4, <1>5, <1>7

\* What a step may leave as it is.
LEMMA QueuedSame ==
  ASSUME NEW b, NEW h, \A p \in Pipes : pipe'[p].queue = pipe[p].queue
  PROVE  QueuedAt(b, h)' <=> QueuedAt(b, h)
  BY DEF QueuedAt

LEMMA CurrentSame ==
  ASSUME NEW b, NEW h, \A p \in Pipes : pipe'[p].current = pipe[p].current
  PROVE  CurrentAt(b, h)' <=> CurrentAt(b, h)
  BY DEF CurrentAt

LEMMA TrashSame ==
  ASSUME NEW b, NEW h, \A p \in Pipes : pipe'[p].trash = pipe[p].trash
  PROVE  TrashAt(b, h)' <=> TrashAt(b, h)
  BY DEF TrashAt

LEMMA HandSame ==
  ASSUME NEW b, NEW h, \A t \in Tasks : task'[t].buf = task[t].buf
  PROVE  HandOf(b, h)' <=> HandOf(b, h)
  BY DEF HandOf

LEMMA HeldSame ==
  ASSUME NEW b, NEW h, held' = held
  PROVE  HeldBy(b, h)' <=> HeldBy(b, h)
  BY DEF HeldBy

\* A holder is of one kind.
LEMMA Kinds ==
  ASSUME NEW b, NEW p, NEW i
  PROVE  /\ ~CurrentAt(b, <<"queue", p, i>>) /\ ~TrashAt(b, <<"queue", p, i>>)
         /\ ~HandOf(b, <<"queue", p, i>>) /\ ~HeldBy(b, <<"queue", p, i>>)
         /\ ~QueuedAt(b, <<"current", p, i>>) /\ ~TrashAt(b, <<"current", p, i>>)
         /\ ~HandOf(b, <<"current", p, i>>) /\ ~HeldBy(b, <<"current", p, i>>)
         /\ ~QueuedAt(b, <<"trash", p, i>>) /\ ~CurrentAt(b, <<"trash", p, i>>)
         /\ ~HandOf(b, <<"trash", p, i>>) /\ ~HeldBy(b, <<"trash", p, i>>)
         /\ ~QueuedAt(b, <<"task", p, i>>) /\ ~CurrentAt(b, <<"task", p, i>>)
         /\ ~TrashAt(b, <<"task", p, i>>) /\ ~HeldBy(b, <<"task", p, i>>)
         /\ ~QueuedAt(b, <<"held", p, i>>) /\ ~CurrentAt(b, <<"held", p, i>>)
         /\ ~TrashAt(b, <<"held", p, i>>) /\ ~HandOf(b, <<"held", p, i>>)
  BY DEF QueuedAt, CurrentAt, TrashAt, HandOf, HeldBy

LEMMA HolderKeys ==
  ASSUME NEW b, NEW k
  PROVE  /\ \A i : <<"queue", k, i>> \in Holders(b)
                     <=> k \in Pipes /\ i \in Positions(pipe[k].queue, {b})
         /\ <<"current", k, 0>> \in Holders(b) <=> k \in Pipes /\ pipe[k].current = b
         /\ <<"trash", k, 0>> \in Holders(b) <=> k \in Pipes /\ pipe[k].trash = b
         /\ <<"task", k, 0>> \in Holders(b) <=> k \in Tasks /\ task[k].buf = b
         /\ <<"held", k, 0>> \in Holders(b) <=> k \in Apps /\ b \in held[k]
<1>1. ASSUME NEW i
      PROVE  <<"queue", k, i>> \in Holders(b)
               <=> k \in Pipes /\ i \in Positions(pipe[k].queue, {b})
  <2>1. QueuedAt(b, <<"queue", k, i>>) <=> k \in Pipes /\ i \in Positions(pipe[k].queue, {b})
    BY DEF QueuedAt
  <2> QED
    BY <2>1, HolderOf, Kinds
<1>2. CurrentAt(b, <<"current", k, 0>>) <=> k \in Pipes /\ pipe[k].current = b
  BY DEF CurrentAt
<1>3. TrashAt(b, <<"trash", k, 0>>) <=> k \in Pipes /\ pipe[k].trash = b
  BY DEF TrashAt
<1>4. HandOf(b, <<"task", k, 0>>) <=> k \in Tasks /\ task[k].buf = b
  BY DEF HandOf
<1>5. HeldBy(b, <<"held", k, 0>>) <=> k \in Apps /\ b \in held[k]
  BY DEF HeldBy
<1>6. <<"current", k, 0>> \in Holders(b) <=> CurrentAt(b, <<"current", k, 0>>)
  BY HolderOf, Kinds
<1>7. <<"trash", k, 0>> \in Holders(b) <=> TrashAt(b, <<"trash", k, 0>>)
  BY HolderOf, Kinds
<1>8. <<"task", k, 0>> \in Holders(b) <=> HandOf(b, <<"task", k, 0>>)
  BY HolderOf, Kinds
<1>9. <<"held", k, 0>> \in Holders(b) <=> HeldBy(b, <<"held", k, 0>>)
  BY HolderOf, Kinds
<1> QED
  BY <1>1, <1>2, <1>3, <1>4, <1>5, <1>6, <1>7, <1>8, <1>9

LEMMA Exchange ==
  ASSUME NEW H, IsFiniteSet(H), NEW x \in H, NEW y, y \notin H
  PROVE  /\ IsFiniteSet((H \ {x}) \cup {y})
         /\ Cardinality((H \ {x}) \cup {y}) = Cardinality(H)
<1>1. IsFiniteSet(H \ {x}) /\ Cardinality(H \ {x}) = Cardinality(H) - 1
  BY FS_RemoveElement
<1>2. Cardinality(H) \in Nat
  BY FS_CardinalityType
<1> DEFINE G == H \ {x}
<1>3. y \notin G /\ IsFiniteSet(G) /\ Cardinality(G) = Cardinality(H) - 1
  BY <1>1
<1> HIDE DEF G
<1>4. IsFiniteSet(G \cup {y}) /\ Cardinality(G \cup {y}) = Cardinality(G) + 1
  BY <1>3, FS_AddElement
<1> QED
  BY <1>2, <1>3, <1>4 DEF G
-----------------------------------------------------------------------------
\* The use counts.

\* A buffer in use has a count, which is that of its holders: at least, where ES
\* has deleted a task that had not ended, and else exactly.
Tally(b) ==
  /\ IsFiniteSet(Holders(b))
  /\ IF b \in pool THEN Holders(b) = {}
     ELSE /\ buf[b].use > 0 /\ Cardinality(Holders(b)) <= buf[b].use
          /\ ~forced => Cardinality(Holders(b)) = buf[b].use

Counted == \A b \in Buffers : Tally(b)

\* A reserved buffer has been given to no one else.
Reserved == \A a \in Apps : \A b \in held[a] : b \notin pool /\ buf[b].use = 1

CountInv == PlaceInv /\ Counted /\ Reserved

\* The buffers that are queued or have just been read.
Underway ==
  {b \in Buffers : \/ \E p \in Pipes : Positions(pipe[p].queue, {b}) # {}
                   \/ \E t \in Tasks : task[t].at = "took" /\ task[t].buf = b}

\* What a step leaves alone.
Kept == \A b \in Underway : buf'[b].msg = buf[b].msg

LEMMA HeldAlone ==
  ASSUME CountInv, NEW a \in Apps, NEW b \in held[a]
  PROVE  b \in Buffers /\ Holders(b) = {<<"held", a, 0>>}
<1>1. b \in Buffers /\ TypeInv
  BY Types DEF CountInv, PlaceInv, RouteInv
<1>2. <<"held", a, 0>> \in Holders(b)
  BY HolderOf DEF HeldBy
<1>3. /\ IsFiniteSet(Holders(b)) /\ Cardinality(Holders(b)) <= 1
  BY <1>1 DEF CountInv, Counted, Tally, Reserved
<1>4. Cardinality(Holders(b)) \in Nat /\ Cardinality(Holders(b)) # 0
  BY <1>2, <1>3, FS_CardinalityType, FS_EmptySet
<1>5. Cardinality(Holders(b)) = 1
  BY <1>3, <1>4
<1>6. PICK x : Holders(b) = {x}
  BY <1>3, <1>5, FS_Singleton
<1> QED
  BY <1>1, <1>2, <1>6

\* A buffer underway has a holder of its own.
LEMMA UnderwayHolder ==
  ASSUME NEW b \in Underway
  PROVE  /\ b \in Buffers
         /\ \/ \E p \in Pipes : \E i \in Positions(pipe[p].queue, {b}) :
                 <<"queue", p, i>> \in Holders(b)
            \/ \E t \in Tasks : /\ task[t].at = "took" /\ task[t].buf = b
                                /\ <<"task", t, 0>> \in Holders(b)
  BY HolderOf DEF Underway, QueuedAt, HandOf

\* The step leaves n holders less to b: at least, and exactly while no task was
\* deleted by force.
Shed(b, n) ==
  /\ IsFiniteSet(Holders(b)')
  /\ Cardinality(Holders(b)') + n <= Cardinality(Holders(b))
  /\ ~forced' => Cardinality(Holders(b)') + n = Cardinality(Holders(b))

LEMMA ShedNone ==
  ASSUME CountInv, NEW b \in Buffers, IsFiniteSet(Holders(b)'),
         Cardinality(Holders(b)') = Cardinality(Holders(b))
  PROVE  Shed(b, 0)
<1>1. Cardinality(Holders(b)') \in Nat
  BY FS_CardinalityType
<1> QED
  BY <1>1 DEF Shed

LEMMA ShedOne ==
  ASSUME CountInv, NEW b \in Buffers, NEW x \in Holders(b), Holders(b)' = Holders(b) \ {x}
  PROVE  Shed(b, 1)
<1>1. IsFiniteSet(Holders(b))
  BY DEF CountInv, Counted, Tally
<1>2. IsFiniteSet(Holders(b)') /\ Cardinality(Holders(b)') = Cardinality(Holders(b)) - 1
  BY <1>1, FS_RemoveElement
<1>3. Cardinality(Holders(b)) \in Nat
  BY <1>1, FS_CardinalityType
<1> QED
  BY <1>2, <1>3 DEF Shed

\* The holders of a buffer are as many as before.
LEMMA TallySame ==
  ASSUME TypeInv, NEW b \in Buffers, Tally(b), Shed(b, 0), forced => forced',
         b \in pool' <=> b \in pool, b \notin pool => buf'[b].use = buf[b].use
  PROVE  Tally(b)'
<1>1. /\ IsFiniteSet(Holders(b)) /\ IsFiniteSet(Holders(b)')
      /\ Cardinality(Holders(b)') \in Nat /\ Cardinality(Holders(b)) \in Nat
      /\ buf[b].use \in Nat
  BY Types, FS_CardinalityType DEF BufType, Tally, Shed
<1>2. CASE b \in pool
  <2>1. Cardinality(Holders(b)) = 0
    BY <1>1, <1>2, FS_EmptySet DEF Tally
  <2>2. Cardinality(Holders(b)') = 0
    BY <1>1, <2>1 DEF Shed
  <2>3. Holders(b)' = {}
    BY <1>1, <2>2, FS_EmptySet
  <2> QED
    BY <1>1, <1>2, <2>3 DEF Tally
<1>3. CASE b \notin pool
  <2>1. b \notin pool' /\ buf'[b].use = buf[b].use
    BY <1>3
  <2>2. Cardinality(Holders(b)') <= Cardinality(Holders(b))
    BY <1>1 DEF Shed
  <2>3. buf[b].use > 0 /\ Cardinality(Holders(b)) <= buf[b].use
    BY <1>3 DEF Tally
  <2>4. ~forced' => Cardinality(Holders(b)') = buf[b].use
    BY <1>1, <1>3 DEF Tally, Shed
  <2>5. Cardinality(Holders(b)') <= buf[b].use
    BY <1>1, <2>2, <2>3
  <2> QED
    BY <1>1, <2>1, <2>3, <2>4, <2>5 DEF Tally
<1> QED
  BY <1>2, <1>3

\* One holder gives the buffer up.
LEMMA DropTally ==
  ASSUME TypeInv, NEW c \in Buffers, Tally(c), Drop(c), Holders(c) # {},
         Shed(c, 1), forced => forced'
  PROVE  /\ Tally(c)' /\ c \notin pool
         /\ buf[c].use > 1 => c \notin pool' /\ buf'[c].msg = buf[c].msg
<1>1. buf \in [Buffers -> BufType] /\ buf[c] \in BufType /\ buf[c].use \in Nat
  BY Types DEF BufType
<1>2. /\ IsFiniteSet(Holders(c)) /\ c \notin pool /\ buf[c].use > 0
      /\ Cardinality(Holders(c)) <= buf[c].use
      /\ ~forced => Cardinality(Holders(c)) = buf[c].use
  BY DEF Tally
<1>3. /\ Cardinality(Holders(c)) \in Nat /\ IsFiniteSet(Holders(c)')
      /\ Cardinality(Holders(c)') \in Nat
      /\ Cardinality(Holders(c)') = 0 => Holders(c)' = {}
  BY <1>2, FS_CardinalityType, FS_EmptySet DEF Shed
<1>4. /\ Cardinality(Holders(c)') <= buf[c].use - 1
      /\ ~forced' => Cardinality(Holders(c)') = buf[c].use - 1
  BY <1>1, <1>2, <1>3 DEF Shed
<1>5. CASE buf[c].use = 1
  <2>1. pool' = pool \cup {c}
    BY <1>2, <1>5, SbAssumption DEF Drop
  <2>2. Cardinality(Holders(c)') = 0
    BY <1>3, <1>4, <1>5
  <2> QED
    BY <1>2, <1>3, <1>5, <2>1, <2>2 DEF Tally
<1>6. CASE buf[c].use # 1
  <2>1. pool' = pool /\ buf' = [buf EXCEPT ![c] = [buf[c] EXCEPT !.use = @ - 1]]
    BY <1>2, <1>6, SbAssumption DEF Drop
  <2>2. buf'[c].use = buf[c].use - 1 /\ buf'[c].msg = buf[c].msg
    BY <1>1, <2>1 DEF BufType
  <2> QED
    BY <1>1, <1>2, <1>3, <1>4, <1>6, <2>1, <2>2 DEF Tally
<1> QED
  BY <1>5, <1>6

\* It leaves the other buffers alone.
LEMMA DropOthers ==
  ASSUME TypeInv, NEW c \in Buffers \cup {None}, Drop(c)
  PROVE  \A b \in Buffers : b # c => buf'[b] = buf[b] /\ (b \in pool' <=> b \in pool)
<1>1. buf \in [Buffers -> BufType]
  BY Types
<1> QED
  BY <1>1 DEF Drop

LEMMA TwoHolders ==
  ASSUME NEW H, IsFiniteSet(H), NEW x \in H, NEW y \in H, x # y
  PROVE  Cardinality(H) \in Nat /\ Cardinality(H) > 1
<1> DEFINE G == H \ {x}
<1>1. IsFiniteSet(G) /\ Cardinality(G) = Cardinality(H) - 1 /\ y \in G
  BY FS_RemoveElement
<1>2. Cardinality(H) \in Nat
  BY FS_CardinalityType
<1>3. Cardinality(G) \in Nat /\ Cardinality(G) # 0
  BY <1>1, FS_CardinalityType, FS_EmptySet
<1> QED
  BY <1>1, <1>2, <1>3

\* Buffers that change hands, if at all.
LEMMA MovedCounts ==
  ASSUME CountInv, UNCHANGED <<buf, pool, held>>, forced => forced',
         \A b \in Buffers : Shed(b, 0)
  PROVE  Counted' /\ Reserved' /\ Kept
<1>1. Counted'
  BY TallySame DEF CountInv, PlaceInv, RouteInv, Counted
<1>2. Reserved' /\ Kept
  BY DEF CountInv, Reserved, Kept
<1> QED
  BY <1>1, <1>2

LEMMA SameHolders ==
  ASSUME NEW b,
         \A p \in Pipes : /\ pipe'[p].queue = pipe[p].queue
                          /\ pipe'[p].current = pipe[p].current
                          /\ pipe'[p].trash = pipe[p].trash,
         \A t \in Tasks : task'[t].buf = task[t].buf,
         held' = held
  PROVE  Holders(b)' = Holders(b)
<1>1. ASSUME NEW h PROVE h \in Holders(b)' <=> h \in Holders(b)
  BY HolderOf, HolderOfNext, QueuedSame, CurrentSame, TrashSame, HandSame, HeldSame
<1> QED
  BY <1>1

LEMMA QuietCounts ==
  ASSUME CountInv, UNCHANGED <<buf, pool, held>>, forced => forced',
         \A p \in Pipes : /\ pipe'[p].queue = pipe[p].queue
                          /\ pipe'[p].current = pipe[p].current
                          /\ pipe'[p].trash = pipe[p].trash,
         \A t \in Tasks : task'[t].buf = task[t].buf
  PROVE  Counted' /\ Reserved' /\ Kept
<1>1. \A b \in Buffers : Holders(b)' = Holders(b) /\ IsFiniteSet(Holders(b))
  BY SameHolders DEF CountInv, Counted, Tally
<1>2. \A b \in Buffers : Shed(b, 0)
  BY <1>1, ShedNone
<1> QED
  BY <1>2, MovedCounts

\* Buffers that go with a task deleted by force, or with a pipe it had written to
\* since it was closed.
LEMMA LostCounts ==
  ASSUME CountInv, UNCHANGED <<buf, pool, held, forced>>,
         \A p \in Pipes : /\ pipe'[p].queue = pipe[p].queue
                          /\ \/ pipe'[p].current = pipe[p].current
                             \/ forced /\ pipe'[p].current = None
                          /\ pipe'[p].trash = pipe[p].trash,
         \A t \in Tasks : \/ task'[t].buf = task[t].buf
                          \/ forced /\ task'[t].buf = None
  PROVE  Counted' /\ Reserved' /\ Kept
<1>1. ASSUME ~forced
      PROVE  Counted' /\ Reserved' /\ Kept
  BY <1>1, QuietCounts
<1>2. ASSUME forced
      PROVE  Counted' /\ Reserved' /\ Kept
  <2>1. ASSUME NEW b \in Buffers PROVE Shed(b, 0)
    <3>0. b # None
      BY SbAssumption
    <3>1. ASSUME NEW h \in Holders(b)' PROVE h \in Holders(b)
      <4>1. CurrentAt(b, h)' => CurrentAt(b, h)
        BY <3>0 DEF CurrentAt
      <4>2. HandOf(b, h)' => HandOf(b, h)
        BY <3>0 DEF HandOf
      <4>3. /\ QueuedAt(b, h)' <=> QueuedAt(b, h)
            /\ TrashAt(b, h)' <=> TrashAt(b, h)
            /\ HeldBy(b, h)' <=> HeldBy(b, h)
        BY QueuedSame, TrashSame, HeldSame
      <4>4. \/ QueuedAt(b, h)' \/ CurrentAt(b, h)' \/ TrashAt(b, h)'
            \/ HandOf(b, h)' \/ HeldBy(b, h)'
        BY <3>1, HolderOfNext
      <4> QED
        BY <4>1, <4>2, <4>3, <4>4, HolderOf
    <3>2. IsFiniteSet(Holders(b)) /\ Holders(b)' \subseteq Holders(b)
      BY <3>1 DEF CountInv, Counted, Tally
    <3>3. IsFiniteSet(Holders(b)') /\ Cardinality(Holders(b)') <= Cardinality(Holders(b))
      BY <3>2, FS_Subset
    <3>4. Cardinality(Holders(b)') \in Nat
      BY <3>3, FS_CardinalityType
    <3> QED
      BY <1>2, <3>3, <3>4 DEF Shed
  <2> QED
    BY <2>1, MovedCounts
<1> QED
  BY <1>1, <1>2

\* The holder x of c gives it up.
LEMMA DropCounts ==
  ASSUME CountInv, NEW c \in Buffers, Drop(c), held' = held, forced => forced',
         NEW x \in Holders(c), \A a \in Apps : x # <<"held", a, 0>>,
         c \in Underway => \E y \in Holders(c) : y # x,
         Shed(c, 1), \A b \in Buffers \ {c} : Shed(b, 0)
  PROVE  Counted' /\ Reserved' /\ Kept
<1>1. TypeInv /\ \A b \in Buffers : Tally(b)
  BY DEF CountInv, PlaceInv, RouteInv, Counted
<1>2. \A b \in Buffers : b # c => buf'[b] = buf[b] /\ (b \in pool' <=> b \in pool)
  BY <1>1, DropOthers
<1>3. /\ Tally(c)' /\ c \notin pool
      /\ buf[c].use > 1 => c \notin pool' /\ buf'[c].msg = buf[c].msg
  BY <1>1, DropTally
<1>4. \A b \in Buffers : b # c => Tally(b)'
  BY <1>1, <1>2, TallySame
<1>5. \A a \in Apps : \A b \in held[a] : b \in Buffers /\ b # c
  BY HeldAlone
<1>6. Reserved'
  BY <1>2, <1>5 DEF CountInv, Reserved
<1>7. c \in Underway => buf'[c].msg = buf[c].msg
  <2> HAVE c \in Underway
  <2>1. PICK y \in Holders(c) : y # x
    OBVIOUS
  <2>2. IsFiniteSet(Holders(c)) /\ Cardinality(Holders(c)) <= buf[c].use
    BY <1>1, <1>3 DEF Tally
  <2>3. Cardinality(Holders(c)) \in Nat /\ Cardinality(Holders(c)) > 1
    BY <2>1, <2>2, TwoHolders
  <2>4. buf[c].use \in Nat
    BY <1>1, Types DEF BufType
  <2> QED
    BY <1>3, <2>2, <2>3, <2>4
<1>8. Kept
  BY <1>2, <1>7 DEF Kept, Underway
<1> QED
  BY <1>3, <1>4, <1>6, <1>8 DEF Counted

\* A receive starts: the current buffer is put aside.
LEMMA StartRcvCounts ==
  ASSUME CountInv, NEW t \in Tasks, NEW p \in Pipes, NEW from, StartRcv(t, p, from),
         pipe[p].trash = None, task[t].buf = None
  PROVE  Counted' /\ Reserved' /\ Kept
<1> DEFINE x == <<"current", p, 0>>
<1> DEFINE y == <<"trash", p, 0>>
<1>1. /\ \A q \in Pipes : pipe'[q].queue = pipe[q].queue
      /\ pipe'[p].current = None /\ pipe'[p].trash = pipe[p].current
      /\ \A q \in Pipes : q # p => pipe'[q] = pipe[q]
      /\ task'[t].buf = None
      /\ \A u \in Tasks : u # t => task'[u] = task[u]
      /\ UNCHANGED <<buf, pool, held, forced>>
  BY StartRcvEffect DEF StartRcv, CountInv, PlaceInv, RouteInv
<1>2. ASSUME NEW b \in Buffers
      PROVE  /\ IsFiniteSet(Holders(b)')
             /\ Cardinality(Holders(b)') = Cardinality(Holders(b))
  <2>0. b # None /\ IsFiniteSet(Holders(b))
    BY SbAssumption DEF CountInv, Counted, Tally
  <2>1. CASE pipe[p].current = b
    <3>1. x \in Holders(b) /\ y \notin Holders(b)
      BY <2>0, <2>1, HolderKeys
    <3>3. ASSUME NEW h PROVE h \in Holders(b)' <=> (h \in Holders(b) /\ h # x) \/ h = y
      <4>1. CurrentAt(b, h)' <=> CurrentAt(b, h) /\ h # x
        BY <1>1, <2>0 DEF CurrentAt
      <4>2. TrashAt(b, h)' <=> TrashAt(b, h) \/ h = y
        BY <1>1, <2>0, <2>1 DEF TrashAt
      <4>3. /\ QueuedAt(b, h)' <=> QueuedAt(b, h)
            /\ HandOf(b, h)' <=> HandOf(b, h)
            /\ HeldBy(b, h)' <=> HeldBy(b, h)
        BY <1>1, QueuedSame, HandSame, HeldSame
      <4> QED
        BY <4>1, <4>2, <4>3, HolderOf, HolderOfNext, Kinds
    <3>4. Holders(b)' = (Holders(b) \ {x}) \cup {y}
      BY <3>3
    <3> HIDE DEF x, y
    <3> QED
      BY <2>0, <3>1, <3>4, Exchange
  <2>2. CASE pipe[p].current # b
    <3>1. ASSUME NEW h PROVE h \in Holders(b)' <=> h \in Holders(b)
      <4>1. CurrentAt(b, h)' <=> CurrentAt(b, h)
        BY <1>1, <2>0, <2>2 DEF CurrentAt
      <4>2. TrashAt(b, h)' <=> TrashAt(b, h)
        BY <1>1, <2>0, <2>2 DEF TrashAt
      <4>3. /\ QueuedAt(b, h)' <=> QueuedAt(b, h)
            /\ HandOf(b, h)' <=> HandOf(b, h)
            /\ HeldBy(b, h)' <=> HeldBy(b, h)
        BY <1>1, QueuedSame, HandSame, HeldSame
      <4> QED
        BY <4>1, <4>2, <4>3, HolderOf, HolderOfNext
    <3>2. Holders(b)' = Holders(b)
      BY <3>1
    <3> QED
      BY <2>0, <3>2
  <2> QED
    BY <2>1, <2>2
<1>3. \A b \in Buffers : Shed(b, 0)
  BY <1>2, ShedNone
<1> QED
  BY <1>1, <1>3, MovedCounts

\* The queue is read: its head comes into the hands of the task.
LEMMA ReadQueueCounts ==
  ASSUME CountInv, NEW t \in Tasks, ReadQueue(t)
  PROVE  Counted' /\ Reserved' /\ Kept
<1> DEFINE p == task[t].pipe
<1> DEFINE q == pipe[p].queue
<1>1. /\ task[t].at = "read" /\ p \in Pipes /\ q \in Seq(Buffers)
      /\ \A u \in Tasks : u # t => task'[u] = task[u]
      /\ \A s \in Pipes : s # p => pipe'[s] = pipe[s]
      /\ \A s \in Pipes : /\ pipe'[s].current = pipe[s].current
                          /\ pipe'[s].trash = pipe[s].trash
      /\ IF Keeps(t) /\ q # <<>>
         THEN task'[t].buf = Head(q) /\ pipe'[p].queue = Tail(q)
         ELSE pipe' = pipe /\ task'[t].buf = task[t].buf
  BY ReadQueueEffect DEF CountInv, PlaceInv, RouteInv
<1>2. UNCHANGED <<buf, pool, held, forced>> /\ task[t].buf = None
  BY <1>1 DEF ReadQueue, CountInv, PlaceInv, InHands
<1>3. CASE ~(Keeps(t) /\ q # <<>>)
  BY <1>1, <1>2, <1>3, QuietCounts
<1>4. ASSUME Keeps(t), q # <<>>, NEW b \in Buffers
      PROVE  /\ IsFiniteSet(Holders(b)')
             /\ Cardinality(Holders(b)') = Cardinality(Holders(b))
  <2> DEFINE H == Holders(b)
  <2> DEFINE new == <<"task", t, 0>>
  <2>0. b # None /\ IsFiniteSet(H)
    BY SbAssumption DEF CountInv, Counted, Tally
  <2>1. new \notin H
    BY <1>2, <2>0, HolderKeys
  <2>2. /\ \A i : i \in Positions(Tail(q), {b}) <=> i \in 1 .. Len(q) /\ i + 1 \in Positions(q, {b})
        /\ 1 \in Positions(q, {b}) <=> Head(q) = b
        /\ Positions(q, {b}) \subseteq 1 .. Len(q) /\ Len(q) \in Nat
    BY <1>1, <1>4, TailPositions, PositionsFinite
  <2>3. ASSUME NEW h
        PROVE  h \in Holders(b)' <=>
                 \/ h \in H /\ ~\E i : h = <<"queue", p, i>>
                 \/ \E i \in 1 .. Len(q) : h = <<"queue", p, i>> /\ <<"queue", p, i + 1>> \in H
                 \/ h = new /\ <<"queue", p, 1>> \in H
    <3>1. HandOf(b, h)' <=> HandOf(b, h) \/ (h = new /\ Head(q) = b)
      BY <1>1, <1>2, <1>4, <2>0 DEF HandOf
    <3>2. QueuedAt(b, h)' <=>
            \/ QueuedAt(b, h) /\ ~\E i : h = <<"queue", p, i>>
            \/ \E i \in Positions(Tail(q), {b}) : h = <<"queue", p, i>>
      <4>1. /\ \A s \in Pipes : s # p => pipe'[s].queue = pipe[s].queue
            /\ pipe'[p].queue = Tail(q)
        BY <1>1, <1>4
      <4>2. QueuedAt(b, h)' => \/ QueuedAt(b, h) /\ ~\E i : h = <<"queue", p, i>>
                               \/ \E i \in Positions(Tail(q), {b}) : h = <<"queue", p, i>>
        BY <4>1 DEF QueuedAt
      <4>3. (\E i \in Positions(Tail(q), {b}) : h = <<"queue", p, i>>) => QueuedAt(b, h)'
        BY <1>1, <4>1 DEF QueuedAt
      <4>4. QueuedAt(b, h) /\ (~\E i : h = <<"queue", p, i>>) => QueuedAt(b, h)'
        BY <4>1 DEF QueuedAt
      <4> QED
        BY <4>2, <4>3, <4>4
    <3>3. /\ CurrentAt(b, h)' <=> CurrentAt(b, h)
          /\ TrashAt(b, h)' <=> TrashAt(b, h)
          /\ HeldBy(b, h)' <=> HeldBy(b, h)
      BY <1>1, <1>2, CurrentSame, TrashSame, HeldSame
    <3>4. \A i : <<"queue", p, i>> \in H <=> i \in Positions(q, {b})
      BY <1>1, HolderKeys
    <3>5. (\E i : h = <<"queue", p, i>>) =>
             ~CurrentAt(b, h) /\ ~TrashAt(b, h) /\ ~HandOf(b, h) /\ ~HeldBy(b, h)
      BY Kinds
    <3>6. CASE \E i : h = <<"queue", p, i>>
      <4>1. PICK i : h = <<"queue", p, i>>
        BY <3>6
      <4>2. h # new
        BY <4>1
      <4>3. h \in Holders(b)' <=> QueuedAt(b, h)'
        BY <3>1, <3>3, <3>5, <3>6, <4>2, HolderOfNext
      <4>4. QueuedAt(b, h)' <=> i \in Positions(Tail(q), {b})
        BY <3>2, <4>1
      <4>5. i \in Positions(Tail(q), {b}) <=> i \in 1 .. Len(q) /\ <<"queue", p, i + 1>> \in H
        BY <2>2, <3>4
      <4>6. (\E j \in 1 .. Len(q) : h = <<"queue", p, j>> /\ <<"queue", p, j + 1>> \in H)
              <=> i \in 1 .. Len(q) /\ <<"queue", p, i + 1>> \in H
        BY <4>1
      <4> QED
        BY <3>6, <4>2, <4>3, <4>4, <4>5, <4>6
    <3>7. CASE ~\E i : h = <<"queue", p, i>>
      <4>1. QueuedAt(b, h)' <=> QueuedAt(b, h)
        BY <3>2, <3>7
      <4>2. <<"queue", p, 1>> \in H <=> Head(q) = b
        BY <2>2, <3>4
      <4>3. h \in Holders(b)' <=> h \in H \/ (h = new /\ Head(q) = b)
        BY <3>1, <3>3, <4>1, HolderOf, HolderOfNext
      <4> QED
        BY <3>7, <4>2, <4>3
    <3> QED
      BY <3>6, <3>7
  <2> DEFINE H2 == Holders(b)'
  <2> DEFINE To(h, k) == \/ h = <<"queue", p, 1>> /\ k = new
                         \/ \E i \in 2 .. Len(q) : h = <<"queue", p, i>> /\ k = <<"queue", p, i - 1>>
                         \/ (~\E i : h = <<"queue", p, i>>) /\ k = h
  <2>4. \A i : <<"queue", p, i>> \in H => i \in 1 .. Len(q)
    BY <2>2, HolderKeys
  <2> HIDE DEF H, H2, new
  <2>5. ASSUME NEW h \in H
        PROVE  \E k \in H2 : To(h, k)
    <3>1. CASE \E i : h = <<"queue", p, i>>
      <4>1. PICK i : h = <<"queue", p, i>>
        BY <3>1
      <4>2. i \in 1 .. Len(q)
        BY <2>4, <2>5, <4>1
      <4>3. CASE i = 1
        BY <2>3, <2>5, <4>1, <4>3 DEF H2
      <4>4. CASE i # 1
        <5>1. i \in 2 .. Len(q) /\ i - 1 \in 1 .. Len(q) /\ (i - 1) + 1 = i
          BY <2>2, <4>2, <4>4
        <5>2. <<"queue", p, i - 1>> \in H2
          BY <2>3, <2>5, <4>1, <5>1 DEF H2
        <5> QED
          BY <4>1, <5>1, <5>2
      <4> QED
        BY <4>3, <4>4
    <3>2. CASE ~\E i : h = <<"queue", p, i>>
      BY <2>3, <2>5, <3>2 DEF H2
    <3> QED
      BY <3>1, <3>2
  <2>6. ASSUME NEW k \in H2
        PROVE  \E h \in H : To(h, k)
    <3>1. CASE \E i \in 1 .. Len(q) : k = <<"queue", p, i>> /\ <<"queue", p, i + 1>> \in H
      <4>1. PICK i \in 1 .. Len(q) : k = <<"queue", p, i>> /\ <<"queue", p, i + 1>> \in H
        BY <3>1
      <4>2. i + 1 \in 2 .. Len(q) /\ (i + 1) - 1 = i
        BY <2>2, <2>4, <4>1
      <4> QED
        BY <4>1, <4>2
    <3>2. CASE k = new /\ <<"queue", p, 1>> \in H
      BY <3>2
    <3>3. CASE k \in H /\ ~\E i : k = <<"queue", p, i>>
      BY <3>3
    <3> QED
      BY <2>3, <2>6, <3>1, <3>2, <3>3 DEF H2
  <2>7. \A i : new # <<"queue", p, i>>
    BY DEF new
  <2>8. ASSUME NEW h \in H, NEW g \in H, NEW k \in H2, To(h, k), To(g, k)
        PROVE  h = g
    <3>1. CASE k = new
      BY <2>1, <2>7, <2>8, <3>1
    <3>2. CASE \E i : k = <<"queue", p, i>>
      BY <2>2, <2>7, <2>8, <3>2
    <3>3. CASE k # new /\ ~\E i : k = <<"queue", p, i>>
      BY <2>8, <3>3
    <3> QED
      BY <3>1, <3>2, <3>3
  <2>9. ASSUME NEW h \in H, NEW k \in H2, NEW l \in H2, To(h, k), To(h, l)
        PROVE  k = l
    BY <2>2, <2>9
  <2> HIDE DEF To
  <2> DEFINE f == [h \in H |-> CHOOSE k \in H2 : To(h, k)]
  <2>10. f \in [H -> H2] /\ \A h \in H : To(h, f[h])
    BY <2>5
  <2> HIDE DEF f
  <2>11. \A k \in H2 : \E h \in H : f[h] = k
    BY <2>6, <2>9, <2>10
  <2>12. f \in Bijection(H, H2)
    BY <2>8, <2>10, <2>11 DEF Bijection, Injection, Surjection, IsInjective
  <2>13. IsFiniteSet(H2) /\ Cardinality(H2) = Cardinality(H)
    BY <2>0, <2>12, FS_Bijection DEF ExistsBijection
  <2> QED
    BY <2>13 DEF H, H2
<1>5. CASE Keeps(t) /\ q # <<>>
  <2>1. \A b \in Buffers : Shed(b, 0)
    BY <1>4, <1>5, ShedNone
  <2> QED
    BY <1>2, <2>1, MovedCounts
<1> QED
  BY <1>3, <1>5

\* A holder x that was neither queued nor read leaves the buffer underway to
\* another one.
LEMMA UnderwayElsewhere ==
  ASSUME NEW c \in Underway, NEW x, \A k, i : x # <<"queue", k, i>>,
         \A t \in Tasks : x = <<"task", t, 0>> => task[t].at # "took"
  PROVE  \E y \in Holders(c) : y # x
<1>1. CASE \E p \in Pipes : \E i \in Positions(pipe[p].queue, {c}) :
             <<"queue", p, i>> \in Holders(c)
  <2>1. PICK p \in Pipes : \E i \in Positions(pipe[p].queue, {c}) :
               <<"queue", p, i>> \in Holders(c)
    BY <1>1
  <2>2. PICK i \in Positions(pipe[p].queue, {c}) : <<"queue", p, i>> \in Holders(c)
    BY <2>1
  <2> QED
    BY <2>2
<1>2. CASE \E t \in Tasks : /\ task[t].at = "took" /\ task[t].buf = c
                            /\ <<"task", t, 0>> \in Holders(c)
  <2>1. PICK t \in Tasks : task[t].at = "took" /\ <<"task", t, 0>> \in Holders(c)
    BY <1>2
  <2> QED
    BY <2>1
<1> QED
  BY <1>1, <1>2, UnderwayHolder

\* A receive ends: the buffer put aside is dropped, the one read is current.
LEMMA EndRcvCounts ==
  ASSUME CountInv, NEW t \in Tasks, NEW next, EndRcv(t, next)
  PROVE  Counted' /\ Reserved' /\ Kept
<1> DEFINE p == task[t].pipe
<1> DEFINE b == task[t].buf
<1> DEFINE x == <<"trash", p, 0>>
<1> DEFINE y == <<"task", t, 0>>
<1> DEFINE z == <<"current", p, 0>>
<1>0. PICK c : c = pipe[p].trash
  OBVIOUS
<1>1. /\ task[t].at = "took" /\ p \in Pipes /\ b \in Buffers \cup {None}
      /\ c \in Buffers \cup {None} /\ task'[t].buf = None
      /\ \A u \in Tasks : u # t => task'[u] = task[u]
      /\ \A s \in Pipes : pipe'[s].queue = pipe[s].queue
      /\ pipe'[p].current = (IF b = None THEN pipe[p].current ELSE b)
      /\ pipe'[p].trash = None
      /\ \A s \in Pipes : s # p => pipe'[s] = pipe[s]
  BY <1>0, EndRcvEffect DEF CountInv, PlaceInv, RouteInv
<1>2. held' = held /\ forced' = forced /\ Drop(c)
  BY <1>0 DEF EndRcv
<1>3. forced \/ pipe[p].current = None
  BY <1>1 DEF CountInv, PlaceInv, Emptied
<1>4. ASSUME NEW e \in Buffers
      PROVE  \E G : /\ IsFiniteSet(G) /\ Cardinality(G) <= Cardinality(Holders(e))
                    /\ forced \/ Cardinality(G) = Cardinality(Holders(e))
                    /\ Holders(e)' = G \ {x} /\ (x \in G <=> c = e)
  <2> DEFINE H == Holders(e)
  <2>0. e # None /\ IsFiniteSet(H) /\ Cardinality(H) \in Nat
    BY SbAssumption, FS_CardinalityType DEF CountInv, Counted, Tally
  <2>1. /\ x \in H <=> c = e
        /\ y \in H <=> b = e
        /\ forced \/ z \notin H
    BY <1>0, <1>1, <1>3, <2>0, HolderKeys
  <2>2. ASSUME NEW h
        PROVE  h \in Holders(e)' <=> \/ h \in H /\ h # x /\ h # y /\ (h # z \/ b = None)
                                     \/ h = z /\ b = e
    <3>1. CurrentAt(e, h)' <=> \/ CurrentAt(e, h) /\ (h # z \/ b = None)
                               \/ h = z /\ b = e
      BY <1>1, <2>0 DEF CurrentAt
    <3>2. TrashAt(e, h)' <=> TrashAt(e, h) /\ h # x
      BY <1>0, <1>1, <2>0 DEF TrashAt
    <3>3. HandOf(e, h)' <=> HandOf(e, h) /\ h # y
      BY <1>1, <2>0 DEF HandOf
    <3>4. /\ QueuedAt(e, h)' <=> QueuedAt(e, h)
          /\ HeldBy(e, h)' <=> HeldBy(e, h)
      BY <1>1, <1>2, QueuedSame, HeldSame
    <3> QED
      BY <3>1, <3>2, <3>3, <3>4, HolderOf, HolderOfNext, Kinds
  <2>3. x # y /\ x # z /\ y # z
    OBVIOUS
  <2> HIDE DEF H, x, y, z
  <2>4. CASE b = e
    <3> DEFINE G == (H \ {y}) \cup {z}
    <3>1. Holders(e)' = G \ {x} /\ (x \in G <=> c = e)
      BY <2>0, <2>1, <2>2, <2>3, <2>4
    <3>2. CASE z \notin H
      <4>1. IsFiniteSet(G) /\ Cardinality(G) = Cardinality(H)
        BY <2>0, <2>1, <2>4, <3>2, Exchange
      <4> QED
        BY <2>0, <3>1, <4>1 DEF H
    <3>3. CASE z \in H
      <4>1. G = H \ {y} /\ forced /\ y \in H
        BY <2>1, <2>3, <2>4, <3>3
      <4>2. IsFiniteSet(G) /\ Cardinality(G) = Cardinality(H) - 1
        BY <2>0, <4>1, FS_RemoveElement
      <4> QED
        BY <2>0, <3>1, <4>1, <4>2 DEF H
    <3> QED
      BY <3>2, <3>3
  <2>5. CASE b # e
    <3> DEFINE G == IF b = None THEN H ELSE H \ {z}
    <3>1. Holders(e)' = G \ {x} /\ (x \in G <=> c = e)
      BY <2>1, <2>2, <2>3, <2>5
    <3>2. CASE G = H
      BY <2>0, <3>1, <3>2 DEF H
    <3>3. CASE G # H
      <4>1. G = H \ {z} /\ z \in H /\ forced
        BY <2>1, <3>3
      <4>2. IsFiniteSet(G) /\ Cardinality(G) = Cardinality(H) - 1
        BY <2>0, <4>1, FS_RemoveElement
      <4> QED
        BY <2>0, <3>1, <4>1, <4>2 DEF H
    <3> QED
      BY <3>2, <3>3
  <2> QED
    BY <2>4, <2>5
<1> HIDE DEF x, y, z
<1>5. ASSUME NEW e \in Buffers
      PROVE  IF e = c THEN Shed(e, 1) ELSE Shed(e, 0)
  <2>1. PICK G : /\ IsFiniteSet(G) /\ Cardinality(G) <= Cardinality(Holders(e))
                 /\ forced \/ Cardinality(G) = Cardinality(Holders(e))
                 /\ Holders(e)' = G \ {x} /\ (x \in G <=> c = e)
    BY <1>4
  <2>2. Cardinality(G) \in Nat /\ Cardinality(Holders(e)) \in Nat
    BY <2>1, FS_CardinalityType DEF CountInv, Counted, Tally
  <2>3. CASE e = c
    <3>1. IsFiniteSet(Holders(e)') /\ Cardinality(Holders(e)') = Cardinality(G) - 1
      BY <2>1, <2>3, FS_RemoveElement
    <3> QED
      BY <1>2, <2>1, <2>2, <2>3, <3>1 DEF Shed
  <2>4. CASE e # c
    <3>1. Holders(e)' = G
      BY <2>1, <2>4
    <3> QED
      BY <1>2, <2>1, <2>2, <2>4, <3>1 DEF Shed
  <2> QED
    BY <2>3, <2>4
<1>6. CASE c = None
  <2>1. UNCHANGED <<buf, pool>>
    BY <1>2, <1>6 DEF Drop
  <2>2. \A e \in Buffers : e # c
    BY <1>6, SbAssumption
  <2>3. \A e \in Buffers : Shed(e, 0)
    BY <1>5, <2>2
  <2> QED
    BY <1>2, <2>1, <2>3, MovedCounts
<1>7. CASE c \in Buffers
  <2>1. Shed(c, 1) /\ \A e \in Buffers \ {c} : Shed(e, 0)
    BY <1>5, <1>7
  <2>3. x \in Holders(c)
    BY <1>0, <1>1, <1>7, HolderKeys DEF x
  <2>4. /\ \A k, i : x # <<"queue", k, i>>
        /\ \A u \in Tasks : x = <<"task", u, 0>> => task[u].at # "took"
        /\ \A a \in Apps : x # <<"held", a, 0>>
    BY DEF x
  <2>5. ASSUME c \in Underway PROVE \E w \in Holders(c) : w # x
    BY <2>4, <2>5, UnderwayElsewhere
  <2> QED
    BY <1>2, <1>7, <2>1, <2>3, <2>4, <2>5, DropCounts
<1> QED
  BY <1>1, <1>6, <1>7

\* ES drops the buffer an application had put aside.
LEMMA DeleteTrashCounts ==
  ASSUME CountInv, DeleteTrash
  PROVE  Counted' /\ Reserved' /\ Kept
<1> DEFINE p == task[ES].pipe
<1> DEFINE x == <<"trash", p, 0>>
<1>1. /\ TypeInv /\ ES \in Tasks /\ task[ES].at = "routes" /\ p \in Pipes
      /\ pipe \in [Pipes -> PipeType]
  BY Types DEF DeleteTrash, CountInv, PlaceInv, RouteInv, TypeInv, Located, Tasks
<1>0. PICK c : c = pipe[p].trash
  OBVIOUS
<1>2. /\ Drop(c) /\ UNCHANGED <<held, forced>> /\ task' = [task EXCEPT ![ES].at = "drain"]
      /\ pipe' = [pipe EXCEPT ![p].trash = None] /\ c \in Buffers \cup {None}
  BY <1>0, <1>1 DEF DeleteTrash, PipeType
<1>3. /\ \A s \in Pipes : /\ pipe'[s].queue = pipe[s].queue
                          /\ pipe'[s].current = pipe[s].current
      /\ pipe'[p].trash = None /\ \A s \in Pipes : s # p => pipe'[s] = pipe[s]
  BY <1>1, <1>2 DEF PipeType
<1>4. \A u \in Tasks : task'[u].buf = task[u].buf
  BY <1>1, <1>2, MoveEffect
<1>5. ASSUME NEW e \in Buffers
      PROVE  /\ IsFiniteSet(Holders(e)) /\ Holders(e)' = Holders(e) \ {x}
             /\ (x \in Holders(e) <=> c = e)
  <2>0. e # None /\ IsFiniteSet(Holders(e))
    BY SbAssumption DEF CountInv, Counted, Tally
  <2>1. x \in Holders(e) <=> c = e
    BY <1>0, <1>1, HolderKeys
  <2>2. ASSUME NEW h
        PROVE  h \in Holders(e)' <=> h \in Holders(e) /\ h # x
    <3>1. TrashAt(e, h)' <=> TrashAt(e, h) /\ h # x
      BY <1>0, <1>1, <1>3, <2>0 DEF TrashAt
    <3>2. /\ QueuedAt(e, h)' <=> QueuedAt(e, h)
          /\ CurrentAt(e, h)' <=> CurrentAt(e, h)
          /\ HandOf(e, h)' <=> HandOf(e, h)
          /\ HeldBy(e, h)' <=> HeldBy(e, h)
      BY <1>2, <1>3, <1>4, QueuedSame, CurrentSame, HandSame, HeldSame
    <3> QED
      BY <3>1, <3>2, HolderOf, HolderOfNext, Kinds
  <2> QED
    BY <2>0, <2>1, <2>2
<1> HIDE DEF x
<1>6. \A e \in Buffers \ {c} : Shed(e, 0)
  <2> TAKE e \in Buffers \ {c}
  <2>1. Holders(e)' = Holders(e) /\ IsFiniteSet(Holders(e))
    BY <1>5
  <2> QED
    BY <2>1, ShedNone
<1>7. CASE c = None
  <2>1. UNCHANGED <<buf, pool>>
    BY <1>2, <1>7 DEF Drop
  <2>2. \A e \in Buffers : e # c
    BY <1>7, SbAssumption
  <2> QED
    BY <1>2, <1>6, <2>1, <2>2, MovedCounts
<1>8. CASE c \in Buffers
  <2>1. x \in Holders(c) /\ Holders(c)' = Holders(c) \ {x} /\ IsFiniteSet(Holders(c))
    BY <1>5, <1>8
  <2>2. Shed(c, 1)
    BY <1>8, <2>1, ShedOne
  <2>3. /\ \A k, i : x # <<"queue", k, i>>
        /\ \A u \in Tasks : x = <<"task", u, 0>> => task[u].at # "took"
        /\ \A a \in Apps : x # <<"held", a, 0>>
    BY DEF x
  <2>4. ASSUME c \in Underway PROVE \E w \in Holders(c) : w # x
    BY <2>3, <2>4, UnderwayElsewhere
  <2> QED
    BY <1>2, <1>6, <1>8, <2>1, <2>2, <2>3, <2>4, DropCounts
<1> QED
  BY <1>2, <1>7, <1>8

\* A send ends: the sender gives its use of the buffer up.
LEMMA FinishSendCounts ==
  ASSUME CountInv, NEW a \in Apps, FinishSend(a)
  PROVE  Counted' /\ Reserved' /\ Kept
<1> DEFINE x == <<"task", a, 0>>
<1>0. PICK c : c = task[a].buf
  OBVIOUS
<1>1. /\ TypeInv /\ a \in Tasks /\ task[a].at = "send" /\ c \in Buffers
      /\ Drop(c) /\ UNCHANGED <<held, pipe, forced>> /\ task' = [task EXCEPT ![a] = At("idle")]
  BY <1>0 DEF FinishSend, CountInv, PlaceInv, RouteInv, TypeInv, Located, Tasks
<1>2. task'[a].buf = None /\ \A u \in Tasks : u # a => task'[u] = task[u]
  BY <1>1, SettleEffect
<1>3. ASSUME NEW e \in Buffers
      PROVE  /\ IsFiniteSet(Holders(e)) /\ Holders(e)' = Holders(e) \ {x}
             /\ (x \in Holders(e) <=> c = e)
  <2>0. e # None /\ IsFiniteSet(Holders(e))
    BY SbAssumption DEF CountInv, Counted, Tally
  <2>1. x \in Holders(e) <=> c = e
    BY <1>0, <1>1, HolderKeys
  <2>2. ASSUME NEW h
        PROVE  h \in Holders(e)' <=> h \in Holders(e) /\ h # x
    <3>1. HandOf(e, h)' <=> HandOf(e, h) /\ h # x
      BY <1>0, <1>1, <1>2, <2>0 DEF HandOf
    <3>2. /\ QueuedAt(e, h)' <=> QueuedAt(e, h)
          /\ CurrentAt(e, h)' <=> CurrentAt(e, h)
          /\ TrashAt(e, h)' <=> TrashAt(e, h)
          /\ HeldBy(e, h)' <=> HeldBy(e, h)
      BY <1>1, QueuedSame, CurrentSame, TrashSame, HeldSame
    <3> QED
      BY <3>1, <3>2, HolderOf, HolderOfNext, Kinds
  <2> QED
    BY <2>0, <2>1, <2>2
<1>4. /\ \A k, i : x # <<"queue", k, i>>
      /\ \A k \in Apps : x # <<"held", k, 0>>
      /\ \A u \in Tasks : x = <<"task", u, 0>> => task[u].at # "took"
  BY <1>1
<1> HIDE DEF x
<1>5. \A e \in Buffers \ {c} : Shed(e, 0)
  <2> TAKE e \in Buffers \ {c}
  <2>1. Holders(e)' = Holders(e) /\ IsFiniteSet(Holders(e))
    BY <1>3
  <2> QED
    BY <2>1, ShedNone
<1>6. x \in Holders(c) /\ Holders(c)' = Holders(c) \ {x} /\ IsFiniteSet(Holders(c))
  BY <1>1, <1>3
<1>7. Shed(c, 1)
  BY <1>1, <1>6, ShedOne
<1>8. ASSUME c \in Underway PROVE \E w \in Holders(c) : w # x
  BY <1>4, <1>8, UnderwayElsewhere
<1> QED
  BY <1>1, <1>4, <1>5, <1>6, <1>7, <1>8, DropCounts

\* A message is put on a pipe: its buffer has one more holder and one more use.
LEMMA GainTally ==
  ASSUME NEW c \in Buffers, Tally(c), Holders(c) # {}, NEW y, y \notin Holders(c),
         Holders(c)' = Holders(c) \cup {y}, pool' = pool,
         buf'[c].use = buf[c].use + 1, buf[c].use \in Nat, forced => forced'
  PROVE  Tally(c)'
<1>1. IsFiniteSet(Holders(c)) /\ c \notin pool /\ Cardinality(Holders(c)) \in Nat
  BY FS_CardinalityType DEF Tally
<1>2. IsFiniteSet(Holders(c)') /\ Cardinality(Holders(c)') = Cardinality(Holders(c)) + 1
  BY <1>1, FS_AddElement
<1> QED
  BY <1>1, <1>2 DEF Tally

LEMMA DeliverCounts ==
  ASSUME CountInv, NEW a \in Apps, NEW p \in Pipes, Deliver(a, p)
  PROVE  Counted' /\ Reserved' /\ Kept
<1>0. PICK c : c = task[a].buf
  OBVIOUS
<1> DEFINE y == <<"queue", p, Len(pipe[p].queue) + 1>>
<1>1. /\ c \in Buffers /\ a \in Tasks /\ pipe[p].queue \in Seq(Buffers)
      /\ \A t \in Tasks : task'[t].buf = task[t].buf
      /\ \A s \in Pipes : s # p => pipe'[s] = pipe[s]
      /\ \A s \in Pipes : /\ pipe'[s].current = pipe[s].current
                          /\ pipe'[s].trash = pipe[s].trash
      /\ \/ UNCHANGED <<pipe, buf, count>>
         \/ /\ pipe'[p].queue = Append(pipe[p].queue, c)
            /\ buf'[c].use = buf[c].use + 1 /\ buf'[c].msg = buf[c].msg
            /\ \A b \in Buffers : b # c => buf'[b] = buf[b]
  BY <1>0, DeliverEffect DEF CountInv, PlaceInv, RouteInv, Tasks
<1>2. UNCHANGED <<pool, held, forced>>
  BY DEF Deliver
<1>3. CASE UNCHANGED <<pipe, buf, count>>
  BY <1>1, <1>2, <1>3, QuietCounts
<1>4. CASE ~UNCHANGED <<pipe, buf, count>>
  <2>1. /\ pipe'[p].queue = Append(pipe[p].queue, c)
        /\ buf'[c].use = buf[c].use + 1 /\ buf'[c].msg = buf[c].msg
        /\ \A b \in Buffers : b # c => buf'[b] = buf[b]
    BY <1>1, <1>4
  <2>2. ASSUME NEW b \in Buffers
        PROVE  /\ Holders(b)' = Holders(b) \cup (IF b = c THEN {y} ELSE {})
               /\ y \notin Holders(b)
    <3>1. Positions(pipe[p].queue, {b}) \subseteq 1 .. Len(pipe[p].queue)
          /\ Len(pipe[p].queue) \in Nat
      BY <1>1, PositionsFinite
    <3>2. y \notin Holders(b)
      <4> DEFINE k == Len(pipe[p].queue) + 1
      <4>1. k \notin 1 .. Len(pipe[p].queue)
        BY <3>1
      <4> HIDE DEF k
      <4>2. <<"queue", p, k>> \notin Holders(b)
        BY <3>1, <4>1, HolderKeys
      <4> QED
        BY <4>2 DEF k
    <3>3. Positions(pipe'[p].queue, {b})
            = Positions(pipe[p].queue, {b})
                \cup (IF b = c THEN {Len(pipe[p].queue) + 1} ELSE {})
      <4>1. Positions(pipe'[p].queue, {b})
              = Positions(pipe[p].queue, {b})
                  \cup (IF c \in {b} THEN {Len(pipe[p].queue) + 1} ELSE {})
        BY <1>1, <2>1, AppendPositions
      <4> QED
        BY <4>1
    <3>4. ASSUME NEW h
          PROVE  h \in Holders(b)' <=> h \in Holders(b) \/ (h = y /\ b = c)
      <4>1. QueuedAt(b, h)' <=> QueuedAt(b, h) \/ (h = y /\ b = c)
        <5>1. QueuedAt(b, h)' => QueuedAt(b, h) \/ (h = y /\ b = c)
          BY <1>1, <3>3 DEF QueuedAt
        <5>2. QueuedAt(b, h) => QueuedAt(b, h)'
          BY <1>1, <3>3 DEF QueuedAt
        <5>3. h = y /\ b = c => QueuedAt(b, h)'
          BY <1>1, <3>3 DEF QueuedAt
        <5> QED
          BY <5>1, <5>2, <5>3
      <4>2. /\ CurrentAt(b, h)' <=> CurrentAt(b, h)
            /\ TrashAt(b, h)' <=> TrashAt(b, h)
            /\ HandOf(b, h)' <=> HandOf(b, h)
            /\ HeldBy(b, h)' <=> HeldBy(b, h)
        BY <1>1, <1>2, CurrentSame, TrashSame, HandSame, HeldSame
      <4> QED
        BY <4>1, <4>2, HolderOf, HolderOfNext
    <3> QED
      BY <3>2, <3>4
  <2> HIDE DEF y
  <2>3. <<"task", a, 0>> \in Holders(c)
    BY <1>0, <1>1, HolderKeys
  <2>4. \A b \in Buffers : b # c => Holders(b)' = Holders(b) /\ IsFiniteSet(Holders(b))
    BY <2>2 DEF CountInv, Counted, Tally
  <2>12. \A b \in Buffers : b # c => Shed(b, 0)
    BY <2>4, ShedNone
  <2>5. \A b \in Buffers : b # c => Tally(b)'
    BY <1>2, <2>1, <2>12, TallySame DEF CountInv, PlaceInv, RouteInv, Counted
  <2>6. buf[c].use \in Nat
    BY <1>1, Types DEF CountInv, PlaceInv, RouteInv, BufType
  <2>7. Holders(c)' = Holders(c) \cup {y} /\ y \notin Holders(c) /\ Tally(c)
    BY <1>1, <2>2 DEF CountInv, Counted
  <2>8. Tally(c)'
    BY <1>1, <1>2, <2>1, <2>3, <2>6, <2>7, GainTally
  <2>9. \A d \in Apps : \A b \in held[d] : b \in Buffers /\ b # c
    <3> TAKE d \in Apps
    <3> TAKE b \in held[d]
    <3>1. b \in Buffers /\ Holders(b) = {<<"held", d, 0>>}
      BY HeldAlone
    <3> QED
      BY <2>3, <3>1
  <2>10. Reserved'
    BY <1>2, <2>1, <2>9 DEF CountInv, Reserved
  <2>11. Kept
    BY <2>1 DEF Kept, Underway
  <2> QED
    BY <2>5, <2>8, <2>10, <2>11 DEF Counted
<1> QED
  BY <1>3, <1>4

\* A free buffer c is taken: y is its only holder.
LEMMA TakeCounts ==
  ASSUME CountInv, NEW c \in Buffers, c \in pool, NEW y, forced' = forced,
         pool' = pool \ {c}, buf'[c].use = 1,
         \A b \in Buffers : b # c => buf'[b] = buf[b],
         \A a \in Apps : \A b \in held'[a] : b \in held[a] \/ b = c,
         \A b \in Buffers : Holders(b)' = Holders(b) \cup (IF b = c THEN {y} ELSE {})
  PROVE  Counted' /\ Reserved' /\ Kept
<1>1. /\ Holders(c) = {} /\ \A b \in Buffers : Tally(b) /\ IsFiniteSet(Holders(b))
      /\ TypeInv
  BY DEF CountInv, PlaceInv, RouteInv, Counted, Tally
<1>2. Holders(c)' = {y}
  BY <1>1
<1>3. IsFiniteSet(Holders(c)') /\ Cardinality(Holders(c)') = 1
  BY <1>2, FS_Singleton
<1>4. Tally(c)'
  BY <1>3 DEF Tally
<1>9. \A b \in Buffers : b # c => Shed(b, 0)
  BY <1>1, ShedNone
<1>5. \A b \in Buffers : b # c => Tally(b)'
  BY <1>1, <1>9, TallySame
<1>6. Reserved'
  <2> SUFFICES ASSUME NEW a \in Apps, NEW b \in held'[a]
               PROVE  b \notin pool' /\ buf'[b].use = 1
    BY DEF Reserved
  <2>1. CASE b = c
    BY <2>1
  <2>2. CASE b # c
    <3>1. b \in held[a] /\ b \in Buffers
      BY <2>2, HeldAlone
    <3> QED
      BY <2>2, <3>1 DEF CountInv, Reserved
  <2> QED
    BY <2>1, <2>2
<1>7. c \notin Underway
  BY <1>1, UnderwayHolder
<1>8. Kept
  BY <1>7 DEF Kept, Underway
<1> QED
  BY <1>4, <1>5, <1>6, <1>8 DEF Counted

LEMMA SendCounts ==
  ASSUME CountInv, NEW a \in Apps, NEW m \in Msgs, SendMsg(a, m)
  PROVE  Counted' /\ Reserved' /\ Kept
<1>1. PICK c \in pool :
        /\ pool' = pool \ {c} /\ buf' = [buf EXCEPT ![c] = [use |-> 1, msg |-> m]]
        /\ task' = [task EXCEPT ![a] = [At("send") EXCEPT !.buf = c, !.rest = dests[m]]]
  BY DEF SendMsg
<1>2. TypeInv /\ c \in Buffers /\ a \in Tasks /\ task[a].at = "idle"
  BY Types DEF CountInv, PlaceInv, RouteInv, Tasks, SendMsg, Idle
<1>3. buf'[c].use = 1 /\ \A b \in Buffers : b # c => buf'[b] = buf[b]
  BY <1>1, <1>2, Types
<1>4. task'[a].buf = c /\ \A u \in Tasks : u # a => task'[u] = task[u]
  BY <1>1, <1>2, SendEffect
<1>5. task[a].buf = None /\ UNCHANGED <<pipe, held, forced>>
  BY <1>2 DEF CountInv, PlaceInv, InHands, SendMsg
<1> DEFINE y == <<"task", a, 0>>
<1>6. ASSUME NEW b \in Buffers
      PROVE  Holders(b)' = Holders(b) \cup (IF b = c THEN {y} ELSE {})
  <2>0. b # None
    BY SbAssumption
  <2>1. ASSUME NEW h
        PROVE  h \in Holders(b)' <=> h \in Holders(b) \/ (h = y /\ b = c)
    <3>1. HandOf(b, h)' <=> HandOf(b, h) \/ (h = y /\ b = c)
      BY <1>2, <1>4, <1>5, <2>0 DEF HandOf
    <3>2. /\ QueuedAt(b, h)' <=> QueuedAt(b, h)
          /\ CurrentAt(b, h)' <=> CurrentAt(b, h)
          /\ TrashAt(b, h)' <=> TrashAt(b, h)
          /\ HeldBy(b, h)' <=> HeldBy(b, h)
      BY <1>5, QueuedSame, CurrentSame, TrashSame, HeldSame
    <3> QED
      BY <3>1, <3>2, HolderOf, HolderOfNext
  <2> QED
    BY <2>1
<1> HIDE DEF y
<1> QED
  BY <1>1, <1>2, <1>3, <1>5, <1>6, TakeCounts

LEMMA GetPtrCounts ==
  ASSUME CountInv, NEW a \in Apps, ZeroCopyGetPtr(a)
  PROVE  Counted' /\ Reserved' /\ Kept
<1>1. PICK c \in pool :
        /\ pool' = pool \ {c} /\ buf' = [buf EXCEPT ![c] = [use |-> 1, msg |-> None]]
        /\ held' = [held EXCEPT ![a] = @ \cup {c}]
  BY DEF ZeroCopyGetPtr
<1>2. TypeInv /\ c \in Buffers /\ held \in [Apps -> SUBSET Buffers]
  BY Types DEF CountInv, PlaceInv, RouteInv
<1>3. buf'[c].use = 1 /\ \A b \in Buffers : b # c => buf'[b] = buf[b]
  BY <1>1, <1>2, Types
<1>4. /\ held'[a] = held[a] \cup {c}
      /\ \A d \in Apps : d # a => held'[d] = held[d]
      /\ UNCHANGED <<pipe, task, forced>>
  BY <1>1, <1>2 DEF ZeroCopyGetPtr
<1> DEFINE y == <<"held", a, 0>>
<1>5. ASSUME NEW b \in Buffers
      PROVE  Holders(b)' = Holders(b) \cup (IF b = c THEN {y} ELSE {})
  <2>1. ASSUME NEW h
        PROVE  h \in Holders(b)' <=> h \in Holders(b) \/ (h = y /\ b = c)
    <3>1. HeldBy(b, h)' <=> HeldBy(b, h) \/ (h = y /\ b = c)
      BY <1>4 DEF HeldBy
    <3>2. /\ QueuedAt(b, h)' <=> QueuedAt(b, h)
          /\ CurrentAt(b, h)' <=> CurrentAt(b, h)
          /\ TrashAt(b, h)' <=> TrashAt(b, h)
          /\ HandOf(b, h)' <=> HandOf(b, h)
      BY <1>4, QueuedSame, CurrentSame, TrashSame, HandSame
    <3> QED
      BY <3>1, <3>2, HolderOf, HolderOfNext
  <2> QED
    BY <2>1
<1>6. \A d \in Apps : \A b \in held'[d] : b \in held[d] \/ b = c
  BY <1>4
<1> HIDE DEF y
<1> QED
  BY <1>1, <1>2, <1>3, <1>4, <1>5, <1>6, TakeCounts

\* A reserved buffer is not underway.
LEMMA HeldRests ==
  ASSUME CountInv, NEW a \in Apps, NEW c \in held[a]
  PROVE  c \notin Underway
<1>1. Holders(c) = {<<"held", a, 0>>}
  BY HeldAlone
<1>2. SUFFICES ASSUME c \in Underway PROVE FALSE
  OBVIOUS
<1> DEFINE x == <<"held", a, 0>>
<1>3. /\ \A k, i : x # <<"queue", k, i>>
      /\ \A t \in Tasks : x = <<"task", t, 0>> => task[t].at # "took"
  OBVIOUS
<1> HIDE DEF x
<1>4. \E y \in Holders(c) : y # x
  BY <1>2, <1>3, UnderwayElsewhere
<1> QED
  BY <1>1, <1>4 DEF x

\* A reserved buffer goes back to the pool.
LEMMA FreeCounts ==
  ASSUME CountInv, NEW a \in Apps, NEW c \in held[a],
         held' = [held EXCEPT ![a] = @ \ {c}], pool' = pool \cup {c},
         \A b \in Buffers : b # c => buf'[b] = buf[b],
         UNCHANGED <<pipe, task, forced>>
  PROVE  Counted' /\ Reserved' /\ Kept
<1>1. /\ TypeInv /\ c \in Buffers /\ Holders(c) = {<<"held", a, 0>>}
      /\ held \in [Apps -> SUBSET Buffers] /\ \A b \in Buffers : Tally(b)
  BY HeldAlone, Types DEF CountInv, PlaceInv, RouteInv, Counted
<1>2. held'[a] = held[a] \ {c} /\ \A d \in Apps : d # a => held'[d] = held[d]
  BY <1>1
<1> DEFINE x == <<"held", a, 0>>
<1>3. ASSUME NEW b \in Buffers
      PROVE  Holders(b)' = IF b = c THEN {} ELSE Holders(b)
  <2>1. ASSUME NEW h
        PROVE  h \in Holders(b)' <=> h \in Holders(b) /\ ~(h = x /\ b = c)
    <3>1. HeldBy(b, h)' <=> HeldBy(b, h) /\ ~(h = x /\ b = c)
      BY <1>2 DEF HeldBy
    <3>2. /\ QueuedAt(b, h)' <=> QueuedAt(b, h)
          /\ CurrentAt(b, h)' <=> CurrentAt(b, h)
          /\ TrashAt(b, h)' <=> TrashAt(b, h)
          /\ HandOf(b, h)' <=> HandOf(b, h)
      BY QueuedSame, CurrentSame, TrashSame, HandSame
    <3> QED
      BY <3>1, <3>2, HolderOf, HolderOfNext, Kinds
  <2> QED
    BY <1>1, <2>1
<1>4. Tally(c)'
  <2>1. Holders(c)' = {} /\ IsFiniteSet({})
    BY <1>1, <1>3, FS_EmptySet
  <2> QED
    BY <2>1 DEF Tally
<1>9. \A b \in Buffers : b # c => Shed(b, 0)
  BY <1>1, <1>3, ShedNone DEF Tally
<1>5. \A b \in Buffers : b # c => Tally(b)'
  BY <1>1, <1>9, TallySame
<1>6. Reserved'
  <2> SUFFICES ASSUME NEW d \in Apps, NEW b \in held'[d]
               PROVE  b \notin pool' /\ buf'[b].use = 1
    BY DEF Reserved
  <2>1. b \in held[d] /\ b \in Buffers /\ Holders(b) = {<<"held", d, 0>>}
    BY <1>2, HeldAlone
  <2>2. b # c
    <3>1. CASE d = a
      BY <1>2, <3>1
    <3>2. CASE d # a
      <4>1. <<"held", a, 0>> # <<"held", d, 0>>
        BY <3>2
      <4> QED
        BY <1>1, <2>1, <4>1
    <3> QED
      BY <3>1, <3>2
  <2> QED
    BY <2>1, <2>2 DEF CountInv, Reserved
<1>7. c \notin Underway
  BY HeldRests
<1>8. Kept
  BY <1>7 DEF Kept, Underway
<1> QED
  BY <1>4, <1>5, <1>6, <1>8 DEF Counted

LEMMA ReleasePtrCounts ==
  ASSUME CountInv, NEW a \in Apps, ZeroCopyReleasePtr(a)
  PROVE  Counted' /\ Reserved' /\ Kept
<1>1. PICK c \in held[a] :
        /\ held' = [held EXCEPT ![a] = @ \ {c}] /\ pool' = pool \cup {c}
        /\ buf' = [buf EXCEPT ![c] = Freed]
  BY DEF ZeroCopyReleasePtr
<1>2. TypeInv /\ buf \in [Buffers -> BufType] /\ UNCHANGED <<pipe, task, forced>>
  BY Types DEF CountInv, PlaceInv, RouteInv, ZeroCopyReleasePtr
<1>3. \A b \in Buffers : b # c => buf'[b] = buf[b]
  BY <1>1, <1>2
<1> QED
  BY <1>1, <1>2, <1>3, FreeCounts

\* A zero copy buffer is sent, or dropped where no route leads anywhere.
LEMMA ZeroCopySendCounts ==
  ASSUME CountInv, NEW a \in Apps, NEW m \in Msgs, ZeroCopySend(a, m)
  PROVE  Counted' /\ Reserved' /\ Kept
<1>1. PICK c \in held[a] :
        /\ held' = [held EXCEPT ![a] = @ \ {c}]
        /\ IF m \in routed
           THEN /\ buf' = [buf EXCEPT ![c].msg = m] /\ pool' = pool
                /\ task' = [task EXCEPT ![a] = [At("send") EXCEPT
                              !.buf = c, !.rest = dests[m]]]
           ELSE Drop(c) /\ task' = task
  BY DEF ZeroCopySend
<1>2. /\ TypeInv /\ c \in Buffers /\ a \in Tasks /\ task[a].at = "idle" /\ pipe' = pipe
      /\ forced' = forced /\ buf \in [Buffers -> BufType] /\ held \in [Apps -> SUBSET Buffers]
      /\ c \notin pool /\ buf[c].use = 1 /\ task[a].buf = None
      /\ \A b \in Buffers : Tally(b)
  BY Types, HeldAlone
     DEF CountInv, PlaceInv, RouteInv, Reserved, InHands, Tasks, ZeroCopySend, Calls, Idle,
         Counted
<1>3. CASE m \notin routed
  <2>1. Drop(c) /\ task' = task
    BY <1>1, <1>3
  <2>2. pool' = pool \cup {c} /\ \A b \in Buffers : b # c => buf'[b] = buf[b]
    BY <1>2, <2>1, SbAssumption DEF Drop
  <2> QED
    BY <1>1, <1>2, <2>1, <2>2, FreeCounts
<1>4. CASE m \in routed
  <2> DEFINE x == <<"held", a, 0>>
  <2> DEFINE y == <<"task", a, 0>>
  <2>1. /\ pool' = pool /\ buf' = [buf EXCEPT ![c].msg = m]
        /\ task' = [task EXCEPT ![a] = [At("send") EXCEPT !.buf = c, !.rest = dests[m]]]
    BY <1>1, <1>4
  <2>2. task'[a].buf = c /\ \A u \in Tasks : u # a => task'[u] = task[u]
    BY <1>2, <2>1, SendEffect
  <2>3. buf'[c].use = 1 /\ \A b \in Buffers : b # c => buf'[b] = buf[b]
    BY <1>2, <2>1 DEF BufType
  <2>4. held'[a] = held[a] \ {c} /\ \A d \in Apps : d # a => held'[d] = held[d]
    BY <1>1, <1>2
  <2>5. ASSUME NEW b \in Buffers, NEW h
        PROVE  h \in Holders(b)' <=> \/ h \in Holders(b) /\ ~(h = x /\ b = c)
                                     \/ h = y /\ b = c
    <3>0. b # None
      BY SbAssumption
    <3>1. HandOf(b, h)' <=> HandOf(b, h) \/ (h = y /\ b = c)
      BY <1>2, <2>2, <3>0 DEF HandOf
    <3>2. HeldBy(b, h)' <=> HeldBy(b, h) /\ ~(h = x /\ b = c)
      BY <2>4 DEF HeldBy
    <3>3. /\ QueuedAt(b, h)' <=> QueuedAt(b, h)
          /\ CurrentAt(b, h)' <=> CurrentAt(b, h)
          /\ TrashAt(b, h)' <=> TrashAt(b, h)
      BY <1>2, QueuedSame, CurrentSame, TrashSame
    <3> QED
      BY <3>1, <3>2, <3>3, HolderOf, HolderOfNext, Kinds
  <2>6. Holders(c) = {x}
    BY HeldAlone
  <2>7. Holders(c)' = {y} /\ \A b \in Buffers : b # c => Holders(b)' = Holders(b)
    BY <1>2, <2>5, <2>6
  <2> HIDE DEF x, y
  <2>8. IsFiniteSet(Holders(c)') /\ Cardinality(Holders(c)') = 1
    BY <2>7, FS_Singleton
  <2>9. Tally(c)'
    BY <1>2, <2>1, <2>3, <2>8 DEF Tally
  <2>13. \A b \in Buffers : b # c => Shed(b, 0)
    BY <1>2, <2>7, ShedNone DEF Tally
  <2>10. \A b \in Buffers : b # c => Tally(b)'
    BY <1>2, <2>1, <2>3, <2>13, TallySame
  <2>11. Reserved'
    <3> SUFFICES ASSUME NEW d \in Apps, NEW b \in held'[d]
                 PROVE  b \notin pool' /\ buf'[b].use = 1
      BY DEF Reserved
    <3>1. b \in held[d] /\ b \in Buffers
      BY <2>4, HeldAlone
    <3> QED
      BY <2>1, <2>3, <3>1 DEF CountInv, Reserved
  <2>12. Kept
    BY <2>3, HeldRests DEF Kept, Underway
  <2> QED
    BY <2>9, <2>10, <2>11, <2>12 DEF Counted
<1> QED
  BY <1>3, <1>4

\* ES takes the reserved buffers of an application it has cleaned up.
LEMMA ReleaseZeroCopyCounts ==
  ASSUME CountInv, ReleaseZeroCopy
  PROVE  Counted' /\ Reserved' /\ Kept
<1>1. TypeInv /\ buf \in [Buffers -> BufType] /\ cleaned \in Apps
  BY Types DEF CountInv, PlaceInv, RouteInv, ReleaseZeroCopy, NoPipesLeft
<1>2. PICK c \in held[cleaned] :
        /\ held' = [held EXCEPT ![cleaned] = @ \ {c}] /\ pool' = pool \cup {c}
        /\ buf' = [buf EXCEPT ![c] = Freed]
  BY DEF ReleaseZeroCopy
<1>3. \A b \in Buffers : b # c => buf'[b] = buf[b]
  BY <1>1, <1>2
<1>4. UNCHANGED <<pipe, task, forced>>
  BY DEF ReleaseZeroCopy
<1> QED
  BY <1>1, <1>2, <1>3, <1>4, FreeCounts

\* It deletes the task, with the buffer the task had in hand.
LEMMA DeleteTaskCounts ==
  ASSUME CountInv, DeleteTask
  PROVE  Counted' /\ Reserved' /\ Kept
<1>0. PICK a : a = cleaned
  OBVIOUS
<1>1. /\ TypeInv /\ a \in Apps /\ a \in Tasks /\ task[a].at # "send"
      /\ task' = [task EXCEPT ![a] = At("idle")]
      /\ UNCHANGED <<buf, pool, held, pipe, forced>>
  BY <1>0, Types DEF DeleteTask, NoPipesLeft, CountInv, PlaceInv, RouteInv, Tasks
<1>2. task'[a].buf = None /\ \A u \in Tasks : u # a => task'[u] = task[u]
  BY <1>1, SettleEffect
<1>3. forced \/ task[a].buf = None
  BY <1>0, <1>1, SbAssumption DEF CountInv, PlaceInv, InHands, Halted
<1>4. \A t \in Tasks : \/ task'[t].buf = task[t].buf
                       \/ forced /\ task'[t].buf = None
  BY <1>2, <1>3
<1> QED
  BY <1>1, <1>4, LostCounts

\* The steps that move no buffer; where a pipe is closed or created, the current
\* buffer that a task deleted by force has left there is lost.
LEMMA QuietSteps ==
  ASSUME CountInv,
         \/ \E a \in Apps : \/ CreatePipe(a) \/ ExitApp(a) \/ StartCleanUp(a)
                            \/ \E m \in Msgs, p \in Pipes :
                                 Subscribe(a, m, p) \/ Unsubscribe(a, m, p)
         \/ \E m \in Msgs, p \in Pipes, on \in BOOLEAN : SetRoute(m, p, on)
         \/ \E p \in Pipes : DeletePipe(p)
         \/ \E m \in Msgs : DeleteRoute(m)
         \/ ClosePipe
         \/ UNCHANGED sbVars
  PROVE  Counted' /\ Reserved' /\ Kept
<1>0. /\ TypeInv /\ ES \in Tasks /\ Apps \subseteq Tasks /\ pipe \in [Pipes -> PipeType]
  BY Types DEF CountInv, PlaceInv, RouteInv, Tasks
<1>1. ASSUME UNCHANGED <<buf, pool, held, pipe, task>>, forced => forced'
      PROVE  Counted' /\ Reserved' /\ Kept
  BY <1>1, QuietCounts
<1>2. ASSUME NEW a \in Apps, CreatePipe(a)
      PROVE  Counted' /\ Reserved' /\ Kept
  <2>1. PICK p \in Pipes : ~Open(p) /\ pipe' = [pipe EXCEPT ![p] = [Closed EXCEPT !.owner = a]]
    BY <1>2 DEF CreatePipe
  <2>2. /\ pipe[p].queue = <<>> /\ (forced \/ pipe[p].current = None)
        /\ pipe[p].trash = None
    BY <2>1 DEF Open, CountInv, PlaceInv, Vacant
  <2>3. /\ pipe'[p].queue = <<>> /\ pipe'[p].current = None /\ pipe'[p].trash = None
        /\ \A q \in Pipes : q # p => pipe'[q] = pipe[q]
    BY <1>0, <2>1 DEF Closed
  <2>4. \A q \in Pipes : /\ pipe'[q].queue = pipe[q].queue
                         /\ \/ pipe'[q].current = pipe[q].current
                            \/ forced /\ pipe'[q].current = None
                         /\ pipe'[q].trash = pipe[q].trash
    BY <2>2, <2>3
  <2>5. UNCHANGED <<buf, pool, held, task, forced>>
    BY <1>2 DEF CreatePipe
  <2> QED
    BY <2>4, <2>5, LostCounts
<1>3. ASSUME NEW a \in Apps, ExitApp(a)
      PROVE  Counted' /\ Reserved' /\ Kept
  <2>1. /\ task' = [task EXCEPT ![a].at = "ended"]
        /\ UNCHANGED <<buf, pool, held, pipe, forced>>
    BY <1>3 DEF ExitApp
  <2>2. \A u \in Tasks : task'[u].buf = task[u].buf
    BY <1>0, <2>1, MoveEffect
  <2> QED
    BY <2>1, <2>2, QuietCounts
<1>4. ASSUME NEW p \in Pipes, DeletePipe(p)
      PROVE  Counted' /\ Reserved' /\ Kept
  <2>1. /\ task' = [task EXCEPT ![ES] = [At("routes") EXCEPT !.pipe = p]]
        /\ task[ES].at = "idle" /\ UNCHANGED <<buf, pool, held, pipe, forced>>
    BY <1>4 DEF DeletePipe
  <2>2. task[ES].buf = None
    BY <1>0, <2>1 DEF CountInv, PlaceInv, InHands
  <2>3. \A u \in Tasks : task'[u].buf = task[u].buf
    BY <1>0, <2>1, <2>2, Types DEF At
  <2> QED
    BY <2>1, <2>3, QuietCounts
<1>5. CASE ClosePipe
  <2> DEFINE p == task[ES].pipe
  <2>1. /\ task' = [task EXCEPT ![ES] = At("idle")] /\ task[ES].at = "close"
        /\ pipe' = [pipe EXCEPT ![p] = Closed] /\ UNCHANGED <<buf, pool, held, forced>>
    BY <1>5 DEF ClosePipe
  <2>2. task[ES].buf = None /\ p \in Pipes
    BY <1>0, <2>1 DEF CountInv, PlaceInv, InHands, TypeInv, Located
  <2>3. \A u \in Tasks : task'[u].buf = task[u].buf
    BY <1>0, <2>1, <2>2, SettleEffect
  <2>4. /\ pipe[p].queue = <<>> /\ (forced \/ pipe[p].current = None)
        /\ pipe[p].trash = None
    BY <2>1 DEF CountInv, PlaceInv, Emptied, PutAside
  <2>5. /\ pipe'[p].queue = <<>> /\ pipe'[p].current = None /\ pipe'[p].trash = None
        /\ \A q \in Pipes : q # p => pipe'[q] = pipe[q]
    BY <1>0, <2>1, <2>2 DEF Closed
  <2>6. \A q \in Pipes : /\ pipe'[q].queue = pipe[q].queue
                         /\ \/ pipe'[q].current = pipe[q].current
                            \/ forced /\ pipe'[q].current = None
                         /\ pipe'[q].trash = pipe[q].trash
    BY <2>4, <2>5
  <2> QED
    BY <2>1, <2>3, <2>6, LostCounts
<1>6. ASSUME NEW a \in Apps, NEW m \in Msgs, NEW p \in Pipes,
             Subscribe(a, m, p) \/ Unsubscribe(a, m, p)
      PROVE  UNCHANGED <<buf, pool, held, pipe, task, forced>>
  BY <1>6 DEF Subscribe, Unsubscribe
<1>7. ASSUME NEW m \in Msgs, NEW p \in Pipes, NEW on \in BOOLEAN, SetRoute(m, p, on)
      PROVE  UNCHANGED <<buf, pool, held, pipe, task, forced>>
  BY <1>7 DEF SetRoute
<1>8. ASSUME NEW m \in Msgs, DeleteRoute(m)
      PROVE  UNCHANGED <<buf, pool, held, pipe, task, forced>>
  BY <1>8 DEF DeleteRoute
<1>9. ASSUME UNCHANGED sbVars
      PROVE  UNCHANGED <<buf, pool, held, pipe, task, forced>>
  BY <1>9 DEF sbVars
<1>10. ASSUME NEW a \in Apps, StartCleanUp(a)
       PROVE  UNCHANGED <<buf, pool, held, pipe, task>> /\ (forced => forced')
  BY <1>10 DEF StartCleanUp
<1> QED
  BY <1>1, <1>2, <1>3, <1>4, <1>5, <1>6, <1>7, <1>8, <1>9, <1>10

LEMMA RcvCounts ==
  ASSUME CountInv, Drain \/ \E a \in Apps : RcvMsg(a)
  PROVE  Counted' /\ Reserved' /\ Kept
<1>0. TypeInv /\ ES \in Tasks /\ Apps \subseteq Tasks
  BY DEF CountInv, PlaceInv, RouteInv, Tasks
<1>1. ASSUME NEW a \in Apps, NEW p \in Pipes, pipe[p].owner = a, a # cleaned,
             StartRcv(a, p, "idle")
      PROVE  Counted' /\ Reserved' /\ Kept
  <2>1. task[a].at = "idle"
    BY <1>1 DEF StartRcv
  <2>2. pipe[p].trash = None /\ task[a].buf = None
    BY <1>0, <1>1, <2>1 DEF CountInv, PlaceInv, PutAside, InHands
  <2> QED
    BY <1>0, <1>1, <2>2, StartRcvCounts
<1>2. CASE StartRcv(ES, task[ES].pipe, "drain")
  <2>1. PICK p : p = task[ES].pipe
    OBVIOUS
  <2>2. task[ES].at = "drain"
    BY <1>2 DEF StartRcv
  <2>3. p \in Pipes /\ pipe[p].trash = None /\ task[ES].buf = None
    BY <1>0, <2>1, <2>2 DEF CountInv, PlaceInv, PutAside, InHands, TypeInv, Located
  <2> QED
    BY <1>0, <1>2, <2>1, <2>3, StartRcvCounts
<1> QED
  BY <1>0, <1>1, <1>2, ReadQueueCounts, EndRcvCounts DEF RcvMsg, Calls, Drain

LEMMA CountInit == ASSUME SbInit PROVE CountInv
<1>1. PlaceInv
  BY PlaceInit
<1>2. /\ pool = Buffers /\ \A a \in Apps : held[a] = {}
      /\ \A t \in Tasks : task[t].buf = None
      /\ \A p \in Pipes : pipe[p].queue = <<>> /\ pipe[p].current = None /\ pipe[p].trash = None
  BY DEF SbInit, At, Closed
<1>3. ASSUME NEW b \in Buffers
      PROVE  Holders(b) = {} /\ IsFiniteSet(Holders(b))
  <2>0. b # None
    BY SbAssumption
  <2>1. ASSUME NEW h PROVE h \notin Holders(b)
    <3>1. ~QueuedAt(b, h)
      BY <1>2 DEF QueuedAt, Positions
    <3>2. ~CurrentAt(b, h) /\ ~TrashAt(b, h) /\ ~HandOf(b, h) /\ ~HeldBy(b, h)
      BY <1>2, <2>0 DEF CurrentAt, TrashAt, HandOf, HeldBy
    <3> QED
      BY <3>1, <3>2, HolderOf
  <2> QED
    BY <2>1, FS_EmptySet
<1>4. Counted
  BY <1>2, <1>3 DEF Counted, Tally
<1>5. Reserved
  BY <1>2 DEF Reserved
<1> QED
  BY <1>1, <1>4, <1>5 DEF CountInv

LEMMA CountNext ==
  ASSUME CountInv, [SbNext]_sbVars
  PROVE  CountInv' /\ Kept
<1>1. PlaceInv'
  BY PlaceNext DEF CountInv
<1>2. CASE \E a \in Apps : ZeroCopyGetPtr(a) \/ ZeroCopyReleasePtr(a)
  BY <1>1, <1>2, GetPtrCounts, ReleasePtrCounts DEF CountInv
<1>3. CASE \E a \in Apps, m \in Msgs : SendMsg(a, m) \/ ZeroCopySend(a, m)
  BY <1>1, <1>3, SendCounts, ZeroCopySendCounts DEF CountInv
<1>4. CASE \E a \in Apps : FinishSend(a) \/ \E p \in Pipes : Deliver(a, p)
  BY <1>1, <1>4, DeliverCounts, FinishSendCounts DEF CountInv
<1>5. CASE DeleteTrash \/ ReleaseZeroCopy \/ DeleteTask
  BY <1>1, <1>5, DeleteTrashCounts, ReleaseZeroCopyCounts, DeleteTaskCounts DEF CountInv
<1>6. CASE Drain \/ \E a \in Apps : RcvMsg(a)
  BY <1>1, <1>6, RcvCounts DEF CountInv
<1>7. CASE \/ \E a \in Apps : \/ CreatePipe(a) \/ ExitApp(a) \/ StartCleanUp(a)
                              \/ \E m \in Msgs, p \in Pipes :
                                   Subscribe(a, m, p) \/ Unsubscribe(a, m, p)
           \/ \E m \in Msgs, p \in Pipes, on \in BOOLEAN : SetRoute(m, p, on)
           \/ \E p \in Pipes : DeletePipe(p)
           \/ \E m \in Msgs : DeleteRoute(m)
           \/ ClosePipe
           \/ UNCHANGED sbVars
  BY <1>1, <1>7, QuietSteps DEF CountInv
<1> QED
  BY <1>2, <1>3, <1>4, <1>5, <1>6, <1>7 DEF SbNext, Continue, CleanUp

\* The use count of a buffer is never below the number of its holders, and a free
\* buffer has none (CFE_SB_DecrBufUseCnt, CFE_SB_ZeroCopyReleaseAppId): also while
\* ES takes the pipes from a task that still receives from them, and after it has
\* deleted that task with a buffer in hand.
THEOREM BuffersOutliveHolders == SbSpec => []NeverFreedEarly
<1>1. SbInit => CountInv
  BY CountInit
<1>2. CountInv /\ [SbNext]_sbVars => CountInv'
  BY CountNext
<1>3. CountInv => NeverFreedEarly
  BY DEF CountInv, Counted, Tally, NeverFreedEarly
<1> QED
  BY <1>1, <1>2, <1>3, PTL DEF SbSpec

\* The use count of a buffer is the number of its holders, and a buffer without
\* holders is free (CFE_SB_DecrBufUseCnt, CFE_SB_SendMsgFull, CFE_SB_ReadQueue),
\* until ES cleans up an application that has not ended.
THEOREM CountsMatchHolders == SbSpec => []BuffersAreCounted
<1>1. SbInit => CountInv
  BY CountInit
<1>2. CountInv /\ [SbNext]_sbVars => CountInv'
  BY CountNext
<1>3. CountInv => BuffersAreCounted
  <2> SUFFICES ASSUME CountInv, ~forced, NEW b \in Buffers, b \notin pool
               PROVE  Holders(b) # {} /\ buf[b].use = Cardinality(Holders(b))
    BY DEF BuffersAreCounted
  <2>1. buf[b].use > 0 /\ Cardinality(Holders(b)) = buf[b].use
    BY DEF CountInv, Counted, Tally
  <2>2. Cardinality({}) = 0
    BY FS_EmptySet
  <2> QED
    BY <2>1, <2>2
<1> QED
  BY <1>1, <1>2, <1>3, PTL DEF SbSpec

-----------------------------------------------------------------------------
\* What counts against the limits.

\* The buffers with a message, and the tasks that have read one from a pipe.
Carrying(m) == {b \in Buffers : buf[b].msg = m}
Takers(m, p) == {t \in Tasks : /\ task[t].at = "took" /\ task[t].pipe = p /\ Keeps(t)
                               /\ task[t].buf # None /\ buf[task[t].buf].msg = m}

LEMMA WayParts ==
  ASSUME NEW m, NEW p
  PROVE  /\ OnTheWay(m, p) = Cardinality(Positions(pipe[p].queue, Carrying(m)))
                               + Cardinality(Takers(m, p))
         /\ OnTheWay(m, p)' = Cardinality(Positions(pipe'[p].queue, Carrying(m)'))
                                + Cardinality(Takers(m, p)')
  BY DEF OnTheWay, Carrying, Takers

\* Only the owner of a pipe and ES read it.
LEMMA WayFinite ==
  ASSUME PlaceInv, NEW m, NEW p \in Pipes
  PROVE  /\ IsFiniteSet(Positions(pipe[p].queue, Carrying(m)))
         /\ Cardinality(Positions(pipe[p].queue, Carrying(m))) \in Nat
         /\ IsFiniteSet(Takers(m, p)) /\ Cardinality(Takers(m, p)) \in Nat
<1>1. pipe[p].queue \in Seq(Buffers)
  BY Types DEF PlaceInv, RouteInv, PipeType
<1>2. IsFiniteSet(Positions(pipe[p].queue, Carrying(m)))
  BY <1>1, PositionsFinite
<1>3. Takers(m, p) \subseteq {pipe[p].owner, ES}
  BY DEF Takers, Keeps, Tasks
<1> DEFINE two == {pipe[p].owner} \cup {ES}
<1>4. IsFiniteSet(two)
  BY FS_Singleton, FS_Union
<1>5. IsFiniteSet(Takers(m, p))
  BY <1>3, <1>4, FS_Subset
<1> QED
  BY <1>2, <1>5, FS_CardinalityType

\* Messages that stay in a queue, and in the hands of a task, keep their id.
LEMMA QueueKept ==
  ASSUME PlaceInv, Kept, NEW m, NEW p \in Pipes, pipe'[p].queue = pipe[p].queue
  PROVE  Positions(pipe'[p].queue, Carrying(m)') = Positions(pipe[p].queue, Carrying(m))
<1>1. pipe[p].queue \in Seq(Buffers)
  BY Types DEF PlaceInv, RouteInv, PipeType
<1>2. \A i \in DOMAIN pipe[p].queue : pipe[p].queue[i] \in Underway
  <2> TAKE i \in DOMAIN pipe[p].queue
  <2>1. pipe[p].queue[i] \in Buffers /\ i \in Positions(pipe[p].queue, {pipe[p].queue[i]})
    BY <1>1 DEF Positions
  <2> QED
    BY <2>1 DEF Underway
<1>3. \A i \in DOMAIN pipe[p].queue :
        pipe[p].queue[i] \in Carrying(m)' <=> pipe[p].queue[i] \in Carrying(m)
  BY <1>2 DEF Kept, Carrying, Underway
<1> QED
  BY <1>3 DEF Positions

LEMMA TakerStays ==
  ASSUME PlaceInv, Kept, NEW m, NEW p, NEW t \in Takers(m, p),
         task'[t] = task[t], Keeps(t)'
  PROVE  t \in Takers(m, p)'
<1>1. task[t].buf \in Buffers \cup {None}
  BY Types DEF PlaceInv, RouteInv, TaskType, Takers
<1>2. task[t].buf \in Underway
  BY <1>1 DEF Underway, Takers
<1> QED
  BY <1>2 DEF Takers, Kept

LEMMA TakerKept ==
  ASSUME PlaceInv, Kept, NEW m, NEW p, NEW t \in Tasks, task'[t] = task[t],
         cleaned' = cleaned, \A s \in Pipes : pipe'[s].owner = pipe[s].owner
  PROVE  t \in Takers(m, p)' <=> t \in Takers(m, p)
<1>1. task[t].buf \in Buffers \cup {None}
  BY Types DEF PlaceInv, RouteInv, TaskType
<1>2. task[t].at = "took" /\ task[t].buf # None => task[t].buf \in Underway
  BY <1>1 DEF Underway
<1>3. task[t].at = "took" => (Keeps(t)' <=> Keeps(t))
  BY DEF Keeps, PlaceInv, RouteInv, TypeInv, Located
<1> QED
  BY <1>2, <1>3 DEF Takers, Kept

\* The steps that leave the queues alone, and the readers of pipes with a route.
LEMMA LimitsKept ==
  ASSUME PlaceInv, Kept, CountsNeverLeak,
         \A p \in Pipes : pipe'[p].queue = pipe[p].queue,
         \A t \in Tasks : task[t].at = "took" /\ Keeps(t) =>
           \/ task'[t] = task[t] /\ Keeps(t)'
           \/ \A m \in Msgs : task[t].pipe \notin dests'[m],
         \A m \in Msgs : \A p \in dests'[m] :
           p \in Pipes /\ \/ count'[m][p] = 0
                          \/ p \in dests[m] /\ count'[m][p] = count[m][p]
  PROVE  CountsNeverLeak'
<1> SUFFICES ASSUME NEW m \in Msgs, NEW p \in dests'[m]
             PROVE  count'[m][p] <= OnTheWay(m, p)'
  BY DEF CountsNeverLeak
<1>0. /\ p \in Pipes
      /\ \/ count'[m][p] = 0
         \/ p \in dests[m] /\ count'[m][p] = count[m][p]
  OBVIOUS
<1>1. Positions(pipe'[p].queue, Carrying(m)') = Positions(pipe[p].queue, Carrying(m))
  BY <1>0, QueueKept
<1>2. ASSUME NEW t \in Takers(m, p)
      PROVE  t \in Takers(m, p)'
  <2>1. t \in Tasks /\ task[t].at = "took" /\ Keeps(t) /\ task[t].pipe = p
    BY DEF Takers
  <2>2. task'[t] = task[t] /\ Keeps(t)'
    BY <2>1
  <2> QED
    BY <2>2, TakerStays
<1>3. IsFiniteSet(Takers(m, p)')
  <2>1. IsFiniteSet({pipe'[p].owner} \cup {ES})
    BY FS_Singleton, FS_Union
  <2>2. Takers(m, p)' \subseteq {pipe'[p].owner} \cup {ES}
    BY DEF Takers, Keeps, Tasks
  <2> QED
    BY <2>1, <2>2, FS_Subset
<1>4. /\ Cardinality(Takers(m, p)) <= Cardinality(Takers(m, p)')
      /\ Cardinality(Takers(m, p)') \in Nat
  BY <1>2, <1>3, FS_Subset, FS_CardinalityType
<1>5. OnTheWay(m, p) <= OnTheWay(m, p)' /\ OnTheWay(m, p) \in Nat /\ OnTheWay(m, p)' \in Nat
  BY <1>0, <1>1, <1>4, WayParts, WayFinite
<1>6. CASE count'[m][p] = 0
  BY <1>5, <1>6
<1>7. CASE p \in dests[m] /\ count'[m][p] = count[m][p]
  <2>1. count[m][p] <= OnTheWay(m, p) /\ count[m][p] \in Nat
    BY <1>0, <1>7, Types DEF CountsNeverLeak, PlaceInv, RouteInv
  <2> QED
    BY <1>5, <1>7, <2>1
<1> QED
  BY <1>0, <1>6, <1>7

\* A message is put on the pipe and counted.
LEMMA DeliverLimits ==
  ASSUME PlaceInv, Kept, CountsNeverLeak, NEW a \in Apps, NEW p \in Pipes, Deliver(a, p)
  PROVE  CountsNeverLeak'
<1>0. PICK c : c = task[a].buf
  OBVIOUS
<1>1. PICK n : n = buf[c].msg
  OBVIOUS
<1>2. /\ c \in Buffers /\ a \in Tasks /\ pipe[p].queue \in Seq(Buffers)
      /\ task[a].at = "send" /\ task'[a].at = "send"
      /\ \A u \in Tasks : u # a => task'[u] = task[u]
      /\ \A s \in Pipes : s # p => pipe'[s] = pipe[s]
      /\ \A s \in Pipes : pipe'[s].owner = pipe[s].owner
      /\ \/ UNCHANGED <<pipe, buf, count>>
         \/ /\ pipe'[p].queue = Append(pipe[p].queue, c)
            /\ buf'[c].msg = n
            /\ \A b \in Buffers : b # c => buf'[b] = buf[b]
            /\ count' = [count EXCEPT ![n][p] = @ + 1]
  BY <1>0, <1>1, DeliverEffect DEF PlaceInv, RouteInv, Tasks
<1>3. /\ UNCHANGED <<dests, cleaned>> /\ dests \in [Msgs -> SUBSET Pipes]
      /\ count \in [Msgs -> [Pipes -> Nat]]
  BY Types DEF Deliver, PlaceInv, RouteInv
<1>4. CASE UNCHANGED <<pipe, buf, count>>
  <2>1. \A t \in Tasks : task[t].at = "took" /\ Keeps(t) => task'[t] = task[t] /\ Keeps(t)'
    BY <1>2, <1>3, <1>4 DEF Keeps
  <2> QED
    BY <1>3, <1>4, <2>1, LimitsKept
<1>5. CASE ~UNCHANGED <<pipe, buf, count>>
  <2>1. /\ pipe'[p].queue = Append(pipe[p].queue, c)
        /\ buf'[c].msg = n
        /\ \A b \in Buffers : b # c => buf'[b] = buf[b]
        /\ count' = [count EXCEPT ![n][p] = @ + 1]
    BY <1>2, <1>5
  <2> SUFFICES ASSUME NEW m \in Msgs, NEW s \in dests[m]
               PROVE  count'[m][s] <= OnTheWay(m, s)'
    BY <1>3 DEF CountsNeverLeak
  <2>2. s \in Pipes /\ count[m][s] <= OnTheWay(m, s) /\ count[m][s] \in Nat
    BY <1>3 DEF CountsNeverLeak
  <2>3. \A t \in Tasks : t \in Takers(m, s)' <=> t \in Takers(m, s)
    <3> TAKE t \in Tasks
    <3>1. CASE t = a
      BY <1>2, <3>1 DEF Takers
    <3>2. CASE t # a
      BY <1>2, <1>3, <3>2, TakerKept
    <3> QED
      BY <3>1, <3>2
  <2>4. Takers(m, s)' = Takers(m, s)
    BY <2>3 DEF Takers
  <2>5. CASE s # p
    <3>1. pipe'[s].queue = pipe[s].queue
      BY <1>2, <2>2, <2>5
    <3>2. OnTheWay(m, s)' = OnTheWay(m, s)
      BY <2>2, <2>4, <3>1, QueueKept, WayParts
    <3>3. count'[m][s] = count[m][s]
      BY <1>3, <2>1, <2>2, <2>5
    <3> QED
      BY <2>2, <3>2, <3>3
  <2>6. CASE s = p
    <3> DEFINE Q == Positions(pipe[p].queue, Carrying(m))
    <3>1. Carrying(m)' = Carrying(m) /\ (c \in Carrying(m) <=> m = n)
      BY <1>1, <1>2, <2>1 DEF Carrying
    <3>2. Positions(Append(pipe[p].queue, c), Carrying(m))
            = Q \cup (IF c \in Carrying(m) THEN {Len(pipe[p].queue) + 1} ELSE {})
      BY <1>2, AppendPositions
    <3>3. Q \subseteq 1 .. Len(pipe[p].queue) /\ Len(pipe[p].queue) \in Nat
      BY <1>2, PositionsFinite
    <3>4. /\ IsFiniteSet(Q) /\ Cardinality(Q) \in Nat
          /\ Cardinality(Takers(m, p)) \in Nat
      BY WayFinite
    <3>5. OnTheWay(m, p) = Cardinality(Q) + Cardinality(Takers(m, p))
      BY WayParts
    <3>6. OnTheWay(m, p)' = Cardinality(Positions(Append(pipe[p].queue, c), Carrying(m)))
                              + Cardinality(Takers(m, p))
      BY <2>1, <2>4, <2>6, <3>1, WayParts
    <3>7. CASE m = n
      <4> DEFINE k == Len(pipe[p].queue) + 1
      <4>1. k \notin Q
        BY <3>3
      <4>2. Positions(Append(pipe[p].queue, c), Carrying(m)) = Q \cup {k}
        BY <3>1, <3>2, <3>7
      <4>3. count'[m][p] = count[m][p] + 1
        BY <1>3, <2>1, <3>7
      <4> HIDE DEF Q, k
      <4>4. Cardinality(Q \cup {k}) = Cardinality(Q) + 1
        BY <3>4, <4>1, FS_AddElement
      <4> QED
        BY <2>2, <2>6, <3>4, <3>5, <3>6, <4>2, <4>3, <4>4
    <3>8. CASE m # n
      <4>1. Positions(Append(pipe[p].queue, c), Carrying(m)) = Q
        BY <3>1, <3>2, <3>8
      <4>2. count'[m][p] = count[m][p]
        BY <1>3, <2>1, <2>2, <2>6, <3>8
      <4> QED
        BY <2>2, <2>6, <3>5, <3>6, <4>1, <4>2
    <3> QED
      BY <3>7, <3>8
  <2> QED
    BY <2>5, <2>6
<1> QED
  BY <1>4, <1>5

\* A message leaves the queue for the hands of its receiver.
LEMMA ReadQueueLimits ==
  ASSUME PlaceInv, Kept, CountsNeverLeak, NEW t \in Tasks, ReadQueue(t)
  PROVE  CountsNeverLeak'
<1>0. PICK p : p = task[t].pipe
  OBVIOUS
<1> DEFINE q == pipe[p].queue
<1>1. /\ task[t].at = "read" /\ p \in Pipes /\ q \in Seq(Buffers)
      /\ task'[t].at = "took" /\ task'[t].pipe = p
      /\ \A u \in Tasks : u # t => task'[u] = task[u]
      /\ \A s \in Pipes : s # p => pipe'[s] = pipe[s]
      /\ \A s \in Pipes : pipe'[s].owner = pipe[s].owner
      /\ IF Keeps(t) /\ q # <<>>
         THEN task'[t].buf = Head(q) /\ pipe'[p].queue = Tail(q)
         ELSE pipe' = pipe /\ task'[t].buf = task[t].buf
  BY <1>0, ReadQueueEffect DEF PlaceInv, RouteInv
<1>2. UNCHANGED <<buf, count, dests, cleaned>> /\ dests \in [Msgs -> SUBSET Pipes]
  BY Types DEF ReadQueue, PlaceInv, RouteInv
<1>3. task[t].buf = None
  BY <1>1 DEF PlaceInv, InHands
<1> SUFFICES ASSUME NEW m \in Msgs, NEW s \in dests[m]
             PROVE  OnTheWay(m, s)' = OnTheWay(m, s)
  BY <1>2 DEF CountsNeverLeak
<1>4. s \in Pipes /\ Carrying(m)' = Carrying(m)
  BY <1>2 DEF Carrying
<1>5. \A u \in Tasks : u # t => (u \in Takers(m, s)' <=> u \in Takers(m, s))
  BY <1>1, <1>2, TakerKept
<1>6. t \notin Takers(m, s)
  BY <1>1 DEF Takers
<1>7. CASE s # p \/ ~(Keeps(t) /\ q # <<>>)
  <2>1. pipe'[s].queue = pipe[s].queue
    BY <1>1, <1>4, <1>7
  <2>2. t \notin Takers(m, s)'
    BY <1>1, <1>3, <1>7 DEF Takers
  <2>3. Takers(m, s)' = Takers(m, s)
    BY <1>5, <1>6, <2>2 DEF Takers
  <2> QED
    BY <1>4, <2>1, <2>3, WayParts
<1>8. CASE s = p /\ Keeps(t) /\ q # <<>>
  <2> DEFINE Q == Positions(q, Carrying(m))
  <2>1. pipe'[p].queue = Tail(q) /\ task'[t].buf = Head(q) /\ Head(q) \in Buffers
    BY <1>1, <1>8
  <2>2. t \in Takers(m, p)' <=> Head(q) \in Carrying(m)
    BY <1>0, <1>1, <1>2, <1>8, <2>1, SbAssumption DEF Takers, Carrying, Keeps
  <2>3. Cardinality(Positions(Tail(q), Carrying(m)))
          = Cardinality(Q) - (IF Head(q) \in Carrying(m) THEN 1 ELSE 0)
    BY <1>1, <1>8, TailCount
  <2>4. /\ IsFiniteSet(Takers(m, p)) /\ Cardinality(Takers(m, p)) \in Nat
        /\ Cardinality(Q) \in Nat
    BY <1>1, WayFinite
  <2>5. /\ OnTheWay(m, p) = Cardinality(Q) + Cardinality(Takers(m, p))
        /\ OnTheWay(m, p)' = Cardinality(Positions(Tail(q), Carrying(m)))
                               + Cardinality(Takers(m, p)')
    BY <1>4, <2>1, WayParts
  <2>6. CASE Head(q) \in Carrying(m)
    <3>1. Takers(m, p)' = Takers(m, p) \cup {t}
      BY <1>5, <1>8, <2>2, <2>6 DEF Takers
    <3>2. Cardinality(Takers(m, p)') = Cardinality(Takers(m, p)) + 1
      BY <1>6, <1>8, <2>4, <3>1, FS_AddElement
    <3> QED
      BY <1>8, <2>3, <2>4, <2>5, <2>6, <3>2
  <2>7. CASE Head(q) \notin Carrying(m)
    <3>1. Takers(m, p)' = Takers(m, p)
      BY <1>5, <1>6, <1>8, <2>2, <2>7 DEF Takers
    <3> QED
      BY <1>8, <2>3, <2>4, <2>5, <2>7, <3>1
  <2> QED
    BY <2>6, <2>7
<1> QED
  BY <1>7, <1>8

\* A receive ends: the message counts no more, on the pipe and against its limit.
LEMMA EndRcvLimits ==
  ASSUME PlaceInv, Kept, CountsNeverLeak, NEW t \in Tasks, NEW next, EndRcv(t, next),
         next # "took"
  PROVE  CountsNeverLeak'
<1>0. PICK p : p = task[t].pipe
  OBVIOUS
<1>1. PICK c : c = task[t].buf
  OBVIOUS
<1>2. /\ task[t].at = "took" /\ p \in Pipes /\ task'[t].at = next
      /\ \A u \in Tasks : u # t => task'[u] = task[u]
      /\ \A s \in Pipes : /\ pipe'[s].queue = pipe[s].queue
                          /\ pipe'[s].owner = pipe[s].owner
  BY <1>0, EndRcvEffect DEF PlaceInv, RouteInv
<1>3. /\ UNCHANGED <<dests, cleaned>> /\ dests \in [Msgs -> SUBSET Pipes] /\ Release(c, p)
      /\ count \in [Msgs -> [Pipes -> Nat]]
  BY <1>0, <1>1, Types DEF EndRcv, PlaceInv, RouteInv
<1> SUFFICES ASSUME NEW m \in Msgs, NEW s \in dests[m]
             PROVE  count'[m][s] <= OnTheWay(m, s)'
  BY <1>3 DEF CountsNeverLeak
<1>4. s \in Pipes /\ count[m][s] <= OnTheWay(m, s) /\ count[m][s] \in Nat
  BY <1>3 DEF CountsNeverLeak
<1> DEFINE Q == Cardinality(Positions(pipe[s].queue, Carrying(m)))
<1>5. /\ OnTheWay(m, s) = Q + Cardinality(Takers(m, s))
      /\ OnTheWay(m, s)' = Q + Cardinality(Takers(m, s)')
      /\ Q \in Nat /\ IsFiniteSet(Takers(m, s)) /\ Cardinality(Takers(m, s)) \in Nat
  BY <1>2, <1>4, QueueKept, WayParts, WayFinite
<1>6. t \notin Takers(m, s)'
  BY <1>2 DEF Takers
<1>7. Takers(m, s)' = Takers(m, s) \ {t}
  <2>1. \A u \in Tasks : u # t => (u \in Takers(m, s)' <=> u \in Takers(m, s))
    BY <1>2, <1>3, TakerKept
  <2> QED
    BY <1>6, <2>1 DEF Takers
<1>8. CASE t \in Takers(m, s)
  <2>1. s = p /\ c # None /\ buf[c].msg = m
    BY <1>0, <1>1, <1>8 DEF Takers
  <2>2. Cardinality(Takers(m, s)') = Cardinality(Takers(m, s)) - 1
    BY <1>5, <1>7, <1>8, FS_RemoveElement
  <2>3. OnTheWay(m, s)' = OnTheWay(m, s) - 1
    BY <1>5, <2>2
  <2>4. Cardinality(Takers(m, s)') \in Nat
    BY <1>5, <1>7, FS_Subset, FS_CardinalityType
  <2>5. CASE count[m][s] > 0
    <3>1. count'[m][s] = count[m][s] - 1
      BY <1>3, <1>4, <2>1, <2>5 DEF Release
    <3> QED
      BY <1>4, <1>5, <2>3, <3>1
  <2>6. CASE count[m][s] = 0
    <3>1. count'[m][s] = 0
      BY <1>3, <1>4, <2>1, <2>6 DEF Release
    <3> QED
      BY <1>5, <2>4, <3>1
  <2> QED
    BY <1>4, <2>5, <2>6
<1>9. CASE t \notin Takers(m, s)
  <2>1. Takers(m, s)' = Takers(m, s)
    BY <1>7, <1>9
  <2>2. count'[m][s] <= count[m][s] /\ count'[m][s] \in Nat
    BY <1>3, <1>4 DEF Release
  <2> QED
    BY <1>4, <1>5, <2>1, <2>2
<1> QED
  BY <1>8, <1>9

\* The steps of one task that read nothing and change no route.
LEMMA CallLimits ==
  ASSUME PlaceInv, Kept, CountsNeverLeak, UNCHANGED <<dests, count, cleaned>>,
         \A p \in Pipes : /\ pipe'[p].queue = pipe[p].queue
                          /\ pipe'[p].owner = pipe[p].owner,
         NEW t \in Tasks, task[t].at # "took", task'[t].at # "took",
         \A u \in Tasks : u # t => task'[u] = task[u]
  PROVE  CountsNeverLeak'
<1>1. dests \in [Msgs -> SUBSET Pipes]
  BY Types DEF PlaceInv, RouteInv
<1>2. \A m \in Msgs : \A p \in dests'[m] :
        p \in Pipes /\ p \in dests[m] /\ count'[m][p] = count[m][p]
  BY <1>1
<1>3. \A u \in Tasks : task[u].at = "took" /\ Keeps(u) => task'[u] = task[u] /\ Keeps(u)'
  BY DEF Keeps, PlaceInv, RouteInv, TypeInv, Located
<1> QED
  BY <1>2, <1>3, LimitsKept

LEMMA AppLimits ==
  ASSUME PlaceInv, Kept, CountsNeverLeak, NEW a \in Apps,
         \/ CreatePipe(a) \/ ExitApp(a) \/ StartCleanUp(a) \/ FinishSend(a)
         \/ ZeroCopyGetPtr(a) \/ ZeroCopyReleasePtr(a)
         \/ \E m \in Msgs : SendMsg(a, m) \/ ZeroCopySend(a, m)
         \/ \E p \in Pipes : pipe[p].owner = a /\ StartRcv(a, p, "idle")
  PROVE  CountsNeverLeak'
<1>0. /\ TypeInv /\ a \in Tasks /\ pipe \in [Pipes -> PipeType]
      /\ dests \in [Msgs -> SUBSET Pipes] /\ None \notin Tasks /\ Tasks = Apps \cup {ES}
  BY Types, SbAssumption DEF PlaceInv, RouteInv, Tasks
<1>1. CASE CreatePipe(a)
  <2>1. PICK p \in Pipes : ~Open(p) /\ pipe' = [pipe EXCEPT ![p] = [Closed EXCEPT !.owner = a]]
    BY <1>1 DEF CreatePipe
  <2>2. \A q \in Pipes : pipe'[q].queue = pipe[q].queue
    BY <1>0, <2>1 DEF Open, Closed, PlaceInv, Vacant
  <2>3. UNCHANGED <<task, dests, count, cleaned>>
    BY <1>1 DEF CreatePipe
  <2>4. ASSUME NEW t \in Tasks, task[t].at = "took", Keeps(t)
        PROVE  Keeps(t)'
    <3>1. task[t].pipe \in Pipes
      BY <2>4 DEF PlaceInv, RouteInv, TypeInv, Located
    <3>2. task[t].pipe # p
      BY <1>0, <2>1, <2>4 DEF Open, Keeps, PlaceInv, RouteInv, Cleaning
    <3>3. pipe'[task[t].pipe] = pipe[task[t].pipe]
      BY <1>0, <2>1, <3>1, <3>2
    <3> QED
      BY <2>3, <2>4, <3>3 DEF Keeps
  <2> QED
    BY <1>0, <2>2, <2>3, <2>4, LimitsKept
<1>2. CASE ExitApp(a)
  <2>1. /\ task[a].at = "idle" /\ UNCHANGED <<pipe, dests, count, cleaned>>
        /\ task' = [task EXCEPT ![a].at = "ended"]
    BY <1>2 DEF ExitApp, Idle
  <2>2. task'[a].at = "ended" /\ \A u \in Tasks : u # a => task'[u] = task[u]
    BY <1>0, <2>1, MoveEffect
  <2> QED
    BY <1>0, <2>1, <2>2, CallLimits
<1>7. CASE StartCleanUp(a)
  <2>1. cleaned = None /\ UNCHANGED <<pipe, task, dests, count>>
    BY <1>7 DEF StartCleanUp
  <2>2. task[ES].at = "idle"
    BY <2>1 DEF PlaceInv, RouteInv, Cleaning
  <2>3. \A t \in Tasks : task[t].at = "took" /\ Keeps(t) => Keeps(t)'
    BY <2>1, <2>2 DEF Keeps
  <2> QED
    BY <1>0, <2>1, <2>3, LimitsKept
<1>3. CASE FinishSend(a)
  <2>1. /\ task[a].at = "send" /\ UNCHANGED <<pipe, dests, count, cleaned>>
        /\ task' = [task EXCEPT ![a] = At("idle")]
    BY <1>3 DEF FinishSend
  <2>2. task'[a].at = "idle" /\ \A u \in Tasks : u # a => task'[u] = task[u]
    BY <1>0, <2>1, SettleEffect
  <2> QED
    BY <1>0, <2>1, <2>2, CallLimits
<1>4. CASE ZeroCopyGetPtr(a) \/ ZeroCopyReleasePtr(a)
  <2>1. task[a].at = "idle" /\ UNCHANGED <<pipe, task, dests, count, cleaned>>
    BY <1>4 DEF ZeroCopyGetPtr, ZeroCopyReleasePtr, Calls, Idle
  <2> QED
    BY <1>0, <2>1, CallLimits
<1>5. ASSUME NEW m \in Msgs, SendMsg(a, m) \/ ZeroCopySend(a, m)
      PROVE  CountsNeverLeak'
  <2>1. /\ task[a].at = "idle" /\ UNCHANGED <<pipe, dests, count, cleaned>>
        /\ \/ task' = task
           \/ \E b \in Buffers \cup pool \cup held[a] :
                task' = [task EXCEPT ![a] = [At("send") EXCEPT !.buf = b, !.rest = dests[m]]]
    BY <1>5 DEF SendMsg, ZeroCopySend, Calls, Idle
  <2>2. CASE task' = task
    BY <1>0, <2>1, <2>2, CallLimits
  <2>3. CASE task' # task
    <3>0. PICK b, rest : task' = [task EXCEPT ![a] = [At("send") EXCEPT !.buf = b, !.rest = rest]]
      BY <2>1, <2>3
    <3>1. task'[a].at = "send" /\ \A u \in Tasks : u # a => task'[u] = task[u]
      BY <1>0, <3>0, SendEffect
    <3> QED
      BY <1>0, <2>1, <3>1, CallLimits
  <2> QED
    BY <2>2, <2>3
<1>6. ASSUME NEW p \in Pipes, StartRcv(a, p, "idle")
      PROVE  CountsNeverLeak'
  <2>1. /\ task[a].at = "idle" /\ task'[a].at = "read"
        /\ \A q \in Pipes : pipe'[q].queue = pipe[q].queue /\ pipe'[q].owner = pipe[q].owner
        /\ \A u \in Tasks : u # a => task'[u] = task[u]
    BY <1>0, <1>6, StartRcvEffect
  <2>2. UNCHANGED <<dests, count, cleaned>>
    BY <1>6 DEF StartRcv
  <2> QED
    BY <1>0, <2>1, <2>2, CallLimits
<1> QED
  BY <1>1, <1>2, <1>3, <1>4, <1>5, <1>6, <1>7

\* A destination is new or deleted: what counted against it before does not.
LEMMA RouteLimits ==
  ASSUME PlaceInv, Kept, CountsNeverLeak, NEW m \in Msgs, NEW p \in Pipes,
         \/ \E a \in Apps : Subscribe(a, m, p) \/ Unsubscribe(a, m, p)
         \/ \E on \in BOOLEAN : SetRoute(m, p, on)
         \/ DeleteRoute(m) /\ p = task[ES].pipe
  PROVE  CountsNeverLeak'
<1>1. /\ dests \in [Msgs -> SUBSET Pipes] /\ count \in [Msgs -> [Pipes -> Nat]]
  BY Types DEF PlaceInv, RouteInv
<1>2. UNCHANGED <<pipe, task, cleaned>>
  BY DEF Subscribe, Unsubscribe, SetRoute, DeleteRoute
<1>3. \/ UNCHANGED <<dests, count>>
      \/ /\ dests' = [dests EXCEPT ![m] = @ \cup {p}] \/ dests' = [dests EXCEPT ![m] = @ \ {p}]
         /\ count' = [count EXCEPT ![m][p] = 0]
  BY DEF Subscribe, Unsubscribe, SetRoute, DeleteRoute, Leave
<1>4. \A n \in Msgs : \A s \in dests'[n] :
        s \in Pipes /\ \/ count'[n][s] = 0
                       \/ s \in dests[n] /\ count'[n][s] = count[n][s]
  BY <1>1, <1>3
<1>5. \A t \in Tasks : Keeps(t)' <=> Keeps(t)
  BY <1>2 DEF Keeps
<1> QED
  BY <1>2, <1>4, <1>5, LimitsKept

LEMMA CleanUpLimits ==
  ASSUME PlaceInv, Kept, CountsNeverLeak,
         \/ \E p \in Pipes : DeletePipe(p)
         \/ DeleteTrash \/ ClosePipe \/ ReleaseZeroCopy \/ DeleteTask
         \/ StartRcv(ES, task[ES].pipe, "drain")
  PROVE  CountsNeverLeak'
<1> DEFINE p == task[ES].pipe
<1>0. /\ TypeInv /\ ES \in Tasks /\ Apps \subseteq Tasks /\ pipe \in [Pipes -> PipeType]
      /\ dests \in [Msgs -> SUBSET Pipes] /\ Tasks = Apps \cup {ES} /\ ES \notin Apps
  BY Types, SbAssumption DEF PlaceInv, RouteInv, Tasks
<1>1. ASSUME NEW q \in Pipes, DeletePipe(q)
      PROVE  CountsNeverLeak'
  <2>1. /\ task' = [task EXCEPT ![ES] = [At("routes") EXCEPT !.pipe = q]]
        /\ task[ES].at = "idle" /\ UNCHANGED <<pipe, dests, count, cleaned>>
    BY <1>1 DEF DeletePipe
  <2>2. task'[ES].at = "routes" /\ \A u \in Tasks : u # ES => task'[u] = task[u]
    BY <1>0, <2>1, Types DEF At
  <2> QED
    BY <1>0, <2>1, <2>2, CallLimits
<1>2. CASE DeleteTrash
  <2>1. /\ task' = [task EXCEPT ![ES].at = "drain"] /\ task[ES].at = "routes"
        /\ pipe' = [pipe EXCEPT ![p].trash = None] /\ UNCHANGED <<dests, count, cleaned>>
    BY <1>2 DEF DeleteTrash
  <2>2. task'[ES].at = "drain" /\ \A u \in Tasks : u # ES => task'[u] = task[u]
    BY <1>0, <2>1, MoveEffect
  <2>3. \A q \in Pipes : pipe'[q].queue = pipe[q].queue /\ pipe'[q].owner = pipe[q].owner
    BY <1>0, <2>1 DEF PipeType
  <2> QED
    BY <1>0, <2>1, <2>2, <2>3, CallLimits
<1>3. CASE ClosePipe
  <2>1. /\ task' = [task EXCEPT ![ES] = At("idle")] /\ task[ES].at = "close"
        /\ pipe' = [pipe EXCEPT ![p] = Closed] /\ UNCHANGED <<dests, count, cleaned>>
    BY <1>3 DEF ClosePipe
  <2>2. task'[ES].at = "idle" /\ \A u \in Tasks : u # ES => task'[u] = task[u]
    BY <1>0, <2>1, SettleEffect
  <2>3. \A q \in Pipes : pipe'[q].queue = pipe[q].queue
    BY <1>0, <2>1 DEF PlaceInv, Emptied, Closed
  <2>4. \A m \in Msgs : p \notin dests[m]
    BY <2>1 DEF PlaceInv, RouteInv, Unrouted, RoutesTo
  <2>5. ASSUME NEW t \in Tasks, task[t].at = "took", Keeps(t), task[t].pipe # p
        PROVE  task'[t] = task[t] /\ Keeps(t)'
    <3>1. task[t].pipe \in Pipes /\ t # ES /\ task'[t] = task[t]
      BY <2>1, <2>2, <2>5 DEF PlaceInv, RouteInv, TypeInv, Located
    <3>2. pipe'[task[t].pipe] = pipe[task[t].pipe]
      BY <1>0, <2>1, <2>5, <3>1
    <3> QED
      BY <2>1, <2>5, <3>1, <3>2 DEF Keeps
  <2> QED
    BY <1>0, <2>1, <2>3, <2>4, <2>5, LimitsKept
<1>4. CASE DeleteTask
  <2>0. PICK a : a = cleaned
    OBVIOUS
  <2>1. /\ a \in Tasks /\ UNCHANGED <<pipe, dests, count>>
        /\ task' = [task EXCEPT ![a] = At("idle")]
        /\ task[ES].at = "idle" /\ \A s \in Pipes : pipe[s].owner # a
    BY <1>0, <1>4, <2>0, Types DEF DeleteTask, NoPipesLeft
  <2>2. task'[a].at = "idle" /\ \A u \in Tasks : u # a => task'[u] = task[u]
    BY <1>0, <2>1, SettleEffect
  <2>3. ASSUME NEW t \in Tasks, task[t].at = "took", Keeps(t)
        PROVE  task'[t] = task[t] /\ Keeps(t)'
    <3>1. task[t].pipe \in Pipes /\ t # ES
      BY <2>1, <2>3 DEF PlaceInv, RouteInv, TypeInv, Located
    <3>2. t # a
      BY <2>1, <2>3, <3>1 DEF Keeps
    <3> QED
      BY <2>1, <2>2, <2>3, <3>1, <3>2 DEF Keeps
  <2> QED
    BY <1>0, <2>1, <2>3, LimitsKept
<1>6. CASE ReleaseZeroCopy
  <2>1. task[ES].at = "idle" /\ UNCHANGED <<pipe, task, dests, count, cleaned>>
    BY <1>6 DEF ReleaseZeroCopy, NoPipesLeft
  <2> QED
    BY <1>0, <2>1, CallLimits
<1>5. CASE StartRcv(ES, p, "drain")
  <2>0. PICK q : q = p
    OBVIOUS
  <2>1. task[ES].at = "drain" /\ UNCHANGED <<dests, count, cleaned>>
    BY <1>5 DEF StartRcv
  <2>2. q \in Pipes
    BY <2>0, <2>1 DEF PlaceInv, RouteInv, TypeInv, Located
  <2>3. /\ task'[ES].at = "read"
        /\ \A s \in Pipes : pipe'[s].queue = pipe[s].queue /\ pipe'[s].owner = pipe[s].owner
        /\ \A u \in Tasks : u # ES => task'[u] = task[u]
    BY <1>0, <1>5, <2>0, <2>2, StartRcvEffect
  <2> QED
    BY <1>0, <2>1, <2>3, CallLimits
<1> QED
  BY <1>1, <1>2, <1>3, <1>4, <1>5, <1>6

LEMMA LimitsNext ==
  ASSUME PlaceInv, Kept, CountsNeverLeak, [SbNext]_sbVars
  PROVE  CountsNeverLeak'
<1>0. /\ TypeInv /\ ES \in Tasks /\ Apps \subseteq Tasks
  BY DEF PlaceInv, RouteInv, Tasks
<1>1. ASSUME NEW a \in Apps,
             \/ CreatePipe(a) \/ ExitApp(a) \/ StartCleanUp(a) \/ FinishSend(a)
             \/ ZeroCopyGetPtr(a) \/ ZeroCopyReleasePtr(a)
             \/ \E m \in Msgs : SendMsg(a, m) \/ ZeroCopySend(a, m)
             \/ \E p \in Pipes : pipe[p].owner = a /\ StartRcv(a, p, "idle")
      PROVE  CountsNeverLeak'
  BY <1>1, AppLimits
<1>2. ASSUME NEW a \in Apps, NEW p \in Pipes, Deliver(a, p)
      PROVE  CountsNeverLeak'
  BY <1>2, DeliverLimits
<1>3. ASSUME NEW a \in Apps, ReadQueue(a) \/ EndRcv(a, "idle")
      PROVE  CountsNeverLeak'
  BY <1>0, <1>3, ReadQueueLimits, EndRcvLimits
<1>4. ASSUME NEW m \in Msgs, NEW p \in Pipes,
             \/ \E a \in Apps : Subscribe(a, m, p) \/ Unsubscribe(a, m, p)
             \/ \E on \in BOOLEAN : SetRoute(m, p, on)
      PROVE  CountsNeverLeak'
  BY <1>4, RouteLimits
<1>5. ASSUME NEW m \in Msgs, DeleteRoute(m)
      PROVE  CountsNeverLeak'
  <2>0. PICK p : p = task[ES].pipe
    OBVIOUS
  <2>1. task[ES].at = "routes"
    BY <1>5 DEF DeleteRoute
  <2>2. p \in Pipes
    BY <2>0, <2>1 DEF PlaceInv, RouteInv, TypeInv, Located
  <2> QED
    BY <1>5, <2>0, <2>2, RouteLimits
<1>6. CASE \/ \E p \in Pipes : DeletePipe(p)
           \/ DeleteTrash \/ ClosePipe \/ ReleaseZeroCopy \/ DeleteTask
           \/ StartRcv(ES, task[ES].pipe, "drain")
  BY <1>6, CleanUpLimits
<1>7. CASE Drain
  <2>1. CASE StartRcv(ES, task[ES].pipe, "drain")
    BY <1>6, <2>1
  <2>2. CASE ReadQueue(ES)
    BY <1>0, <2>2, ReadQueueLimits
  <2>3. CASE EndRcv(ES, IF task[ES].buf = None THEN "close" ELSE "drain")
    <3>1. PICK next : next = IF task[ES].buf = None THEN "close" ELSE "drain"
      OBVIOUS
    <3>2. next # "took" /\ EndRcv(ES, next)
      BY <2>3, <3>1
    <3> QED
      BY <1>0, <3>2, EndRcvLimits
  <2> QED
    BY <1>7, <2>1, <2>2, <2>3 DEF Drain
<1>8. CASE UNCHANGED sbVars
  <2>1. UNCHANGED <<pipe, task, dests, count, cleaned>> /\ dests \in [Msgs -> SUBSET Pipes]
    BY <1>0, <1>8, Types DEF sbVars
  <2>2. \A m \in Msgs : \A p \in dests'[m] :
          p \in Pipes /\ p \in dests[m] /\ count'[m][p] = count[m][p]
    BY <2>1
  <2>3. \A t \in Tasks : Keeps(t)' <=> Keeps(t)
    BY <2>1 DEF Keeps
  <2> QED
    BY <2>1, <2>2, <2>3, LimitsKept
<1> QED
  BY <1>1, <1>2, <1>3, <1>4, <1>5, <1>6, <1>7, <1>8
     DEF SbNext, Continue, RcvMsg, CleanUp

\* What counts against a limit is on the pipe, or in the hands of a receiver that
\* will give its place back (BuffCount in CFE_SB_SendMsgFull and CFE_SB_RcvMsg): so
\* a pipe whose messages are read never refuses a message id for good.
THEOREM LimitsAreGivenBack == SbSpec => []CountsNeverLeak
<1>1. SbInit => CountInv /\ CountsNeverLeak
  BY CountInit DEF SbInit, CountsNeverLeak
<1>2. CountInv /\ CountsNeverLeak /\ [SbNext]_sbVars => (CountInv /\ CountsNeverLeak)'
  BY CountNext, LimitsNext DEF CountInv
<1> QED
  BY <1>1, <1>2, PTL DEF SbSpec

-----------------------------------------------------------------------------
\* A pipe acts as SharedPipe has it.

Ids(p) == [i \in DOMAIN pipe[p].queue |-> [id |-> buf[pipe[p].queue[i]].msg]]
Counts(p) == [m \in Msgs |-> IF p \in dests[m] THEN count[m][p] ELSE 0]

LEMMA ViewParts ==
  ASSUME NEW p
  PROVE  /\ View(p) = [queue |-> Ids(p), count |-> Counts(p)]
         /\ View(p)' = [queue |-> Ids(p)', count |-> Counts(p)']
  BY DEF View, Ids, Counts

LEMMA SeqOf ==
  ASSUME NEW T, NEW n \in Nat, NEW f \in [1 .. n -> T]
  PROVE  f \in Seq(T) /\ Len(f) = n /\ DOMAIN f = 1 .. n
  OBVIOUS

LEMMA IdsLength ==
  ASSUME NEW p, pipe[p].queue \in Seq(Buffers)
  PROVE  /\ DOMAIN Ids(p) = 1 .. Len(pipe[p].queue)
         /\ Ids(p) \in Seq([id : {buf[b].msg : b \in Buffers}])
         /\ Len(Ids(p)) = Len(pipe[p].queue)
<1> DEFINE q == pipe[p].queue
<1> DEFINE T == [id : {buf[b].msg : b \in Buffers}]
<1>1. q \in [1 .. Len(q) -> Buffers] /\ Len(q) \in Nat /\ DOMAIN q = 1 .. Len(q)
  OBVIOUS
<1>2. Ids(p) \in [1 .. Len(q) -> T]
  BY <1>1 DEF Ids
<1> HIDE DEF T
<1>3. Ids(p) \in Seq(T) /\ Len(Ids(p)) = Len(q) /\ DOMAIN Ids(p) = 1 .. Len(q)
  BY <1>1, <1>2, SeqOf
<1> QED
  BY <1>3 DEF T

LEMMA IdsKept ==
  ASSUME PlaceInv, Kept, NEW p \in Pipes, pipe'[p].queue = pipe[p].queue
  PROVE  Ids(p)' = Ids(p)
<1>1. pipe[p].queue \in Seq(Buffers)
  BY Types DEF PlaceInv, RouteInv, PipeType
<1>2. \A i \in DOMAIN pipe[p].queue : pipe[p].queue[i] \in Underway
  <2> TAKE i \in DOMAIN pipe[p].queue
  <2>1. pipe[p].queue[i] \in Buffers /\ i \in Positions(pipe[p].queue, {pipe[p].queue[i]})
    BY <1>1 DEF Positions
  <2> QED
    BY <2>1 DEF Underway
<1> QED
  BY <1>2 DEF Kept, Ids

\* The steps that leave the queue of a pipe, and what counts on it, alone.
LEMMA ViewKept ==
  ASSUME PlaceInv, Kept, NEW p \in Pipes, dests' = dests,
         pipe'[p].queue = pipe[p].queue,
         \A m \in Msgs : p \in dests[m] => count'[m][p] = count[m][p]
  PROVE  View(p)' = View(p)
<1>1. Counts(p)' = Counts(p)
  BY DEF Counts
<1> QED
  BY <1>1, IdsKept, ViewParts

OneOperation(p) ==
  \/ View(p)' = View(p)
  \/ SP!Waiting(View(p)) /\ View(p)' = SP!Take(View(p))
  \/ \E m \in Msgs : \/ View(p)' = SP!Put(View(p), [id |-> m], Depth, MsgLim)
                     \/ View(p)' = SP!Release(View(p), [id |-> m])

LEMMA QueueSet ==
  ASSUME NEW V, NEW C, NEW r \in [queue : V, count : C], NEW w \in V
  PROVE  [r EXCEPT !.queue = w] = [queue |-> w, count |-> r.count]
  OBVIOUS

LEMMA ReadQueueShows ==
  ASSUME PlaceInv, Kept, NEW t \in Tasks, ReadQueue(t), NEW p \in Pipes
  PROVE  OneOperation(p)
<1> DEFINE q == pipe[p].queue
<1>1. /\ UNCHANGED <<buf, count, dests>> /\ q \in Seq(Buffers)
      /\ \/ pipe'[p].queue = q
         \/ q # <<>> /\ pipe'[p].queue = Tail(q)
  BY ReadQueueEffect, Types DEF ReadQueue, PlaceInv, RouteInv, PipeType
<1>2. CASE pipe'[p].queue = q
  BY <1>1, <1>2, ViewKept DEF OneOperation
<1>3. CASE q # <<>> /\ pipe'[p].queue = Tail(q)
  <2>1. Counts(p)' = Counts(p)
    BY <1>1 DEF Counts
  <2>2. Ids(p) # <<>> /\ Ids(p)' = Tail(Ids(p))
    <3>1. /\ Ids(p) \in Seq([id : {buf[b].msg : b \in Buffers}])
          /\ Len(Ids(p)) = Len(q) /\ DOMAIN Ids(p) = 1 .. Len(q)
      BY <1>1, IdsLength
    <3>2. Len(q) \in Nat /\ Len(q) # 0
      BY <1>1, <1>3
    <3>3. Ids(p) # <<>>
      BY <3>1, <3>2
    <3>4. DOMAIN Tail(q) = 1 .. Len(q) - 1 /\ \A i \in 1 .. Len(q) - 1 : Tail(q)[i] = q[i + 1]
      BY <1>1, <1>3
    <3>5. Ids(p)' = [i \in 1 .. Len(q) - 1 |-> [id |-> buf[q[i + 1]].msg]]
      BY <1>1, <1>3, <3>4 DEF Ids
    <3>6. \A i \in 1 .. Len(q) - 1 : Ids(p)[i + 1] = [id |-> buf[q[i + 1]].msg]
      BY <1>1, <3>1, <3>2 DEF Ids
    <3> DEFINE T == [id : {buf[b].msg : b \in Buffers}]
    <3> DEFINE v == Ids(p)
    <3> DEFINE w == [i \in 1 .. Len(q) - 1 |-> [id |-> buf[q[i + 1]].msg]]
    <3>7. w \in [1 .. Len(q) - 1 -> T] /\ Len(q) - 1 \in Nat
      BY <1>1, <3>2
    <3>8. \A i \in 1 .. Len(q) - 1 : w[i] = v[i + 1]
      BY <3>6
    <3> HIDE DEF T, v, w
    <3>9. w \in Seq(T) /\ Len(w) = Len(q) - 1
      BY <3>7, SeqOf
    <3>10. /\ Tail(v) \in Seq(T) /\ Len(Tail(v)) = Len(q) - 1
           /\ \A i \in 1 .. Len(q) - 1 : Tail(v)[i] = v[i + 1]
      BY <3>1, <3>2, <3>3 DEF T, v
    <3>11. w = Tail(v)
      BY <3>8, <3>9, <3>10, SeqEqual
    <3> QED
      BY <3>3, <3>5, <3>11 DEF v, w
  <2> DEFINE v == Ids(p)
  <2> DEFINE c == Counts(p)
  <2>3. View(p) = [queue |-> v, count |-> c] /\ View(p)' = [queue |-> Tail(v), count |-> c]
    BY <2>1, <2>2, ViewParts
  <2> HIDE DEF v, c
  <2>4. v # <<>>
    BY <2>2 DEF v
  <2>5. SP!Waiting(View(p))
    BY <2>3, <2>4 DEF SP!Waiting
  <2>6. PICK w : w = Tail(v)
    OBVIOUS
  <2>7. View(p)' = SP!Take(View(p))
    <3>1. View(p) \in [queue : {v, w}, count : {c}] /\ View(p).queue = v /\ View(p).count = c
      BY <2>3
    <3>2. [View(p) EXCEPT !.queue = w] = [queue |-> w, count |-> c]
      BY <3>1, QueueSet
    <3> QED
      BY <2>3, <2>6, <3>1, <3>2 DEF SP!Take
  <2> QED
    BY <2>5, <2>7 DEF OneOperation
<1> QED
  BY <1>1, <1>2, <1>3

LEMMA DeliverShows ==
  ASSUME PlaceInv, Kept, NEW a \in Apps, NEW s \in Pipes, Deliver(a, s), NEW p \in Pipes
  PROVE  OneOperation(p)
<1>0. PICK b : b = task[a].buf
  OBVIOUS
<1>1. PICK n : n = buf[b].msg
  OBVIOUS
<1> DEFINE q == pipe[p].queue
<1>2. /\ b \in Buffers /\ n \in Msgs /\ s \in dests[n] /\ q \in Seq(Buffers)
      /\ \A r \in Pipes : r # s => pipe'[r] = pipe[r]
      /\ \/ UNCHANGED <<pipe, buf, count>>
         \/ /\ Admits(n, s)
            /\ pipe'[s].queue = Append(pipe[s].queue, b)
            /\ buf'[b].msg = n
            /\ \A c \in Buffers : c # b => buf'[c] = buf[c]
            /\ count' = [count EXCEPT ![n][s] = @ + 1]
  BY <1>0, <1>1, DeliverEffect, Types DEF PlaceInv, RouteInv, Sending, PipeType
<1>3. /\ dests' = dests /\ dests \in [Msgs -> SUBSET Pipes]
      /\ count \in [Msgs -> [Pipes -> Nat]]
  BY Types DEF Deliver, PlaceInv, RouteInv
<1>4. CASE UNCHANGED <<pipe, buf, count>>
  BY <1>3, <1>4, ViewKept DEF OneOperation
<1>5. CASE ~UNCHANGED <<pipe, buf, count>> /\ p # s
  <2>1. pipe'[p].queue = q /\ count' = [count EXCEPT ![n][s] = @ + 1]
    BY <1>2, <1>5
  <2>2. \A m \in Msgs : p \in dests[m] => count'[m][p] = count[m][p]
    BY <1>2, <1>3, <1>5, <2>1
  <2> QED
    BY <1>3, <2>1, <2>2, ViewKept DEF OneOperation
<1>6. CASE ~UNCHANGED <<pipe, buf, count>> /\ p = s
  <2>1. /\ Admits(n, p) /\ pipe'[p].queue = Append(q, b)
        /\ \A c \in Buffers : buf'[c].msg = buf[c].msg
        /\ count' = [count EXCEPT ![n][p] = @ + 1] /\ p \in dests[n]
    BY <1>1, <1>2, <1>6
  <2> DEFINE v == Ids(p)
  <2> DEFINE c == Counts(p)
  <2> DEFINE e == [id |-> n]
  <2>2. Ids(p)' = Append(v, e)
    <3>1. /\ v \in Seq([id : {buf[d].msg : d \in Buffers}])
          /\ Len(v) = Len(q) /\ Len(q) \in Nat
      BY <1>2, IdsLength
    <3>2. /\ DOMAIN Append(q, b) = 1 .. Len(q) + 1
          /\ \A i \in 1 .. Len(q) : Append(q, b)[i] = q[i] /\ q[i] \in Buffers
          /\ Append(q, b)[Len(q) + 1] = b
      BY <1>2
    <3>3. Ids(p)' = [i \in 1 .. Len(q) + 1 |->
                      [id |-> buf[IF i = Len(q) + 1 THEN b ELSE q[i]].msg]]
      BY <1>2, <2>1, <3>1, <3>2 DEF Ids
    <3>4. \A i \in 1 .. Len(q) : v[i] = [id |-> buf[q[i]].msg]
      BY <1>2 DEF Ids
    <3> DEFINE T == [id : {buf[d].msg : d \in Buffers}]
    <3> DEFINE w == [i \in 1 .. Len(q) + 1 |->
                      [id |-> buf[IF i = Len(q) + 1 THEN b ELSE q[i]].msg]]
    <3>5. w \in [1 .. Len(q) + 1 -> T] /\ Len(q) + 1 \in Nat /\ e \in T
      BY <1>1, <1>2, <3>1, <3>2
    <3>6. \A i \in 1 .. Len(q) + 1 : w[i] = IF i = Len(q) + 1 THEN e ELSE v[i]
      BY <1>1, <3>1, <3>4
    <3> HIDE DEF T, v, w, e
    <3>7. w \in Seq(T) /\ Len(w) = Len(q) + 1
      BY <3>5, SeqOf
    <3>8. /\ Append(v, e) \in Seq(T) /\ Len(Append(v, e)) = Len(q) + 1
          /\ \A i \in 1 .. Len(q) + 1 :
               Append(v, e)[i] = IF i = Len(q) + 1 THEN e ELSE v[i]
      BY <3>1, <3>5 DEF T
    <3>9. w = Append(v, e)
      BY <3>6, <3>7, <3>8, SeqEqual
    <3> QED
      BY <3>3, <3>9 DEF w
  <2>3. Counts(p)' = [c EXCEPT ![n] = @ + 1] /\ c[n] = count[n][p]
    BY <1>2, <1>3, <2>1 DEF Counts
  <2>4. Len(v) = Len(q)
    BY <1>2, IdsLength
  <2>5. /\ View(p) = [queue |-> v, count |-> c]
        /\ View(p)' = [queue |-> Append(v, e), count |-> [c EXCEPT ![n] = @ + 1]]
    BY <2>2, <2>3, ViewParts
  <2>6. c[n] < MsgLim /\ Len(v) < Depth
    BY <2>1, <2>3, <2>4 DEF Admits
  <2> HIDE DEF v, c
  <2>7. View(p)' = SP!Put(View(p), [id |-> n], Depth, MsgLim)
    BY <2>5, <2>6 DEF SP!Put, SP!Admits
  <2> QED
    BY <1>2, <2>7 DEF OneOperation
<1> QED
  BY <1>4, <1>5, <1>6

LEMMA EndRcvShows ==
  ASSUME PlaceInv, Kept, NEW t \in Tasks, NEW next, EndRcv(t, next), NEW p \in Pipes
  PROVE  OneOperation(p)
<1>0. PICK s : s = task[t].pipe
  OBVIOUS
<1>1. PICK b : b = task[t].buf
  OBVIOUS
<1>2. PICK n : n = buf[b].msg
  OBVIOUS
<1>3. /\ dests' = dests /\ dests \in [Msgs -> SUBSET Pipes] /\ Release(b, s)
      /\ count \in [Msgs -> [Pipes -> Nat]] /\ s \in Pipes
      /\ pipe'[p].queue = pipe[p].queue
  BY <1>0, <1>1, EndRcvEffect, Types DEF EndRcv, PlaceInv, RouteInv
<1>4. CASE p = s /\ b # None /\ n \in Msgs
  <2> DEFINE v == Ids(p)
  <2> DEFINE c == Counts(p)
  <2>1. Counts(p)' = [c EXCEPT ![n] = IF @ > 0 THEN @ - 1 ELSE 0]
    <3>1. CASE p \in dests[n] /\ count[n][p] > 0
      <4>1. count' = [count EXCEPT ![n][p] = @ - 1]
        BY <1>2, <1>3, <1>4, <3>1 DEF Release
      <4> QED
        BY <1>3, <1>4, <3>1, <4>1 DEF Counts
    <3>2. CASE ~(p \in dests[n] /\ count[n][p] > 0)
      <4>1. count' = count
        BY <1>2, <1>3, <1>4, <3>2 DEF Release
      <4>2. count[n][p] \in Nat
        BY <1>3, <1>4
      <4> QED
        BY <1>3, <1>4, <3>2, <4>1, <4>2 DEF Counts
    <3> QED
      BY <3>1, <3>2
  <2>2. /\ View(p) = [queue |-> v, count |-> c]
        /\ View(p)' = [queue |-> v, count |-> [c EXCEPT ![n] = IF @ > 0 THEN @ - 1 ELSE 0]]
    BY <1>3, <2>1, ViewParts, IdsKept
  <2> HIDE DEF v, c
  <2>3. View(p)' = SP!Release(View(p), [id |-> n])
    BY <2>2 DEF SP!Release
  <2> QED
    BY <1>4, <2>3 DEF OneOperation
<1>5. CASE ~(p = s /\ b # None /\ n \in Msgs)
  <2>1. \A m \in Msgs : p \in dests[m] => count'[m][p] = count[m][p]
    BY <1>2, <1>3, <1>5 DEF Release
  <2> QED
    BY <1>3, <2>1, ViewKept DEF OneOperation
<1> QED
  BY <1>4, <1>5

LEMMA PipeShows ==
  ASSUME CountInv, [SbNext]_sbVars, dests' = dests, NEW p \in Pipes
  PROVE  OneOperation(p)
<1>0. /\ PlaceInv /\ Kept /\ TypeInv /\ ES \in Tasks /\ Apps \subseteq Tasks
      /\ pipe \in [Pipes -> PipeType] /\ count \in [Msgs -> [Pipes -> Nat]]
  BY CountNext, Types DEF CountInv, PlaceInv, RouteInv, Tasks
<1>1. ASSUME pipe'[p].queue = pipe[p].queue,
             \A m \in Msgs : p \in dests[m] => count'[m][p] = count[m][p]
      PROVE  OneOperation(p)
  BY <1>0, <1>1, ViewKept DEF OneOperation
<1>2. ASSUME NEW a \in Apps, CreatePipe(a)
      PROVE  OneOperation(p)
  <2>1. PICK q \in Pipes : ~Open(q) /\ pipe' = [pipe EXCEPT ![q] = [Closed EXCEPT !.owner = a]]
    BY <1>2 DEF CreatePipe
  <2>2. pipe'[p].queue = pipe[p].queue
    BY <1>0, <2>1 DEF Open, Closed, PlaceInv, Vacant
  <2>3. count' = count
    BY <1>2 DEF CreatePipe
  <2> QED
    BY <1>1, <2>2, <2>3
<1>3. ASSUME NEW a \in Apps, NEW s \in Pipes, Deliver(a, s)
      PROVE  OneOperation(p)
  BY <1>0, <1>3, DeliverShows
<1>4. ASSUME NEW t \in Tasks, NEW s \in Pipes, NEW from, StartRcv(t, s, from)
      PROVE  OneOperation(p)
  BY <1>0, <1>1, <1>4, StartRcvEffect DEF StartRcv
<1>5. ASSUME NEW t \in Tasks, ReadQueue(t)
      PROVE  OneOperation(p)
  BY <1>0, <1>5, ReadQueueShows
<1>6. ASSUME NEW t \in Tasks, NEW next, EndRcv(t, next)
      PROVE  OneOperation(p)
  BY <1>0, <1>6, EndRcvShows
<1>7. ASSUME NEW a \in Apps, RcvMsg(a)
      PROVE  OneOperation(p)
  BY <1>0, <1>4, <1>5, <1>6, <1>7 DEF RcvMsg
<1>8. ASSUME NEW m \in Msgs, NEW s \in Pipes,
             \/ \E a \in Apps : Subscribe(a, m, s) \/ Unsubscribe(a, m, s)
             \/ \E on \in BOOLEAN : SetRoute(m, s, on)
             \/ DeleteRoute(m) /\ s = task[ES].pipe
      PROVE  OneOperation(p)
  <2>1. pipe' = pipe
    BY <1>8 DEF Subscribe, Unsubscribe, SetRoute, DeleteRoute
  <2>2. \/ count' = count
        \/ /\ count' = [count EXCEPT ![m][s] = 0]
           /\ s \notin dests[m] \/ dests' = [dests EXCEPT ![m] = @ \ {s}]
    BY <1>8 DEF Subscribe, Unsubscribe, SetRoute, DeleteRoute, Leave
  <2>3. dests \in [Msgs -> SUBSET Pipes]
    BY <1>0, Types
  <2>4. count' = count \/ (count' = [count EXCEPT ![m][s] = 0] /\ s \notin dests[m])
    BY <2>2, <2>3
  <2>5. \A n \in Msgs : p \in dests[n] => count'[n][p] = count[n][p]
    BY <1>0, <2>4
  <2> QED
    BY <1>1, <2>1, <2>5
<1>9. ASSUME NEW m \in Msgs, DeleteRoute(m)
      PROVE  OneOperation(p)
  <2>0. PICK s : s = task[ES].pipe
    OBVIOUS
  <2>1. s \in Pipes
    BY <1>0, <1>9, <2>0 DEF DeleteRoute, TypeInv, Located
  <2> QED
    BY <1>8, <1>9, <2>0, <2>1
<1>10. CASE DeleteTrash
  <2>1. /\ pipe' = [pipe EXCEPT ![task[ES].pipe].trash = None] /\ count' = count
        /\ task[ES].pipe \in Pipes
    BY <1>0, <1>10 DEF DeleteTrash, TypeInv, Located
  <2>2. pipe'[p].queue = pipe[p].queue
    BY <1>0, <2>1 DEF PipeType
  <2> QED
    BY <1>1, <2>1, <2>2
<1>11. CASE ClosePipe
  <2>1. /\ pipe' = [pipe EXCEPT ![task[ES].pipe] = Closed] /\ count' = count
        /\ task[ES].at = "close"
    BY <1>11 DEF ClosePipe
  <2>2. pipe'[p].queue = pipe[p].queue
    BY <1>0, <2>1 DEF PlaceInv, Emptied, Closed
  <2> QED
    BY <1>1, <2>1, <2>2
<1>12. CASE Drain
  <2>1. CASE StartRcv(ES, task[ES].pipe, "drain")
    <3>0. PICK s : s = task[ES].pipe
      OBVIOUS
    <3>1. s \in Pipes
      BY <1>0, <2>1, <3>0 DEF StartRcv, TypeInv, Located
    <3> QED
      BY <1>0, <1>4, <2>1, <3>0, <3>1
  <2> QED
    BY <1>0, <1>5, <1>6, <1>12, <2>1 DEF Drain
<1>13. ASSUME UNCHANGED <<pipe, count>>
       PROVE  OneOperation(p)
  BY <1>1, <1>13
<1>14. ASSUME NEW a \in Apps,
              \/ ZeroCopyGetPtr(a) \/ ZeroCopyReleasePtr(a) \/ FinishSend(a)
              \/ ExitApp(a) \/ StartCleanUp(a)
              \/ \E m \in Msgs : SendMsg(a, m) \/ ZeroCopySend(a, m)
       PROVE  UNCHANGED <<pipe, count>>
  BY <1>14 DEF ZeroCopyGetPtr, ZeroCopyReleasePtr, FinishSend, ExitApp, StartCleanUp, SendMsg,
               ZeroCopySend
<1>15. ASSUME \/ \E s \in Pipes : DeletePipe(s)
              \/ ReleaseZeroCopy \/ DeleteTask \/ UNCHANGED sbVars
       PROVE  UNCHANGED <<pipe, count>>
  BY <1>15 DEF DeletePipe, ReleaseZeroCopy, DeleteTask, sbVars
<1> QED
  BY <1>2, <1>3, <1>7, <1>8, <1>9, <1>10, <1>11, <1>12, <1>13, <1>14, <1>15
     DEF SbNext, Continue, CleanUp

\* While its routes stay, a pipe changes by one operation of SharedPipe at a time,
\* though a send is one step for each destination and a receive is three, two of
\* them without the semaphore: wherever ES ends an application.
THEOREM BusKeepsPipes == SbSpec => ActsAsPipe
<1>1. SbInit => CountInv
  BY CountInit
<1>2. CountInv /\ [SbNext]_sbVars => CountInv'
  BY CountNext
<1>3. CountInv /\ [SbNext]_sbVars =>
        [dests' = dests =>
           \A p \in Pipes : Open(p) /\ Open(p)' =>
             \/ View(p)' = View(p)
             \/ SP!Waiting(View(p)) /\ View(p)' = SP!Take(View(p))
             \/ \E m \in Msgs :
                  \/ View(p)' = SP!Put(View(p), [id |-> m], Depth, MsgLim)
                  \/ View(p)' = SP!Release(View(p), [id |-> m])]_sbVars
  BY PipeShows DEF OneOperation
<1> QED
  BY <1>1, <1>2, <1>3, PTL DEF SbSpec, ActsAsPipe

=============================================================================
