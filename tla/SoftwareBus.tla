----------------------------- MODULE SoftwareBus -----------------------------
(***************************************************************************)
(* The software bus of the cFE (cfs/cfe/fsw/cfe-core/src/sb): pipes,       *)
(* routes, and the buffers a message lives in from the send to the last    *)
(* receive.  One semaphore guards the tables, but CFE_SB_RcvMsg works on   *)
(* the pipe and its queue before it takes it, and the commands that enable *)
(* and disable a route never take it.  So a send is one step for each      *)
(* destination, under the semaphore, and a receive is three.               *)
(*                                                                         *)
(* Applications are one task each.  None in this system deletes a pipe;    *)
(* ES does (CFE_ES_CleanUpApp), before it deletes the task of the          *)
(* application and starts it again.  An application that is told to end    *)
(* does so when it asks for its next turn; one that has not asked in time  *)
(* is cleaned up while its task still runs.                                *)
(***************************************************************************)
EXTENDS Naturals, Sequences, FiniteSets

CONSTANTS
  Msgs,             \* the message ids
  Apps,             \* the applications
  External,         \* those ES may stop: the others belong to the cFE itself
  ES,               \* the task of ES that cleans up
  NumPipes,         \* CFE_SB_MAX_PIPES
  Buffers,          \* what the memory pool can hold
  None,             \* no application, no buffer, no pipe
  Depth,            \* of each pipe
  MsgLim,           \* of each subscription
  MaxDests,         \* CFE_SB_MAX_DEST_PER_PKT
  BlocksMayRunOut   \* whether the pool may have no destination block

Pipes == 0 .. NumPipes - 1
Tasks == Apps \cup {ES}

ASSUME SbAssumption ==
  /\ External \subseteq Apps
  /\ ES \notin Apps
  /\ None \notin Apps \cup {ES} \cup Buffers \cup Pipes
  /\ NumPipes \in Nat /\ Depth \in Nat /\ MsgLim \in Nat
  /\ MaxDests \in Nat \ {0}
  /\ BlocksMayRunOut \in BOOLEAN

VARIABLES
  lock,     \* who holds the semaphore over several steps: a sender, or None
  pipe,     \* PipeTbl; the owner of a pipe not in use is None
  routed,   \* the messages that have an entry in RoutingTbl
  dests,    \* the destinations of each message
  count,    \* BuffCount of a destination
  active,   \* Active of a destination
  pool,     \* the buffers that are free
  buf,      \* the descriptors: UseCount and MsgId
  held,     \* the zero copy descriptors of each application
  task,     \* where each task is, and the locals of the call it is in
  cleaned,  \* the application ES cleans up, or None
  forced    \* whether ES has begun to clean up one that had not ended

sbVars == <<lock, pipe, routed, dests, count, active, pool, buf, held, task,
            cleaned, forced>>

Closed == [owner |-> None, queue |-> <<>>, current |-> None, trash |-> None]
Freed == [use |-> 0, msg |-> None]
At(pc) == [at |-> pc, pipe |-> None, buf |-> None, rest |-> {}]

SbInit ==
  /\ lock = None
  /\ pipe = [p \in Pipes |-> Closed]
  /\ routed = {}
  /\ dests = [m \in Msgs |-> {}]
  /\ count = [m \in Msgs |-> [p \in Pipes |-> 0]]
  /\ active = [m \in Msgs |-> [p \in Pipes |-> TRUE]]
  /\ pool = Buffers
  /\ buf = [b \in Buffers |-> Freed]
  /\ held = [a \in Apps |-> {}]
  /\ task = [t \in Tasks |-> At("idle")]
  /\ cleaned = None
  /\ forced = FALSE

Open(p) == pipe[p].owner # None
Free == lock = None

\* Where an application starts a call.  One that is cleaned up was told to end
\* seconds ago, and what is left of its turn may still send: SendMsg needs no
\* more than the task to be idle.
Idle(a) == a \in Apps /\ task[a].at = "idle"
Calls(a) == Idle(a) /\ a # cleaned

-----------------------------------------------------------------------------
\* Buffers.

\* CFE_SB_DecrBufUseCnt of a buffer, or of none.  What a free descriptor holds
\* is of no account.
Drop(b) ==
  IF b # None /\ buf[b].use > 0
  THEN /\ buf' = [buf EXCEPT ![b] = IF buf[b].use = 1 THEN Freed
                                   ELSE [buf[b] EXCEPT !.use = @ - 1]]
       /\ pool' = IF buf[b].use = 1 THEN pool \cup {b} ELSE pool
  ELSE UNCHANGED <<buf, pool>>

\* CFE_SB_ZeroCopyGetPtr, in one step.  The code writes the owner and the use
\* count after it has given the semaphore back, when a clean up may already see
\* the descriptor with whatever owner its memory held before.
ZeroCopyGetPtr(a) ==
  /\ Calls(a) /\ Free
  /\ \E b \in pool :
       /\ pool' = pool \ {b}
       /\ buf' = [buf EXCEPT ![b] = [use |-> 1, msg |-> None]]
       /\ held' = [held EXCEPT ![a] = @ \cup {b}]
  /\ UNCHANGED <<lock, pipe, routed, dests, count, active, task, cleaned, forced>>

\* CFE_SB_ZeroCopyReleasePtr: the descriptor, then the buffer, which goes back
\* whatever its use count says.
ZeroCopyReleasePtr(a) ==
  /\ Calls(a) /\ Free
  /\ \E b \in held[a] :
       /\ held' = [held EXCEPT ![a] = @ \ {b}]
       /\ pool' = pool \cup {b}
       /\ buf' = [buf EXCEPT ![b] = Freed]
  /\ UNCHANGED <<lock, pipe, routed, dests, count, active, task, cleaned, forced>>

-----------------------------------------------------------------------------
\* Pipes and routes.

\* CFE_SB_CreatePipe: the first entry that is not in use.
CreatePipe(a) ==
  /\ Calls(a) /\ Free
  /\ \E p \in Pipes :
       /\ ~Open(p) /\ \A q \in Pipes : q < p => Open(q)
       /\ pipe' = [pipe EXCEPT ![p] = [Closed EXCEPT !.owner = a]]
  /\ UNCHANGED <<lock, routed, dests, count, active, pool, buf, held, task,
                 cleaned, forced>>

\* CFE_SB_SubscribeFull.  The entry of the message is taken before the
\* destination is: when the pool has no block for that, the entry stays
\* without one.
Subscribe(a, m, p) ==
  /\ Calls(a) /\ Free
  /\ pipe[p].owner = a /\ p \notin dests[m]
  /\ routed' = routed \cup {m}
  /\ \/ /\ Cardinality(dests[m]) < MaxDests
        /\ dests' = [dests EXCEPT ![m] = @ \cup {p}]
        /\ count' = [count EXCEPT ![m][p] = 0]
        /\ active' = [active EXCEPT ![m][p] = TRUE]
     \/ /\ BlocksMayRunOut
        /\ UNCHANGED <<dests, count, active>>
  /\ UNCHANGED <<lock, pipe, pool, buf, held, task, cleaned, forced>>

\* CFE_SB_UnsubscribeFull, once it has found the entry of m.  It reads the head
\* of the list before it compares it with NULL, so an entry without a
\* destination has no defined outcome and is left out.  The block of the
\* destination goes back to the pool with its count.
Leave(m, p) ==
  /\ dests[m] # {}
  /\ dests' = [dests EXCEPT ![m] = @ \ {p}]
  /\ count' = [count EXCEPT ![m][p] = 0]
  /\ active' = [active EXCEPT ![m][p] = TRUE]
  /\ routed' = IF dests[m] = {p} THEN routed \ {m} ELSE routed

Unsubscribe(a, m, p) ==
  /\ Calls(a) /\ Free
  /\ pipe[p].owner = a
  /\ Leave(m, p)
  /\ UNCHANGED <<lock, pipe, pool, buf, held, task, cleaned, forced>>

\* CFE_SB_EnableRoute and CFE_SB_DisableRoute, which take no semaphore, neither
\* to find the destination nor to write it.  A block that is freed between the
\* two, and written late, is in no list, or that of another destination: as if
\* the command had been for that one.
SetRoute(m, p, on) ==
  /\ p \in dests[m]
  /\ active' = [active EXCEPT ![m][p] = on]
  /\ UNCHANGED <<lock, pipe, routed, dests, count, pool, buf, held, task,
                 cleaned, forced>>

-----------------------------------------------------------------------------
\* CFE_SB_SendMsgFull.

\* Mutant: the semaphore is not taken.
SendMsgUnlocked(a, m) ==
  /\ Idle(a) /\ Free
  /\ m \in routed
  /\ \E b \in pool :
       /\ pool' = pool \ {b}
       /\ buf' = [buf EXCEPT ![b] = [use |-> 1, msg |-> m]]
       /\ task' = [task EXCEPT ![a] = [At("send") EXCEPT !.buf = b,
                                                         !.rest = dests[m]]]
  /\ UNCHANGED <<lock, pipe, routed, dests, count, active, held, cleaned, forced>>

\* The semaphore and a buffer are taken, and the list of destinations is read.
\* A use count of 1 stands for the sender.
SendMsg(a, m) ==
  /\ Idle(a) /\ Free
  /\ m \in routed
  /\ \E b \in pool :
       /\ pool' = pool \ {b}
       /\ buf' = [buf EXCEPT ![b] = [use |-> 1, msg |-> m]]
       /\ task' = [task EXCEPT ![a] = [At("send") EXCEPT !.buf = b,
                                                         !.rest = dests[m]]]
  /\ lock' = a
  /\ UNCHANGED <<pipe, routed, dests, count, active, held, cleaned, forced>>

\* CFE_SB_ZeroCopySend: the descriptor is released, and the buffer of the
\* caller is sent; without a route it is dropped.  The two take the semaphore one
\* after the other, but no one else has to do with the buffer between them.
ZeroCopySend(a, m) ==
  /\ Calls(a) /\ Free
  /\ \E b \in held[a] :
       /\ held' = [held EXCEPT ![a] = @ \ {b}]
       /\ IF m \in routed
          THEN /\ lock' = a
               /\ buf' = [buf EXCEPT ![b].msg = m]
               /\ task' = [task EXCEPT ![a] = [At("send") EXCEPT
                             !.buf = b, !.rest = dests[m]]]
               /\ UNCHANGED pool
          ELSE Drop(b) /\ UNCHANGED <<lock, task>>
  /\ UNCHANGED <<pipe, routed, dests, count, active, cleaned, forced>>

\* Mutant: the limit may be passed by one.
AdmitsOneMore(m, p) ==
  count[m][p] <= MsgLim /\ Len(pipe[p].queue) < Depth

Admits(m, p) == count[m][p] < MsgLim /\ Len(pipe[p].queue) < Depth

\* One turn of the loop over the destinations.
Deliver(a, p) ==
  LET b == task[a].buf
      m == buf[b].msg
  IN  /\ task[a].at = "send" /\ p \in task[a].rest
      /\ task' = [task EXCEPT ![a].rest = @ \ {p}]
      /\ IF active[m][p] /\ Admits(m, p)
         THEN /\ pipe' = [pipe EXCEPT ![p].queue = Append(@, b)]
              /\ buf' = [buf EXCEPT ![b].use = @ + 1]
              /\ count' = [count EXCEPT ![m][p] = @ + 1]
         ELSE UNCHANGED <<pipe, buf, count>>
      /\ UNCHANGED <<lock, routed, dests, active, pool, held, cleaned, forced>>

\* The use count of the sender is given up, then the semaphore.
FinishSend(a) ==
  /\ task[a].at = "send" /\ task[a].rest = {}
  /\ Drop(task[a].buf)
  /\ lock' = None
  /\ task' = [task EXCEPT ![a] = At("idle")]
  /\ UNCHANGED <<pipe, routed, dests, count, active, held, cleaned, forced>>

-----------------------------------------------------------------------------
\* CFE_SB_RcvMsg.

\* Mutant: the buffer of the last receive is forgotten.
StartRcvForgets(t, p, from) ==
  /\ task[t].at = from
  /\ pipe' = [pipe EXCEPT ![p].current = None]
  /\ task' = [task EXCEPT ![t] = [At("read") EXCEPT !.pipe = p]]
  /\ UNCHANGED <<lock, routed, dests, count, active, pool, buf, held, cleaned, forced>>

\* Without the semaphore: the buffer of the last receive is put aside.
StartRcv(t, p, from) ==
  /\ task[t].at = from
  /\ pipe' = [pipe EXCEPT ![p].trash = pipe[p].current, ![p].current = None]
  /\ task' = [task EXCEPT ![t] = [At("read") EXCEPT !.pipe = p]]
  /\ UNCHANGED <<lock, routed, dests, count, active, pool, buf, held, cleaned, forced>>

\* The pipe a task receives from is still that of the application it does so for.
Keeps(t) ==
  pipe[task[t].pipe].owner = (IF t = ES THEN cleaned ELSE t)

\* CFE_SB_ReadQueue, also without it.  An empty queue is the end of a poll or
\* of a time out, and a queue that was deleted that of a wait on it.
ReadQueue(t) ==
  LET p == task[t].pipe
      q == IF Keeps(t) THEN pipe[p].queue ELSE <<>>
  IN  /\ task[t].at = "read"
      /\ IF q # <<>>
         THEN /\ pipe' = [pipe EXCEPT ![p].queue = Tail(q)]
              /\ task' = [task EXCEPT ![t] = [@ EXCEPT !.at = "took",
                                                       !.buf = Head(q)]]
         ELSE /\ task' = [task EXCEPT ![t].at = "took"]
              /\ UNCHANGED pipe
      /\ UNCHANGED <<lock, routed, dests, count, active, pool, buf, held,
                     cleaned, forced>>

\* Mutants: the message limit is not given back, or given back below zero.
ReleasesNothing(b, p) == UNCHANGED count
ReleasesAnyway(b, p) ==
  LET m == buf[b].msg
  IN  IF b # None /\ p \in dests[m]
      THEN count' = [count EXCEPT ![m][p] = @ - 1]
      ELSE UNCHANGED count

\* The count of the destination, when there still is one.
Release(b, p) ==
  LET m == buf[b].msg
  IN  IF b # None /\ p \in dests[m] /\ count[m][p] > 0
      THEN count' = [count EXCEPT ![m][p] = @ - 1]
      ELSE UNCHANGED count

\* Under the semaphore: the buffer put aside is dropped, and the message read
\* becomes the current one.
EndRcv(t, next) ==
  LET p == task[t].pipe
      b == task[t].buf
  IN  /\ task[t].at = "took" /\ Free
      /\ Drop(pipe[p].trash)
      /\ pipe' = [pipe EXCEPT ![p].trash = None,
                              ![p].current = IF b = None THEN @ ELSE b]
      /\ Release(b, p)
      /\ task' = [task EXCEPT ![t] = [At(next) EXCEPT
                    !.pipe = IF t = ES THEN p ELSE None]]
      /\ UNCHANGED <<lock, routed, dests, active, held, cleaned, forced>>

RcvMsg(a) ==
  \/ \E p \in Pipes : pipe[p].owner = a /\ Calls(a) /\ StartRcv(a, p, "idle")
  \/ ReadQueue(a)
  \/ EndRcv(a, "idle")

-----------------------------------------------------------------------------
\* CFE_ES_CleanUpApp, as far as the bus is concerned: CFE_SB_CleanUpApp.

\* The application leaves its loop and waits for ES to delete it; its pipes
\* still receive.
ExitApp(a) ==
  /\ a \in External /\ Idle(a)
  /\ task' = [task EXCEPT ![a].at = "ended"]
  /\ UNCHANGED <<lock, pipe, routed, dests, count, active, pool, buf, held,
                 cleaned, forced>>

\* ES finds an application that has ended, or one whose time to end has run out:
\* its task is left as it is, in the call it is in.
StartCleanUp(a) ==
  /\ a \in External /\ cleaned = None
  /\ cleaned' = a
  /\ forced' = (forced \/ task[a].at # "ended")
  /\ UNCHANGED <<lock, pipe, routed, dests, count, active, pool, buf, held, task>>

\* The next pipe of the application: CFE_SB_DeletePipeFull.
DeletePipe(p) ==
  /\ cleaned # None /\ task[ES].at = "idle" /\ Free
  /\ pipe[p].owner = cleaned
  /\ task' = [task EXCEPT ![ES] = [At("routes") EXCEPT !.pipe = p]]
  /\ UNCHANGED <<lock, pipe, routed, dests, count, active, pool, buf, held,
                 cleaned, forced>>

\* The messages that still lead to the pipe.
RoutesTo(p) == {m \in Msgs : p \in dests[m]}

\* The semaphore is released for each CFE_SB_UnsubscribeWithAppId.
DeleteRoute(m) ==
  /\ task[ES].at = "routes" /\ Free
  /\ m \in RoutesTo(task[ES].pipe)
  /\ Leave(m, task[ES].pipe)
  /\ UNCHANGED <<lock, pipe, pool, buf, held, task, cleaned, forced>>

\* Mutant: the buffer dropped here is still put aside.
DeleteTrashKeeps ==
  /\ task[ES].at = "routes" /\ Free
  /\ RoutesTo(task[ES].pipe) = {}
  /\ Drop(pipe[task[ES].pipe].trash)
  /\ task' = [task EXCEPT ![ES].at = "drain"]
  /\ UNCHANGED <<lock, pipe, routed, dests, count, active, held, cleaned, forced>>

\* The buffer the application put aside before it waited on its queue.
DeleteTrash ==
  LET p == task[ES].pipe
  IN  /\ task[ES].at = "routes" /\ Free
      /\ RoutesTo(p) = {}
      /\ Drop(pipe[p].trash)
      /\ pipe' = [pipe EXCEPT ![p].trash = None]
      /\ task' = [task EXCEPT ![ES].at = "drain"]
      /\ UNCHANGED <<lock, routed, dests, count, active, held, cleaned, forced>>

\* Mutant: the loop goes on whatever the receive returned.
DrainAgain ==
  \/ StartRcv(ES, task[ES].pipe, "drain")
  \/ ReadQueue(ES)
  \/ EndRcv(ES, "drain")

\* Messages are received, and their buffers dropped, until there is none.
Drain ==
  \/ StartRcv(ES, task[ES].pipe, "drain")
  \/ ReadQueue(ES)
  \/ EndRcv(ES, IF task[ES].buf = None THEN "close" ELSE "drain")

ClosePipe ==
  /\ task[ES].at = "close" /\ Free
  /\ pipe' = [pipe EXCEPT ![task[ES].pipe] = Closed]
  /\ task' = [task EXCEPT ![ES] = At("idle")]
  /\ UNCHANGED <<lock, routed, dests, count, active, pool, buf, held, cleaned, forced>>

\* CFE_SB_ZeroCopyReleaseAppId, after the last pipe: the next descriptor.
NoPipesLeft ==
  /\ cleaned # None /\ task[ES].at = "idle"
  /\ \A p \in Pipes : pipe[p].owner # cleaned

ReleaseZeroCopy ==
  /\ NoPipesLeft /\ Free
  /\ \E b \in held[cleaned] :
       /\ held' = [held EXCEPT ![cleaned] = @ \ {b}]
       /\ pool' = pool \cup {b}
       /\ buf' = [buf EXCEPT ![b] = Freed]
  /\ UNCHANGED <<lock, pipe, routed, dests, count, active, task, cleaned, forced>>

\* CFE_ES_CleanupTaskResources deletes the task, wherever it is by then; one in
\* a send would keep the semaphore, and is left out.  ES starts the application
\* again.
DeleteTask ==
  /\ NoPipesLeft /\ held[cleaned] = {}
  /\ task[cleaned].at # "send"
  /\ task' = [task EXCEPT ![cleaned] = At("idle")]
  /\ cleaned' = None
  /\ UNCHANGED <<lock, pipe, routed, dests, count, active, pool, buf, held, forced>>

CleanUp ==
  \/ \E p \in Pipes : DeletePipe(p)
  \/ \E m \in Msgs : DeleteRoute(m)
  \/ DeleteTrash
  \/ Drain
  \/ ClosePipe
  \/ ReleaseZeroCopy
  \/ DeleteTask

\* What an application does with a call it is in.
Continue(a) ==
  \/ \E p \in Pipes : Deliver(a, p)
  \/ FinishSend(a)
  \/ RcvMsg(a)

SbNext ==
  \/ \E a \in Apps :
       \/ ZeroCopyGetPtr(a) \/ ZeroCopyReleasePtr(a) \/ CreatePipe(a)
       \/ \E m \in Msgs, p \in Pipes : Subscribe(a, m, p) \/ Unsubscribe(a, m, p)
       \/ \E m \in Msgs : SendMsg(a, m) \/ ZeroCopySend(a, m)
       \/ Continue(a)
       \/ ExitApp(a) \/ StartCleanUp(a)
  \/ \E m \in Msgs, p \in Pipes, on \in BOOLEAN : SetRoute(m, p, on)
  \/ CleanUp

SbSpec == SbInit /\ [][SbNext]_sbVars

\* The semaphore is passed on (its holder's turns end), and ES, whose priority
\* is above that of the applications, gets it.
SbFairSpec ==
  /\ SbSpec
  /\ SF_sbVars(CleanUp)
  /\ \A a \in Apps : WF_sbVars((\E p \in Pipes : Deliver(a, p)) \/ FinishSend(a))

-----------------------------------------------------------------------------
\* Types.
SbTypeOK ==
  /\ lock \in Apps \cup {None} /\ cleaned \in Apps \cup {None}
  /\ forced \in BOOLEAN
  /\ pipe \in [Pipes -> [owner : Apps \cup {None}, queue : Seq(Buffers),
                         current : Buffers \cup {None},
                         trash : Buffers \cup {None}]]
  /\ routed \in SUBSET Msgs
  /\ dests \in [Msgs -> SUBSET Pipes]
  /\ count \in [Msgs -> [Pipes -> Nat]]
  /\ active \in [Msgs -> [Pipes -> BOOLEAN]]
  /\ pool \in SUBSET Buffers
  /\ buf \in [Buffers -> [use : Nat, msg : Msgs \cup {None}]]
  /\ held \in [Apps -> SUBSET Buffers]
  /\ task \in [Tasks -> [at : {"idle", "send", "read", "took", "ended",
                              "routes", "drain", "close"},
                        pipe : Pipes \cup {None}, buf : Buffers \cup {None},
                        rest : SUBSET Pipes]]

\* Where the members of S are in a queue.
Positions(q, S) == {i \in DOMAIN q : q[i] \in S}

\* Where a buffer is: queued, current or put aside at a pipe, in the hands of a
\* task, or reserved by an application.
Holders(b) ==
  (UNION {{<<"queue", p, i>> : i \in Positions(pipe[p].queue, {b})} : p \in Pipes})
  \cup {<<"current", p, 0>> : p \in {p \in Pipes : pipe[p].current = b}}
  \cup {<<"trash", p, 0>> : p \in {p \in Pipes : pipe[p].trash = b}}
  \cup {<<"task", t, 0>> : t \in {t \in Tasks : task[t].buf = b}}
  \cup {<<"held", a, 0>> : a \in {a \in Apps : b \in held[a]}}

\* No buffer is freed, and given to the next sender, while it is queued, current,
\* put aside, reserved or in hand, also while ES takes the pipes from a task that
\* still reads them: the use count is never below the number of the holders.
NeverFreedEarly ==
  \A b \in Buffers : IF b \in pool THEN Holders(b) = {}
                     ELSE Cardinality(Holders(b)) <= buf[b].use

\* A buffer is freed by the last of its holders: where every application that
\* was cleaned up had ended, the use count is the number of the holders.  A task
\* that ES deletes with a buffer in hand takes it with it.
BuffersAreCounted ==
  ~forced => \A b \in Buffers \ pool :
               Holders(b) # {} /\ buf[b].use = Cardinality(Holders(b))

\* Messages are only put on pipes in use: a route, and a destination a sender
\* has read from one and not reached yet, lead to a pipe that no clean up has
\* closed or given to another application meanwhile.
RoutesLeadToPipes ==
  /\ \A m \in Msgs : \A p \in dests[m] : Open(p)
  /\ \A a \in Apps : task[a].at = "send" =>
       task[a].rest \subseteq dests[buf[task[a].buf].msg]

\* The messages of m that p has taken and its receiver not yet answered for; one
\* that was read from a pipe closed since is not on p, even if p is in use again.
OnTheWay(m, p) ==
  Cardinality(Positions(pipe[p].queue, {b \in Buffers : buf[b].msg = m}))
  + Cardinality({t \in Tasks : task[t].at = "took" /\ task[t].pipe = p
                   /\ Keeps(t) /\ task[t].buf # None /\ buf[task[t].buf].msg = m})

\* What counts against the limit is on the pipe: no message is refused for ever
\* for those that were read, though a message may be read after its route was
\* deleted or made anew.
CountsNeverLeak ==
  \A m \in Msgs : \A p \in dests[m] : count[m][p] <= OnTheWay(m, p)

\* A pipe as SharedPipe has it.
SP == INSTANCE SharedPipe
View(p) ==
  [queue |-> [i \in DOMAIN pipe[p].queue |-> [id |-> buf[pipe[p].queue[i]].msg]],
   count |-> [m \in Msgs |-> IF p \in dests[m] THEN count[m][p] ELSE 0]]

\* While its routes stay, every step shows at a pipe as one operation of
\* SharedPipe or not at all: the composition of Whe and Lc may use those for
\* the sends and receives that are several steps here.
ActsAsPipe ==
  [][dests' = dests =>
       \A p \in Pipes : Open(p) /\ Open(p)' =>
         \/ View(p)' = View(p)
         \/ SP!Waiting(View(p)) /\ View(p)' = SP!Take(View(p))
         \/ \E m \in Msgs : \/ View(p)' = SP!Put(View(p), [id |-> m], Depth, MsgLim)
                            \/ View(p)' = SP!Release(View(p), [id |-> m])]_sbVars

\* A clean up ends, though others go on sending to the pipes it deletes.
CleanUpEnds == (cleaned # None) ~> (cleaned = None)
=============================================================================
