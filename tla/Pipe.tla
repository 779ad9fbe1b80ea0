-------------------------------- MODULE Pipe --------------------------------
(***************************************************************************)
(* A software bus pipe as its users meet it: what CFE_SB_SendMsg and       *)
(* CFE_SB_RcvMsg do to one destination (cfs/cfe/fsw/cfe-core/src/sb/       *)
(* cfe_sb_api.c).  The pipes of WISE and THERM each carry one message id   *)
(* in this system, so a pipe is its queue and the BuffCount of its only    *)
(* destination.                                                            *)
(*                                                                         *)
(* A receiver takes the message from the queue BEFORE it takes the         *)
(* semaphore under which the count is lowered, so receiving is two steps,  *)
(* Take and Release, and a sender between them meets a count that is one   *)
(* too high.                                                               *)
(***************************************************************************)
EXTENDS Naturals, Sequences

Empty == [queue |-> <<>>, count |-> 0]

Waiting(p) == p.queue # <<>>

\* Whether the destination loop of CFE_SB_SendMsgFull queues a message.
Admits(p, depth, limit) == p.count < limit /\ Len(p.queue) < depth

\* Mutant: a message dropped for the limit is counted all the same.
PutCountsDropped(p, m, depth, limit) ==
  IF Admits(p, depth, limit)
  THEN [queue |-> Append(p.queue, m), count |-> p.count + 1]
  ELSE [p EXCEPT !.count = @ + 1]

\* The pipe after a send: a message over the limit, or for a full queue, is
\* dropped, and the sender is told it was sent.
Put(p, m, depth, limit) ==
  IF Admits(p, depth, limit)
  THEN [queue |-> Append(p.queue, m), count |-> p.count + 1]
  ELSE p

\* The pipe once CFE_SB_ReadQueue has returned its first message.
Take(p) == [p EXCEPT !.queue = Tail(@)]

\* The pipe when CFE_SB_RcvMsg returns to its caller.
Release(p) == [p EXCEPT !.count = IF @ > 0 THEN @ - 1 ELSE 0]
=============================================================================
