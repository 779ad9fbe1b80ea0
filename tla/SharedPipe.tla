----------------------------- MODULE SharedPipe ------------------------------
(***************************************************************************)
(* A software bus pipe that carries several message ids, as those of WHE   *)
(* and LC do: CFE_SB_SendMsg and CFE_SB_RcvMsg of cfs/cfe/fsw/cfe-core/    *)
(* src/sb/cfe_sb_api.c.  The depth is that of the pipe; the message limit  *)
(* and the BuffCount behind it are those of each id.  A message is a       *)
(* record whose field id is its message id.                                *)
(***************************************************************************)
EXTENDS Naturals, Sequences

EmptyFor(ids) == [queue |-> <<>>, count |-> [i \in ids |-> 0]]

Waiting(p) == p.queue # <<>>

Admits(p, m, depth, limit) == p.count[m.id] < limit /\ Len(p.queue) < depth

\* A message that is not admitted is dropped; its sender is told nothing.
Put(p, m, depth, limit) ==
  IF Admits(p, m, depth, limit)
  THEN [queue |-> Append(p.queue, m), count |-> [p.count EXCEPT ![m.id] = @ + 1]]
  ELSE p

Take(p) == [p EXCEPT !.queue = Tail(@)]

\* The count of the received message, lowered after the queue was read.
Release(p, m) == [p EXCEPT !.count[m.id] = IF @ > 0 THEN @ - 1 ELSE 0]
=============================================================================
