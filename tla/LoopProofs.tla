----------------------------- MODULE LoopProofs -----------------------------
(***************************************************************************)
(* Proofs about ThermalLoop: what the loop adds to WISE keeps its types,   *)
(* and the counts of the software bus are those of the messages, for every *)
(* depth, limit, budget and set of commands, and over restarts.            *)
(***************************************************************************)
EXTENDS ThermalLoop, FiniteSetTheorems, TLAPS

(***************************************************************************)
(* Lemmas about a pipe.                                                    *)
(***************************************************************************)

Pipes(S) == [queue : Seq(S), count : Nat]

\* busy is 1 while a receiver has taken a message it has not released.
Counted(p, busy, limit) == p.count = Len(p.queue) + busy /\ p.count <= limit

LEMMA PipesGrow ==
  ASSUME NEW S, NEW p \in Pipes(S), NEW m
  PROVE  p \in Pipes(S \cup {m})
<1>1. Seq(S) \subseteq Seq(S \cup {m})
  OBVIOUS
<1> QED
  BY <1>1 DEF Pipes

LEMMA EmptyCounted ==
  ASSUME NEW S, NEW limit \in Nat
  PROVE  Empty \in Pipes(S) /\ Counted(Empty, 0, limit)
  BY DEF Empty, Pipes, Counted

LEMMA PutCounted ==
  ASSUME NEW S, NEW p \in Pipes(S), NEW m \in S, NEW busy \in {0, 1},
         NEW depth \in Nat, NEW limit \in Nat, Counted(p, busy, limit)
  PROVE  Put(p, m, depth, limit) \in Pipes(S) /\ Counted(Put(p, m, depth, limit), busy, limit)
<1>1. CASE ~Admits(p, depth, limit)
  BY <1>1 DEF Put
<1>2. CASE Admits(p, depth, limit)
  <2>1. Append(p.queue, m) \in Seq(S) /\ Len(Append(p.queue, m)) = Len(p.queue) + 1
    BY DEF Pipes
  <2> QED
    BY <1>2, <2>1 DEF Put, Admits, Pipes, Counted
<1> QED
  BY <1>1, <1>2

LEMMA TakeCounted ==
  ASSUME NEW S, NEW p \in Pipes(S), NEW limit \in Nat, Counted(p, 0, limit), Waiting(p)
  PROVE  /\ Take(p) \in Pipes(S) /\ Counted(Take(p), 1, limit)
         /\ Head(p.queue) \in S
<1>1. p.queue \in Seq(S) /\ p.queue # <<>> /\ p.count \in Nat
  BY DEF Pipes, Waiting
<1>2. /\ Tail(p.queue) \in Seq(S) /\ Head(p.queue) \in S
      /\ Len(Tail(p.queue)) = Len(p.queue) - 1 /\ Len(p.queue) \in Nat
  BY <1>1
<1>3. Take(p).queue = Tail(p.queue) /\ Take(p).count = p.count /\ Take(p) \in Pipes(S)
  BY <1>1, <1>2 DEF Take, Pipes
<1> QED
  BY <1>2, <1>3 DEF Counted

LEMMA ReleaseCounted ==
  ASSUME NEW S, NEW p \in Pipes(S), NEW limit \in Nat, Counted(p, 1, limit)
  PROVE  Release(p) \in Pipes(S) /\ Counted(Release(p), 0, limit)
<1>1. Len(p.queue) \in Nat /\ p.count \in Nat
  BY DEF Pipes
<1>2. Release(p).queue = p.queue /\ Release(p).count = p.count - 1 /\ Release(p) \in Pipes(S)
  BY <1>1 DEF Release, Pipes, Counted
<1> QED
  BY <1>1, <1>2 DEF Counted

(***************************************************************************)
(* Types.                                                                  *)
(***************************************************************************)

LEMMA TypeInit == Init => TypeOK
<1> SUFFICES ASSUME Init PROVE TypeOK
  OBVIOUS
<1>1. Byte \in Nat \ {0} /\ MaxLvrAttempts \in Nat /\ {GroundBudget, RestartBudget} \subseteq Nat
  BY LoopAssumption
<1> QED
  BY <1>1 DEF Init, T!Init, TypeOK, T!Points, T!Sides, Sides, Schedule

\* A wakeup of THERM counts no attempt past the limit.
LEMMA TypeTherm ==
  ASSUME TypeOK, T!Step
  PROVE  /\ thermPc' \in T!Points /\ thermRun' \in {"RUN", "ERROR"}
         /\ attempts' \in [Sides -> 0 .. MaxLvrAttempts]
         /\ heaterTgl' \in [Sides -> BOOLEAN]
         /\ thermCnt' \in 0 .. Byte - 1 /\ thermErrCnt' \in 0 .. Byte - 1
<1>0. Byte \in Nat \ {0} /\ MaxLvrAttempts \in Nat
  BY LoopAssumption
<1> USE DEF TypeOK, T!Points
<1>1. CASE T!TakeWakeup \/ T!TakeCmd \/ T!TakeHk \/ T!EndOfCommands \/ T!EndOfData
  BY <1>1 DEF T!TakeWakeup, T!TakeCmd, T!TakeHk, T!EndOfCommands, T!EndOfData
<1>2. CASE T!Wakeup \/ T!ProcessWiseHk
  BY <1>2 DEF T!Wakeup, T!ProcessWiseHk, T!Sides, Sides
<1>3. CASE T!ProcessNewAppCmds
  <2>1. T!Incr(thermCnt) \in 0 .. Byte - 1 /\ T!Incr(thermErrCnt) \in 0 .. Byte - 1
    BY <1>0 DEF T!Incr
  <2>2. [attempts EXCEPT ![thermMsg.target] = 0] \in [Sides -> 0 .. MaxLvrAttempts]
    <3>1. 0 \in 0 .. MaxLvrAttempts /\ attempts \in [Sides -> 0 .. MaxLvrAttempts]
      BY <1>0
    <3> QED
      BY <3>1, Zenon
  <2>3. thermCnt' \in 0 .. Byte - 1 /\ thermErrCnt' \in 0 .. Byte - 1
    BY <1>0, <1>3, <2>1 DEF T!ProcessNewAppCmds
  <2>4. attempts' = attempts \/ attempts' = [attempts EXCEPT ![thermMsg.target] = 0]
    BY <1>3 DEF T!ProcessNewAppCmds
  <2>5. thermPc' = "cmds" /\ UNCHANGED <<thermRun, heaterTgl>>
    BY <1>3 DEF T!ProcessNewAppCmds
  <2> QED
    BY <2>2, <2>3, <2>4, <2>5
<1>4. ASSUME NEW s \in T!Sides, T!ToggleLvr(s)
      PROVE  attempts' \in [Sides -> 0 .. MaxLvrAttempts]
  <2>1. CASE ~T!WantsLvr(s)
    BY <1>4, <2>1 DEF T!ToggleLvr
  <2>2. CASE T!WantsLvr(s)
    <3>1. attempts[s] \in 0 .. MaxLvrAttempts /\ attempts[s] < MaxLvrAttempts
      BY <2>2 DEF T!WantsLvr, T!Sides, Sides
    <3>2. attempts[s] + 1 \in 0 .. MaxLvrAttempts
      BY <1>0, <3>1
    <3>3. attempts' = [attempts EXCEPT ![s] = attempts[s] + 1]
      BY <1>4, <2>2 DEF T!ToggleLvr
    <3> QED
      BY <3>2, <3>3
  <2> QED
    BY <2>1, <2>2
<1>5. ASSUME NEW s \in T!Sides, T!ToggleLvr(s)
      PROVE  /\ thermPc' \in T!Points
             /\ UNCHANGED <<thermRun, heaterTgl, thermCnt, thermErrCnt>>
  BY <1>5 DEF T!ToggleLvr
<1>6. ASSUME NEW s \in T!Sides, T!ToggleHtr(s)
      PROVE  /\ thermPc' \in T!Points /\ heaterTgl' \in [Sides -> BOOLEAN]
             /\ UNCHANGED <<thermRun, attempts, thermCnt, thermErrCnt>>
  BY <1>6 DEF T!ToggleHtr
<1>7. \A s \in T!Sides : T!ToggleLvr(s) \/ T!ToggleHtr(s) =>
        /\ thermPc' \in T!Points /\ thermRun' \in {"RUN", "ERROR"}
        /\ attempts' \in [Sides -> 0 .. MaxLvrAttempts]
        /\ heaterTgl' \in [Sides -> BOOLEAN]
        /\ thermCnt' \in 0 .. Byte - 1 /\ thermErrCnt' \in 0 .. Byte - 1
  BY <1>4, <1>5, <1>6
<1> QED
  BY <1>1, <1>2, <1>3, <1>7 DEF T!Step

LEMMA TypeStep == TypeOK /\ [Next]_vars => TypeOK'
<1> SUFFICES ASSUME TypeOK, [Next]_vars PROVE TypeOK'
  OBVIOUS
<1>0. {GroundBudget, RestartBudget} \subseteq Nat /\ MaxLvrAttempts \in Nat /\ Byte \in Nat \ {0}
  BY LoopAssumption
<1> USE DEF TypeOK
<1>1. CASE ProcessNextEntry
  <2>1. schNext' \in 1 .. Len(Schedule)
    BY <1>1 DEF ProcessNextEntry, Schedule
  <2> QED
    BY <1>1, <2>1 DEF ProcessNextEntry, thermState
<1>2. CASE GroundCommand
  <2>1. budget' \in 0 .. GroundBudget
    BY <1>0, <1>2 DEF GroundCommand
  <2> QED
    BY <1>2, <2>1 DEF GroundCommand, wiseTask, thermState
<1>3. CASE WiseStep
  <2>1. UNCHANGED <<thermState, otherVars>>
    BY <1>3 DEF WiseStep
  <2>2. ASSUME WiseCommand PROVE actuations' \in [Sides -> Nat]
    <3>1. \A s \in Sides : actuations[s] + 1 \in Nat
      OBVIOUS
    <3>2. [actuations EXCEPT ![wiseMsg.target] = @ + 1] \in [Sides -> Nat]
      BY <3>1, Zenon
    <3> QED
      BY <2>2, <3>2 DEF WiseCommand
  <2>3. actuations' \in [Sides -> Nat]
    BY <1>3, <2>2 DEF WiseStep, WiseTakeWakeup, WiseWakeup, WiseTakeCmd, WiseEndOfCommands,
                      WiseSimulate, WiseReport
  <2> QED
    BY <2>1, <2>3 DEF thermState, otherVars
<1>4. CASE ThermStep
  BY <1>4, TypeTherm DEF ThermStep, wiseTask, otherVars
<1>5. CASE Leave
  BY <1>5 DEF Leave, WiseLeave, T!LeaveRunLoop, T!Points, thermState, otherVars, wiseTask
<1>6. CASE RestartApp
  <2>1. restarts' \in 0 .. RestartBudget /\ UNCHANGED <<schNext, budget>>
    BY <1>0, <1>6 DEF RestartApp
  <2>2. CASE UNCHANGED <<actuations, thermState>>
    BY <2>1, <2>2 DEF thermState
  <2>3. CASE T!Restart /\ UNCHANGED wiseTask
    <3>1. /\ attempts' \in [Sides -> 0 .. MaxLvrAttempts]
          /\ heaterTgl' \in [Sides -> BOOLEAN]
      BY <1>0, <2>3 DEF T!Restart, T!Sides, Sides
    <3>2. /\ thermPc' = "pend" /\ thermRun' = "RUN"
          /\ thermCnt' = 0 /\ thermErrCnt' = 0 /\ actuations' = actuations
      BY <2>3 DEF T!Restart, wiseTask
    <3> QED
      BY <1>0, <2>1, <3>1, <3>2 DEF T!Points
  <2> QED
    BY <1>6, <2>2, <2>3 DEF RestartApp
<1>7. CASE UNCHANGED vars
  BY <1>7 DEF vars, wiseTask, thermState, otherVars
<1> QED
  BY <1>1, <1>2, <1>3, <1>4, <1>5, <1>6, <1>7 DEF Next

\* What the loop adds to WISE keeps its types: no louver has more attempts
\* counted than it is allowed (THERM_toggle_lvr).
THEOREM LoopTypeCorrect == Spec => []TypeOK
<1> QED
  BY TypeInit, TypeStep, PTL DEF Spec

(***************************************************************************)
(* The counts of the pipes.  The invariant says of each pipe what it may   *)
(* carry and when its receiver holds a message, for only then is the count *)
(* of the bus one above the length of the queue; and of each task at which *)
(* points it holds a message.                                              *)
(***************************************************************************)

Busy(b) == IF b THEN 1 ELSE 0

\* The commands that can be in the command pipe of WISE.
WiseMsgs == GroundWise \cup [cc : {"LVR_TOGGLE", "HTR_TOGGLE"}, target : Sides]

WiseCmdInv ==
  /\ wiseCmd \in Pipes(WiseMsgs)
  /\ Counted(wiseCmd, Busy(pc = "cmds" /\ wiseMsg # NoMsg), MsgLimit)
WiseSchInv ==
  /\ wiseSch \in Pipes({WakeupMsg})
  /\ Counted(wiseSch, Busy(pc = "pend" /\ wiseMsg # NoMsg), SchLimit)
ThermSchInv ==
  /\ thermSch \in Pipes({WakeupMsg})
  /\ Counted(thermSch, Busy(thermPc = "woken"), SchLimit)
ThermCmdInv ==
  /\ thermCmd \in Pipes(GroundTherm)
  /\ Counted(thermCmd, Busy(thermPc = "cmd"), MsgLimit)
ThermTlmInv ==
  /\ \E S : thermTlm \in Pipes(S)
  /\ Counted(thermTlm, Busy(thermPc = "hk"), MsgLimit)
HoldInv ==
  /\ wiseMsg # NoMsg => \/ pc = "pend" /\ wiseMsg = WakeupMsg
                        \/ pc = "cmds" /\ wiseMsg \in WiseMsgs
  /\ thermPc = "cmd" => thermMsg \in GroundTherm

BusInv == /\ WiseCmdInv /\ WiseSchInv
          /\ ThermSchInv /\ ThermCmdInv /\ ThermTlmInv
          /\ HoldInv

LEMMA Limits ==
  /\ PipeDepth \in Nat /\ MsgLimit \in Nat /\ SchDepth \in Nat /\ SchLimit \in Nat
  BY LoopAssumption

\* No task takes the absence of a message for a message.
LEMMA MessagesAreMessages == NoMsg \notin WiseMsgs /\ NoMsg # WakeupMsg
<1>1. \A m \in W!CmdType : m.cc # "NONE"
  BY DEF W!CmdType
<1>2. \A m \in [cc : {"LVR_TOGGLE", "HTR_TOGGLE"}, target : Sides] : m.cc # "NONE"
  OBVIOUS
<1>3. NoMsg.cc = "NONE" /\ WakeupMsg.cc = "WAKEUP"
  BY DEF NoMsg, T!NoMsg, WakeupMsg
<1> QED
  BY <1>1, <1>2, <1>3, LoopAssumption DEF WiseMsgs

LEMMA BusInit == Init => BusInv
<1> SUFFICES ASSUME Init PROVE BusInv
  OBVIOUS
<1>1. /\ pc = "pend" /\ thermPc = "pend" /\ wiseMsg = NoMsg
      /\ wiseCmd = Empty /\ wiseSch = Empty
      /\ thermSch = Empty /\ thermCmd = Empty /\ thermTlm = Empty
  BY DEF Init, W!Init, T!Init, Empty, T!Empty
<1> QED
  BY <1>1, EmptyCounted, Limits
  DEF BusInv, WiseCmdInv, WiseSchInv, ThermSchInv, ThermCmdInv, ThermTlmInv,
      HoldInv, Busy

\* The invariant says what each counter is, in the words of the property.
LEMMA BusInvCounts == BusInv => PipesAreCounted
<1> SUFFICES ASSUME BusInv PROVE PipesAreCounted
  OBVIOUS
<1>1. PICK S : thermTlm \in Pipes(S)
  BY DEF BusInv, ThermTlmInv
<1>2. {wiseCmd.count, thermCmd.count, thermTlm.count} \subseteq 0 .. MsgLimit
  BY <1>1, Limits DEF BusInv, WiseCmdInv, ThermCmdInv, ThermTlmInv, Counted, Pipes
<1> QED
  BY <1>2 DEF BusInv, WiseCmdInv, WiseSchInv, ThermSchInv, ThermCmdInv,
              ThermTlmInv, Counted, Busy, PipesAreCounted

\* SCH adds a wakeup to a pipe, the ground a command.
LEMMA BusSenders ==
  ASSUME BusInv, ProcessNextEntry \/ GroundCommand
  PROVE  BusInv'
<1> USE Limits DEF BusInv
<1>1. CASE ProcessNextEntry
  <2>1. /\ wiseSch' \in {wiseSch, Put(wiseSch, WakeupMsg, SchDepth, SchLimit)}
        /\ thermSch' \in {thermSch, Put(thermSch, WakeupMsg, SchDepth, SchLimit)}
        /\ UNCHANGED <<pc, wiseMsg, wiseCmd, thermPc, thermMsg, thermCmd, thermTlm>>
    BY <1>1 DEF ProcessNextEntry, wiseVars, thermState
  <2>2. WiseSchInv' /\ ThermSchInv'
    BY <2>1, PutCounted DEF WiseSchInv, ThermSchInv, Busy
  <2>3. WiseCmdInv' /\ ThermCmdInv' /\ ThermTlmInv' /\ HoldInv'
    BY <2>1 DEF WiseCmdInv, ThermCmdInv, ThermTlmInv, HoldInv
  <2> QED
    BY <2>2, <2>3
<1>2. CASE GroundCommand
  <2>1. /\ \/ wiseCmd' = wiseCmd
           \/ \E cmd \in GroundWise : wiseCmd' = Put(wiseCmd, cmd, PipeDepth, MsgLimit)
        /\ \/ thermCmd' = thermCmd
           \/ \E cmd \in GroundTherm : thermCmd' = Put(thermCmd, cmd, PipeDepth, MsgLimit)
        /\ UNCHANGED <<pc, wiseMsg, wiseSch, thermPc, thermMsg, thermSch, thermTlm>>
    BY <1>2 DEF GroundCommand, wiseTask, wiseVars, thermState
  <2>2. \A cmd \in GroundWise : cmd \in WiseMsgs
    BY DEF WiseMsgs
  <2>3. WiseCmdInv'
    BY <2>1, <2>2, PutCounted DEF WiseCmdInv, Busy
  <2>4. ThermCmdInv'
    BY <2>1, PutCounted DEF ThermCmdInv, Busy
  <2>5. WiseSchInv' /\ ThermSchInv' /\ ThermTlmInv' /\ HoldInv'
    BY <2>1 DEF WiseSchInv, ThermSchInv, ThermTlmInv, HoldInv
  <2> QED
    BY <2>3, <2>4, <2>5
<1> QED
  BY <1>1, <1>2

\* WISE takes a message, handles it, or does neither.
LEMMA BusWise ==
  ASSUME BusInv, WiseStep
  PROVE  BusInv'
<1> USE Limits, MessagesAreMessages DEF BusInv
<1>0. UNCHANGED <<thermPc, thermMsg, thermSch, thermCmd>>
  BY DEF WiseStep, thermState
<1>1. ThermSchInv' /\ ThermCmdInv'
  BY <1>0 DEF ThermSchInv, ThermCmdInv
<1>2. ASSUME thermTlm' = thermTlm PROVE ThermTlmInv'
  BY <1>0, <1>2 DEF ThermTlmInv
<1>3. CASE WiseTakeWakeup /\ thermTlm' = thermTlm
  <2>1. /\ pc = "pend" /\ wiseMsg = NoMsg /\ Waiting(wiseSch)
        /\ wiseMsg' = Head(wiseSch.queue) /\ wiseSch' = Take(wiseSch)
        /\ UNCHANGED <<pc, wiseCmd>>
    BY <1>3 DEF WiseTakeWakeup, wiseVars
  <2>2. /\ wiseSch' \in Pipes({WakeupMsg}) /\ Counted(wiseSch', 1, SchLimit)
        /\ wiseMsg' = WakeupMsg
    BY <2>1, TakeCounted DEF WiseSchInv, Busy
  <2>3. WiseSchInv' /\ WiseCmdInv' /\ HoldInv'
    BY <1>0, <2>1, <2>2 DEF WiseSchInv, WiseCmdInv, HoldInv, Busy
  <2> QED
    BY <1>1, <1>2, <1>3, <2>3
<1>4. CASE WiseWakeup /\ thermTlm' = thermTlm
  <2>1. /\ pc = "pend" /\ wiseMsg # NoMsg /\ pc' = "cmds"
        /\ wiseMsg' = NoMsg /\ wiseSch' = Release(wiseSch) /\ wiseCmd' = wiseCmd
    BY <1>4 DEF WiseWakeup, W!Wakeup
  <2>2. wiseSch' \in Pipes({WakeupMsg}) /\ Counted(wiseSch', 0, SchLimit)
    BY <2>1, ReleaseCounted DEF WiseSchInv, Busy
  <2>3. WiseSchInv' /\ WiseCmdInv' /\ HoldInv'
    BY <1>0, <2>1, <2>2 DEF WiseSchInv, WiseCmdInv, HoldInv, Busy
  <2> QED
    BY <1>1, <1>2, <1>4, <2>3
<1>5. CASE WiseTakeCmd /\ thermTlm' = thermTlm
  <2>1. /\ pc = "cmds" /\ wiseMsg = NoMsg /\ Waiting(wiseCmd)
        /\ wiseMsg' = Head(wiseCmd.queue) /\ wiseCmd' = Take(wiseCmd)
        /\ UNCHANGED <<pc, wiseSch>>
    BY <1>5 DEF WiseTakeCmd, wiseVars
  <2>2. /\ wiseCmd' \in Pipes(WiseMsgs) /\ Counted(wiseCmd', 1, MsgLimit)
        /\ wiseMsg' \in WiseMsgs
    BY <2>1, TakeCounted DEF WiseCmdInv, Busy
  <2>3. WiseSchInv' /\ WiseCmdInv' /\ HoldInv'
    BY <1>0, <2>1, <2>2 DEF WiseSchInv, WiseCmdInv, HoldInv, Busy
  <2> QED
    BY <1>1, <1>2, <1>5, <2>3
<1>6. CASE WiseCommand /\ thermTlm' = thermTlm
  <2>1. /\ pc = "cmds" /\ wiseMsg # NoMsg /\ pc' = pc
        /\ wiseMsg' = NoMsg /\ wiseCmd' = Release(wiseCmd) /\ wiseSch' = wiseSch
    BY <1>6 DEF WiseCommand, W!ProcessNewAppCmds, W!taskVars
  <2>2. wiseCmd' \in Pipes(WiseMsgs) /\ Counted(wiseCmd', 0, MsgLimit)
    BY <2>1, ReleaseCounted DEF WiseCmdInv, Busy
  <2>3. WiseSchInv' /\ WiseCmdInv' /\ HoldInv'
    BY <1>0, <2>1, <2>2 DEF WiseSchInv, WiseCmdInv, HoldInv, Busy
  <2> QED
    BY <1>1, <1>2, <1>6, <2>3
<1>7. ASSUME WiseEndOfCommands \/ WiseSimulate \/ WiseReport
      PROVE  WiseSchInv' /\ WiseCmdInv' /\ HoldInv'
  <2>1. UNCHANGED <<wiseMsg, wiseSch, wiseCmd>>
    BY <1>7 DEF WiseEndOfCommands, WiseSimulate, WiseReport
  <2>2. wiseMsg = NoMsg
    BY <1>7 DEF WiseEndOfCommands, WiseSimulate, WiseReport, W!SimulateCapacitors,
                W!SimulateOneCapacitor, W!HandleObservation, W!CalculateThermal,
                W!ReportHousekeeping, HoldInv
  <2> QED
    BY <1>0, <2>1, <2>2 DEF WiseSchInv, WiseCmdInv, HoldInv, Busy
<1>8. CASE thermTlm' = thermTlm
  BY <1>1, <1>2, <1>3, <1>4, <1>5, <1>6, <1>7, <1>8 DEF WiseStep
<1>9. CASE WiseReport
  <2>1. PICK S : thermTlm \in Pipes(S)
    BY DEF ThermTlmInv
  <2>2. thermTlm \in Pipes(S \cup {W!HkTlm}) /\ W!HkTlm \in S \cup {W!HkTlm}
    BY <2>1, PipesGrow
  <2>3. thermTlm' = Put(thermTlm, W!HkTlm, PipeDepth, MsgLimit)
    BY <1>9 DEF WiseReport
  <2>4. /\ thermTlm' \in Pipes(S \cup {W!HkTlm})
        /\ Counted(thermTlm', Busy(thermPc = "hk"), MsgLimit)
    BY <2>2, <2>3, PutCounted DEF ThermTlmInv, Busy
  <2>5. ThermTlmInv'
    BY <1>0, <2>4 DEF ThermTlmInv
  <2> QED
    BY <1>1, <1>7, <1>9, <2>5
<1> QED
  BY <1>8, <1>9 DEF WiseStep

\* THERM takes or releases a message of one of its three pipes, or sends
\* WISE a toggle.
LEMMA BusTherm ==
  ASSUME BusInv, ThermStep
  PROVE  BusInv'
<1> USE Limits DEF BusInv
<1>0. T!Step /\ UNCHANGED <<pc, wiseMsg, wiseSch>>
  BY DEF ThermStep, wiseTask, wiseVars
<1>1. WiseSchInv'
  BY <1>0 DEF WiseSchInv
<1>2. ASSUME wiseCmd' = wiseCmd PROVE WiseCmdInv'
  BY <1>0, <1>2 DEF WiseCmdInv
<1>3. CASE T!TakeWakeup
  <2>1. /\ thermPc = "pend" /\ thermPc' = "woken" /\ Waiting(thermSch)
        /\ thermSch' = Take(thermSch)
        /\ UNCHANGED <<thermMsg, thermCmd, thermTlm, wiseCmd>>
    BY <1>3 DEF T!TakeWakeup, T!Take, Take, T!Waiting, Waiting
  <2>2. ThermSchInv'
    BY <2>1, TakeCounted DEF ThermSchInv, Busy
  <2>3. ThermCmdInv' /\ ThermTlmInv' /\ HoldInv'
    BY <1>0, <2>1 DEF ThermCmdInv, ThermTlmInv, HoldInv, Busy
  <2> QED
    BY <1>1, <1>2, <2>1, <2>2, <2>3
<1>4. CASE T!Wakeup
  <2>1. /\ thermPc = "woken" /\ thermPc' = "cmds" /\ thermSch' = Release(thermSch)
        /\ UNCHANGED <<thermMsg, thermCmd, thermTlm, wiseCmd>>
    BY <1>4 DEF T!Wakeup, T!Release, Release
  <2>2. ThermSchInv'
    BY <2>1, ReleaseCounted DEF ThermSchInv, Busy
  <2>3. ThermCmdInv' /\ ThermTlmInv' /\ HoldInv'
    BY <1>0, <2>1 DEF ThermCmdInv, ThermTlmInv, HoldInv, Busy
  <2> QED
    BY <1>1, <1>2, <2>1, <2>2, <2>3
<1>5. CASE T!TakeCmd
  <2>1. /\ thermPc = "cmds" /\ thermPc' = "cmd" /\ Waiting(thermCmd)
        /\ thermMsg' = Head(thermCmd.queue) /\ thermCmd' = Take(thermCmd)
        /\ UNCHANGED <<thermSch, thermTlm, wiseCmd>>
    BY <1>5 DEF T!TakeCmd, T!Take, Take, T!Waiting, Waiting
  <2>2. ThermCmdInv' /\ thermMsg' \in GroundTherm
    BY <2>1, TakeCounted DEF ThermCmdInv, Busy
  <2>3. ThermSchInv' /\ ThermTlmInv' /\ HoldInv'
    BY <1>0, <2>1, <2>2 DEF ThermSchInv, ThermTlmInv, HoldInv, Busy
  <2> QED
    BY <1>1, <1>2, <2>1, <2>2, <2>3
<1>6. CASE T!ProcessNewAppCmds
  <2>1. /\ thermPc = "cmd" /\ thermPc' = "cmds" /\ thermCmd' = Release(thermCmd)
        /\ UNCHANGED <<thermSch, thermTlm, wiseCmd>>
    BY <1>6 DEF T!ProcessNewAppCmds, T!Release, Release
  <2>2. ThermCmdInv'
    BY <2>1, ReleaseCounted DEF ThermCmdInv, Busy
  <2>3. ThermSchInv' /\ ThermTlmInv' /\ HoldInv'
    BY <1>0, <2>1 DEF ThermSchInv, ThermTlmInv, HoldInv, Busy
  <2> QED
    BY <1>1, <1>2, <2>1, <2>2, <2>3
<1>7. CASE T!TakeHk
  <2>1. /\ thermPc = "data" /\ thermPc' = "hk" /\ Waiting(thermTlm)
        /\ thermTlm' = Take(thermTlm)
        /\ UNCHANGED <<thermSch, thermCmd, wiseCmd>>
    BY <1>7 DEF T!TakeHk, T!Take, Take, T!Waiting, Waiting
  <2>2. PICK S : thermTlm \in Pipes(S)
    BY DEF ThermTlmInv
  <2>3. thermTlm' \in Pipes(S) /\ Counted(thermTlm', 1, MsgLimit)
    BY <2>1, <2>2, TakeCounted DEF ThermTlmInv, Busy
  <2>4. ThermTlmInv'
    BY <2>1, <2>3 DEF ThermTlmInv, Busy
  <2>5. ThermSchInv' /\ ThermCmdInv' /\ HoldInv'
    BY <1>0, <2>1 DEF ThermSchInv, ThermCmdInv, HoldInv, Busy
  <2> QED
    BY <1>1, <1>2, <2>1, <2>4, <2>5
<1>8. CASE T!ProcessWiseHk
  <2>1. /\ thermPc = "hk" /\ thermPc' \in {"lvrA", "data"}
        /\ thermTlm' = Release(thermTlm)
        /\ UNCHANGED <<thermSch, thermCmd, wiseCmd>>
    BY <1>8 DEF T!ProcessWiseHk, T!Release, Release
  <2>2. PICK S : thermTlm \in Pipes(S)
    BY DEF ThermTlmInv
  <2>3. thermTlm' \in Pipes(S) /\ Counted(thermTlm', 0, MsgLimit)
    BY <2>1, <2>2, ReleaseCounted DEF ThermTlmInv, Busy
  <2>4. ThermTlmInv'
    BY <2>1, <2>3 DEF ThermTlmInv, Busy
  <2>5. ThermSchInv' /\ ThermCmdInv' /\ HoldInv'
    BY <1>0, <2>1 DEF ThermSchInv, ThermCmdInv, HoldInv, Busy
  <2> QED
    BY <1>1, <1>2, <2>1, <2>4, <2>5
<1>9. CASE T!EndOfCommands \/ T!EndOfData
  <2>1. /\ thermPc \in {"cmds", "data"} /\ thermPc' \in {"data", "pend"}
        /\ UNCHANGED <<thermSch, thermCmd, thermTlm, wiseCmd>>
    BY <1>9 DEF T!EndOfCommands, T!EndOfData
  <2>2. ThermSchInv' /\ ThermCmdInv' /\ ThermTlmInv' /\ HoldInv'
    BY <1>0, <2>1 DEF ThermSchInv, ThermCmdInv, ThermTlmInv, HoldInv, Busy
  <2> QED
    BY <1>1, <1>2, <2>1, <2>2
<1>10. ASSUME NEW s \in T!Sides, T!ToggleLvr(s) \/ T!ToggleHtr(s)
       PROVE  BusInv'
  <2>1. /\ thermPc \in {"lvrA", "lvrB", "htrA", "htrB"}
        /\ thermPc' \in {"lvrB", "htrA", "htrB", "data"}
        /\ UNCHANGED <<thermSch, thermCmd, thermTlm>>
    BY <1>10 DEF T!ToggleLvr, T!ToggleHtr
  <2>2. \/ wiseCmd' = wiseCmd
        \/ wiseCmd' = Put(wiseCmd, [cc |-> "LVR_TOGGLE", target |-> s], PipeDepth, MsgLimit)
        \/ wiseCmd' = Put(wiseCmd, [cc |-> "HTR_TOGGLE", target |-> s], PipeDepth, MsgLimit)
    BY <1>10 DEF T!ToggleLvr, T!ToggleHtr, T!SendWiseCmd, T!Put, Put, T!Admits, Admits
  <2>3. /\ [cc |-> "LVR_TOGGLE", target |-> s] \in WiseMsgs
        /\ [cc |-> "HTR_TOGGLE", target |-> s] \in WiseMsgs
    BY DEF WiseMsgs, T!Sides, Sides
  <2>4. WiseCmdInv'
    BY <1>0, <2>2, <2>3, PutCounted DEF WiseCmdInv, Busy
  <2>5. ThermSchInv' /\ ThermCmdInv' /\ ThermTlmInv' /\ HoldInv'
    BY <1>0, <2>1 DEF ThermSchInv, ThermCmdInv, ThermTlmInv, HoldInv, Busy
  <2> QED
    BY <1>1, <2>4, <2>5
<1> QED
  BY <1>0, <1>3, <1>4, <1>5, <1>6, <1>7, <1>8, <1>9, <1>10 DEF T!Step

\* A task leaves its loop, or ES restarts one with new pipes.
LEMMA BusLeaveRestart ==
  ASSUME BusInv, Leave \/ RestartApp
  PROVE  BusInv'
<1> USE Limits DEF BusInv
<1>1. CASE WiseLeave /\ UNCHANGED <<thermState, thermPipes, otherVars>>
  <2>1. /\ pc' = "exit" /\ wiseMsg = NoMsg
        /\ UNCHANGED <<wiseMsg, wiseSch, wiseCmd, thermPc, thermMsg, thermSch,
                       thermCmd, thermTlm>>
    BY <1>1 DEF WiseLeave, W!LeaveRunLoop, thermState, thermPipes
  <2> QED
    BY <2>1 DEF WiseCmdInv, WiseSchInv, ThermSchInv, ThermCmdInv, ThermTlmInv,
                HoldInv, Busy
<1>2. CASE T!LeaveRunLoop /\ UNCHANGED <<wiseTask, otherVars>>
  <2>1. /\ thermPc = "pend" /\ thermPc' = "exit"
        /\ UNCHANGED <<pc, wiseMsg, wiseSch, wiseCmd, thermMsg, thermSch, thermCmd,
                       thermTlm>>
    BY <1>2 DEF T!LeaveRunLoop, wiseTask, wiseVars
  <2> QED
    BY <2>1 DEF WiseCmdInv, WiseSchInv, ThermSchInv, ThermCmdInv, ThermTlmInv,
                HoldInv, Busy
<1>3. CASE /\ wiseSch' = Empty /\ wiseCmd' = Empty /\ wiseMsg' = NoMsg
           /\ UNCHANGED <<actuations, thermState, thermPipes>>
  <2>1. UNCHANGED <<thermPc, thermMsg, thermSch, thermCmd, thermTlm>>
    BY <1>3 DEF thermState, thermPipes
  <2>2. WiseCmdInv' /\ WiseSchInv'
    BY <1>3, EmptyCounted DEF WiseCmdInv, WiseSchInv, Busy
  <2>3. ThermSchInv' /\ ThermCmdInv' /\ ThermTlmInv' /\ HoldInv'
    BY <1>3, <2>1 DEF ThermSchInv, ThermCmdInv, ThermTlmInv, HoldInv
  <2> QED
    BY <2>2, <2>3
<1>4. CASE T!Restart /\ UNCHANGED wiseTask
  <2>1. /\ thermPc' = "pend"
        /\ thermSch' = Empty /\ thermCmd' = Empty /\ thermTlm' = Empty
        /\ UNCHANGED <<pc, wiseMsg, wiseSch, wiseCmd>>
    BY <1>4 DEF T!Restart, T!Empty, Empty, wiseTask, wiseVars
  <2>2. ThermSchInv' /\ ThermCmdInv' /\ ThermTlmInv'
    BY <2>1, EmptyCounted DEF ThermSchInv, ThermCmdInv, ThermTlmInv, Busy
  <2>3. WiseCmdInv' /\ WiseSchInv' /\ HoldInv'
    BY <2>1 DEF WiseCmdInv, WiseSchInv, HoldInv
  <2> QED
    BY <2>2, <2>3
<1> QED
  BY <1>1, <1>2, <1>3, <1>4 DEF Leave, RestartApp

LEMMA BusStep == BusInv /\ [Next]_vars => BusInv'
<1> SUFFICES ASSUME BusInv, [Next]_vars PROVE BusInv'
  OBVIOUS
<1>1. CASE UNCHANGED vars
  BY <1>1 DEF vars, wiseTask, wiseVars, thermState, thermPipes, BusInv, WiseCmdInv,
     WiseSchInv, ThermSchInv, ThermCmdInv, ThermTlmInv, HoldInv
<1> QED
  BY <1>1, BusSenders, BusWise, BusTherm, BusLeaveRestart DEF Next

\* Whatever the tasks do and ES restarts, the software bus counts a message
\* as long as it waits or is being received, and no longer: a pipe that has
\* dropped messages at its limit opens again (CFE_SB_SendMsgFull,
\* CFE_SB_RcvMsg).
THEOREM PipesStayCounted == Spec => []PipesAreCounted
<1>1. Spec => []BusInv
  BY BusInit, BusStep, PTL DEF Spec
<1> QED
  BY <1>1, BusInvCounts, PTL

(***************************************************************************)
(* The toggles of the louvers.                                             *)
(***************************************************************************)

Toggle(s) == [cc |-> "LVR_TOGGLE", target |-> s]

\* How often t is in the sequence q.
Number(q, t) == Cardinality({i \in DOMAIN q : q[i] = t})

LEMMA NumberType ==
  ASSUME NEW S, NEW q \in Seq(S), NEW t
  PROVE  IsFiniteSet({i \in DOMAIN q : q[i] = t}) /\ Number(q, t) \in Nat
<1>1. Len(q) \in Nat /\ DOMAIN q = 1 .. Len(q)
  OBVIOUS
<1>2. IsFiniteSet(DOMAIN q)
  BY <1>1, FS_Interval
<1> QED
  BY <1>2, FS_Subset, FS_CardinalityType DEF Number

LEMMA NumberOfNone == \A t : Number(<<>>, t) = 0
  BY FS_EmptySet DEF Number

LEMMA NumberAppend ==
  ASSUME NEW S, NEW q \in Seq(S), NEW m \in S, NEW t
  PROVE  Number(Append(q, m), t) = Number(q, t) + Busy(m = t)
<1> DEFINE n == Len(q)
           old == {i \in DOMAIN q : q[i] = t}
           new == {i \in DOMAIN Append(q, m) : Append(q, m)[i] = t}
<1>1. /\ n \in Nat /\ DOMAIN q = 1 .. n /\ DOMAIN Append(q, m) = 1 .. n + 1
      /\ Append(q, m)[n + 1] = m
      /\ \A i \in 1 .. n : Append(q, m)[i] = q[i]
  OBVIOUS
<1>2. new = IF m = t THEN old \cup {n + 1} ELSE old
  BY <1>1
<1>3. IsFiniteSet(old) /\ Cardinality(old) \in Nat
  BY NumberType DEF Number
<1>4. n + 1 \notin old
  BY <1>1
<1>5. Cardinality(old \cup {n + 1}) = Cardinality(old) + 1
  BY <1>3, <1>4, FS_AddElement
<1>6. Number(q, t) = Cardinality(old) /\ Number(Append(q, m), t) = Cardinality(new)
  BY DEF Number
<1> HIDE DEF old, new
<1> QED
  BY <1>2, <1>3, <1>5, <1>6 DEF Busy

LEMMA NumberTail ==
  ASSUME NEW S, NEW q \in Seq(S), q # <<>>, NEW t
  PROVE  Number(q, t) = Number(Tail(q), t) + Busy(Head(q) = t)
<1> DEFINE n == Len(q)
           new == {i \in DOMAIN Tail(q) : Tail(q)[i] = t}
           rest == {i \in 2 .. n : q[i] = t}
           old == {i \in DOMAIN q : q[i] = t}
           shift == [i \in new |-> i + 1]
<1>1. /\ n \in Nat \ {0} /\ DOMAIN q = 1 .. n /\ DOMAIN Tail(q) = 1 .. n - 1
      /\ Head(q) = q[1] /\ Tail(q) \in Seq(S)
      /\ \A i \in 1 .. n - 1 : Tail(q)[i] = q[i + 1]
  OBVIOUS
<1>2. IsFiniteSet(new) /\ Cardinality(new) \in Nat
  BY <1>1, NumberType DEF Number
<1>3. shift \in Bijection(new, rest)
  <2>1. shift \in [new -> rest]
    BY <1>1
  <2>2. \A i, j \in new : shift[i] = shift[j] => i = j
    BY <1>1
  <2>3. \A k \in rest : \E i \in new : shift[i] = k
    <3>1. ASSUME NEW k \in rest PROVE k - 1 \in new /\ shift[k - 1] = k
      BY <1>1
    <3> QED
      BY <3>1
  <2> QED
    BY <2>1, <2>2, <2>3 DEF Bijection, Injection, Surjection, IsInjective
<1>4. IsFiniteSet(rest) /\ Cardinality(rest) = Cardinality(new)
  BY <1>2, <1>3, FS_Bijection DEF ExistsBijection
<1>5. old = IF Head(q) = t THEN rest \cup {1} ELSE rest
  BY <1>1
<1>6. 1 \notin rest
  BY <1>1
<1>7. Cardinality(rest \cup {1}) = Cardinality(rest) + 1
  BY <1>4, <1>6, FS_AddElement
<1>8. Number(q, t) = Cardinality(old) /\ Number(Tail(q), t) = Cardinality(new)
  BY DEF Number
<1> HIDE DEF old, new, rest
<1> QED
  BY <1>2, <1>4, <1>5, <1>7, <1>8 DEF Busy

\* The ground toggles no louver and resets no attempts.
GroundIsQuiet ==
  /\ \A m \in GroundWise : m.cc # "LVR_TOGGLE"
  /\ \A m \in GroundTherm : m.cc # "RST_LVR_CNT"

\* The attempts the restarts so far have granted again.
Granted == MaxLvrAttempts * (RestartBudget - restarts)

LEMMA FlightIs ==
  ASSUME NEW s \in Sides
  PROVE  InFlight(s) = Number(wiseCmd.queue, Toggle(s)) + Busy(wiseMsg = Toggle(s))
  BY DEF InFlight, Number, Toggle, Busy

\* The numbers a step is about are numbers.
LEMMA ToggleTypes ==
  ASSUME TypeOK, BusInv, NEW s \in Sides
  PROVE  /\ actuations[s] \in Nat /\ attempts[s] \in 0 .. MaxLvrAttempts
         /\ wiseCmd.queue \in Seq(WiseMsgs)
         /\ Number(wiseCmd.queue, Toggle(s)) \in Nat
         /\ MaxLvrAttempts \in Nat /\ Granted \in Nat
<1>1. wiseCmd.queue \in Seq(WiseMsgs)
  BY DEF BusInv, WiseCmdInv, Pipes
<1>2. RestartBudget \in Nat /\ restarts \in 0 .. RestartBudget /\ MaxLvrAttempts \in Nat
  BY LoopAssumption DEF TypeOK
<1>3. RestartBudget - restarts \in Nat
  BY <1>2
<1>4. Granted \in Nat
  BY <1>2, <1>3 DEF Granted
<1> QED
  BY <1>1, <1>2, <1>4, NumberType DEF TypeOK

\* A toggle is none of the messages of the others.
LEMMA ToggleIsOwn ==
  ASSUME GroundIsQuiet, NEW s \in Sides
  PROVE  /\ Toggle(s) # NoMsg /\ Toggle(s) # WakeupMsg /\ Toggle(s) \notin GroundWise
         /\ \A t \in Sides : Toggle(s) # [cc |-> "HTR_TOGGLE", target |-> t]
         /\ \A t \in Sides : Toggle(s) = Toggle(t) => s = t
         /\ \A m \in WiseMsgs : m.cc = "LVR_TOGGLE" => \E t \in Sides : m = Toggle(t) /\ m.target = t
<1>1. Toggle(s).cc = "LVR_TOGGLE" /\ \A t \in Sides : Toggle(t).target = t
  BY DEF Toggle
<1>2. NoMsg.cc = "NONE" /\ WakeupMsg.cc = "WAKEUP"
  BY DEF NoMsg, T!NoMsg, WakeupMsg
<1>3. \A t \in Sides : [cc |-> "HTR_TOGGLE", target |-> t].cc = "HTR_TOGGLE"
  OBVIOUS
<1>4. ASSUME NEW m \in WiseMsgs, m.cc = "LVR_TOGGLE"
      PROVE  \E t \in Sides : m = Toggle(t) /\ m.target = t
  <2>1. m \in [cc : {"LVR_TOGGLE", "HTR_TOGGLE"}, target : Sides]
    BY <1>4 DEF GroundIsQuiet, WiseMsgs
  <2>2. m.target \in Sides /\ m = [cc |-> m.cc, target |-> m.target]
    BY <2>1
  <2> QED
    BY <1>4, <2>2 DEF Toggle
<1> QED
  BY <1>1, <1>2, <1>3, <1>4 DEF GroundIsQuiet

\* What a sender does to the number of toggles in the command pipe.
LEMMA NumberPut ==
  ASSUME BusInv, NEW s \in Sides, NEW m \in WiseMsgs,
         wiseCmd' = Put(wiseCmd, m, PipeDepth, MsgLimit)
  PROVE  Number(wiseCmd'.queue, Toggle(s))
           \in {Number(wiseCmd.queue, Toggle(s)),
                Number(wiseCmd.queue, Toggle(s)) + Busy(m = Toggle(s))}
<1>1. wiseCmd.queue \in Seq(WiseMsgs)
  BY DEF BusInv, WiseCmdInv, Pipes
<1>2. wiseCmd'.queue \in {wiseCmd.queue, Append(wiseCmd.queue, m)}
  BY DEF Put
<1>3. Number(Append(wiseCmd.queue, m), Toggle(s))
        = Number(wiseCmd.queue, Toggle(s)) + Busy(m = Toggle(s))
  BY <1>1, NumberAppend
<1> QED
  BY <1>2, <1>3

\* Without a toggle sent, executed or forgotten, none is counted.
LEMMA TogglesUnmoved ==
  ASSUME TypeOK, BusInv, TogglesAreCounted, UNCHANGED <<actuations, attempts, restarts>>,
         \A s \in Sides : InFlight(s)' \in Nat /\ InFlight(s)' <= InFlight(s)
  PROVE  TogglesAreCounted'
<1> SUFFICES ASSUME NEW s \in Sides
             PROVE  actuations'[s] + InFlight(s)' <= attempts'[s] + Granted'
  BY DEF TogglesAreCounted, Granted
<1>1. /\ actuations[s] \in Nat /\ attempts[s] \in 0 .. MaxLvrAttempts
      /\ Number(wiseCmd.queue, Toggle(s)) \in Nat /\ Granted \in Nat
      /\ InFlight(s) = Number(wiseCmd.queue, Toggle(s)) + Busy(wiseMsg = Toggle(s))
  BY ToggleTypes, FlightIs
<1>2. actuations[s] + InFlight(s) <= attempts[s] + Granted
  BY DEF TogglesAreCounted, Granted
<1>3. Granted' = Granted /\ actuations'[s] = actuations[s] /\ attempts'[s] = attempts[s]
  BY DEF Granted
<1> QED
  BY <1>1, <1>2, <1>3 DEF Busy

\* WISE executes the toggle it holds, and no other message counts as one.
LEMMA TogglesWise ==
  ASSUME GroundIsQuiet, TypeOK, BusInv, BusInv', TogglesAreCounted, WiseStep
  PROVE  TogglesAreCounted'
<1>0. UNCHANGED <<attempts, restarts>>
  BY DEF WiseStep, thermState, otherVars
<1>a. Granted' = Granted
  BY <1>0 DEF Granted
<1>b. ASSUME NEW s \in Sides
      PROVE  /\ actuations[s] \in Nat /\ attempts[s] \in 0 .. MaxLvrAttempts
             /\ Number(wiseCmd.queue, Toggle(s)) \in Nat /\ Granted \in Nat
             /\ InFlight(s) = Number(wiseCmd.queue, Toggle(s)) + Busy(wiseMsg = Toggle(s))
             /\ InFlight(s)' = Number(wiseCmd'.queue, Toggle(s)) + Busy(wiseMsg' = Toggle(s))
             /\ Toggle(s) # NoMsg /\ Toggle(s) # WakeupMsg
             /\ actuations[s] + InFlight(s) <= attempts[s] + Granted
  BY ToggleTypes, FlightIs, ToggleIsOwn DEF TogglesAreCounted, Granted, InFlight, Number, Toggle, Busy
<1>1. CASE WiseTakeWakeup \/ WiseWakeup
  <2>1. wiseMsg' \in {NoMsg, WakeupMsg} /\ UNCHANGED <<actuations, wiseCmd>>
    <3>1. CASE WiseWakeup
      BY <3>1 DEF WiseWakeup
    <3>2. CASE WiseTakeWakeup
      <4>1. wiseSch.queue \in Seq({WakeupMsg}) /\ wiseSch.queue # <<>>
        BY <3>2 DEF BusInv, WiseSchInv, Pipes, WiseTakeWakeup, Waiting
      <4>2. Head(wiseSch.queue) = WakeupMsg
        BY <4>1
      <4> QED
        BY <3>2, <4>2 DEF WiseTakeWakeup
    <3> QED
      BY <1>1, <3>1, <3>2
  <2>2. \A s \in Sides : InFlight(s)' \in Nat /\ InFlight(s)' <= InFlight(s)
    BY <1>b, <2>1 DEF Busy
  <2> QED
    BY <1>0, <2>1, <2>2, TogglesUnmoved
<1>2. CASE WiseTakeCmd
  <2>1. /\ wiseMsg = NoMsg /\ wiseCmd.queue # <<>> /\ wiseMsg' = Head(wiseCmd.queue)
        /\ wiseCmd'.queue = Tail(wiseCmd.queue) /\ UNCHANGED actuations
    BY <1>2 DEF WiseTakeCmd, Waiting, Take, BusInv, WiseCmdInv, Pipes
  <2>2. wiseCmd.queue \in Seq(WiseMsgs)
    BY DEF BusInv, WiseCmdInv, Pipes
  <2>3. ASSUME NEW s \in Sides
        PROVE  Number(wiseCmd.queue, Toggle(s))
                 = Number(wiseCmd'.queue, Toggle(s)) + Busy(wiseMsg' = Toggle(s))
    BY <2>1, <2>2, NumberTail
  <2>4. \A s \in Sides : InFlight(s)' \in Nat /\ InFlight(s)' <= InFlight(s)
    BY <1>b, <2>1, <2>3 DEF Busy
  <2> QED
    BY <1>0, <2>1, <2>4, TogglesUnmoved
<1>3. CASE WiseCommand
  <2>1. /\ wiseMsg \in WiseMsgs /\ wiseMsg' = NoMsg
        /\ wiseCmd'.queue = wiseCmd.queue
    BY <1>3 DEF WiseCommand, W!ProcessNewAppCmds, BusInv, WiseCmdInv, HoldInv, Pipes, Release
  <2>2. CASE actuations' = actuations
    <3>1. \A s \in Sides : InFlight(s)' \in Nat /\ InFlight(s)' <= InFlight(s)
      BY <1>b, <2>1 DEF Busy
    <3> QED
      BY <1>0, <2>2, <3>1, TogglesUnmoved
  <2>3. CASE /\ wiseMsg.cc = "LVR_TOGGLE"
             /\ actuations' = [actuations EXCEPT ![wiseMsg.target] = @ + 1]
    <3>0. "A" \in Sides
      BY DEF Sides
    <3>1. PICK t \in Sides : wiseMsg = Toggle(t) /\ wiseMsg.target = t
      BY <2>1, <2>3, <3>0, ToggleIsOwn
    <3>2. SUFFICES ASSUME NEW s \in Sides
                   PROVE  actuations'[s] + InFlight(s)' <= attempts'[s] + Granted'
      BY DEF TogglesAreCounted, Granted
    <3>3. InFlight(s)' = Number(wiseCmd.queue, Toggle(s))
      BY <1>b, <2>1 DEF Busy
    <3>4. CASE s = t
      <4>1. actuations'[s] = actuations[s] + 1
        BY <2>3, <3>1, <3>4 DEF TypeOK
      <4>2. InFlight(s) = Number(wiseCmd.queue, Toggle(s)) + 1
        BY <1>b, <3>1, <3>4 DEF Busy
      <4> QED
        BY <1>0, <1>a, <1>b, <3>3, <4>1, <4>2
    <3>5. CASE s # t
      <4>1. actuations'[s] = actuations[s]
        BY <2>3, <3>1, <3>5 DEF TypeOK
      <4>2. InFlight(s) = Number(wiseCmd.queue, Toggle(s))
        BY <1>b, <3>1, <3>5, ToggleIsOwn DEF Busy
      <4> QED
        BY <1>0, <1>a, <1>b, <3>3, <4>1, <4>2
    <3> QED
      BY <3>4, <3>5
  <2> QED
    BY <1>3, <2>2, <2>3 DEF WiseCommand
<1>4. CASE WiseEndOfCommands \/ WiseSimulate \/ WiseReport
  <2>1. UNCHANGED <<wiseMsg, wiseCmd, actuations>>
    BY <1>4 DEF WiseEndOfCommands, WiseSimulate, WiseReport
  <2>2. \A s \in Sides : InFlight(s)' \in Nat /\ InFlight(s)' <= InFlight(s)
    BY <1>b, <2>1 DEF Busy
  <2> QED
    BY <1>0, <2>1, <2>2, TogglesUnmoved
<1> QED
  BY <1>1, <1>2, <1>3, <1>4 DEF WiseStep

\* THERM counts the toggle it sends, and counts it although it is dropped.
LEMMA TogglesTherm ==
  ASSUME GroundIsQuiet, TypeOK, BusInv, TogglesAreCounted, ThermStep
  PROVE  TogglesAreCounted'
<1>0. T!Step /\ UNCHANGED <<wiseMsg, actuations, restarts>>
  BY DEF ThermStep, wiseTask, otherVars
<1>a. Granted' = Granted
  BY <1>0 DEF Granted
<1>b. ASSUME NEW s \in Sides
      PROVE  /\ actuations[s] \in Nat /\ attempts[s] \in 0 .. MaxLvrAttempts
             /\ Number(wiseCmd.queue, Toggle(s)) \in Nat /\ Granted \in Nat
             /\ InFlight(s) = Number(wiseCmd.queue, Toggle(s)) + Busy(wiseMsg = Toggle(s))
             /\ InFlight(s)' = Number(wiseCmd'.queue, Toggle(s)) + Busy(wiseMsg' = Toggle(s))
             /\ actuations[s] + InFlight(s) <= attempts[s] + Granted
  BY ToggleTypes, FlightIs DEF TogglesAreCounted, Granted, InFlight, Number, Toggle, Busy
<1>1. CASE wiseCmd' = wiseCmd /\ attempts' = attempts
  <2>1. \A s \in Sides : InFlight(s)' \in Nat /\ InFlight(s)' <= InFlight(s)
    BY <1>0, <1>1, <1>b DEF Busy
  <2> QED
    BY <1>0, <1>1, <2>1, TogglesUnmoved
<1>2. CASE T!ProcessNewAppCmds
  <2>1. thermMsg.cc # "RST_LVR_CNT"
    BY <1>2 DEF T!ProcessNewAppCmds, BusInv, HoldInv, GroundIsQuiet
  <2> QED
    BY <1>1, <1>2, <2>1 DEF T!ProcessNewAppCmds
<1>3. ASSUME NEW t \in Sides, T!ToggleHtr(t)
      PROVE  TogglesAreCounted'
  <2> DEFINE m == [cc |-> "HTR_TOGGLE", target |-> t]
  <2>1. attempts' = attempts /\ (wiseCmd' = wiseCmd \/ wiseCmd' = Put(wiseCmd, m, PipeDepth, MsgLimit))
    BY <1>3 DEF T!ToggleHtr, T!SendWiseCmd, T!Put, Put, T!Admits, Admits
  <2>2. m \in WiseMsgs
    BY DEF WiseMsgs
  <2>3. CASE wiseCmd' = Put(wiseCmd, m, PipeDepth, MsgLimit)
    <3>1. ASSUME NEW s \in Sides
          PROVE  Number(wiseCmd'.queue, Toggle(s)) = Number(wiseCmd.queue, Toggle(s))
      <4>1. Busy(m = Toggle(s)) = 0
        BY ToggleIsOwn DEF Busy
      <4>2. Number(wiseCmd'.queue, Toggle(s))
              \in {Number(wiseCmd.queue, Toggle(s)),
                   Number(wiseCmd.queue, Toggle(s)) + Busy(m = Toggle(s))}
        BY <2>2, <2>3, NumberPut
      <4> QED
        BY <1>b, <4>1, <4>2
    <3>2. \A s \in Sides : InFlight(s)' \in Nat /\ InFlight(s)' <= InFlight(s)
      BY <1>0, <1>b, <3>1 DEF Busy
    <3> QED
      BY <1>0, <2>1, <3>2, TogglesUnmoved
  <2> QED
    BY <1>1, <2>1, <2>3
<1>4. ASSUME NEW t \in Sides, T!ToggleLvr(t)
      PROVE  TogglesAreCounted'
  <2>1. CASE ~T!WantsLvr(t)
    BY <1>1, <1>4, <2>1 DEF T!ToggleLvr
  <2>2. CASE T!WantsLvr(t)
    <3>1. /\ attempts' = [attempts EXCEPT ![t] = @ + 1]
          /\ wiseCmd' = Put(wiseCmd, Toggle(t), PipeDepth, MsgLimit)
      BY <1>4, <2>2 DEF T!ToggleLvr, T!SendWiseCmd, T!Put, Put, T!Admits, Admits, Toggle
    <3>2. Toggle(t) \in WiseMsgs
      BY DEF WiseMsgs, Toggle
    <3>3. SUFFICES ASSUME NEW s \in Sides
                   PROVE  actuations'[s] + InFlight(s)' <= attempts'[s] + Granted'
      BY DEF TogglesAreCounted, Granted
    <3>4. Number(wiseCmd'.queue, Toggle(s))
            \in {Number(wiseCmd.queue, Toggle(s)),
                 Number(wiseCmd.queue, Toggle(s)) + Busy(Toggle(t) = Toggle(s))}
      BY <3>1, <3>2, NumberPut
    <3>5. CASE s = t
      <4>1. attempts'[s] = attempts[s] + 1
        BY <3>1, <3>5 DEF TypeOK
      <4>2. InFlight(s)' \in {InFlight(s), InFlight(s) + 1}
        BY <1>0, <1>b, <3>4, <3>5 DEF Busy
      <4> QED
        BY <1>0, <1>a, <1>b, <4>1, <4>2 DEF Busy
    <3>6. CASE s # t
      <4>1. attempts'[s] = attempts[s] /\ Toggle(t) # Toggle(s)
        BY <3>1, <3>6, ToggleIsOwn DEF TypeOK
      <4>2. InFlight(s)' = InFlight(s)
        BY <1>0, <1>b, <3>4, <4>1 DEF Busy
      <4> QED
        BY <1>0, <1>a, <1>b, <4>1, <4>2
    <3> QED
      BY <3>5, <3>6
  <2> QED
    BY <2>1, <2>2
<1>5. CASE \/ T!TakeWakeup \/ T!Wakeup \/ T!TakeCmd \/ T!EndOfCommands
           \/ T!TakeHk \/ T!ProcessWiseHk \/ T!EndOfData
  BY <1>1, <1>5 DEF T!TakeWakeup, T!Wakeup, T!TakeCmd, T!EndOfCommands, T!TakeHk,
                    T!ProcessWiseHk, T!EndOfData
<1>6. T!Sides = Sides
  BY DEF T!Sides, Sides
<1> QED
  BY <1>0, <1>2, <1>3, <1>4, <1>5, <1>6 DEF T!Step

\* A command of the ground is no toggle; a restart forgets the toggles that
\* wait, or the attempts, which are granted again.
LEMMA TogglesOthers ==
  ASSUME GroundIsQuiet, TypeOK, TypeOK', BusInv, TogglesAreCounted,
         ProcessNextEntry \/ GroundCommand \/ Leave \/ RestartApp \/ UNCHANGED vars
  PROVE  TogglesAreCounted'
<1>b. ASSUME NEW s \in Sides
      PROVE  /\ actuations[s] \in Nat /\ attempts[s] \in 0 .. MaxLvrAttempts
             /\ Number(wiseCmd.queue, Toggle(s)) \in Nat /\ Granted \in Nat
             /\ MaxLvrAttempts \in Nat
             /\ InFlight(s) = Number(wiseCmd.queue, Toggle(s)) + Busy(wiseMsg = Toggle(s))
             /\ InFlight(s)' = Number(wiseCmd'.queue, Toggle(s)) + Busy(wiseMsg' = Toggle(s))
             /\ Toggle(s) # NoMsg
             /\ actuations[s] + InFlight(s) <= attempts[s] + Granted
  BY ToggleTypes, FlightIs, ToggleIsOwn DEF TogglesAreCounted, Granted, InFlight, Number, Toggle, Busy
<1>1. CASE UNCHANGED <<wiseCmd, wiseMsg, actuations, attempts, restarts>>
  <2>1. \A s \in Sides : InFlight(s)' \in Nat /\ InFlight(s)' <= InFlight(s)
    BY <1>1, <1>b DEF Busy
  <2> QED
    BY <1>1, <2>1, TogglesUnmoved
<1>2. CASE GroundCommand
  <2>1. UNCHANGED <<wiseMsg, actuations, attempts, restarts>>
    BY <1>2 DEF GroundCommand, wiseTask, thermState
  <2>2. ASSUME NEW m \in GroundWise, wiseCmd' = Put(wiseCmd, m, PipeDepth, MsgLimit)
        PROVE  TogglesAreCounted'
    <3>1. m \in WiseMsgs
      BY DEF WiseMsgs
    <3>2. ASSUME NEW s \in Sides
          PROVE  Number(wiseCmd'.queue, Toggle(s)) = Number(wiseCmd.queue, Toggle(s))
      <4>1. Busy(m = Toggle(s)) = 0
        BY ToggleIsOwn DEF Busy
      <4>2. Number(wiseCmd'.queue, Toggle(s))
              \in {Number(wiseCmd.queue, Toggle(s)),
                   Number(wiseCmd.queue, Toggle(s)) + Busy(m = Toggle(s))}
        BY <2>2, <3>1, NumberPut
      <4> QED
        BY <1>b, <4>1, <4>2
    <3>3. \A s \in Sides : InFlight(s)' \in Nat /\ InFlight(s)' <= InFlight(s)
      BY <1>b, <2>1, <3>2 DEF Busy
    <3> QED
      BY <2>1, <3>3, TogglesUnmoved
  <2> QED
    BY <1>1, <1>2, <2>1, <2>2 DEF GroundCommand
<1>3. CASE RestartApp
  <2>1. MaxLvrAttempts \in Nat /\ RestartBudget \in Nat /\ restarts \in Nat
    BY LoopAssumption DEF TypeOK
  <2>2. restarts' = restarts - 1
    BY <1>3 DEF RestartApp
  <2>3. Granted' = Granted + MaxLvrAttempts
    <3>1. RestartBudget - (restarts - 1) = (RestartBudget - restarts) + 1
      BY <2>1
    <3>2. \A n \in Int : MaxLvrAttempts * (n + 1) = MaxLvrAttempts * n + MaxLvrAttempts
      BY <2>1
    <3> QED
      BY <2>1, <2>2, <3>1, <3>2 DEF Granted
  <2>4. SUFFICES ASSUME NEW s \in Sides
                 PROVE  actuations'[s] + InFlight(s)' <= attempts'[s] + Granted'
    BY DEF TogglesAreCounted, Granted
  <2>5. CASE /\ wiseCmd' = Empty /\ wiseMsg' = NoMsg
             /\ UNCHANGED <<actuations, attempts>>
    <3>1. InFlight(s)' = 0
      BY <1>b, <2>5, NumberOfNone DEF Empty, Busy
    <3> QED
      BY <1>b, <2>1, <2>3, <2>5, <3>1 DEF Busy
  <2>6. CASE /\ attempts' = [t \in Sides |-> 0]
             /\ UNCHANGED <<actuations, wiseCmd, wiseMsg>>
    <3>1. InFlight(s)' = InFlight(s) /\ attempts'[s] = 0
      BY <1>b, <2>6
    <3> QED
      BY <1>b, <2>1, <2>3, <2>6, <3>1 DEF Busy
  <2>7. T!Restart /\ UNCHANGED wiseTask => attempts' = [t \in Sides |-> 0]
                         /\ UNCHANGED <<actuations, wiseCmd, wiseMsg>>
    BY DEF T!Restart, T!Sides, Sides, wiseTask
  <2> QED
    BY <1>3, <2>5, <2>6, <2>7 DEF RestartApp, thermState
<1>4. CASE ProcessNextEntry \/ Leave \/ UNCHANGED vars
  BY <1>1, <1>4 DEF ProcessNextEntry, Leave, WiseLeave, T!LeaveRunLoop, vars, wiseTask,
                    thermState, otherVars
<1> QED
  BY <1>2, <1>3, <1>4

LEMMA TogglesInit == Init => TogglesAreCounted
<1> SUFFICES ASSUME Init, NEW s \in Sides
             PROVE  actuations[s] + InFlight(s) <= attempts[s] + Granted
  BY DEF TogglesAreCounted, Granted
<1>1. /\ actuations[s] = 0 /\ attempts[s] = 0 /\ restarts = RestartBudget
      /\ wiseCmd = Empty /\ wiseMsg = NoMsg
  BY DEF Init, T!Init, T!Sides, Sides, T!Empty, Empty
<1>2. Number(wiseCmd.queue, Toggle(s)) = 0
  BY <1>1, NumberOfNone DEF Empty
<1>3. Toggle(s) # NoMsg
  BY DEF Toggle, NoMsg, T!NoMsg
<1>4. Granted = 0
  BY <1>1, LoopAssumption DEF Granted
<1> QED
  BY <1>1, <1>2, <1>3, <1>4, FlightIs DEF Busy

\* A ground that toggles no louver and resets no attempts leaves THERM's
\* counters right: WISE never executes more toggles of a louver than THERM
\* has counted attempts for it, and the attempts of every life before a
\* restart (THERM_toggle_lvr).
THEOREM TogglesStayCounted ==
  ASSUME GroundIsQuiet
  PROVE  Spec => []TogglesAreCounted
<1> DEFINE Inv == TypeOK /\ BusInv /\ TogglesAreCounted
<1>1. Init => Inv
  BY TypeInit, BusInit, TogglesInit
<1>2. Inv /\ [Next]_vars => Inv'
  <2> SUFFICES ASSUME Inv, [Next]_vars PROVE Inv'
    OBVIOUS
  <2>1. TypeOK' /\ BusInv'
    BY TypeStep, BusStep
  <2>2. TogglesAreCounted'
    BY <2>1, TogglesWise, TogglesTherm, TogglesOthers DEF Next
  <2> QED
    BY <2>1, <2>2
<1> QED
  BY <1>1, <1>2, PTL DEF Spec
=============================================================================
