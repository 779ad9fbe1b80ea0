------------------------------- MODULE WheLoop -------------------------------
(***************************************************************************)
(* The loop that discharges capacitor A of WHE: SCH wakes WHE once a       *)
(* second, WHE reports its housekeeping, LC watches the charge in it and   *)
(* commands WHE.  The tasks share the pipes of the software bus and        *)
(* nothing else.  ES may restart either application, which deletes its     *)
(* pipe and all it knew.                                                   *)
(*                                                                         *)
(* With the schedule of this repository nothing but the housekeeping of    *)
(* WHE reaches LC: the entries that would send LC its sample and           *)
(* housekeeping requests are commented out.                                *)
(***************************************************************************)
EXTENDS Whe, Lc, SharedPipe

CONSTANTS
  Threshold,      \* the charge LC watches for (95)
  PipeDepth,      \* WHE_PIPE_DEPTH and LC_PIPE_DEPTH (32, 12)
  MsgLimit,       \* CFE_SB_DEFAULT_MSG_LIMIT (4)
  Prompt,         \* TRUE: the work of a second is done before the next one
  GroundWhe,      \* the commands the ground may send to WHE
  GroundBudget,   \* bound: how many of them it sends
  RestartBudget   \* bound: how many restarts ES makes

ASSUME WheLoopAssumption ==
  /\ {Threshold, GroundBudget, RestartBudget} \subseteq Nat
  /\ {PipeDepth, MsgLimit} \subseteq Nat \ {0}
  /\ Prompt \in BOOLEAN

VARIABLES
  whePipe, wheMsg,   \* the pipe of WHE, and the message it has taken
  lcPipe, lcMsg,     \* the same of LC
  budget, restarts,  \* what is left of the two bounds
  setbacks           \* history: restarts of LC, and commands of LC dropped

wheTask == <<instr, wheMsg>>
lcTask == <<lcVars, lcMsg>>
vars == <<wheTask, lcTask, whePipe, lcPipe, budget, restarts, setbacks>>

NoMsg == [id |-> "NONE"]
WheIds == {"1HZ", "CMD"}
LcIds == {"WHE_HK"}
DischargeA == [cc |-> "CAP_DISCHARGE", cap |-> "A"]

\* The tables LC is built with: watchpoint 0 is on the charge of capacitor A,
\* which it reads as a signed byte; actionpoint 1 is that watchpoint.
WheWDT == [wp \in Watchpoints |->
  [type |-> "BYTE", oper |-> "GE", mid |-> "WHE_HK", value |-> Threshold, age |-> 0]]
WheADT == [ap \in Actionpoints |->
  [default |-> "ACTIVE", maxFails |-> 1, rts |-> DischargeA, equation |-> <<"w0", "=">>]]

\* The byte of the housekeeping that LC looks at.
HkTlm(w) == [id |-> "WHE_HK", data |-> w.charge["A"] % ByteMod]
-----------------------------------------------------------------------------
Init ==
  /\ WheInit /\ LcInit
  /\ whePipe = EmptyFor(WheIds) /\ wheMsg = NoMsg
  /\ lcPipe = EmptyFor(LcIds) /\ lcMsg = NoMsg
  /\ budget = GroundBudget /\ restarts = RestartBudget /\ setbacks = 0

Idle == /\ wheMsg = NoMsg /\ ~Waiting(whePipe)
        /\ lcMsg = NoMsg /\ ~Waiting(lcPipe)

\* SCH, slot 0 of its table.
Tick ==
  /\ Prompt => Idle
  /\ whePipe' = Put(whePipe, [id |-> "1HZ"], PipeDepth, MsgLimit)
  /\ UNCHANGED <<wheTask, lcTask, lcPipe, budget, restarts, setbacks>>

GroundCommand ==
  /\ budget > 0 /\ budget' = budget - 1
  /\ \E cmd \in GroundWhe :
       whePipe' = Put(whePipe, [id |-> "CMD", cmd |-> cmd, by |-> "GROUND"],
                      PipeDepth, MsgLimit)
  /\ UNCHANGED <<wheTask, lcTask, lcPipe, restarts, setbacks>>
-----------------------------------------------------------------------------
WheTake ==
  /\ wheMsg = NoMsg /\ Waiting(whePipe)
  /\ wheMsg' = Head(whePipe.queue) /\ whePipe' = Take(whePipe)
  /\ UNCHANGED <<instr, lcTask, lcPipe, budget, restarts, setbacks>>

\* A wakeup, with the housekeeping it ends in.
WheWakeup ==
  /\ wheMsg.id = "1HZ" /\ ProcessWakeup
  /\ lcPipe' = IF instr.dmg = "MAJOR" THEN lcPipe
               ELSE Put(lcPipe, HkTlm(instr'), PipeDepth, MsgLimit)
  /\ whePipe' = Release(whePipe, wheMsg) /\ wheMsg' = NoMsg
  /\ UNCHANGED <<lcTask, budget, restarts, setbacks>>

WheCommand ==
  /\ wheMsg.id = "CMD" /\ ProcessGroundCommand(wheMsg.cmd)
  /\ whePipe' = Release(whePipe, wheMsg) /\ wheMsg' = NoMsg
  /\ UNCHANGED <<lcTask, lcPipe, budget, restarts, setbacks>>

WheStep == WheTake \/ WheWakeup \/ WheCommand
-----------------------------------------------------------------------------
LcTake ==
  /\ lcMsg = NoMsg /\ Waiting(lcPipe)
  /\ lcMsg' = Head(lcPipe.queue) /\ lcPipe' = Take(lcPipe)
  /\ UNCHANGED <<wheTask, lcVars, whePipe, budget, restarts, setbacks>>

\* LC_ExecuteRTS: it does not ask whether the command was sent.
Handed(st, cmd) ==
  LET m == [id |-> "CMD", cmd |-> cmd, by |-> "LC"]
  IN  [pipe |-> Put(st.pipe, m, PipeDepth, MsgLimit),
       dropped |-> st.dropped + IF Admits(st.pipe, m, PipeDepth, MsgLimit) THEN 0 ELSE 1]

\* The pipe of WHE and the commands dropped, after all the requests.
Execute(requests) ==
  LET st[n \in 0 .. Len(requests)] ==
        IF n = 0 THEN [pipe |-> whePipe, dropped |-> 0] ELSE Handed(st[n - 1], requests[n])
  IN  st[Len(requests)]

LcHandle ==
  /\ lcMsg # NoMsg /\ AppPipe(lcMsg)
  /\ LET sent == Execute(Outgoing(lcMsg))
     IN  whePipe' = sent.pipe /\ setbacks' = setbacks + sent.dropped
  /\ lcPipe' = Release(lcPipe, lcMsg) /\ lcMsg' = NoMsg
  /\ UNCHANGED <<wheTask, budget, restarts>>

LcStep == LcTake \/ LcHandle
-----------------------------------------------------------------------------
\* ES restarts an application at any point of its work.
RestartWhe ==
  /\ restarts > 0 /\ restarts' = restarts - 1
  /\ WheRestart /\ whePipe' = EmptyFor(WheIds) /\ wheMsg' = NoMsg
  /\ UNCHANGED <<lcTask, lcPipe, budget, setbacks>>

RestartLc ==
  /\ restarts > 0 /\ restarts' = restarts - 1
  /\ LcRestart /\ lcPipe' = EmptyFor(LcIds) /\ lcMsg' = NoMsg
  /\ setbacks' = setbacks + 1
  /\ UNCHANGED <<wheTask, whePipe, budget>>

Next == Tick \/ GroundCommand \/ WheStep \/ LcStep \/ RestartWhe \/ RestartLc

\* What a task does of its message alone: it takes one that waits, and is
\* done with one it holds.
Proceeds(msg, next, pipe) ==
  \/ msg = NoMsg /\ Waiting(pipe) /\ next = Head(pipe.queue)
  \/ msg # NoMsg /\ next = NoMsg

\* The timer of SCH runs, and neither task leaves a message for ever.
Fairness ==
  /\ WF_vars(Tick)
  /\ WF_wheMsg(Proceeds(wheMsg, wheMsg', whePipe))
  /\ WF_lcMsg(Proceeds(lcMsg, lcMsg', lcPipe))

Spec == Init /\ [][Next]_vars /\ Fairness
-----------------------------------------------------------------------------
\* LC samples before it looks at a message and so commands a wakeup late:
\* the charge it lets capacitor A reach is two gains over the threshold, and
\* two more for every command that is dropped and every restart of LC.  In
\* the state ERROR, in which WHE goes on charging, it refuses the command.
ChargeIsHeld ==
  instr.sbc # "ERROR" =>
    instr.charge["A"] < Threshold + 2 * GainAlone * (1 + setbacks)

\* LC repeats its command at every message while the old result stands, and
\* once more.  None of these starts a discharge that the charge reported two
\* wakeups earlier did not ask for, whatever has drained it since.
DischargeIsDeserved ==
  [][(/\ WheCommand /\ wheMsg.by = "LC"
      /\ instr.cap["A"] = "CHARGING" /\ instr'.cap["A"] = "DISCHARGING")
        => instr.charge["A"] + ObsDrain >= Threshold + GainShared]_vars

\* A discharge ends although LC goes on commanding it, unless the instrument
\* is lost.
DischargeEnds ==
  instr.cap["A"] = "DISCHARGING" ~> instr.cap["A"] # "DISCHARGING" \/ instr.dmg = "MAJOR"

\* An instrument that is being powered comes up, or is restarted or lost.
PowerComesUp ==
  instr.sbc = "OFF" /\ instr.pwr > 0
    ~> instr.sbc # "OFF" \/ instr.pwr = 0 \/ instr.dmg = "MAJOR"
=============================================================================
