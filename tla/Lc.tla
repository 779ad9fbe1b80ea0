---------------------------------- MODULE Lc ----------------------------------
(***************************************************************************)
(* The limit checker, cfs/apps/lc/fsw/src: watchpoints evaluate a datum of *)
(* a monitored message, actionpoints combine the results of watchpoints by *)
(* an equation in reverse Polish notation, and an actionpoint that has     *)
(* failed often enough requests a command.  LC is one task with one pipe;  *)
(* LC_AppPipe handles a message in one step.                               *)
(*                                                                         *)
(* The definition tables are variables, replaced by valid loads.  A        *)
(* watchpoint reads one byte; bit masks, the wider types and the custom    *)
(* function are left out, as are the statistics nothing decides by.        *)
(***************************************************************************)
EXTENDS Integers, Sequences, FiniteSets

CONSTANTS
  Watchpoints,   \* the indices of the watchpoint tables
  Actionpoints,  \* the indices of the actionpoint tables, a set of numbers
  MaxEquation,   \* LC_MAX_RPN_EQU_SIZE
  DefaultWDT,    \* the watchpoint table loaded at startup
  DefaultADT,    \* the actionpoint table loaded at startup
  WatchTables,   \* watchpoint tables the ground may load
  ActionTables,  \* actionpoint tables the ground may try to load
  ByteMod,       \* values of a byte (256)
  MaxFailCount   \* bound: no consecutive fails are counted beyond it

BinaryOps == {"AND", "OR", "XOR"}
Operators == BinaryOps \cup {"NOT", "="}

\* A word of an equation that is none of these is INVALID.
RPNItems == Watchpoints \cup Operators \cup {"INVALID"}

ASSUME LcAssumption ==
  /\ Actionpoints \subseteq Nat
  /\ Watchpoints \cap (Operators \cup {"INVALID"}) = {}
  /\ {MaxEquation, ByteMod} \subseteq Nat \ {0} /\ MaxFailCount \in Nat
  /\ \A table \in WatchTables \cup {DefaultWDT} :
       \A wp \in Watchpoints : table[wp].age \in Nat
  /\ \A table \in ActionTables \cup {DefaultADT} :
       \A ap \in Actionpoints : table[ap].equation \in Seq(RPNItems)

VARIABLES
  lcState,  \* CurrentLCState
  wdt,      \* watchpoint definitions: [type, oper, mid, value, age]
  wrt,      \* watchpoint results: [result, countdown]
  adt,      \* actionpoint definitions: [default, maxFails, rts, equation]
  art       \* actionpoint results: [state, result, fails]

lcVars == <<lcState, wdt, wrt, adt, art>>

WatchResults == {"TRUE", "FALSE", "STALE", "ERROR"}

\* The message is too short for the offset of the watchpoint.
TooShort == -1
-----------------------------------------------------------------------------
(* Equations.                                                              *)

Truth(b) == IF b THEN "TRUE" ELSE "FALSE"

\* Mutant: a STALE operand counts as the neutral one.
ApplyIgnoresStale(op, x, y) ==
  IF op = "AND" /\ "FALSE" \in {x, y} THEN "FALSE"
  ELSE IF op = "OR" /\ "TRUE" \in {x, y} THEN "TRUE"
  ELSE IF "ERROR" \in {x, y} THEN "ERROR"
  ELSE IF op = "XOR" THEN Truth(x # y)
  ELSE Truth(op = "AND")

\* Two operands: a dominant one decides, else ERROR outweighs STALE.
Apply(op, x, y) ==
  IF op = "AND" /\ "FALSE" \in {x, y} THEN "FALSE"
  ELSE IF op = "OR" /\ "TRUE" \in {x, y} THEN "TRUE"
  ELSE IF "ERROR" \in {x, y} THEN "ERROR"
  ELSE IF "STALE" \in {x, y} THEN "STALE"
  ELSE IF op = "XOR" THEN Truth(x # y)
  ELSE Truth(op = "AND")

Negate(x) == IF x \in {"TRUE", "FALSE"} THEN Truth(x = "FALSE") ELSE x

ActionOf(x) ==
  IF x = "TRUE" THEN "FAIL" ELSE IF x = "FALSE" THEN "PASS" ELSE x

\* A turn that pops k operands and pushes x.
Pushed(st, k, x) ==
  [stack |-> Append(SubSeq(st.stack, 1, Len(st.stack) - k), x), end |-> "NONE"]

\* One turn of the loop: stack is what has been pushed, end is the result
\* once there is one.  An empty stack or a stack left over is an ERROR.
EvaluateItem(st, item, w) ==
  LET n == Len(st.stack)
      Ended(x) == [stack |-> st.stack, end |-> x]
  IN  IF st.end # "NONE" THEN st
      ELSE IF item \in Watchpoints THEN Pushed(st, 0, w[item])
      ELSE IF item = "NOT" /\ n >= 1 THEN Pushed(st, 1, Negate(st.stack[n]))
      ELSE IF item \in BinaryOps /\ n >= 2
           THEN Pushed(st, 2, Apply(item, st.stack[n - 1], st.stack[n]))
      ELSE Ended(IF item = "=" /\ n = 1 THEN ActionOf(st.stack[1]) ELSE "ERROR")

Start == [stack |-> <<>>, end |-> "NONE"]

\* What the loop has come to after each number of items.
Evaluation(equation, w) ==
  LET st[n \in 0 .. Len(equation)] ==
        IF n = 0 THEN Start ELSE EvaluateItem(st[n - 1], equation[n], w)
  IN  st

\* What an equation makes of the results w.
EvaluateRPN(equation, w) ==
  LET last == Evaluation(equation, w)[Len(equation)]
  IN  IF last.end = "NONE" THEN "ERROR" ELSE last.end

\* The depth LC_ValidateRPN has counted after the first n items.
Depth(equation, n) ==
  Cardinality({k \in 1 .. n : equation[k] \in Watchpoints})
    - Cardinality({k \in 1 .. n : equation[k] \in BinaryOps})

\* Mutant: only the depth at the end is tested.
ValidRPNAtEnd(equation) ==
  \E n \in 1 .. Len(equation) :
    /\ equation[n] = "=" /\ Depth(equation, n - 1) = 1
    /\ \A k \in 1 .. n - 1 : equation[k] \in Watchpoints \cup BinaryOps \cup {"NOT"}

\* What follows the first "=" is not looked at.
ValidRPN(equation) ==
  \E n \in 1 .. Len(equation) :
    /\ equation[n] = "=" /\ Depth(equation, n - 1) = 1
    /\ \A k \in 1 .. n - 1 : /\ equation[k] \in Watchpoints \cup BinaryOps \cup {"NOT"}
                             /\ Depth(equation, k) > 0

ValidADT(table) ==
  \A ap \in Actionpoints :
    table[ap].default = "NOT_USED"
      \/ /\ table[ap].default \in {"ACTIVE", "PASSIVE", "DISABLED", "PERMOFF"}
         /\ table[ap].maxFails > 0
         /\ ValidRPN(table[ap].equation)

LoadableADT == {table \in ActionTables : ValidADT(table)}

\* The table loaded at startup is validated as any other.
ASSUME DefaultAssumption == ValidADT(DefaultADT)
-----------------------------------------------------------------------------
(* Startup, and the results of a new table.                                *)

FreshWRT == [wp \in Watchpoints |-> [result |-> "STALE", countdown |-> 0]]

FreshART(table) ==
  [ap \in Actionpoints |->
     [state |-> table[ap].default, result |-> "STALE", fails |-> 0]]

\* LC keeps nothing across a restart: its critical data store is not built.
LcInit ==
  /\ lcState = "ACTIVE"
  /\ wdt = DefaultWDT /\ wrt = FreshWRT
  /\ adt = DefaultADT /\ art = FreshART(DefaultADT)

LcRestart ==
  /\ lcState' = "ACTIVE"
  /\ wdt' = DefaultWDT /\ wrt' = FreshWRT
  /\ adt' = DefaultADT /\ art' = FreshART(DefaultADT)
-----------------------------------------------------------------------------
(* Sampling.                                                               *)

Results == [wp \in Watchpoints |-> wrt[wp].result]

\* Mutant: a stale result keeps the fails that were counted.
FailsAfterKeepsStale(e, result) ==
  IF result = "FAIL" /\ e.fails < MaxFailCount THEN e.fails + 1
  ELSE IF result = "PASS" THEN 0 ELSE e.fails

\* The consecutive fails of an actionpoint; an ERROR leaves them alone.
FailsAfter(e, result) ==
  IF result = "FAIL" /\ e.fails < MaxFailCount THEN e.fails + 1
  ELSE IF result \in {"PASS", "STALE"} THEN 0 ELSE e.fails

\* LC_SampleSingleAP.
SampledOnce(e, result) ==
  [state |-> e.state, result |-> result, fails |-> FailsAfter(e, result)]

\* LC_SampleAPs: the results a after a sample of some points.  An actionpoint
\* that has failed stays ACTIVE, and its state is not that of the application.
Sampled(points, a) ==
  [ap \in Actionpoints |->
     IF ap \in points /\ a[ap].state \in {"ACTIVE", "PASSIVE"}
     THEN SampledOnce(a[ap], EvaluateRPN(adt[ap].equation, Results))
     ELSE a[ap]]

\* Actionpoints in the order in which LC goes through its table.
InOrder(points) ==
  CHOOSE s \in [1 .. Cardinality(points) -> points] :
    \A i, j \in DOMAIN s : i < j => s[i] < s[j]

\* Mutant: one fail more than the table says is waited for.
RequestsLate(points, a) ==
  LET s == Sampled(points, a)
      asking == InOrder({ap \in points : /\ lcState = "ACTIVE" /\ a[ap].state = "ACTIVE"
                                         /\ s[ap].result = "FAIL"
                                         /\ s[ap].fails > adt[ap].maxFails})
  IN  [i \in DOMAIN asking |-> adt[asking[i]].rts]

\* The commands that sample requests, in the order of the actionpoints.
Requests(points, a) ==
  LET s == Sampled(points, a)
      asking == InOrder({ap \in points : /\ lcState = "ACTIVE" /\ a[ap].state = "ACTIVE"
                                         /\ s[ap].result = "FAIL"
                                         /\ s[ap].fails >= adt[ap].maxFails})
  IN  [i \in DOMAIN asking |-> adt[asking[i]].rts]
-----------------------------------------------------------------------------
(* The messages.  Every handler works on the results a that the sample     *)
(* before it has left.                                                     *)

\* Mutant: a countdown of zero is lowered too.
AgedUnguarded ==
  [wp \in Watchpoints |->
     [result |-> IF wrt[wp].countdown = 1 THEN "STALE" ELSE wrt[wp].result,
      countdown |-> wrt[wp].countdown - 1]]

\* A countdown that reaches zero makes its result stale.
Aged ==
  [wp \in Watchpoints |->
     IF wrt[wp].countdown = 0 THEN wrt[wp]
     ELSE [result |-> IF wrt[wp].countdown = 1 THEN "STALE" ELSE wrt[wp].result,
           countdown |-> wrt[wp].countdown - 1]]

\* Samples the asked points once more, unless LC is DISABLED.
SampleAPReq(m, a) ==
  /\ m.id = "SAMPLE_AP"
  /\ art' = IF lcState = "DISABLED" THEN a ELSE Sampled(m.points, a)
  /\ wrt' = IF lcState # "DISABLED" /\ m.age THEN Aged ELSE wrt
  /\ UNCHANGED <<lcState, wdt, adt>>

\* Mutant: the results of the old table are kept.
LoadWDTKeepsResults(table) == wdt' = table /\ wrt' = wrt

LoadWDT(table) == wdt' = table /\ wrt' = FreshWRT

LoadADT(table) == adt' = table /\ art' = FreshART(table)

\* The housekeeping request is when pending loads take effect.
HousekeepingReq(m, a) ==
  /\ m.id = "SEND_HK"
  /\ \/ UNCHANGED <<wdt, wrt>>
     \/ \E table \in WatchTables : LoadWDT(table)
  /\ \/ art' = a /\ UNCHANGED adt
     \/ \E table \in LoadableADT : LoadADT(table)
  /\ UNCHANGED lcState

SetLCState(m, a) ==
  /\ m.id = "LC_CMD" /\ m.cc = "SET_LC_STATE"
  /\ lcState' = m.state /\ art' = a
  /\ UNCHANGED <<wdt, wrt, adt>>

\* The commands for actionpoints.  The others (NOOP, the resets of counters
\* and of watchpoint statistics, commands that are refused) change nothing.
CommandAPs(m, a) ==
  /\ m.id = "LC_CMD" /\ m.cc \in {"SET_AP_STATE", "SET_AP_PERMOFF", "RESET_AP_STATS", "NOOP"}
  /\ art' = [ap \in Actionpoints |->
       IF ap \notin m.points THEN a[ap]
       ELSE IF m.cc = "SET_AP_STATE" /\ a[ap].state \notin {"NOT_USED", "PERMOFF"}
            THEN [a[ap] EXCEPT !.state = m.state]
       ELSE IF m.cc = "SET_AP_PERMOFF" /\ a[ap].state = "DISABLED"
            THEN [a[ap] EXCEPT !.state = "PERMOFF"]
       ELSE IF m.cc = "RESET_AP_STATS" THEN [a[ap] EXCEPT !.fails = 0]
       ELSE a[ap]]
  /\ UNCHANGED <<lcState, wdt, wrt, adt>>

Signed(v) == IF 2 * v >= ByteMod THEN v - ByteMod ELSE v

Compare(d, v) ==
  LET x == IF d.type = "BYTE" THEN Signed(v) ELSE v
      y == IF d.type = "BYTE" THEN Signed(d.value) ELSE d.value
  IN  CASE d.oper = "LE" -> x <= y [] d.oper = "LT" -> x < y
        [] d.oper = "EQ" -> x = y  [] d.oper = "NE" -> x # y
        [] d.oper = "GE" -> x >= y [] d.oper = "GT" -> x > y

\* Mutant: a result that is no longer TRUE is kept.
ProcessWPLatched(wp, v) ==
  IF v = TooShort THEN [result |-> "ERROR", countdown |-> 0]
  ELSE IF ~Compare(wdt[wp], v) /\ wrt[wp].result = "TRUE" THEN wrt[wp]
  ELSE [result |-> Truth(Compare(wdt[wp], v)), countdown |-> wdt[wp].age]

ProcessWP(wp, v) ==
  IF v = TooShort THEN [result |-> "ERROR", countdown |-> 0]
  ELSE [result |-> Truth(Compare(wdt[wp], v)), countdown |-> wdt[wp].age]

\* A monitored message; nothing is evaluated while LC is DISABLED.
CheckMsgForWPs(m, a) ==
  /\ m.id \notin {"SAMPLE_AP", "SEND_HK", "LC_CMD"}
  /\ art' = a
  /\ wrt' = [wp \in Watchpoints |->
       IF lcState # "DISABLED" /\ wdt[wp].type # "NOT_USED" /\ wdt[wp].mid = m.id
       THEN ProcessWP(wp, m.data) ELSE wrt[wp]]
  /\ UNCHANGED <<lcState, wdt, adt>>

\* LC_AppPipe: every actionpoint is sampled on every message, and before the
\* message is looked at.
AppPipe(m) ==
  LET a == Sampled(Actionpoints, art)
  IN  \/ SampleAPReq(m, a) \/ HousekeepingReq(m, a)
      \/ SetLCState(m, a) \/ CommandAPs(m, a)
      \/ CheckMsgForWPs(m, a)

\* The commands that message makes LC send.
Outgoing(m) ==
  Requests(Actionpoints, art)
    \o IF m.id = "SAMPLE_AP" /\ lcState # "DISABLED"
       THEN Requests(m.points, Sampled(Actionpoints, art)) ELSE <<>>

\* The messages of LC_CmdPipe; those with data are the monitored ones.
LcMessages(mids, data) ==
  LET aps == SUBSET Actionpoints \ {{}}
  IN  [id : {"SAMPLE_AP"}, points : aps, age : BOOLEAN]
        \cup [id : {"SEND_HK"}]
        \cup [id : {"LC_CMD"}, cc : {"SET_LC_STATE"}, state : {"ACTIVE", "PASSIVE", "DISABLED"}]
        \cup [id : {"LC_CMD"}, cc : {"SET_AP_STATE"}, points : aps,
              state : {"ACTIVE", "PASSIVE", "DISABLED"}]
        \cup [id : {"LC_CMD"}, cc : {"SET_AP_PERMOFF", "RESET_AP_STATS", "NOOP"}, points : aps]
        \cup [id : mids, data : data]

\* LC alone, monitoring messages mids with that data, and its restarts.
LcNext(mids, data) == (\E m \in LcMessages(mids, data) : AppPipe(m)) \/ LcRestart

LcSpec(mids, data) == LcInit /\ [][LcNext(mids, data)]_lcVars
-----------------------------------------------------------------------------
\* The tables of definitions and of results.
LcTypeOK ==
  /\ lcState \in {"ACTIVE", "PASSIVE", "DISABLED"}
  /\ wdt \in WatchTables \cup {DefaultWDT}
  /\ wrt \in [Watchpoints -> [result : WatchResults, countdown : Nat]]
  /\ adt \in LoadableADT \cup {DefaultADT}
  /\ art \in [Actionpoints -> [state : {"NOT_USED", "ACTIVE", "PASSIVE", "DISABLED", "PERMOFF"},
                               result : {"PASS", "FAIL", "STALE", "ERROR"},
                               fails : 0 .. MaxFailCount]]

UsedAPs == {ap \in Actionpoints : adt[ap].default # "NOT_USED"}

\* LC_EvaluateRPN answers with unmeasured watchpoints, by rules for STALE and
\* ERROR: whatever those turn out to be, a PASS or a FAIL is not taken back.
DefiniteIsRight ==
  \A ap \in UsedAPs :
    LET result == EvaluateRPN(adt[ap].equation, Results)
        measured == {wp \in Watchpoints : Results[wp] \in {"TRUE", "FALSE"}}
    IN  result \in {"PASS", "FAIL"} =>
          \A w \in [Watchpoints -> {"TRUE", "FALSE"}] :
            (\A wp \in measured : w[wp] = Results[wp])
              => EvaluateRPN(adt[ap].equation, w) = result

\* LC_ValidateRPN lets no equation through that LC_EvaluateRPN would call
\* illegal: an actionpoint is in ERROR for a watchpoint only.
ErrorComesFromWatch ==
  \A ap \in UsedAPs :
    EvaluateRPN(adt[ap].equation, Results) = "ERROR"
      => \E wp \in Watchpoints : Results[wp] = "ERROR"

\* Fails are counted as long as an actionpoint fails: not over a result that
\* has passed or gone stale, not into another table.
FailsAreCurrent ==
  \A ap \in Actionpoints :
    art[ap].fails > 0 => ap \in UsedAPs /\ art[ap].result \in {"FAIL", "ERROR"}

\* A result belongs to the watchpoint now defined: one that is not used has
\* none, and a result ages by the countdown of this table, if it has aged.
ResultsAreOfThisTable ==
  \A wp \in Watchpoints :
    /\ wdt[wp].type = "NOT_USED" => wrt[wp].result = "STALE"
    /\ wrt[wp].countdown > 0 => wrt[wp].result \in {"TRUE", "FALSE"}
    /\ wrt[wp].countdown <= wdt[wp].age

\* "When disabled, the LC task will perform no watchpoint or actionpoint
\* limit tests" (users guide): no fail is counted while LC is DISABLED.
DisabledTestsNothing ==
  [][lcState = "DISABLED" => \A ap \in Actionpoints : art'[ap].fails <= art[ap].fails]_lcVars
=============================================================================
