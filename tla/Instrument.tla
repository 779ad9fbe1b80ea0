----------------------------- MODULE Instrument -----------------------------
(***************************************************************************)
(* What WISE promises of its instrument, with no task, charge, temperature *)
(* or count in it: a life cycle, and the state chart every capacitor       *)
(* follows.  The chart is the one drawn above WISE_SetCapState in          *)
(* cfs/apps/wise/fsw/src/wise_app.c; the life cycle is that of             *)
(* gWiseSbcState.  Wise implements this specification.                     *)
(***************************************************************************)
CONSTANT Caps

VARIABLES life, cap

Chart ==
  {<<"CHARGING", "LEAKING">>, <<"CHARGING", "DISCHARGING">>, <<"CHARGING", "BROKEN">>,
   <<"LEAKING", "BROKEN">>,
   <<"DISCHARGING", "CHARGING">>, <<"DISCHARGING", "LEAKING">>,
   <<"DISCHARGING", "BROKEN">>}

\* An instrument is powered once, observes and stops observing, and may be
\* destroyed whenever it is powered.  Nothing leaves ERROR.
LifeCycle ==
  {<<"OFF", "POWERED">>, <<"POWERED", "OBSERVING">>, <<"OBSERVING", "POWERED">>,
   <<"POWERED", "ERROR">>, <<"OBSERVING", "ERROR">>}

Init ==
  /\ life = "OFF"
  /\ cap = [c \in Caps |-> "CHARGING"]

\* A change of the life cycle that leaves the capacitors alone, except that
\* the fault that destroys the instrument may be the breaking of one.
Live ==
  /\ <<life, life'>> \in LifeCycle
  /\ \/ cap' = cap
     \/ /\ life' = "ERROR"
        /\ \E c \in Caps : /\ <<cap[c], "BROKEN">> \in Chart
                           /\ cap' = [cap EXCEPT ![c] = "BROKEN"]

\* One capacitor moves along its chart.  It breaks, here, only in an
\* instrument that is already lost; it leaks in a living one or a lost one,
\* and the damage of a leak may be the end of it.
Move ==
  /\ life # "OFF"
  /\ \E c \in Caps, s \in {"CHARGING", "LEAKING", "DISCHARGING", "BROKEN"} :
        /\ <<cap[c], s>> \in Chart
        /\ cap' = [cap EXCEPT ![c] = s]
        /\ \/ life' = life /\ (s = "BROKEN" => life = "ERROR")
           \/ s \in {"LEAKING", "DISCHARGING"} /\ life' = "ERROR"

Next == Live \/ Move

Spec == Init /\ [][Next]_<<life, cap>>
=============================================================================
