-------------------------------- MODULE MCLc --------------------------------
(***************************************************************************)
(* LC alone, with every message it may be sent, and its instance for TLC:  *)
(* two watchpoints on different messages, one actionpoint, and every       *)
(* equation up to a length.                                                *)
(***************************************************************************)
EXTENDS Lc, TLC

\* Both watchpoints in use on bytes that are read differently, or one alone.
Watch(type, oper, mid, value, age) ==
  [type |-> type, oper |-> oper, mid |-> mid, value |-> value, age |-> age]
BothUsed == ("w0" :> Watch("BYTE", "GE", "hk0", 1, 0)) @@ ("w1" :> Watch("UBYTE", "LT", "hk1", 2, 1))
OneUsed == ("w0" :> Watch("UBYTE", "NE", "hk1", 1, 0))
             @@ ("w1" :> Watch("NOT_USED", "EQ", "hk1", 0, 0))
SomeWatchTables == {BothUsed, OneUsed}

Equations == UNION {[1 .. n -> RPNItems] : n \in 1 .. MaxEquation}

Point(default, equation) ==
  [default |-> default, maxFails |-> 1, rts |-> "DISCHARGE", equation |-> equation]
FirstADT == [ap \in Actionpoints |-> Point("ACTIVE", <<"w0", "=">>)]
AllEquations == {[ap \in Actionpoints |-> Point("ACTIVE", e)] : e \in Equations}
                  \cup {[ap \in Actionpoints |-> Point("NOT_USED", <<"=">>)]}
OnlyFirst == {FirstADT}

Bytes == {TooShort} \cup (0 .. ByteMod - 1)

Next == LcNext({"hk0", "hk1"}, Bytes)
Spec == LcInit /\ [][Next]_lcVars
=============================================================================
