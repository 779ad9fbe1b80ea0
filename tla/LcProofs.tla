------------------------------ MODULE LcProofs ------------------------------
(***************************************************************************)
(* Proofs about Lc, for any tables and messages: first what LC makes of an *)
(* equation, by induction on its items, then the tables of results.        *)
(***************************************************************************)
EXTENDS Lc, FiniteSetTheorems, TLAPS

(* Equations.                                                              *)

\* Induction over a set: the library states it for an operator, which no
\* backend here can instantiate.
LEMMA Induction ==
  ASSUME NEW S, 0 \in S, \A n \in Nat : n \in S => n + 1 \in S
  PROVE  Nat \subseteq S
<1> DEFINE T == Nat \ S
           R == {ss \in Nat \X Nat : ss[1] < ss[2]}
<1> SUFFICES ASSUME T # {} PROVE FALSE
  OBVIOUS
<1>1. IsWellFoundedOn(R, Nat)
  <2>1. R = OpToRel(<, Nat)
    BY DEF OpToRel
  <2> QED
    BY <2>1, NatLessThanWellFounded
<1>2. PICK x \in T : \A y \in T : <<y, x>> \notin R
  <2> HIDE DEF R
  <2> QED
    BY <1>1, WFMin
<1>3. <<x - 1, x>> \in R /\ x - 1 \in T
  <2>1. x # 0 /\ x - 1 \in Nat /\ x - 1 \notin S
    OBVIOUS
  <2> QED
    BY <2>1
<1> QED
  BY <1>2, <1>3

LEMMA EvaluationDef ==
  ASSUME NEW equation \in Seq(RPNItems), NEW w
  PROVE  LET e == Evaluation(equation, w)
         IN  e = [n \in 0 .. Len(equation) |->
                    IF n = 0 THEN Start ELSE EvaluateItem(e[n - 1], equation[n], w)]
<1> DEFINE Good(f, m) == f = [n \in 0 .. m |->
                    IF n = 0 THEN Start ELSE EvaluateItem(f[n - 1], equation[n], w)]
           S == {m \in Nat : \E f : Good(f, m)}
<1>1. 0 \in S
  <2>1. Good([n \in 0 .. 0 |-> Start], 0)
    OBVIOUS
  <2> HIDE DEF Good
  <2> QED
    BY <2>1
<1>2. ASSUME NEW m \in Nat, m \in S PROVE m + 1 \in S
  <2>1. PICK f : Good(f, m)
    BY <1>2
  <2> DEFINE g == [n \in 0 .. m + 1 |->
                     IF n = m + 1 THEN EvaluateItem(f[m], equation[m + 1], w) ELSE f[n]]
  <2>2. ASSUME NEW n \in 0 .. m + 1
        PROVE  g[n] = IF n = 0 THEN Start ELSE EvaluateItem(g[n - 1], equation[n], w)
    <3>1. CASE n = m + 1
      BY <3>1
    <3>2. CASE n # m + 1
      <4>1. n \in 0 .. m /\ g[n] = f[n] /\ (n # 0 => n - 1 \in 0 .. m /\ g[n - 1] = f[n - 1])
        BY <3>2
      <4> HIDE DEF g
      <4> QED
        BY <2>1, <4>1
    <3> QED
      BY <3>1, <3>2
  <2>3. g = [n \in 0 .. m + 1 |-> g[n]]
    OBVIOUS
  <2>4. Good(g, m + 1)
    <3> HIDE DEF g
    <3> QED
      BY <2>2, <2>3
  <2> HIDE DEF Good, g
  <2> QED
    BY <2>4
<1>3. Len(equation) \in S
  <2> HIDE DEF S
  <2> QED
    BY <1>1, <1>2, Induction
<1>4. \E f : Good(f, Len(equation))
  BY <1>3
<1> QED
  BY <1>4 DEF Evaluation, Start

EvalStates == [stack : Seq(WatchResults), end : {"NONE", "PASS", "FAIL", "STALE", "ERROR"}]

LEMMA PushedStack ==
  ASSUME NEW T, NEW s \in Seq(T), NEW k \in 0 .. Len(s), NEW x \in T
  PROVE  LET r == Append(SubSeq(s, 1, Len(s) - k), x)
         IN  /\ r \in Seq(T)
             /\ Len(r) = Len(s) - k + 1
             /\ r[Len(s) - k + 1] = x
             /\ \A i \in 1 .. Len(s) - k : r[i] = s[i]
OBVIOUS

LEMMA ItemType ==
  ASSUME NEW st \in EvalStates, NEW item \in RPNItems, NEW w \in [Watchpoints -> WatchResults]
  PROVE  EvaluateItem(st, item, w) \in EvalStates
<1> DEFINE n == Len(st.stack)
           Ended(x) == [stack |-> st.stack, end |-> x]
<1>1. n \in Nat /\ st.stack \in Seq(WatchResults)
  BY DEF EvalStates
<1>2. ASSUME NEW k \in 0 .. n, NEW x \in WatchResults PROVE Pushed(st, k, x) \in EvalStates
  BY <1>1, PushedStack DEF EvalStates, Pushed, n
<1>3. ASSUME NEW x \in {"PASS", "FAIL", "STALE", "ERROR"} PROVE Ended(x) \in EvalStates
  BY <1>1 DEF EvalStates
<1>4. \A x, y \in WatchResults : Apply(item, x, y) \in WatchResults /\ Negate(y) \in WatchResults
  BY DEF Apply, Negate, Truth, WatchResults
<1>5. \A x \in WatchResults : ActionOf(x) \in {"PASS", "FAIL", "STALE", "ERROR"}
  BY DEF ActionOf, WatchResults
<1> HIDE DEF Ended, n
<1>6. CASE st.end # "NONE"
  BY <1>6 DEF EvaluateItem
<1>7. CASE st.end = "NONE" /\ item \in Watchpoints
  <2>1. EvaluateItem(st, item, w) = Pushed(st, 0, w[item])
    BY <1>7 DEF EvaluateItem, n
  <2> QED
    BY <1>1, <1>2, <1>7, <2>1
<1>8. CASE st.end = "NONE" /\ item = "NOT" /\ item \notin Watchpoints /\ n >= 1
  <2>1. EvaluateItem(st, item, w) = Pushed(st, 1, Negate(st.stack[n]))
    BY <1>8 DEF EvaluateItem, n
  <2>2. st.stack[n] \in WatchResults
    BY <1>1, <1>8 DEF n
  <2> QED
    BY <1>1, <1>2, <1>4, <1>8, <2>1, <2>2
<1>9. CASE st.end = "NONE" /\ item \in BinaryOps /\ item \notin Watchpoints \cup {"NOT"} /\ n >= 2
  <2>1. EvaluateItem(st, item, w) = Pushed(st, 2, Apply(item, st.stack[n - 1], st.stack[n]))
    BY <1>9 DEF EvaluateItem, n
  <2>2. st.stack[n - 1] \in WatchResults /\ st.stack[n] \in WatchResults
    BY <1>1, <1>9 DEF n
  <2> QED
    BY <1>1, <1>2, <1>4, <1>9, <2>1, <2>2
<1>10. CASE st.end = "NONE" /\ item = "=" /\ item \notin Watchpoints /\ n = 1
  <2>1. EvaluateItem(st, item, w) = Ended(ActionOf(st.stack[1]))
    BY <1>10 DEF EvaluateItem, Ended, n, BinaryOps
  <2> QED
    BY <1>1, <1>3, <1>5, <1>10, <2>1 DEF n
<1> QED
  <2> SUFFICES ASSUME EvaluateItem(st, item, w) = Ended("ERROR") PROVE EvaluateItem(st, item, w) \in EvalStates
    BY <1>6, <1>7, <1>8, <1>9, <1>10 DEF EvaluateItem, Ended, n, BinaryOps
  <2> QED
    BY <1>3

LEMMA RunType ==
  ASSUME NEW equation \in Seq(RPNItems), NEW w \in [Watchpoints -> WatchResults]
  PROVE  \A n \in 0 .. Len(equation) : Evaluation(equation, w)[n] \in EvalStates
<1> DEFINE e == Evaluation(equation, w)
           S == {n \in Nat : n <= Len(equation) => e[n] \in EvalStates}
<1>1. 0 \in S
  <2>1. e[0] = Start
    BY EvaluationDef
  <2>2. Start \in EvalStates
    BY DEF Start, EvalStates
  <2> HIDE DEF e
  <2> QED
    BY <2>1, <2>2
<1>2. ASSUME NEW n \in Nat, n \in S PROVE n + 1 \in S
  <2> SUFFICES ASSUME n + 1 <= Len(equation) PROVE e[n + 1] \in EvalStates
    OBVIOUS
  <2>1. e[n] \in EvalStates /\ equation[n + 1] \in RPNItems
    BY <1>2
  <2>2. e[n + 1] = EvaluateItem(e[n], equation[n + 1], w)
    BY EvaluationDef
  <2> HIDE DEF e
  <2> QED
    BY <2>1, <2>2, ItemType
<1>3. Nat \subseteq S
  <2> HIDE DEF S
  <2> QED
    BY <1>1, <1>2, Induction
<1> QED
  BY <1>3

LEMMA ResultType ==
  ASSUME NEW equation \in Seq(RPNItems), NEW w \in [Watchpoints -> WatchResults]
  PROVE  EvaluateRPN(equation, w) \in {"PASS", "FAIL", "STALE", "ERROR"}
<1>1. Evaluation(equation, w)[Len(equation)] \in EvalStates
  BY RunType
<1> QED
  BY <1>1 DEF EvaluateRPN, EvalStates
-----------------------------------------------------------------------------
Definite == {"TRUE", "FALSE"}

\* What is settled in s stands in t.
Settles(s, t) ==
  /\ Len(t.stack) = Len(s.stack)
  /\ t.end = "NONE" <=> s.end = "NONE"
  /\ \A i \in 1 .. Len(s.stack) : s.stack[i] \in Definite => t.stack[i] = s.stack[i]
  /\ s.end \in {"PASS", "FAIL"} => t.end = s.end

LEMMA PushSettles ==
  ASSUME NEW s \in EvalStates, NEW t \in EvalStates, Settles(s, t),
         NEW k \in 0 .. Len(s.stack),
         NEW x \in WatchResults, NEW y \in WatchResults, x \in Definite => y = x
  PROVE  Settles(Pushed(s, k, x), Pushed(t, k, y))
<1> DEFINE u == Append(SubSeq(s.stack, 1, Len(s.stack) - k), x)
           v == Append(SubSeq(t.stack, 1, Len(t.stack) - k), y)
           n == Len(s.stack) - k
<1>1. /\ s.stack \in Seq(WatchResults) /\ t.stack \in Seq(WatchResults) /\ n \in Nat
      /\ k \in 0 .. Len(t.stack) /\ Len(t.stack) - k = n
  BY DEF EvalStates, Settles
<1>2. Len(u) = n + 1 /\ u[n + 1] = x /\ \A i \in 1 .. n : u[i] = s.stack[i]
  BY <1>1, PushedStack
<1>3. Len(v) = n + 1 /\ v[n + 1] = y /\ \A i \in 1 .. n : v[i] = t.stack[i]
  <2> HIDE DEF n
  <2> QED
    BY <1>1, PushedStack
<1>4. ASSUME NEW i \in 1 .. n + 1, u[i] \in Definite PROVE v[i] = u[i]
  <2>1. CASE i = n + 1
    BY <1>2, <1>3, <1>4, <2>1
  <2>2. CASE i # n + 1
    <3>1. i \in 1 .. n /\ i \in 1 .. Len(s.stack)
      BY <1>1, <2>2
    <3>2. s.stack[i] \in Definite => t.stack[i] = s.stack[i]
      BY <3>1 DEF Settles
    <3> HIDE DEF u, v, n
    <3> QED
      BY <1>2, <1>3, <1>4, <3>1, <3>2
  <2> QED
    BY <2>1, <2>2
<1> HIDE DEF u, v, n
<1> QED
  BY <1>2, <1>3, <1>4 DEF Settles, Pushed, u, v

\* The operators do not take back what they said of operands not yet measured.
LEMMA OperatorsSettle ==
  ASSUME NEW op \in BinaryOps, NEW x \in WatchResults, NEW y \in WatchResults,
         NEW a \in WatchResults, NEW b \in WatchResults,
         x \in Definite => a = x, y \in Definite => b = y
  PROVE  /\ Apply(op, x, y) \in Definite => Apply(op, a, b) = Apply(op, x, y)
         /\ Negate(x) \in Definite => Negate(a) = Negate(x)
         /\ ActionOf(x) \in {"PASS", "FAIL"} => ActionOf(a) = ActionOf(x)
  BY DEF Apply, Negate, ActionOf, Truth, BinaryOps, WatchResults, Definite

LEMMA OperatorTypes ==
  ASSUME NEW op, NEW x \in WatchResults, NEW y \in WatchResults
  PROVE  Apply(op, x, y) \in WatchResults /\ Negate(x) \in WatchResults
  BY DEF Apply, Negate, Truth, WatchResults

LEMMA ItemSettles ==
  ASSUME NEW s \in EvalStates, NEW t \in EvalStates, Settles(s, t), NEW item \in RPNItems,
         NEW w \in [Watchpoints -> WatchResults], NEW v \in [Watchpoints -> WatchResults],
         \A wp \in Watchpoints : w[wp] \in Definite => v[wp] = w[wp]
  PROVE  Settles(EvaluateItem(s, item, w), EvaluateItem(t, item, v))
<1> DEFINE n == Len(s.stack)
<1>0. /\ n \in Nat /\ n = Len(t.stack)
      /\ s.stack \in Seq(WatchResults) /\ t.stack \in Seq(WatchResults)
      /\ \A i \in 1 .. n : s.stack[i] \in WatchResults /\ t.stack[i] \in WatchResults
  BY DEF EvalStates, Settles
<1>1. CASE s.end # "NONE"
  BY <1>1 DEF EvaluateItem, Settles
<1>2. CASE s.end = "NONE" /\ item \in Watchpoints
  <2>1. EvaluateItem(s, item, w) = Pushed(s, 0, w[item]) /\ EvaluateItem(t, item, v) = Pushed(t, 0, v[item])
    BY <1>2 DEF EvaluateItem, Settles
  <2>2. Settles(Pushed(s, 0, w[item]), Pushed(t, 0, v[item]))
    BY <1>0, <1>2, PushSettles
  <2> QED
    BY <2>1, <2>2
<1>3. CASE s.end = "NONE" /\ item = "NOT" /\ item \notin Watchpoints /\ n >= 1
  <2>1. /\ EvaluateItem(s, item, w) = Pushed(s, 1, Negate(s.stack[n]))
        /\ EvaluateItem(t, item, v) = Pushed(t, 1, Negate(t.stack[n]))
    BY <1>0, <1>3 DEF EvaluateItem, Settles
  <2>2. /\ s.stack[n] \in WatchResults /\ t.stack[n] \in WatchResults
        /\ s.stack[n] \in Definite => t.stack[n] = s.stack[n]
    BY <1>0, <1>3 DEF Settles
  <2>3. /\ Negate(s.stack[n]) \in WatchResults /\ Negate(t.stack[n]) \in WatchResults
        /\ Negate(s.stack[n]) \in Definite => Negate(t.stack[n]) = Negate(s.stack[n])
    <3>1. "AND" \in BinaryOps
      BY DEF BinaryOps
    <3> QED
      BY <2>2, <3>1, OperatorsSettle, OperatorTypes
  <2>4. Settles(Pushed(s, 1, Negate(s.stack[n])), Pushed(t, 1, Negate(t.stack[n])))
    BY <1>0, <1>3, <2>3, PushSettles
  <2> QED
    BY <2>1, <2>4
<1>4. CASE s.end = "NONE" /\ item \in BinaryOps /\ item \notin Watchpoints \cup {"NOT"} /\ n >= 2
  <2> DEFINE x == Apply(item, s.stack[n - 1], s.stack[n])
             y == Apply(item, t.stack[n - 1], t.stack[n])
  <2>1. EvaluateItem(s, item, w) = Pushed(s, 2, x) /\ EvaluateItem(t, item, v) = Pushed(t, 2, y)
    BY <1>0, <1>4 DEF EvaluateItem, Settles
  <2>2. \A i \in {n - 1, n} :
          /\ s.stack[i] \in WatchResults /\ t.stack[i] \in WatchResults
          /\ s.stack[i] \in Definite => t.stack[i] = s.stack[i]
    BY <1>0, <1>4 DEF Settles
  <2>3. x \in WatchResults /\ y \in WatchResults /\ (x \in Definite => y = x)
    <3>1. x \in WatchResults /\ y \in WatchResults
      BY <2>2, OperatorTypes
    <3>2. x \in Definite => y = x
      BY <1>4, <2>2, OperatorsSettle
    <3> QED
      BY <3>1, <3>2
  <2> HIDE DEF x, y
  <2>4. Settles(Pushed(s, 2, x), Pushed(t, 2, y))
    BY <1>0, <1>4, <2>3, PushSettles
  <2> QED
    BY <2>1, <2>4
<1>5. CASE s.end = "NONE" /\ item = "=" /\ item \notin Watchpoints /\ n = 1
  <2>1. /\ EvaluateItem(s, item, w) = [stack |-> s.stack, end |-> ActionOf(s.stack[1])]
        /\ EvaluateItem(t, item, v) = [stack |-> t.stack, end |-> ActionOf(t.stack[1])]
    BY <1>0, <1>5 DEF EvaluateItem, Settles, BinaryOps
  <2>2. /\ s.stack[1] \in WatchResults /\ t.stack[1] \in WatchResults
        /\ s.stack[1] \in Definite => t.stack[1] = s.stack[1]
    BY <1>0, <1>5 DEF Settles
  <2>3. ActionOf(s.stack[1]) \in {"PASS", "FAIL"} => ActionOf(t.stack[1]) = ActionOf(s.stack[1])
    <3>1. "AND" \in BinaryOps
      BY DEF BinaryOps
    <3> QED
      BY <2>2, <3>1, OperatorsSettle
  <2>4. ActionOf(s.stack[1]) # "NONE" /\ ActionOf(t.stack[1]) # "NONE"
    BY <2>2 DEF ActionOf, WatchResults
  <2> QED
    BY <2>1, <2>3, <2>4 DEF Settles
<1>6. CASE /\ EvaluateItem(s, item, w) = [stack |-> s.stack, end |-> "ERROR"]
           /\ EvaluateItem(t, item, v) = [stack |-> t.stack, end |-> "ERROR"]
  BY <1>6 DEF Settles
<1>7. CASE /\ s.end = "NONE" /\ item \notin Watchpoints
           /\ ~(item = "NOT" /\ n >= 1) /\ ~(item \in BinaryOps /\ n >= 2) /\ ~(item = "=" /\ n = 1)
  <2>1. /\ EvaluateItem(s, item, w) = [stack |-> s.stack, end |-> "ERROR"]
        /\ EvaluateItem(t, item, v) = [stack |-> t.stack, end |-> "ERROR"]
    BY <1>0, <1>7 DEF EvaluateItem, Settles
  <2> QED
    BY <1>6, <2>1
<1> QED
  <2>1. "NOT" \notin BinaryOps
    BY DEF BinaryOps
  <2> QED
    BY <1>1, <1>2, <1>3, <1>4, <1>5, <1>7, <2>1

LEMMA RunSettles ==
  ASSUME NEW equation \in Seq(RPNItems),
         NEW w \in [Watchpoints -> WatchResults], NEW v \in [Watchpoints -> WatchResults],
         \A wp \in Watchpoints : w[wp] \in Definite => v[wp] = w[wp]
  PROVE  \A n \in 0 .. Len(equation) :
           Settles(Evaluation(equation, w)[n], Evaluation(equation, v)[n])
<1> DEFINE e == Evaluation(equation, w)
           f == Evaluation(equation, v)
           S == {n \in Nat : n <= Len(equation) => Settles(e[n], f[n])}
<1>1. 0 \in S
  <2>1. e[0] = Start /\ f[0] = Start
    BY EvaluationDef
  <2>2. Settles(Start, Start)
    BY DEF Settles, Start
  <2> HIDE DEF e, f
  <2> QED
    BY <2>1, <2>2
<1>2. ASSUME NEW n \in Nat, n \in S PROVE n + 1 \in S
  <2> SUFFICES ASSUME n + 1 <= Len(equation) PROVE Settles(e[n + 1], f[n + 1])
    OBVIOUS
  <2>1. e[n] \in EvalStates /\ f[n] \in EvalStates /\ equation[n + 1] \in RPNItems
    BY RunType
  <2>2. /\ e[n + 1] = EvaluateItem(e[n], equation[n + 1], w)
        /\ f[n + 1] = EvaluateItem(f[n], equation[n + 1], v)
    BY EvaluationDef
  <2>3. Settles(e[n], f[n])
    BY <1>2
  <2> HIDE DEF e, f
  <2> QED
    BY <2>1, <2>2, <2>3, ItemSettles
<1>3. Nat \subseteq S
  <2> HIDE DEF S
  <2> QED
    BY <1>1, <1>2, Induction
<1> QED
  BY <1>3

\* An answer given with unmeasured watchpoints is the answer with those measured.
LEMMA ResultSettles ==
  ASSUME NEW equation \in Seq(RPNItems),
         NEW w \in [Watchpoints -> WatchResults], NEW v \in [Watchpoints -> WatchResults],
         \A wp \in Watchpoints : w[wp] \in Definite => v[wp] = w[wp],
         EvaluateRPN(equation, w) \in {"PASS", "FAIL"}
  PROVE  EvaluateRPN(equation, v) = EvaluateRPN(equation, w)
<1> DEFINE e == Evaluation(equation, w)[Len(equation)]
           f == Evaluation(equation, v)[Len(equation)]
<1>1. Settles(e, f)
  BY RunSettles
<1>2. e.end \in {"PASS", "FAIL"}
  BY DEF EvaluateRPN
<1>3. f.end = e.end
  BY <1>1, <1>2 DEF Settles
<1> QED
  BY <1>2, <1>3 DEF EvaluateRPN
-----------------------------------------------------------------------------
WatchedBy(equation, n) == {k \in 1 .. n : equation[k] \in Watchpoints}
JoinedBy(equation, n) == {k \in 1 .. n : equation[k] \in BinaryOps}

\* The depth goes up with a watchpoint and down with a binary operator.
LEMMA DepthStep ==
  ASSUME NEW equation, NEW n \in Nat
  PROVE  /\ Depth(equation, 0) = 0
         /\ Depth(equation, n) \in Int
         /\ Depth(equation, n + 1) = Depth(equation, n)
              + (IF equation[n + 1] \in Watchpoints THEN 1 ELSE 0)
              - (IF equation[n + 1] \in BinaryOps THEN 1 ELSE 0)
<1>1. Depth(equation, 0) = 0
  <2>1. WatchedBy(equation, 0) = {} /\ JoinedBy(equation, 0) = {}
    BY DEF WatchedBy, JoinedBy
  <2>2. Cardinality({}) = 0
    BY FS_EmptySet
  <2> QED
    BY <2>1, <2>2 DEF Depth, WatchedBy, JoinedBy
<1>2. IsFiniteSet(1 .. n)
  BY FS_Interval
<1>3. /\ IsFiniteSet(WatchedBy(equation, n)) /\ Cardinality(WatchedBy(equation, n)) \in Nat
      /\ IsFiniteSet(JoinedBy(equation, n)) /\ Cardinality(JoinedBy(equation, n)) \in Nat
  <2>1. WatchedBy(equation, n) \in SUBSET (1 .. n) /\ JoinedBy(equation, n) \in SUBSET (1 .. n)
    BY DEF WatchedBy, JoinedBy
  <2> QED
    BY <1>2, <2>1, FS_Subset, FS_CardinalityType
<1>4. Cardinality(WatchedBy(equation, n + 1))
        = Cardinality(WatchedBy(equation, n)) + (IF equation[n + 1] \in Watchpoints THEN 1 ELSE 0)
  <2>1. n + 1 \notin WatchedBy(equation, n)
    BY DEF WatchedBy
  <2>2. CASE equation[n + 1] \in Watchpoints
    <3>1. WatchedBy(equation, n + 1) = WatchedBy(equation, n) \cup {n + 1}
      BY <2>2 DEF WatchedBy
    <3> QED
      BY <1>3, <2>1, <2>2, <3>1, FS_AddElement
  <2>3. CASE equation[n + 1] \notin Watchpoints
    <3>1. WatchedBy(equation, n + 1) = WatchedBy(equation, n)
      BY <2>3 DEF WatchedBy
    <3> QED
      BY <1>3, <2>3, <3>1
  <2> QED
    BY <2>2, <2>3
<1>5. Cardinality(JoinedBy(equation, n + 1))
        = Cardinality(JoinedBy(equation, n)) + (IF equation[n + 1] \in BinaryOps THEN 1 ELSE 0)
  <2>1. n + 1 \notin JoinedBy(equation, n)
    BY DEF JoinedBy
  <2>2. CASE equation[n + 1] \in BinaryOps
    <3>1. JoinedBy(equation, n + 1) = JoinedBy(equation, n) \cup {n + 1}
      BY <2>2 DEF JoinedBy
    <3> QED
      BY <1>3, <2>1, <2>2, <3>1, FS_AddElement
  <2>3. CASE equation[n + 1] \notin BinaryOps
    <3>1. JoinedBy(equation, n + 1) = JoinedBy(equation, n)
      BY <2>3 DEF JoinedBy
    <3> QED
      BY <1>3, <2>3, <3>1
  <2> QED
    BY <2>2, <2>3
<1>6. \A i \in {n, n + 1} :
        Depth(equation, i) = Cardinality(WatchedBy(equation, i)) - Cardinality(JoinedBy(equation, i))
  BY DEF Depth, WatchedBy, JoinedBy
<1> QED
  BY <1>1, <1>3, <1>4, <1>5, <1>6

NoErrors(st) == \A i \in 1 .. Len(st.stack) : st.stack[i] # "ERROR"

\* The operators make no ERROR of operands that are none.
LEMMA OperatorsKeepFree ==
  ASSUME NEW op, NEW x \in WatchResults, NEW y \in WatchResults, x # "ERROR", y # "ERROR"
  PROVE  Apply(op, x, y) # "ERROR" /\ Negate(x) # "ERROR" /\ ActionOf(x) # "ERROR"
  BY DEF Apply, Negate, ActionOf, Truth, WatchResults

LEMMA PushKeepsFree ==
  ASSUME NEW s \in EvalStates, NoErrors(s), NEW k \in 0 .. Len(s.stack),
         NEW x \in WatchResults, x # "ERROR"
  PROVE  /\ NoErrors(Pushed(s, k, x)) /\ Pushed(s, k, x).end = "NONE"
         /\ Len(Pushed(s, k, x).stack) = Len(s.stack) - k + 1
<1> DEFINE n == Len(s.stack) - k
<1>1. s.stack \in Seq(WatchResults) /\ n \in Nat
  BY DEF EvalStates
<1> DEFINE u == Pushed(s, k, x).stack
<1>2. Len(u) = n + 1 /\ u[n + 1] = x /\ \A i \in 1 .. n : u[i] = s.stack[i]
  BY <1>1, PushedStack DEF Pushed
<1> HIDE DEF u
<1>3. ASSUME NEW i \in 1 .. n + 1 PROVE u[i] # "ERROR"
  <2>1. CASE i = n + 1
    BY <1>2, <2>1
  <2>2. CASE i # n + 1
    <3>1. i \in 1 .. n /\ i \in 1 .. Len(s.stack)
      BY <1>1, <2>2
    <3> QED
      BY <1>2, <3>1 DEF NoErrors
  <2> QED
    BY <2>1, <2>2
<1>4. Pushed(s, k, x).end = "NONE"
  BY DEF Pushed
<1> HIDE DEF n
<1> QED
  BY <1>2, <1>3, <1>4 DEF NoErrors, u, n

Operands == Watchpoints \cup BinaryOps \cup {"NOT"}

LEMMA FreeItem ==
  ASSUME NEW s \in EvalStates, s.end = "NONE", NoErrors(s), NEW item \in Operands,
         NEW w \in [Watchpoints -> WatchResults], \A wp \in Watchpoints : w[wp] # "ERROR",
         item \in BinaryOps => Len(s.stack) >= 2, item = "NOT" => Len(s.stack) >= 1
  PROVE  LET r == EvaluateItem(s, item, w)
         IN  /\ r.end = "NONE" /\ NoErrors(r)
             /\ Len(r.stack) = Len(s.stack) + (IF item \in Watchpoints THEN 1 ELSE 0)
                                  - (IF item \in BinaryOps THEN 1 ELSE 0)
<1> DEFINE n == Len(s.stack)
<1>0. /\ n \in Nat /\ "NOT" \notin BinaryOps /\ Watchpoints \cap (BinaryOps \cup {"NOT"}) = {}
      /\ \A i \in 1 .. n : s.stack[i] \in WatchResults /\ s.stack[i] # "ERROR"
  BY LcAssumption DEF EvalStates, NoErrors, BinaryOps, Operators
<1>1. CASE item \in Watchpoints
  <2>1. EvaluateItem(s, item, w) = Pushed(s, 0, w[item])
    BY <1>1 DEF EvaluateItem
  <2>2. w[item] \in WatchResults /\ w[item] # "ERROR" /\ item \notin BinaryOps
    BY <1>0, <1>1
  <2> QED
    BY <1>0, <1>1, <2>1, <2>2, PushKeepsFree
<1>2. CASE item = "NOT"
  <2>1. EvaluateItem(s, item, w) = Pushed(s, 1, Negate(s.stack[n]))
    BY <1>0, <1>2 DEF EvaluateItem
  <2>2. Negate(s.stack[n]) \in WatchResults /\ Negate(s.stack[n]) # "ERROR"
    <3>1. n \in 1 .. n
      BY <1>0, <1>2
    <3> QED
      BY <1>0, <3>1, OperatorTypes, OperatorsKeepFree
  <2>3. 1 \in 0 .. Len(s.stack) /\ item \notin Watchpoints /\ item \notin BinaryOps
    BY <1>0, <1>2
  <2>4. /\ NoErrors(Pushed(s, 1, Negate(s.stack[n]))) /\ Pushed(s, 1, Negate(s.stack[n])).end = "NONE"
        /\ Len(Pushed(s, 1, Negate(s.stack[n])).stack) = Len(s.stack) - 1 + 1
    BY <2>2, <2>3, PushKeepsFree
  <2> QED
    BY <1>0, <2>1, <2>3, <2>4
<1>3. CASE item \in BinaryOps
  <2> DEFINE x == Apply(item, s.stack[n - 1], s.stack[n])
  <2>1. EvaluateItem(s, item, w) = Pushed(s, 2, x)
    BY <1>0, <1>3 DEF EvaluateItem
  <2>2. x \in WatchResults /\ x # "ERROR"
    <3>1. n - 1 \in 1 .. n /\ n \in 1 .. n
      BY <1>0, <1>3
    <3> QED
      BY <1>0, <3>1, OperatorTypes, OperatorsKeepFree
  <2> HIDE DEF x
  <2>3. 2 \in 0 .. Len(s.stack) /\ item \notin Watchpoints
    BY <1>0, <1>3
  <2>4. /\ NoErrors(Pushed(s, 2, x)) /\ Pushed(s, 2, x).end = "NONE"
        /\ Len(Pushed(s, 2, x).stack) = Len(s.stack) - 2 + 1
    BY <2>2, <2>3, PushKeepsFree
  <2> QED
    BY <1>0, <1>3, <2>1, <2>3, <2>4
<1> QED
  BY <1>1, <1>2, <1>3 DEF Operands

LEMMA FreeRun ==
  ASSUME NEW equation \in Seq(RPNItems), NEW m \in 1 .. Len(equation),
         \A k \in 1 .. m - 1 : equation[k] \in Operands /\ Depth(equation, k) > 0,
         NEW w \in [Watchpoints -> WatchResults], \A wp \in Watchpoints : w[wp] # "ERROR"
  PROVE  LET e == Evaluation(equation, w)[m - 1]
         IN  e.end = "NONE" /\ NoErrors(e) /\ Len(e.stack) = Depth(equation, m - 1)
<1> DEFINE e == Evaluation(equation, w)
           Free(n) == /\ e[n].end = "NONE" /\ NoErrors(e[n])
                      /\ Len(e[n].stack) = Depth(equation, n)
           S == {n \in Nat : n <= m - 1 => Free(n)}
<1>1. 0 \in S
  <2>1. e[0] = Start
    BY EvaluationDef
  <2>2. Start.end = "NONE" /\ NoErrors(Start) /\ Len(Start.stack) = 0
    BY DEF Start, NoErrors
  <2> HIDE DEF e
  <2> QED
    BY <2>1, <2>2, DepthStep
<1>2. ASSUME NEW n \in Nat, n \in S PROVE n + 1 \in S
  <2> SUFFICES ASSUME n + 1 <= m - 1 PROVE Free(n + 1)
    OBVIOUS
  <2>1. e[n] \in EvalStates
    BY RunType
  <2>2. e[n + 1] = EvaluateItem(e[n], equation[n + 1], w)
    BY EvaluationDef
  <2>3. Free(n)
    BY <1>2
  <2>4. equation[n + 1] \in Operands /\ Depth(equation, n + 1) > 0
    OBVIOUS
  <2>5. /\ Depth(equation, n) \in Int
        /\ Depth(equation, n + 1) = Depth(equation, n)
              + (IF equation[n + 1] \in Watchpoints THEN 1 ELSE 0)
              - (IF equation[n + 1] \in BinaryOps THEN 1 ELSE 0)
    BY DepthStep
  <2>6. /\ equation[n + 1] \in BinaryOps => Len(e[n].stack) >= 2
        /\ equation[n + 1] = "NOT" => Len(e[n].stack) >= 1
    <3>1. Watchpoints \cap (BinaryOps \cup {"NOT"}) = {} /\ "NOT" \notin BinaryOps
      BY LcAssumption DEF Operators, BinaryOps
    <3> HIDE DEF e
    <3> QED
      BY <2>3, <2>4, <2>5, <3>1
  <2> HIDE DEF e
  <2>7. /\ e[n + 1].end = "NONE" /\ NoErrors(e[n + 1])
        /\ Len(e[n + 1].stack) = Len(e[n].stack)
              + (IF equation[n + 1] \in Watchpoints THEN 1 ELSE 0)
              - (IF equation[n + 1] \in BinaryOps THEN 1 ELSE 0)
    <3> DEFINE item == equation[n + 1]
    <3>1. item \in Operands
      BY <2>4
    <3> HIDE DEF item
    <3>2. LET r == EvaluateItem(e[n], item, w)
          IN  /\ r.end = "NONE" /\ NoErrors(r)
              /\ Len(r.stack) = Len(e[n].stack) + (IF item \in Watchpoints THEN 1 ELSE 0)
                                   - (IF item \in BinaryOps THEN 1 ELSE 0)
      BY <2>1, <2>3, <2>6, <3>1, FreeItem DEF item
    <3> QED
      BY <2>2, <3>2 DEF item
  <2> QED
    BY <2>3, <2>5, <2>7
<1>3. Nat \subseteq S
  <2> HIDE DEF S
  <2> QED
    BY <1>1, <1>2, Induction
<1>4. m - 1 \in S
  BY <1>3
<1> QED
  BY <1>4

LEMMA EndStays ==
  ASSUME NEW equation \in Seq(RPNItems), NEW w, NEW m \in 0 .. Len(equation),
         Evaluation(equation, w)[m].end # "NONE"
  PROVE  Evaluation(equation, w)[Len(equation)] = Evaluation(equation, w)[m]
<1> DEFINE e == Evaluation(equation, w)
           S == {n \in Nat : m + n <= Len(equation) => e[m + n] = e[m]}
<1>1. 0 \in S
  OBVIOUS
<1>2. ASSUME NEW n \in Nat, n \in S PROVE n + 1 \in S
  <2> SUFFICES ASSUME m + n + 1 <= Len(equation) PROVE e[m + n + 1] = e[m]
    OBVIOUS
  <2>1. e[m + n + 1] = EvaluateItem(e[m + n], equation[m + n + 1], w)
    BY EvaluationDef
  <2>2. e[m + n] = e[m]
    BY <1>2
  <2> HIDE DEF e
  <2> QED
    BY <2>1, <2>2 DEF EvaluateItem, e
<1>3. Nat \subseteq S
  <2> HIDE DEF S
  <2> QED
    BY <1>1, <1>2, Induction
<1>4. \A n \in Nat : m + n <= Len(equation) => e[m + n] = e[m]
  BY <1>3
<1>5. PICK n \in Nat : m + n = Len(equation)
  <2> DEFINE d == Len(equation) - m
  <2>1. d \in Nat /\ m + d = Len(equation)
    OBVIOUS
  <2> HIDE DEF d
  <2> QED
    BY <2>1
<1> HIDE DEF e
<1>6. e[Len(equation)] = e[m]
  BY <1>4, <1>5
<1> QED
  BY <1>6 DEF e

\* An equation that is valid is never illegal.
LEMMA ValidIsLegal ==
  ASSUME NEW equation \in Seq(RPNItems), ValidRPN(equation),
         NEW w \in [Watchpoints -> WatchResults], \A wp \in Watchpoints : w[wp] # "ERROR"
  PROVE  EvaluateRPN(equation, w) # "ERROR"
<1> DEFINE e == Evaluation(equation, w)
<1>1. PICK m \in 1 .. Len(equation) :
        /\ equation[m] = "=" /\ Depth(equation, m - 1) = 1
        /\ \A k \in 1 .. m - 1 : equation[k] \in Operands /\ Depth(equation, k) > 0
  BY DEF ValidRPN, Operands
<1>2. e[m - 1].end = "NONE" /\ NoErrors(e[m - 1]) /\ Len(e[m - 1].stack) = 1
  BY <1>1, FreeRun
<1>3. e[m - 1] \in EvalStates
  BY RunType
<1>4. e[m] = EvaluateItem(e[m - 1], "=", w)
  BY <1>1, EvaluationDef
<1>5. "=" \notin Watchpoints /\ "=" \notin BinaryOps
  BY LcAssumption DEF Operators, BinaryOps
<1> HIDE DEF e
<1>6. e[m].end = ActionOf(e[m - 1].stack[1])
  BY <1>2, <1>4, <1>5 DEF EvaluateItem
<1>7. e[m - 1].stack[1] \in WatchResults /\ e[m - 1].stack[1] # "ERROR"
  BY <1>2, <1>3 DEF EvalStates, NoErrors
<1>8. e[m].end # "ERROR" /\ e[m].end # "NONE"
  BY <1>6, <1>7 DEF ActionOf, WatchResults
<1>9. e[Len(equation)] = e[m]
  BY <1>8, EndStays DEF e
<1> QED
  BY <1>8, <1>9 DEF EvaluateRPN, e
-----------------------------------------------------------------------------
(* Watchpoints.                                                            *)

\* The half of LcTypeOK the watchpoints need, and their results.
WatchType ==
  /\ wdt \in WatchTables \cup {DefaultWDT}
  /\ wrt \in [Watchpoints -> [result : WatchResults, countdown : Nat]]

WatchInv == WatchType /\ ResultsAreOfThisTable

\* A table that has just been loaded has no results yet.
LEMMA FreshResults ==
  ASSUME wdt' \in WatchTables \cup {DefaultWDT}, wrt' = FreshWRT
  PROVE  WatchInv'
<1>1. \A wp \in Watchpoints : wdt'[wp].age \in Nat
  BY LcAssumption
<1>2. wrt' \in [Watchpoints -> [result : WatchResults, countdown : Nat]]
  BY DEF FreshWRT, WatchResults
<1>3. \A wp \in Watchpoints : wrt'[wp].result = "STALE" /\ wrt'[wp].countdown = 0
  BY DEF FreshWRT
<1> QED
  BY <1>1, <1>2, <1>3 DEF WatchInv, WatchType, ResultsAreOfThisTable

\* Growing old makes a result STALE when its countdown runs out, never later.
LEMMA AgedResults ==
  ASSUME WatchInv, wdt' = wdt, wrt' = Aged
  PROVE  WatchInv'
<1> USE DEF WatchInv, WatchType, ResultsAreOfThisTable, WatchResults
<1>0. \A wp \in Watchpoints : wdt[wp].age \in Nat
  BY LcAssumption
<1>1. ASSUME NEW wp \in Watchpoints
      PROVE  /\ wrt'[wp] \in [result : WatchResults, countdown : Nat]
             /\ wdt[wp].type = "NOT_USED" => wrt'[wp].result = "STALE"
             /\ wrt'[wp].countdown > 0 => wrt'[wp].result \in {"TRUE", "FALSE"}
             /\ wrt'[wp].countdown <= wdt[wp].age
  <2>1. /\ wrt[wp] \in [result : WatchResults, countdown : Nat]
        /\ wrt[wp].countdown \in Nat /\ wrt[wp].result \in WatchResults
    OBVIOUS
  <2>2. CASE wrt[wp].countdown = 0
    <3>1. wrt'[wp] = wrt[wp]
      BY <2>2 DEF Aged
    <3> QED
      BY <2>1, <3>1
  <2>3. CASE wrt[wp].countdown # 0
    <3>1. wrt'[wp] = [result |-> IF wrt[wp].countdown = 1 THEN "STALE" ELSE wrt[wp].result,
                      countdown |-> wrt[wp].countdown - 1]
      BY <2>3 DEF Aged
    <3>2. /\ wrt'[wp].countdown = wrt[wp].countdown - 1
          /\ wrt'[wp].result = IF wrt[wp].countdown = 1 THEN "STALE" ELSE wrt[wp].result
      BY <3>1
    <3> QED
      BY <1>0, <2>1, <2>3, <3>1, <3>2
  <2> QED
    BY <2>2, <2>3
<1>2. DOMAIN wrt' = Watchpoints /\ wrt' = [wp \in Watchpoints |-> wrt'[wp]]
  BY DEF Aged
<1> QED
  BY <1>1, <1>2

\* A monitored message measures the watchpoints defined on it.
LEMMA MeasuredResults ==
  ASSUME WatchInv, NEW m, NEW a, CheckMsgForWPs(m, a)
  PROVE  WatchInv'
<1> USE DEF WatchInv, WatchType, ResultsAreOfThisTable, WatchResults
<1>0. wdt' = wdt /\ \A wp \in Watchpoints : wdt[wp].age \in Nat
  BY LcAssumption DEF CheckMsgForWPs
<1>1. ASSUME NEW wp \in Watchpoints
      PROVE  /\ wrt'[wp] \in [result : WatchResults, countdown : Nat]
             /\ wdt[wp].type = "NOT_USED" => wrt'[wp].result = "STALE"
             /\ wrt'[wp].countdown > 0 => wrt'[wp].result \in {"TRUE", "FALSE"}
             /\ wrt'[wp].countdown <= wdt[wp].age
  <2>1. CASE wrt'[wp] = wrt[wp]
    BY <2>1
  <2>2. CASE wdt[wp].type # "NOT_USED" /\ wrt'[wp] = ProcessWP(wp, m.data)
    <3>1. CASE m.data = TooShort
      <4>1. wrt'[wp] = [result |-> "ERROR", countdown |-> 0]
        BY <2>2, <3>1 DEF ProcessWP
      <4> QED
        BY <1>0, <2>2, <4>1
    <3>2. CASE m.data # TooShort
      <4>1. wrt'[wp] = [result |-> Truth(Compare(wdt[wp], m.data)), countdown |-> wdt[wp].age]
        BY <2>2, <3>2 DEF ProcessWP
      <4>2. Truth(Compare(wdt[wp], m.data)) \in {"TRUE", "FALSE"}
        BY DEF Truth
      <4> QED
        BY <1>0, <2>2, <4>1, <4>2
    <3> QED
      BY <3>1, <3>2
  <2> QED
    BY <2>1, <2>2 DEF CheckMsgForWPs
<1>2. DOMAIN wrt' = Watchpoints /\ wrt' = [wp \in Watchpoints |-> wrt'[wp]]
  BY DEF CheckMsgForWPs
<1> QED
  BY <1>0, <1>1, <1>2

LEMMA WatchStep ==
  ASSUME NEW mids, NEW data, WatchInv, [LcNext(mids, data)]_lcVars
  PROVE  WatchInv'
<1>1. CASE UNCHANGED <<wdt, wrt>>
  BY <1>1 DEF WatchInv, WatchType, ResultsAreOfThisTable
<1>2. ASSUME NEW m, NEW a, SampleAPReq(m, a) PROVE WatchInv'
  BY <1>1, <1>2, AgedResults DEF SampleAPReq
<1>3. ASSUME NEW m, NEW a, HousekeepingReq(m, a) PROVE WatchInv'
  BY <1>1, <1>3, FreshResults DEF HousekeepingReq, LoadWDT
<1>4. ASSUME NEW m, NEW a, SetLCState(m, a) \/ CommandAPs(m, a) PROVE WatchInv'
  BY <1>1, <1>4 DEF SetLCState, CommandAPs
<1>5. ASSUME NEW m, AppPipe(m) PROVE WatchInv'
  BY <1>2, <1>3, <1>4, <1>5, MeasuredResults DEF AppPipe
<1>6. CASE LcRestart
  BY <1>6, FreshResults DEF LcRestart
<1>7. CASE UNCHANGED lcVars
  BY <1>1, <1>7 DEF lcVars
<1> QED
  BY <1>5, <1>6, <1>7 DEF LcNext

LEMMA WatchStart == LcInit => WatchInv
<1> SUFFICES ASSUME LcInit PROVE WatchInv
  OBVIOUS
<1>1. \A wp \in Watchpoints : wdt[wp].age \in Nat
  BY LcAssumption DEF LcInit
<1>2. /\ wrt \in [Watchpoints -> [result : WatchResults, countdown : Nat]]
      /\ \A wp \in Watchpoints : wrt[wp].result = "STALE" /\ wrt[wp].countdown = 0
  BY DEF LcInit, FreshWRT, WatchResults
<1> QED
  BY <1>1, <1>2 DEF LcInit, WatchInv, WatchType, ResultsAreOfThisTable

\* Whatever LC is sent and whatever tables are loaded, no watchpoint answers
\* with a result of a table that has been replaced, or outlives its age
\* (LC_ProcessWP, LC_SampleAPReq, LC_ManageTables).
THEOREM LcResultsCurrent ==
  ASSUME NEW mids, NEW data
  PROVE  LcSpec(mids, data) => []ResultsAreOfThisTable
<1>1. WatchInv /\ [LcNext(mids, data)]_lcVars => WatchInv'
  BY WatchStep
<1>2. WatchInv => ResultsAreOfThisTable
  BY DEF WatchInv
<1> QED
  BY <1>1, <1>2, WatchStart, PTL DEF LcSpec
-----------------------------------------------------------------------------
(* Actionpoints.                                                           *)

OwnIds == {"SAMPLE_AP", "SEND_HK", "LC_CMD"}
LcStates == {"ACTIVE", "PASSIVE", "DISABLED"}
PointStates == {"NOT_USED", "ACTIVE", "PASSIVE", "DISABLED", "PERMOFF"}
PointResults == {"PASS", "FAIL", "STALE", "ERROR"}

\* What may be held of an actionpoint: it is in use as its table has it, and
\* its fails are current.
PointOK(e, used) ==
  /\ e \in [state : PointStates, result : PointResults, fails : 0 .. MaxFailCount]
  /\ e.state = "NOT_USED" <=> ~used
  /\ e.fails > 0 => used /\ e.result \in {"FAIL", "ERROR"}

PointsOK(a, table) ==
  /\ a = [ap \in Actionpoints |-> a[ap]]
  /\ \A ap \in Actionpoints : PointOK(a[ap], table[ap].default # "NOT_USED")

PointInv ==
  /\ lcState \in LcStates
  /\ adt \in LoadableADT \cup {DefaultADT}
  /\ PointsOK(art, adt)

LcInv == WatchInv /\ PointInv

LEMMA TableIsValid ==
  ASSUME NEW table \in LoadableADT \cup {DefaultADT}
  PROVE  /\ ValidADT(table)
         /\ \A ap \in Actionpoints : table[ap].equation \in Seq(RPNItems)
  BY LcAssumption, DefaultAssumption DEF LoadableADT

LEMMA ResultsAreTyped ==
  ASSUME WatchType
  PROVE  Results \in [Watchpoints -> WatchResults]
  BY DEF WatchType, Results

\* A sample counts a fail on a FAIL only, and forgets the fails on a PASS and
\* on a STALE result.
LEMMA SampledPoint ==
  ASSUME NEW e, NEW used, PointOK(e, used), e.state # "NOT_USED", NEW result \in PointResults
  PROVE  PointOK(SampledOnce(e, result), used)
<1> DEFINE r == SampledOnce(e, result)
<1>0. /\ e \in [state : PointStates, result : PointResults, fails : 0 .. MaxFailCount]
      /\ MaxFailCount \in Nat /\ used
  BY LcAssumption DEF PointOK
<1>1. r = [state |-> e.state, result |-> result, fails |-> FailsAfter(e, result)]
  BY DEF SampledOnce
<1>2. FailsAfter(e, result) \in 0 .. MaxFailCount
  BY <1>0 DEF FailsAfter
<1>3. FailsAfter(e, result) > 0 => result \in {"FAIL", "ERROR"}
  BY <1>0 DEF FailsAfter, PointResults
<1> HIDE DEF r
<1>4. /\ r \in [state : PointStates, result : PointResults, fails : 0 .. MaxFailCount]
      /\ r.state = e.state /\ r.result = result /\ r.fails = FailsAfter(e, result)
  BY <1>0, <1>1, <1>2
<1> QED
  BY <1>0, <1>3, <1>4 DEF PointOK, r

LEMMA SampledPoints ==
  ASSUME LcInv, NEW points, NEW a, PointsOK(a, adt)
  PROVE  PointsOK(Sampled(points, a), adt)
<1>1. ASSUME NEW ap \in Actionpoints
      PROVE  PointOK(Sampled(points, a)[ap], adt[ap].default # "NOT_USED")
  <2> DEFINE result == EvaluateRPN(adt[ap].equation, Results)
  <2>1. PointOK(a[ap], adt[ap].default # "NOT_USED")
    BY DEF PointsOK
  <2>2. result \in PointResults
    <3>1. adt[ap].equation \in Seq(RPNItems)
      BY TableIsValid DEF LcInv, PointInv
    <3>2. Results \in [Watchpoints -> WatchResults]
      BY ResultsAreTyped DEF LcInv, WatchInv
    <3> QED
      BY <3>1, <3>2, ResultType DEF PointResults
  <2> HIDE DEF result
  <2>3. CASE ap \in points /\ a[ap].state \in {"ACTIVE", "PASSIVE"}
    <3>1. Sampled(points, a)[ap] = SampledOnce(a[ap], result)
      BY <2>3 DEF Sampled, result
    <3>2. a[ap].state # "NOT_USED"
      BY <2>3
    <3>3. PointOK(SampledOnce(a[ap], result), adt[ap].default # "NOT_USED")
      BY <2>1, <2>2, <3>2, SampledPoint
    <3> QED
      BY <3>1, <3>3
  <2>4. CASE ~(ap \in points /\ a[ap].state \in {"ACTIVE", "PASSIVE"})
    <3>1. Sampled(points, a)[ap] = a[ap]
      BY <2>4 DEF Sampled
    <3> QED
      BY <2>1, <3>1
  <2> QED
    BY <2>3, <2>4
<1>2. Sampled(points, a) = [ap \in Actionpoints |-> Sampled(points, a)[ap]]
  BY DEF Sampled
<1> QED
  BY <1>1, <1>2 DEF PointsOK

\* A table that has just been loaded starts with nothing counted.
LEMMA FreshPoints ==
  ASSUME NEW table \in LoadableADT \cup {DefaultADT}
  PROVE  PointsOK(FreshART(table), table)
<1>1. ASSUME NEW ap \in Actionpoints
      PROVE  PointOK(FreshART(table)[ap], table[ap].default # "NOT_USED")
  <2>1. FreshART(table)[ap] = [state |-> table[ap].default, result |-> "STALE", fails |-> 0]
    BY DEF FreshART
  <2>2. table[ap].default \in PointStates
    BY TableIsValid DEF ValidADT, PointStates
  <2>3. 0 \in 0 .. MaxFailCount
    BY LcAssumption
  <2> QED
    BY <2>1, <2>2, <2>3 DEF PointOK, PointResults
<1> QED
  BY <1>1 DEF PointsOK, FreshART

\* The commands change the state of a point in use or clear its fails.
LEMMA CommandedPoints ==
  ASSUME NEW m, NEW a, PointsOK(a, adt), CommandAPs(m, a),
         m.cc = "SET_AP_STATE" => m.state \in LcStates
  PROVE  PointsOK(art', adt)
<1>1. ASSUME NEW ap \in Actionpoints
      PROVE  PointOK(art'[ap], adt[ap].default # "NOT_USED")
  <2> DEFINE e == a[ap]
             used == adt[ap].default # "NOT_USED"
  <2>1. /\ e \in [state : PointStates, result : PointResults, fails : 0 .. MaxFailCount]
        /\ e.state = "NOT_USED" <=> ~used
        /\ e.fails > 0 => used /\ e.result \in {"FAIL", "ERROR"}
    BY DEF PointsOK, PointOK
  <2>2. \/ art'[ap] = e
        \/ m.cc = "SET_AP_STATE" /\ e.state # "NOT_USED" /\ art'[ap] = [e EXCEPT !.state = m.state]
        \/ e.state = "DISABLED" /\ art'[ap] = [e EXCEPT !.state = "PERMOFF"]
        \/ art'[ap] = [e EXCEPT !.fails = 0]
    BY DEF CommandAPs
  <2> HIDE DEF e, used
  <2>3. CASE art'[ap] = e
    BY <2>1, <2>3 DEF PointOK, used
  <2>4. CASE m.cc = "SET_AP_STATE" /\ e.state # "NOT_USED" /\ art'[ap] = [e EXCEPT !.state = m.state]
    <3>1. m.state \in PointStates /\ m.state # "NOT_USED"
      BY <2>4 DEF LcStates, PointStates
    <3>2. art'[ap] = [state |-> m.state, result |-> e.result, fails |-> e.fails]
      BY <2>1, <2>4
    <3> QED
      BY <2>1, <2>4, <3>1, <3>2 DEF PointOK, used
  <2>5. CASE e.state = "DISABLED" /\ art'[ap] = [e EXCEPT !.state = "PERMOFF"]
    <3>1. art'[ap] = [state |-> "PERMOFF", result |-> e.result, fails |-> e.fails]
      BY <2>1, <2>5
    <3> QED
      BY <2>1, <2>5, <3>1 DEF PointOK, used, PointStates
  <2>6. CASE art'[ap] = [e EXCEPT !.fails = 0]
    <3>1. art'[ap] = [state |-> e.state, result |-> e.result, fails |-> 0]
      BY <2>1, <2>6
    <3>2. 0 \in 0 .. MaxFailCount
      BY LcAssumption
    <3> QED
      BY <2>1, <3>1, <3>2 DEF PointOK, used
  <2> QED
    BY <2>2, <2>3, <2>4, <2>5, <2>6
<1>2. art' = [ap \in Actionpoints |-> art'[ap]]
  BY DEF CommandAPs
<1> QED
  BY <1>1, <1>2 DEF PointsOK

LEMMA PointStep ==
  ASSUME NEW mids, mids \cap OwnIds = {}, NEW data, LcInv, [LcNext(mids, data)]_lcVars
  PROVE  PointInv'
<1>1. ASSUME NEW m \in LcMessages(mids, data), AppPipe(m) PROVE PointInv'
  <2> DEFINE a == Sampled(Actionpoints, art)
  <2>0. PointsOK(a, adt) /\ lcState \in LcStates /\ adt \in LoadableADT \cup {DefaultADT}
    BY SampledPoints DEF LcInv, PointInv
  <2>1. CASE SampleAPReq(m, a)
    <3>1. PointsOK(Sampled(m.points, a), adt)
      BY <2>0, SampledPoints
    <3> HIDE DEF a
    <3> QED
      BY <2>0, <2>1, <3>1 DEF SampleAPReq, PointInv
  <2>2. CASE HousekeepingReq(m, a)
    <3>1. CASE art' = a /\ UNCHANGED adt
      BY <2>0, <2>2, <3>1 DEF HousekeepingReq, PointInv
    <3>2. ASSUME NEW table \in LoadableADT, LoadADT(table) PROVE PointInv'
      BY <2>0, <2>2, <3>2, FreshPoints DEF HousekeepingReq, LoadADT, PointInv
    <3> QED
      BY <2>2, <3>1, <3>2 DEF HousekeepingReq
  <2>3. CASE SetLCState(m, a)
    <3>1. m.state \in LcStates
      BY <2>3 DEF SetLCState, LcMessages, OwnIds, LcStates
    <3> QED
      BY <2>0, <2>3, <3>1 DEF SetLCState, PointInv
  <2>4. CASE CommandAPs(m, a)
    <3>1. m.cc = "SET_AP_STATE" => m.state \in LcStates
      BY <2>4 DEF CommandAPs, LcMessages, OwnIds, LcStates
    <3>2. PointsOK(art', adt)
      BY <2>0, <2>4, <3>1, CommandedPoints
    <3> QED
      BY <2>0, <2>4, <3>2 DEF CommandAPs, PointInv
  <2>5. CASE CheckMsgForWPs(m, a)
    BY <2>0, <2>5 DEF CheckMsgForWPs, PointInv
  <2> QED
    BY <1>1, <2>1, <2>2, <2>3, <2>4, <2>5 DEF AppPipe
<1>2. CASE LcRestart
  BY <1>2, FreshPoints DEF LcRestart, PointInv, LcStates
<1>3. CASE UNCHANGED lcVars
  BY <1>3 DEF lcVars, LcInv, PointInv
<1> QED
  BY <1>1, <1>2, <1>3 DEF LcNext

LEMMA LcStart == LcInit => LcInv
<1> SUFFICES ASSUME LcInit PROVE LcInv
  OBVIOUS
<1>1. WatchInv
  BY WatchStart
<1>2. PointInv
  BY FreshPoints DEF LcInit, PointInv, LcStates
<1> QED
  BY <1>1, <1>2 DEF LcInv

LEMMA LcKeepsInv ==
  ASSUME NEW mids, mids \cap OwnIds = {}, NEW data, LcInv, [LcNext(mids, data)]_lcVars
  PROVE  LcInv'
  BY WatchStep, PointStep DEF LcInv

LEMMA LcInvariance ==
  ASSUME NEW mids, mids \cap OwnIds = {}, NEW data
  PROVE  LcSpec(mids, data) => []LcInv
<1>1. LcInv /\ [LcNext(mids, data)]_lcVars => LcInv'
  BY LcKeepsInv
<1> QED
  BY <1>1, LcStart, PTL DEF LcSpec

\* The tables of definitions and results keep their types, if no monitored
\* message has the id of one of LC's own (LC_AppPipe tells them apart by it).
THEOREM LcTypeCorrect ==
  ASSUME NEW mids, mids \cap OwnIds = {}, NEW data
  PROVE  LcSpec(mids, data) => []LcTypeOK
<1>1. LcInv => LcTypeOK
  <2> SUFFICES ASSUME LcInv PROVE LcTypeOK
    OBVIOUS
  <2>1. art \in [Actionpoints -> [state : PointStates, result : PointResults, fails : 0 .. MaxFailCount]]
    BY DEF LcInv, PointInv, PointsOK, PointOK
  <2> QED
    BY <2>1 DEF LcInv, WatchInv, WatchType, PointInv, LcTypeOK, LcStates, PointStates, PointResults
<1> QED
  BY <1>1, LcInvariance, PTL

\* No actionpoint carries fails over a result that passed or went stale, over
\* a load of another table, or over a restart (LC_SampleSingleAP,
\* LC_ManageTables).
THEOREM LcFailsCurrent ==
  ASSUME NEW mids, mids \cap OwnIds = {}, NEW data
  PROVE  LcSpec(mids, data) => []FailsAreCurrent
<1>1. LcInv => FailsAreCurrent
  BY DEF LcInv, PointInv, PointsOK, PointOK, FailsAreCurrent, UsedAPs
<1> QED
  BY <1>1, LcInvariance, PTL

\* Whatever equation is loaded, an answer LC_EvaluateRPN gives of watchpoints
\* some of which are STALE or in ERROR is the answer it would give of them
\* measured.
THEOREM LcDefiniteIsRight ==
  ASSUME NEW mids, mids \cap OwnIds = {}, NEW data
  PROVE  LcSpec(mids, data) => []DefiniteIsRight
<1>1. LcInv => DefiniteIsRight
  <2> SUFFICES ASSUME LcInv,
                      NEW ap \in Actionpoints,
                      EvaluateRPN(adt[ap].equation, Results) \in {"PASS", "FAIL"},
                      NEW w \in [Watchpoints -> {"TRUE", "FALSE"}],
                      \A wp \in {wp \in Watchpoints : Results[wp] \in {"TRUE", "FALSE"}} :
                        w[wp] = Results[wp]
               PROVE  EvaluateRPN(adt[ap].equation, w) = EvaluateRPN(adt[ap].equation, Results)
    BY DEF DefiniteIsRight, UsedAPs
  <2>1. adt[ap].equation \in Seq(RPNItems)
    BY TableIsValid DEF LcInv, PointInv
  <2>2. Results \in [Watchpoints -> WatchResults]
    BY ResultsAreTyped DEF LcInv, WatchInv
  <2>3. w \in [Watchpoints -> WatchResults]
    BY DEF WatchResults
  <2>4. \A wp \in Watchpoints : Results[wp] \in Definite => w[wp] = Results[wp]
    BY DEF Definite
  <2> QED
    BY <2>1, <2>2, <2>3, <2>4, ResultSettles
<1> QED
  BY <1>1, LcInvariance, PTL

\* LC_ValidateRPN lets no equation through that LC_EvaluateRPN would find
\* illegal: an actionpoint in use is in ERROR for a watchpoint only.
THEOREM LcErrorComesFromWatch ==
  ASSUME NEW mids, mids \cap OwnIds = {}, NEW data
  PROVE  LcSpec(mids, data) => []ErrorComesFromWatch
<1>1. LcInv => ErrorComesFromWatch
  <2> SUFFICES ASSUME LcInv, NEW ap \in UsedAPs, \A wp \in Watchpoints : Results[wp] # "ERROR"
               PROVE  EvaluateRPN(adt[ap].equation, Results) # "ERROR"
    BY DEF ErrorComesFromWatch
  <2>1. adt[ap].equation \in Seq(RPNItems) /\ ValidRPN(adt[ap].equation)
    BY TableIsValid DEF LcInv, PointInv, UsedAPs, ValidADT
  <2>2. Results \in [Watchpoints -> WatchResults]
    BY ResultsAreTyped DEF LcInv, WatchInv
  <2> QED
    BY <2>1, <2>2, ValidIsLegal
<1> QED
  BY <1>1, LcInvariance, PTL
=============================================================================
