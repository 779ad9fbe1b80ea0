---------------------------- MODULE WheLoopProofs -----------------------------
(***************************************************************************)
(* Proofs about WheLoop: WHE keeps in the loop what it keeps alone, LC     *)
(* holds the charge of capacitor A, and it discharges only what it saw     *)
(* charged.                                                                *)
(*                                                                         *)
(* Of the messages of the loop, a wakeup, a report and a command of LC,    *)
(* there is never more than one: SCH waits until the last is handled.  So  *)
(* the loop is in one of four phases, idle, woken, reported, commanded,    *)
(* whatever the ground sends in between and whichever application is       *)
(* restarted; and in each of them the charge is as far from its bound as   *)
(* LC is from its next command.                                            *)
(***************************************************************************)
EXTENDS WheLoop, WheProofs, LcProofs

\* The loop as it is built: LC has its default tables, SCH is slower than the
\* tasks, the ground sends commands WHE knows, a charge is worth watching, and a
\* power-up takes long enough for LC to see the new life.
AsBuilt ==
  /\ Watchpoints = {"w0"} /\ Actionpoints = {1} /\ MaxFailCount > 0
  /\ DefaultWDT = WheWDT /\ DefaultADT = WheADT
  /\ Prompt /\ GroundWhe \subseteq WheCommands
  /\ 0 < Threshold /\ 2 * Threshold < ByteMod /\ PowerDelay > 1

-----------------------------------------------------------------------------
(* The messages.                                                           *)

WheMessages ==
  {[id |-> "1HZ"]}
    \cup [id : {"CMD"}, cmd : WheCommands, by : {"GROUND"}]
    \cup [id : {"CMD"}, cmd : {DischargeA}, by : {"LC"}]

Reports == [id : {"WHE_HK"}, data : 0 .. ByteMod - 1]

MsgTypes ==
  /\ whePipe \in [queue : Seq(WheMessages), count : [WheIds -> Nat]]
  /\ wheMsg \in WheMessages \cup {NoMsg}
  /\ lcPipe \in [queue : Seq(Reports), count : [LcIds -> Nat]]
  /\ lcMsg \in Reports \cup {NoMsg}
  /\ setbacks \in Nat

\* The messages that are not of the ground, and those among them that LC sent.
IsCommand(m) == m.id = "CMD" /\ m.by = "LC"
Ours(m) == m.id = "1HZ" \/ IsCommand(m)

\* What a task has to do: a queue q and the message m it has taken.
Clear(q, m) == ~Ours(m) /\ \A i \in 1 .. Len(q) : ~Ours(q[i])
Single(q, m) ==
  /\ \A i, j \in 1 .. Len(q) : Ours(q[i]) /\ Ours(q[j]) => i = j
  /\ Ours(m) => \A i \in 1 .. Len(q) : ~Ours(q[i])
Commands(q, m) == IsCommand(m) \/ \E i \in 1 .. Len(q) : IsCommand(q[i])

Commanded == Commands(whePipe.queue, wheMsg)
Reported == lcMsg # NoMsg \/ lcPipe.queue # <<>>
Report == IF lcMsg # NoMsg THEN lcMsg ELSE lcPipe.queue[1]

\* One message of the loop at a time.
OneMessage ==
  /\ Single(whePipe.queue, wheMsg)
  /\ Reported => Clear(whePipe.queue, wheMsg)
  /\ Len(lcPipe.queue) <= 1
  /\ lcMsg # NoMsg => lcPipe.queue = <<>>
  /\ lcPipe.count["WHE_HK"] = IF Reported THEN 1 ELSE 0

-----------------------------------------------------------------------------
(* LC.                                                                     *)

\* Nothing but housekeeping reaches LC, so it stays as it was started.
LcKeeps ==
  lcState = "ACTIVE" /\ wdt = WheWDT /\ adt = WheADT /\ art[1].state = "ACTIVE"

Alarm == wrt["w0"].result = "TRUE"

-----------------------------------------------------------------------------
(* The charge.                                                             *)

ChargeA == instr.charge["A"]

\* A restarted instrument that no wakeup has seen: LC may still know another.
Unseen == instr.sbc = "OFF" /\ instr.pwr # 1

\* The pending report tells the charge, or is one of a former life.
ReportTells ==
  /\ instr.sbc = "OFF" => ChargeA = 0
  /\ Reported => Unseen \/ Report.data = ChargeA % ByteMod

Bound == Threshold + 2 * GainAlone * (1 + setbacks)

\* The gains that come before the discharge: one until the next report, one
\* until LC has sampled a report of the threshold.
Ahead ==
  IF Commanded THEN 0
  ELSE (IF Alarm THEN 0 ELSE GainAlone) + (IF Reported THEN 0 ELSE GainAlone)

\* LC can read every charge up to the bound in a signed byte.
Readable == 2 * ChargeMax < ByteMod \/ 2 * Bound <= ByteMod

Held ==
  Readable /\ instr.sbc # "ERROR" =>
    /\ ChargeA < Bound
    /\ instr.cap["A"] = "CHARGING" => ChargeA + Ahead < Bound

\* The command that LC has sent, or will send for the result it has, is to an
\* instrument that refuses it or that has gained since the threshold.
Gained ==
  Accepting(instr) /\ instr.cap["A"] = "CHARGING" =>
    ChargeA + ObsDrain >= Threshold + GainShared

Deserved ==
  /\ Alarm /\ ~Reported => Unseen \/ ChargeA >= Threshold
  /\ Commanded \/ (Reported /\ Alarm) => Gained

\* No overdrawn charge reads as one above the threshold, and a discharge does not
\* end above it.
Distinct == 2 * Drained(DamageMax) <= ByteMod /\ DischargeStep < Threshold

LoopInv == Inv /\ LcInv /\ MsgTypes /\ OneMessage /\ LcKeeps /\ ReportTells
HeldInv == LoopInv /\ Held
DeservedInv == LoopInv /\ (Distinct => Deserved)

(***************************************************************************)
(* What a wakeup makes of a capacitor.                                     *)
(***************************************************************************)

\* A step of capacitor c: it charges by a gain, discharges, or does neither and
\* will not charge again.  Only a discharge that empties it lets it charge.
Charged(w, v, c) ==
  /\ w.cap[c] = "CHARGING" =>
       /\ w.charge[c] + GainShared <= v.charge[c]
       /\ v.charge[c] <= w.charge[c] + GainAlone
  /\ w.cap[c] = "DISCHARGING" =>
       \/ v.charge[c] <= w.charge[c] /\ v.cap[c] # "CHARGING"
       \/ w.charge[c] <= DischargeStep /\ v.charge[c] <= GainAlone
  /\ w.cap[c] \in {"LEAKING", "BROKEN"} =>
       v.charge[c] <= w.charge[c] /\ v.cap[c] # "CHARGING"

Untouched(w, v, b) == v.charge[b] = w.charge[b] /\ v.cap[b] = w.cap[b]

LEMMA DischargeMoves ==
  ASSUME NEW w, NEW k \in Nat, NEW c \in Caps, Stage(w, k), AllFit(w),
         NEW d \in Discharge(w, c)
  PROVE  /\ \A b \in Caps \ {c} : Untouched(w, d, b)
         /\ \/ w.cap[c] # "DISCHARGING" /\ d = w
            \/ /\ w.cap[c] = "DISCHARGING" /\ d.cap[c] = "DISCHARGING"
               /\ d.charge[c] <= w.charge[c]
            \/ /\ w.cap[c] = "DISCHARGING" /\ d.cap[c] = "CHARGING"
               /\ w.charge[c] <= DischargeStep /\ d.charge[c] = 0
<1>0. /\ w \in Instruments /\ w.charge \in [Caps -> Int] /\ w.charge[c] \in Int
      /\ w.cap \in [Caps -> {"CHARGING", "DISCHARGING", "LEAKING", "BROKEN"}]
  BY Types DEF Stage
<1>1. CASE w.cap[c] # "DISCHARGING"
  BY <1>1 DEF Discharge, Untouched
<1>2. CASE w.cap[c] = "DISCHARGING" /\ w.delay[c] > 0
  <2> DEFINE left == w.delay[c] - 1
  <2>1. d = [w EXCEPT !.delay[c] = left]
    BY <1>2 DEF Discharge
  <2> HIDE DEF left
  <2>2. d.charge = w.charge /\ d.cap = w.cap
    BY <1>0, <2>1 DEF Instruments
  <2> QED
    BY <1>0, <1>2, <2>2 DEF Untouched
<1>3. CASE w.cap[c] = "DISCHARGING" /\ ~(w.delay[c] > 0)
  <2> DEFINE left == w.charge[c] - DischargeStep
             new == IF left <= 0 THEN 0 ELSE left
             st == IF left <= 0 THEN "CHARGING" ELSE "DISCHARGING"
             e == [w EXCEPT !.charge[c] = new, !.cap[c] = st]
  <2>1. PICK t \in Warmer(w.temp) : d = [e EXCEPT !.temp = t]
    BY <1>3 DEF Discharge
  <2>2. \/ left <= 0 /\ new = 0 /\ st = "CHARGING" /\ w.charge[c] <= DischargeStep
        \/ new <= w.charge[c] /\ st = "DISCHARGING"
    BY <1>0, WheAssumption
  <2> HIDE DEF left, new, st
  <2>3. e.charge = [w.charge EXCEPT ![c] = new] /\ e.cap = [w.cap EXCEPT ![c] = st]
    BY <1>0 DEF Instruments
  <2>4. d.charge = e.charge /\ d.cap = e.cap
    <3>1. "temp" # "charge" /\ "temp" # "cap"
      OBVIOUS
    <3>2. DOMAIN e = DOMAIN w /\ "charge" \in DOMAIN w /\ "cap" \in DOMAIN w
      BY <1>0 DEF Instruments
    <3> HIDE DEF e
    <3> QED
      BY <2>1, <3>1, <3>2
  <2> HIDE DEF e
  <2>5. /\ d.charge[c] = new /\ d.cap[c] = st
        /\ \A b \in Caps \ {c} : d.charge[b] = w.charge[b] /\ d.cap[b] = w.cap[b]
    BY <1>0, <2>3, <2>4
  <2> QED
    BY <1>3, <2>2, <2>5 DEF Untouched
<1> QED
  BY <1>1, <1>2, <1>3

LEMMA ChargeMoves ==
  ASSUME NEW w \in Instruments, NEW c \in Caps
  PROVE  LET v == Charge(w, c)
         IN  /\ v.cap = w.cap /\ \A b \in Caps \ {c} : v.charge[b] = w.charge[b]
             /\ IF w.cap[c] = "CHARGING"
                THEN /\ w.charge[c] + GainShared <= v.charge[c]
                     /\ v.charge[c] <= w.charge[c] + GainAlone
                ELSE v.charge[c] = w.charge[c]
<1>1. CASE w.cap[c] # "CHARGING"
  BY <1>1 DEF Charge
<1>2. CASE w.cap[c] = "CHARGING"
  <2> DEFINE g == IF w.cap[Other(c)] # "CHARGING" THEN GainAlone ELSE GainShared
             n == w.charge[c] + g
             v == [w EXCEPT !.charge[c] = n]
  <2>1. Charge(w, c) = v
    BY <1>2 DEF Charge
  <2>2. w.charge[c] \in Int /\ w.charge \in [Caps -> Int]
    BY Types
  <2>3. w.charge[c] + GainShared <= n /\ n <= w.charge[c] + GainAlone
    BY <2>2, WheAssumption
  <2> HIDE DEF g, n
  <2>4. v.charge = [w.charge EXCEPT ![c] = n] /\ v.cap = w.cap
    BY DEF Instruments
  <2> HIDE DEF v
  <2>5. v.charge[c] = n /\ \A b \in Caps \ {c} : v.charge[b] = w.charge[b]
    BY <2>2, <2>4
  <2> QED
    BY <1>2, <2>1, <2>3, <2>4, <2>5
<1> QED
  BY <1>1, <1>2

LEMMA DestroyFields ==
  ASSUME NEW w \in Instruments
  PROVE  /\ Destroy(w).charge = w.charge /\ Destroy(w).cap = w.cap
         /\ Destroy(w).sbc = "ERROR" /\ Destroy(w) \in Instruments
<1>1. Destroy(w) \in Instruments
  BY Zenon DEF Destroy, Instruments
<1> QED
  BY <1>1 DEF Destroy, Instruments

\* The draws leave the charges and the other capacitor alone, and let none charge.
LEMMA OverchargeMoves ==
  ASSUME NEW w \in Instruments, NEW c \in Caps, NEW v \in Overcharge(w, c)
  PROVE  /\ v.charge = w.charge /\ v.sbc \in {w.sbc, "ERROR"}
         /\ \A b \in Caps \ {c} : v.cap[b] = w.cap[b]
         /\ v.cap[c] \in {w.cap[c], "LEAKING", "BROKEN"}
<1>0. w.cap \in [Caps -> {"CHARGING", "DISCHARGING", "LEAKING", "BROKEN"}]
  BY Types
<1> DEFINE Set(st) == [w EXCEPT !.cap[c] = st]
<1>1. \/ v = w \/ v = Destroy(Set("BROKEN")) \/ v = Damage(Set("LEAKING"))
  <2> DEFINE excess == w.charge[c] - FullCharge
  <2>1. CASE excess <= 0
    BY <2>1 DEF Overcharge
  <2>2. CASE ~(excess <= 0)
    <3>1. PICK val \in 0 .. Percent - 1 :
            v = IF 2 * val + 1 < excess THEN Destroy([w EXCEPT !.cap[c] = "BROKEN"])
                ELSE IF val < excess THEN Damage([w EXCEPT !.cap[c] = "LEAKING"])
                ELSE w
      BY <2>2 DEF Overcharge
    <3> QED
      BY <3>1
  <2> QED
    BY <2>1, <2>2
<1>2. ASSUME NEW st \in {"LEAKING", "BROKEN"}
      PROVE  /\ Set(st) \in Instruments /\ Set(st).charge = w.charge
             /\ Set(st).cap = [w.cap EXCEPT ![c] = st] /\ Set(st).sbc = w.sbc
  <2>1. Set(st) \in Instruments
    BY DEF Instruments
  <2> QED
    BY <2>1 DEF Instruments
<1> HIDE DEF Set
<1>3. CASE v = w
  BY <1>3
<1>4. CASE v = Destroy(Set("BROKEN"))
  BY <1>0, <1>2, <1>4, DestroyFields
<1>5. CASE v = Damage(Set("LEAKING"))
  BY <1>0, <1>2, <1>5, DamageFields
<1> QED
  BY <1>1, <1>3, <1>4, <1>5

\* WHE_UpdateCap: one step of the capacitor, or the loss of the instrument.
LEMMA UpdateCapMoves ==
  ASSUME NEW w, NEW k \in Nat, NEW c \in Caps, Stage(w, k), AllFit(w),
         NEW v \in UpdateCap(w, c)
  PROVE  /\ \A b \in Caps \ {c} : Untouched(w, v, b)
         /\ v.sbc \in {w.sbc, "ERROR"}
         /\ w.sbc = "OFF" => v = w
         /\ w.sbc # "OFF" /\ v.sbc # "ERROR" => Charged(w, v, c)
<1>0. /\ w \in Instruments /\ w.charge \in [Caps -> Int] /\ w.charge[c] \in Int
      /\ w.cap[c] \in {"CHARGING", "DISCHARGING", "LEAKING", "BROKEN"}
  BY Types DEF Stage
<1>1. CASE w.sbc = "OFF" \/ w.cap[c] = "BROKEN"
  <2>1. v = w
    BY <1>1 DEF UpdateCap
  <2> QED
    BY <1>0, <1>1, <2>1 DEF Untouched, Charged
<1>2. CASE w.sbc # "OFF" /\ w.cap[c] # "BROKEN" /\ v = Destroy(w)
  BY <1>0, <1>2, DestroyFields DEF Untouched
<1>3. CASE /\ w.sbc # "OFF" /\ w.cap[c] # "BROKEN"
           /\ \E d \in Discharge(w, c) : v \in Overcharge(Charge(d, c), c)
  <2>1. PICK d \in Discharge(w, c) : v \in Overcharge(Charge(d, c), c)
    BY <1>3
  <2>2. Stage(d, k) /\ AllFit(d) /\ d.sbc = w.sbc
    BY <2>1, DischargeStage
  <2> DEFINE x == Charge(d, c)
  <2>3. /\ \A b \in Caps \ {c} : Untouched(w, d, b)
        /\ \/ w.cap[c] # "DISCHARGING" /\ d = w
           \/ /\ w.cap[c] = "DISCHARGING" /\ d.cap[c] = "DISCHARGING"
              /\ d.charge[c] <= w.charge[c]
           \/ /\ w.cap[c] = "DISCHARGING" /\ d.cap[c] = "CHARGING"
              /\ w.charge[c] <= DischargeStep /\ d.charge[c] = 0
    BY <2>1, DischargeMoves
  <2>4. d \in Instruments /\ d.charge[c] \in Int
    BY <2>2, Types DEF Stage
  <2>5. /\ x.cap = d.cap /\ \A b \in Caps \ {c} : x.charge[b] = d.charge[b]
        /\ IF d.cap[c] = "CHARGING"
           THEN d.charge[c] + GainShared <= x.charge[c] /\ x.charge[c] <= d.charge[c] + GainAlone
           ELSE x.charge[c] = d.charge[c]
    BY <2>4, ChargeMoves
  <2>6. Stage(x, k) /\ x.sbc = d.sbc
    BY <2>2, ChargeStage
  <2>7. x \in Instruments /\ x.charge[c] \in Int
    BY <2>6, Types DEF Stage
  <2>8. v \in Overcharge(x, c)
    BY <2>1
  <2> HIDE DEF x
  <2>9. /\ v.charge = x.charge /\ v.sbc \in {x.sbc, "ERROR"}
        /\ \A b \in Caps \ {c} : v.cap[b] = x.cap[b]
        /\ v.cap[c] \in {x.cap[c], "LEAKING", "BROKEN"}
    BY <2>7, <2>8, OverchargeMoves
  <2>10. \A b \in Caps \ {c} : Untouched(w, v, b)
    BY <2>3, <2>5, <2>9 DEF Untouched
  <2>11. /\ v.charge[c] = x.charge[c] /\ {GainShared, GainAlone, DischargeStep} \subseteq Nat
         /\ v.cap[c] \in {d.cap[c], "LEAKING", "BROKEN"}
    BY <2>5, <2>9, WheAssumption
  <2>12. Charged(w, v, c)
    <3>1. CASE w.cap[c] = "CHARGING"
      <4>1. d = w
        BY <2>3, <3>1
      <4> QED
        BY <1>0, <2>5, <2>7, <2>11, <3>1, <4>1 DEF Charged
    <3>2. CASE w.cap[c] = "DISCHARGING" /\ d.cap[c] = "DISCHARGING"
      <4>1. d.charge[c] <= w.charge[c] /\ x.charge[c] = d.charge[c]
        BY <2>3, <2>5, <3>2
      <4> QED
        BY <2>11, <3>2, <4>1 DEF Charged
    <3>3. CASE w.cap[c] = "DISCHARGING" /\ d.cap[c] = "CHARGING"
      <4>1. w.charge[c] <= DischargeStep /\ d.charge[c] = 0
        BY <2>3, <3>3
      <4>2. x.charge[c] <= GainAlone
        BY <2>5, <2>7, <2>11, <3>3, <4>1
      <4> QED
        BY <2>11, <3>3, <4>1, <4>2 DEF Charged
    <3>4. CASE w.cap[c] = "LEAKING"
      <4>1. d = w
        BY <2>3, <3>4
      <4> QED
        BY <1>0, <2>5, <2>7, <2>11, <3>4, <4>1 DEF Charged
    <3> QED
      BY <1>0, <1>3, <2>3, <3>1, <3>2, <3>3, <3>4
  <2> QED
    BY <1>3, <2>2, <2>6, <2>9, <2>10, <2>12
<1> QED
  <2>1. SUFFICES ASSUME w.sbc # "OFF" /\ w.cap[c] # "BROKEN"
                 PROVE  v = Destroy(w)
                          \/ \E d \in Discharge(w, c) : v \in Overcharge(Charge(d, c), c)
    BY <1>1, <1>2, <1>3
  <2>2. v \in UNION {Overcharge(Charge(d, c), c) : d \in Discharge(w, c)}
          \/ v \in IF \A b \in Caps : w.cap[b] = "DISCHARGING" THEN {Destroy(w)} ELSE {}
    BY <2>1, Zenon DEF UpdateCap
  <2> QED
    BY <2>2

LEMMA UpdateThermMoves ==
  ASSUME NEW w \in Instruments, NEW v \in UpdateTherm(w)
  PROVE  v.charge = w.charge /\ v.cap = w.cap /\ v.sbc \in {w.sbc, "ERROR"}
<1>0. w.temp \in Temps
  BY Types
<1>1. PICK s \in {w, Destroy(w), Damage(w)}, t \in Temps : v = [s EXCEPT !.temp = t]
  BY <1>0 DEF UpdateTherm, Temps, Warmer, Cooler
<1>2. /\ s \in Instruments /\ s.charge = w.charge /\ s.cap = w.cap
      /\ s.sbc \in {w.sbc, "ERROR"}
  BY <1>1, DestroyFields, DamageFields
<1>3. v.charge = s.charge /\ v.cap = s.cap /\ v.sbc = s.sbc
  BY <1>1, <1>2 DEF Instruments
<1> QED
  BY <1>2, <1>3

\* An observation takes its drain from the active capacitor, and nothing else.
LEMMA ObservedMoves ==
  ASSUME NEW w \in Instruments
  PROVE  LET o == Observed(w)
         IN  /\ o.cap = w.cap
             /\ o.sbc \in {w.sbc, "ERROR", "POWERED"}
             /\ \A c \in Caps : /\ o.charge[c] <= w.charge[c]
                                /\ w.charge[c] <= o.charge[c] + ObsDrain
<1> DEFINE n == w.charge[w.act] - ObsDrain
           d == [w EXCEPT !.charge[w.act] = n]
           low == IF d.charge[w.act] <= ObsLow THEN Damage(d) ELSE d
           o == IF w.obs > 0 THEN [low EXCEPT !.obs = @ - 1] ELSE [low EXCEPT !.sbc = "POWERED"]
<1>1. /\ w.act \in Caps /\ w.charge \in [Caps -> Int] /\ w.charge[w.act] \in Int
      /\ w.obs \in 0 .. ObsTicks /\ ObsDrain \in Nat /\ ObsTicks \in Nat
  BY Types, WheAssumption
<1>2. n \in Int /\ n <= w.charge[w.act] /\ w.charge[w.act] <= n + ObsDrain
  BY <1>1
<1> HIDE DEF n
<1>3. /\ d \in Instruments /\ d.charge = [w.charge EXCEPT ![w.act] = n]
      /\ d.cap = w.cap /\ d.sbc = w.sbc /\ d.obs = w.obs
  BY <1>2 DEF Instruments
<1>4. Observed(w) = o
  BY DEF Observed, n
<1> HIDE DEF d
<1>5. /\ low \in Instruments /\ low.charge = d.charge /\ low.cap = d.cap
      /\ low.sbc \in {w.sbc, "ERROR"}
  BY <1>3, DamageFields
<1> HIDE DEF low
<1>6. /\ o.charge = low.charge /\ o.cap = low.cap
      /\ o.sbc \in {low.sbc, "POWERED"}
  BY <1>5 DEF Instruments
<1>7. \A c \in Caps : o.charge[c] <= w.charge[c] /\ w.charge[c] <= o.charge[c] + ObsDrain
  <2> TAKE c \in Caps
  <2>1. w.charge[c] \in Int /\ o.charge = [w.charge EXCEPT ![w.act] = n]
    BY <1>1, <1>3, <1>5, <1>6
  <2> HIDE DEF o
  <2>2. CASE c = w.act
    BY <1>1, <1>2, <2>1, <2>2
  <2>3. CASE c # w.act
    BY <1>1, <2>1, <2>3
  <2> QED
    BY <2>2, <2>3
<1> HIDE DEF o
<1> QED
  BY <1>3, <1>4, <1>5, <1>6, <1>7

LEMMA UpdateObsMoves ==
  ASSUME NEW w \in Instruments, \A c \in Caps : Within(w, c), AllFit(w),
         w.sbc = "OBSERVING" => w.dmgCnt <= MaxDamage, NEW v \in UpdateObs(w)
  PROVE  /\ v.cap = w.cap /\ v.sbc \in {w.sbc, "ERROR", "POWERED"}
         /\ w.sbc # "OBSERVING" => v = w
         /\ \A c \in Caps : /\ v.charge[c] <= w.charge[c]
                            /\ w.charge[c] <= v.charge[c] + ObsDrain
<1>1. CASE w.sbc # "OBSERVING"
  <2>1. v = w
    BY <1>1 DEF UpdateObs
  <2>2. \A c \in Caps : w.charge[c] \in Int
    BY Types
  <2> QED
    BY <1>1, <2>1, <2>2, WheAssumption
<1>2. CASE w.sbc = "OBSERVING"
  <2> DEFINE o == Observed(w)
  <2>1. /\ o.cap = w.cap /\ o.sbc \in {w.sbc, "ERROR", "POWERED"}
        /\ \A c \in Caps : o.charge[c] <= w.charge[c] /\ w.charge[c] <= o.charge[c] + ObsDrain
    BY ObservedMoves
  <2>2. o \in Instruments /\ w.temp \in Temps
    BY <1>2, ObservedDone, Types
  <2>3. PICK t \in Temps :
          v = CASE t = "OK" -> o
                [] t = "WARM" -> [o EXCEPT !.temp = t, !.sbc = "POWERED"]
                [] t = "HOT" -> Damage([o EXCEPT !.temp = t, !.sbc = "POWERED"])
    BY <1>2, <2>2 DEF UpdateObs, Warmer, Temps
  <2> HIDE DEF o
  <2> DEFINE x == [o EXCEPT !.temp = t, !.sbc = "POWERED"]
  <2>4. x \in Instruments
    BY <2>2, <2>3, Zenon DEF Instruments
  <2>5. x.charge = o.charge /\ x.cap = o.cap /\ x.sbc = "POWERED"
    BY <2>2 DEF Instruments
  <2>6. v = CASE t = "OK" -> o [] t = "WARM" -> x [] t = "HOT" -> Damage(x)
    BY <2>3
  <2> HIDE DEF x
  <2>7. v.charge = o.charge /\ v.cap = o.cap /\ v.sbc \in {o.sbc, "POWERED", "ERROR"}
    BY <2>3, <2>4, <2>5, <2>6, DamageFields DEF Temps
  <2> QED
    BY <1>2, <2>1, <2>7
<1> QED
  BY <1>1, <1>2

\* A wakeup of the whole instrument, as capacitor c has it.
Drawn(w, v, c) ==
  /\ w.cap[c] = "CHARGING" =>
       /\ w.charge[c] + GainShared <= v.charge[c] + ObsDrain
       /\ v.charge[c] <= w.charge[c] + GainAlone
  /\ w.cap[c] = "DISCHARGING" =>
       \/ v.charge[c] <= w.charge[c] /\ v.cap[c] # "CHARGING"
       \/ w.charge[c] <= DischargeStep /\ v.charge[c] <= GainAlone
  /\ w.cap[c] \in {"LEAKING", "BROKEN"} =>
       v.charge[c] <= w.charge[c] /\ v.cap[c] # "CHARGING"

\* An instrument is lost by a wakeup, or stays without power, or draws.
LEMMA WakeupMoves ==
  ASSUME Inv, ProcessWakeup, instr.dmg # "MAJOR"
  PROVE  \/ instr'.sbc = "ERROR"
         \/ /\ instr.sbc = "OFF" /\ instr.pwr # 1 /\ instr'.sbc = "OFF"
            /\ instr'.charge = instr.charge /\ instr'.cap = instr.cap
         \/ /\ instr.sbc = "OFF" => instr.pwr = 1
            /\ instr.sbc # "ERROR" /\ instr'.sbc # "OFF"
            /\ Drawn(instr, instr', "A")
<1> DEFINE p == PowerUp(instr)
<1>0. instr \in Instruments /\ AllFit(instr) /\ Stage(instr, 0)
  <2>1. instr \in Instruments /\ instr.dmgCnt \in Nat
    BY Types DEF Inv, Done
  <2> QED
    BY <2>1, WheAssumption DEF Inv, Done, Stage
<1>1. Stage(p, 0) /\ AllFit(p) /\ (instr.sbc = "ERROR" => p.sbc = "ERROR")
  BY <1>0, PowerUpStage
<1>2. /\ p.charge = instr.charge /\ p.cap = instr.cap
      /\ p.sbc = "OFF" <=> (instr.sbc = "OFF" /\ instr.pwr # 1)
  <2>1. CASE instr.sbc = "OFF" /\ instr.pwr > 0
    <3> DEFINE left == instr.pwr - 1
               sbc == IF instr.pwr = 1 THEN "POWERED" ELSE "OFF"
               v == [instr EXCEPT !.pwr = left, !.sbc = sbc]
    <3>1. p = v
      BY <2>1 DEF PowerUp
    <3>2. v.charge = instr.charge /\ v.cap = instr.cap /\ v.sbc = sbc
      BY <1>0 DEF Instruments
    <3> QED
      BY <2>1, <3>1, <3>2
  <2>2. CASE ~(instr.sbc = "OFF" /\ instr.pwr > 0)
    <3>1. p = instr /\ instr.pwr \in 0 .. PowerDelay
      BY <1>0, <2>2, Types DEF PowerUp
    <3> QED
      BY <2>2, <3>1
  <2> QED
    BY <2>1, <2>2
<1>3. PICK a \in UpdateCap(p, "A") : \E b \in UpdateCap(a, "B") :
        \E t \in UpdateTherm(b) : instr' \in UpdateObs(t)
  BY DEF ProcessWakeup
<1> HIDE DEF p
<1>4. "A" \in Caps /\ "B" \in Caps \ {"A"} /\ "A" \in Caps \ {"B"}
      /\ 0 + 1 = 1 /\ 1 + 1 = 2 /\ 2 + 1 = 3
  BY DEF Caps
<1>5. Stage(a, 1) /\ AllFit(a) /\ (p.sbc = "ERROR" => a.sbc = "ERROR")
  BY <1>1, <1>3, <1>4, UpdateCapStage
<1>6. PICK b \in UpdateCap(a, "B") : \E t \in UpdateTherm(b) : instr' \in UpdateObs(t)
  BY <1>3
<1>7. Stage(b, 2) /\ AllFit(b) /\ (a.sbc = "ERROR" => b.sbc = "ERROR")
  BY <1>4, <1>5, <1>6, UpdateCapStage
<1>8. PICK t \in UpdateTherm(b) : instr' \in UpdateObs(t)
  BY <1>6
<1>9. Stage(t, 3) /\ AllFit(t) /\ (b.sbc = "ERROR" => t.sbc = "ERROR")
  BY <1>4, <1>7, <1>8, UpdateThermStage
<1>10. t.sbc = "ERROR" => instr'.sbc = "ERROR"
  BY <1>8, <1>9, UpdateObsDone
<1>11. /\ a.sbc \in {p.sbc, "ERROR"} /\ (p.sbc = "OFF" => a = p)
       /\ p.sbc # "OFF" /\ a.sbc # "ERROR" => Charged(p, a, "A")
  BY <1>1, <1>3, <1>4, UpdateCapMoves
<1>12. /\ b.sbc \in {a.sbc, "ERROR"} /\ (a.sbc = "OFF" => b = a)
       /\ Untouched(a, b, "A")
  BY <1>4, <1>5, <1>6, UpdateCapMoves
<1>13. t.charge = b.charge /\ t.cap = b.cap /\ t.sbc \in {b.sbc, "ERROR"}
  BY <1>7, <1>8, UpdateThermMoves DEF Stage
<1>14. /\ instr'.cap = t.cap /\ instr'.sbc \in {t.sbc, "ERROR", "POWERED"}
       /\ t.sbc # "OBSERVING" => instr' = t
       /\ \A c \in Caps : /\ instr'.charge[c] <= t.charge[c]
                          /\ t.charge[c] <= instr'.charge[c] + ObsDrain
  <2>1. t \in Instruments /\ (t.sbc = "OBSERVING" => t.dmgCnt <= MaxDamage)
    BY <1>9, Types, WheAssumption DEF Stage
  <2> QED
    BY <1>8, <1>9, <2>1, UpdateObsMoves DEF Stage
<1>15. CASE instr.sbc = "OFF" /\ instr.pwr # 1
  BY <1>2, <1>11, <1>12, <1>13, <1>14, <1>15
<1>16. CASE ~(instr.sbc = "OFF" /\ instr.pwr # 1) /\ instr'.sbc # "ERROR"
  <2>1. /\ p.sbc # "OFF" /\ a.sbc # "ERROR" /\ instr.sbc # "ERROR"
        /\ instr'.sbc # "OFF" /\ Charged(p, a, "A")
    BY <1>1, <1>2, <1>5, <1>7, <1>9, <1>10, <1>11, <1>12, <1>13, <1>14, <1>16
  <2>2. /\ instr'.cap["A"] = a.cap["A"] /\ instr'.charge["A"] <= a.charge["A"]
        /\ a.charge["A"] <= instr'.charge["A"] + ObsDrain
    BY <1>4, <1>12, <1>13, <1>14 DEF Untouched
  <2>3. /\ instr.charge["A"] \in Int /\ a.charge["A"] \in Int /\ instr'.charge["A"] \in Int
        /\ {ObsDrain, GainShared, GainAlone, DischargeStep} \subseteq Nat
    <3>1. instr' \in Instruments
      BY <1>8, <1>9, UpdateObsDone DEF Done
    <3> QED
      BY <1>0, <1>4, <1>5, <3>1, Types, WheAssumption DEF Stage
  <2>4. Drawn(instr, instr', "A")
    BY <1>2, <2>1, <2>2, <2>3 DEF Charged, Drawn
  <2> QED
    BY <1>16, <2>1, <2>4
<1> QED
  BY <1>15, <1>16

\* What a command may do: charge nothing, discharge a capacitor, keep the loss and
\* the lack of power.  The discharge of A is refused without power or after a loss.
Commanding(w, v) ==
  /\ v.charge = w.charge
  /\ v.cap["A"] \in {w.cap["A"], "DISCHARGING"}
  /\ v.sbc = "ERROR" <=> w.sbc = "ERROR"
  /\ v.sbc = "OFF" <=> w.sbc = "OFF"
  /\ v.sbc = "OFF" => v.pwr \in {w.pwr, PowerDelay}

LEMMA CommandMoves ==
  ASSUME Inv, NEW cmd \in WheCommands, ProcessGroundCommand(cmd)
  PROVE  /\ Commanding(instr, instr')
         /\ cmd = DischargeA /\ Accepting(instr) => instr'.cap["A"] # "CHARGING"
<1>0. instr \in Instruments
  BY DEF Inv, Done
<1>a. instr.cap \in [Caps -> {"CHARGING", "DISCHARGING", "LEAKING", "BROKEN"}] /\ "A" \in Caps
  BY <1>0, Types DEF Caps
<1>1. CASE cmd.cc \in {"CAP_ACTIVE", "CAP_DISCHARGE"}
  <2> DEFINE c == cmd.cap
             x == [instr EXCEPT !.act = c]
             y == [instr EXCEPT !.delay[c] = DischargeDelay, !.cap[c] = "DISCHARGING"]
  <2>1. c \in Caps
    BY <1>1 DEF WheCommands
  <2>2. instr' = CapCmd(instr, cmd)
    BY <1>1 DEF ProcessGroundCommand
  <2>3. /\ x.charge = instr.charge /\ x.cap = instr.cap /\ x.sbc = instr.sbc
        /\ x.pwr = instr.pwr
    BY <1>0 DEF Instruments
  <2>4. /\ y.charge = instr.charge /\ y.cap = [instr.cap EXCEPT ![c] = "DISCHARGING"]
        /\ y.sbc = instr.sbc /\ y.pwr = instr.pwr
    BY <1>0 DEF Instruments
  <2>5. \/ instr' = instr \/ instr' = x \/ instr' = y
    BY <2>2 DEF CapCmd
  <2>6. ASSUME cmd = DischargeA, Accepting(instr)
        PROVE  instr' = IF instr.cap["A"] # "CHARGING" THEN instr ELSE y
    BY <2>2, <2>6 DEF CapCmd, DischargeA
  <2>7. cmd = DischargeA => c = "A"
    BY DEF DischargeA
  <2> HIDE DEF x, y, c
  <2>8. y.cap["A"] \in {instr.cap["A"], "DISCHARGING"} /\ (c = "A" => y.cap["A"] = "DISCHARGING")
    BY <1>a, <2>1, <2>4
  <2> QED
    BY <2>3, <2>4, <2>5, <2>6, <2>7, <2>8 DEF Commanding
<1>2. CASE cmd.cc \in {"OBS_START", "OBS_STOP"}
  <2> DEFINE x == [instr EXCEPT !.sbc = "OBSERVING", !.obs = ObsTicks]
             y == [instr EXCEPT !.sbc = "POWERED", !.obs = 0]
  <2>1. instr' = ObsCmd(instr, cmd)
    BY <1>2 DEF ProcessGroundCommand
  <2>2. instr' = instr \/ (instr.sbc \in {"POWERED", "OBSERVING"} /\ (instr' = x \/ instr' = y))
    BY <2>1 DEF ObsCmd
  <2>3. /\ x.charge = instr.charge /\ x.cap = instr.cap /\ x.sbc = "OBSERVING"
        /\ y.charge = instr.charge /\ y.cap = instr.cap /\ y.sbc = "POWERED"
    BY <1>0 DEF Instruments
  <2>4. cmd # DischargeA
    BY <1>2 DEF DischargeA
  <2> HIDE DEF x, y
  <2> QED
    BY <2>2, <2>3, <2>4 DEF Commanding
<1>3. CASE cmd.cc = "POWER_SBC"
  <2> DEFINE x == [instr EXCEPT !.pwr = PowerDelay]
  <2>1. instr' = IF instr.sbc = "OFF" THEN x ELSE instr
    BY <1>3 DEF ProcessGroundCommand, SbcCmd
  <2>2. /\ x.charge = instr.charge /\ x.cap = instr.cap /\ x.sbc = instr.sbc
        /\ x.pwr = PowerDelay
    BY <1>0 DEF Instruments
  <2>3. cmd # DischargeA
    BY <1>3 DEF DischargeA
  <2> HIDE DEF x
  <2> QED
    BY <2>1, <2>2, <2>3 DEF Commanding
<1>4. CASE cmd.cc \in {"HTR_OFF", "HTR_ON", "LOUVER_CLOSE", "LOUVER_OPEN"}
  <2>1. \E x : instr' = [instr EXCEPT !.htr = x] \/ instr' = [instr EXCEPT !.louver = x]
    BY <1>4 DEF ProcessGroundCommand
  <2>2. /\ instr'.charge = instr.charge /\ instr'.cap = instr.cap
        /\ instr'.sbc = instr.sbc /\ instr'.pwr = instr.pwr
    BY <1>0, <2>1 DEF Instruments
  <2>3. cmd # DischargeA
    BY <1>4 DEF DischargeA
  <2> QED
    BY <2>2, <2>3 DEF Commanding
<1> QED
  BY <1>1, <1>2, <1>3, <1>4 DEF WheCommands

(***************************************************************************)
(* The pipes.                                                              *)
(***************************************************************************)

\* A message is appended or dropped.
LEMMA PutQueue ==
  ASSUME NEW M, NEW I, NEW p \in [queue : Seq(M), count : [I -> Nat]], NEW m \in M, m.id \in I,
         NEW depth, NEW limit
  PROVE  LET q == Put(p, m, depth, limit)
         IN  /\ q \in [queue : Seq(M), count : [I -> Nat]]
             /\ IF Admits(p, m, depth, limit)
                THEN /\ q.queue = Append(p.queue, m)
                     /\ q.count = [p.count EXCEPT ![m.id] = @ + 1]
                ELSE q = p
BY DEF Put

LEMMA TakeQueue ==
  ASSUME NEW M, NEW I, NEW p \in [queue : Seq(M), count : [I -> Nat]], Waiting(p)
  PROVE  LET q == Take(p)
         IN  /\ q \in [queue : Seq(M), count : [I -> Nat]]
             /\ q.queue = Tail(p.queue) /\ q.count = p.count
             /\ Head(p.queue) \in M
<1> DEFINE t == Tail(p.queue)
<1>1. p.queue \in Seq(M) /\ p.queue # <<>>
  BY DEF Waiting
<1>2. t \in Seq(M) /\ Head(p.queue) \in M
  BY <1>1
<1>3. Take(p) = [p EXCEPT !.queue = t]
  BY DEF Take
<1> HIDE DEF t
<1>4. Take(p) \in [queue : Seq(M), count : [I -> Nat]] /\ Take(p).queue = t /\ Take(p).count = p.count
  BY <1>2, <1>3
<1> QED
  BY <1>2, <1>4 DEF t

LEMMA ReleaseQueue ==
  ASSUME NEW M, NEW I, NEW p \in [queue : Seq(M), count : [I -> Nat]], NEW m, m.id \in I
  PROVE  LET q == Release(p, m)
         IN  /\ q \in [queue : Seq(M), count : [I -> Nat]] /\ q.queue = p.queue
             /\ q.count[m.id] = IF p.count[m.id] > 0 THEN p.count[m.id] - 1 ELSE 0
<1> DEFINE n == IF p.count[m.id] > 0 THEN p.count[m.id] - 1 ELSE 0
           c == [p.count EXCEPT ![m.id] = n]
<1>1. n \in Nat
  OBVIOUS
<1>2. Release(p, m) = [p EXCEPT !.count = c]
  BY DEF Release
<1> HIDE DEF n
<1>3. c \in [I -> Nat] /\ c[m.id] = n
  BY <1>1
<1> HIDE DEF c
<1> QED
  BY <1>2, <1>3 DEF n

\* The next message, taken from the queue.
LEMMA TakeOurs ==
  ASSUME NEW M, NEW q \in Seq(M), q # <<>>, NEW m, ~Ours(m)
  PROVE  /\ Single(q, m) => Single(Tail(q), Head(q))
         /\ Clear(q, m) => Clear(Tail(q), Head(q))
         /\ Commands(q, m) <=> Commands(Tail(q), Head(q))
<1>1. /\ Head(q) = q[1] /\ Len(q) \in Nat \ {0} /\ Len(Tail(q)) = Len(q) - 1
      /\ \A i \in 1 .. Len(q) - 1 : Tail(q)[i] = q[i + 1]
  OBVIOUS
<1>2. ~IsCommand(m)
  BY DEF Ours
<1> HIDE DEF Ours, IsCommand
<1>3. \A i \in 2 .. Len(q) : i - 1 \in 1 .. Len(q) - 1 /\ (i - 1) + 1 = i
  BY <1>1
<1>4. ASSUME Single(q, m) PROVE Single(Tail(q), Head(q))
  <2>1. \A i \in 1 .. Len(q) - 1 : i + 1 \in 1 .. Len(q) /\ 1 \in 1 .. Len(q) /\ i + 1 # 1
    BY <1>1
  <2> QED
    BY <1>1, <1>4, <2>1 DEF Single
<1>5. ASSUME Clear(q, m) PROVE Clear(Tail(q), Head(q))
  <2>1. \A i \in 1 .. Len(q) - 1 : i + 1 \in 1 .. Len(q)
    BY <1>1
  <2>2. 1 \in 1 .. Len(q)
    BY <1>1
  <2> QED
    BY <1>1, <1>5, <2>1, <2>2 DEF Clear
<1>6. ASSUME Commands(q, m) PROVE Commands(Tail(q), Head(q))
  <2>1. PICK i \in 1 .. Len(q) : IsCommand(q[i])
    BY <1>2, <1>6 DEF Commands
  <2>2. CASE i = 1
    BY <1>1, <2>1, <2>2 DEF Commands
  <2>3. CASE i # 1
    <3>1. i - 1 \in 1 .. Len(q) - 1 /\ Tail(q)[i - 1] = q[i]
      BY <1>1, <1>3, <2>3
    <3> QED
      BY <1>1, <2>1, <3>1 DEF Commands
  <2> QED
    BY <2>2, <2>3
<1>7. ASSUME Commands(Tail(q), Head(q)) PROVE Commands(q, m)
  <2>1. \A i \in 1 .. Len(q) - 1 : i + 1 \in 1 .. Len(q)
    BY <1>1
  <2>2. 1 \in 1 .. Len(q)
    BY <1>1
  <2> QED
    BY <1>1, <1>7, <2>1, <2>2 DEF Commands
<1> QED
  BY <1>4, <1>5, <1>6, <1>7

\* The message is handled.
LEMMA DoneOurs ==
  ASSUME NEW q, NEW m, Single(q, m)
  PROVE  /\ Single(q, NoMsg)
         /\ Clear(q, m) => Clear(q, NoMsg)
         /\ Ours(m) => Clear(q, NoMsg) /\ ~Commands(q, NoMsg)
         /\ ~IsCommand(m) => (Commands(q, NoMsg) <=> Commands(q, m))
<1>1. ~Ours(NoMsg) /\ ~IsCommand(NoMsg) /\ \A x : IsCommand(x) => Ours(x)
  BY DEF Ours, IsCommand, NoMsg
<1> HIDE DEF Ours, IsCommand
<1> QED
  BY <1>1 DEF Single, Clear, Commands

\* A message is sent.
LEMMA AppendOurs ==
  ASSUME NEW M, NEW q \in Seq(M), NEW m, NEW x \in M
  PROVE  LET a == Append(q, x)
         IN  /\ ~Ours(x) => /\ Single(q, m) => Single(a, m)
                            /\ Clear(q, m) => Clear(a, m)
                            /\ Commands(q, m) <=> Commands(a, m)
             /\ Clear(q, m) => Single(a, m) /\ (Commands(a, m) <=> IsCommand(x))
<1> DEFINE a == Append(q, x)
           n == Len(q)
<1>1. /\ Len(a) = n + 1 /\ a[n + 1] = x /\ n + 1 \notin 1 .. n
      /\ \A i \in 1 .. n : a[i] = q[i]
      /\ 1 .. n + 1 = (1 .. n) \cup {n + 1}
  OBVIOUS
<1>2. \A y : IsCommand(y) => Ours(y)
  BY DEF Ours
<1> HIDE DEF Ours, IsCommand, a
<1>3. ASSUME ~Ours(x) PROVE Single(q, m) => Single(a, m)
  BY <1>1, <1>3 DEF Single
<1>4. ASSUME ~Ours(x) PROVE Clear(q, m) => Clear(a, m)
  BY <1>1, <1>4 DEF Clear
<1>5. ASSUME ~Ours(x) PROVE Commands(q, m) <=> Commands(a, m)
  BY <1>1, <1>2, <1>5 DEF Commands
<1>6. ASSUME Clear(q, m) PROVE Single(a, m)
  BY <1>1, <1>6 DEF Clear, Single
<1>7. ASSUME Clear(q, m) PROVE Commands(a, m) <=> IsCommand(x)
  BY <1>1, <1>2, <1>7 DEF Clear, Commands
<1>8. /\ ~Ours(x) => /\ Single(q, m) => Single(a, m)
                     /\ Clear(q, m) => Clear(a, m)
                     /\ Commands(q, m) <=> Commands(a, m)
      /\ Clear(q, m) => Single(a, m) /\ (Commands(a, m) <=> IsCommand(x))
  BY <1>3, <1>4, <1>5, <1>6, <1>7
<1> QED
  BY <1>8 DEF a

(***************************************************************************)
(* A charge in a byte.                                                     *)
(***************************************************************************)

\* The byte of a charge that is not too far from zero.
LEMMA ByteOf ==
  ASSUME NEW c \in Int
  PROVE  /\ c % ByteMod \in 0 .. ByteMod - 1
         /\ 0 <= c /\ c < ByteMod => c % ByteMod = c
         /\ c < 0 /\ 0 <= c + ByteMod => c % ByteMod = c + ByteMod
<1>1. ByteMod \in Nat \ {0}
  BY LcAssumption
<1>2. c % ByteMod \in 0 .. ByteMod - 1
  BY <1>1
<1>3. ASSUME 0 <= c, c < ByteMod PROVE c % ByteMod = c
  BY <1>1, <1>3
<1>4. ASSUME c < 0, 0 <= c + ByteMod PROVE c % ByteMod = c + ByteMod
  BY <1>1, <1>4
<1> QED
  BY <1>2, <1>3, <1>4

Loud(v) == Signed(v) >= Signed(Threshold)

\* LC hears a charge of the threshold that a signed byte can hold, and takes no
\* charge below it for one.
LEMMA Reading ==
  ASSUME AsBuilt, NEW c \in Int
  PROVE  /\ Threshold <= c /\ 2 * c < ByteMod => Loud(c % ByteMod)
         /\ Loud(c % ByteMod) /\ 0 <= 2 * c + ByteMod => Threshold <= c
<1> DEFINE v == c % ByteMod
<1>1. ByteMod \in Nat /\ Threshold \in Nat /\ 0 < Threshold /\ 2 * Threshold < ByteMod
  BY LcAssumption, WheLoopAssumption DEF AsBuilt
<1>2. /\ v \in 0 .. ByteMod - 1
      /\ 0 <= c /\ c < ByteMod => v = c
      /\ c < 0 /\ 0 <= c + ByteMod => v = c + ByteMod
  BY ByteOf
<1> HIDE DEF v
<1>3. Loud(v) <=> Threshold <= v /\ 2 * v < ByteMod
  BY <1>1, <1>2 DEF Loud, Signed
<1>4. ASSUME Threshold <= c, 2 * c < ByteMod PROVE Loud(v)
  BY <1>1, <1>2, <1>3, <1>4
<1>5. ASSUME Loud(v), 0 <= 2 * c + ByteMod PROVE Threshold <= c
  BY <1>1, <1>2, <1>3, <1>5
<1> QED
  BY <1>4, <1>5 DEF v

(***************************************************************************)
(* What LC does of a report.                                               *)
(***************************************************************************)

\* The equation of actionpoint 1 is the result of watchpoint 0.
LEMMA Evaluates ==
  ASSUME AsBuilt, NEW w, w["w0"] \in WatchResults
  PROVE  EvaluateRPN(<<"w0", "=">>, w) = ActionOf(w["w0"])
<1> DEFINE q == <<"w0", "=">>
           e == Evaluation(q, w)
<1>1. q \in Seq(RPNItems) /\ Len(q) = 2 /\ q[1] = "w0" /\ q[2] = "="
  BY DEF AsBuilt, RPNItems, Operators
<1>2. e = [n \in 0 .. Len(q) |-> IF n = 0 THEN Start ELSE EvaluateItem(e[n - 1], q[n], w)]
  BY <1>1, EvaluationDef
<1> HIDE DEF e
<1>3. e[0] = Start /\ e[1] = EvaluateItem(e[0], "w0", w) /\ e[2] = EvaluateItem(e[1], "=", w)
  BY <1>1, <1>2
<1>4. e[1].stack = <<w["w0"]>> /\ e[1].end = "NONE"
  <2>1. e[1] = Pushed(Start, 0, w["w0"])
    BY <1>3 DEF AsBuilt, EvaluateItem, Start
  <2>2. SubSeq(<<>>, 1, Len(<<>>) - 0) = <<>>
    OBVIOUS
  <2>3. Pushed(Start, 0, w["w0"]) = [stack |-> Append(<<>>, w["w0"]), end |-> "NONE"]
    BY <2>2 DEF Pushed, Start
  <2>4. Append(<<>>, w["w0"]) = <<w["w0"]>>
    OBVIOUS
  <2> QED
    BY <2>1, <2>3, <2>4
<1>5. /\ "=" \notin Watchpoints /\ "=" \notin BinaryOps /\ "=" # "NOT"
      /\ Len(e[1].stack) = 1 /\ e[1].stack[1] = w["w0"]
  BY <1>4 DEF AsBuilt, BinaryOps
<1>6. e[2].end = ActionOf(w["w0"])
  <2>1. EvaluateItem(e[1], "=", w) = [stack |-> e[1].stack, end |-> ActionOf(e[1].stack[1])]
    BY <1>4, <1>5 DEF EvaluateItem
  <2> QED
    BY <1>3, <1>5, <2>1
<1>7. ActionOf(w["w0"]) # "NONE"
  BY DEF ActionOf, WatchResults
<1> QED
  BY <1>1, <1>6, <1>7 DEF EvaluateRPN, e

LEMMA SampledAlarm ==
  ASSUME AsBuilt, LcInv, LcKeeps
  PROVE  LET s == Sampled(Actionpoints, art)
         IN  /\ s[1].state = "ACTIVE"
             /\ s[1].result = "FAIL" <=> Alarm
             /\ Alarm => s[1].fails >= 1
<1> DEFINE r == EvaluateRPN(<<"w0", "=">>, Results)
<1>1. Results["w0"] \in WatchResults /\ Results["w0"] = wrt["w0"].result
  BY ResultsAreTyped DEF LcInv, WatchInv, AsBuilt, Results
<1>2. r = ActionOf(wrt["w0"].result)
  BY <1>1, Evaluates
<1>3. r = "FAIL" <=> Alarm
  BY <1>1, <1>2 DEF ActionOf, Alarm, WatchResults
<1>4. adt[1].equation = <<"w0", "=">>
  BY DEF AsBuilt, LcKeeps, WheADT
<1> HIDE DEF r
<1>5. Sampled(Actionpoints, art)[1] = SampledOnce(art[1], r)
  BY <1>4 DEF AsBuilt, LcKeeps, Sampled, r
<1>6. art[1].fails \in 0 .. MaxFailCount /\ MaxFailCount \in Nat /\ MaxFailCount > 0
  BY LcAssumption DEF LcInv, PointInv, PointsOK, PointOK, AsBuilt
<1> QED
  BY <1>3, <1>5, <1>6 DEF SampledOnce, FailsAfter, LcKeeps

\* LC commands a discharge at a report if the last one was loud.
LEMMA RequestsAlarm ==
  ASSUME AsBuilt, LcInv, LcKeeps
  PROVE  Requests(Actionpoints, art) = IF Alarm THEN <<DischargeA>> ELSE <<>>
<1> DEFINE s == Sampled(Actionpoints, art)
           points == {ap \in Actionpoints : /\ lcState = "ACTIVE" /\ art[ap].state = "ACTIVE"
                                            /\ s[ap].result = "FAIL"
                                            /\ s[ap].fails >= adt[ap].maxFails}
           asking == InOrder(points)
<1>1. points = IF Alarm THEN {1} ELSE {}
  BY SampledAlarm DEF AsBuilt, LcKeeps, WheADT
<1>2. Requests(Actionpoints, art) = [i \in DOMAIN asking |-> adt[asking[i]].rts]
  BY DEF Requests
<1> HIDE DEF s, points
<1>3. CASE Alarm
  <2>1. points = {1} /\ Cardinality(points) = 1
    BY <1>1, <1>3, FS_Singleton
  <2>2. asking \in [1 .. 1 -> {1}]
    <3> DEFINE P(q) == \A i, j \in DOMAIN q : i < j => q[i] < q[j]
               one == [i \in 1 .. 1 |-> 1]
    <3>1. one \in [1 .. 1 -> {1}] /\ P(one)
      OBVIOUS
    <3>2. asking = CHOOSE q \in [1 .. 1 -> {1}] : P(q)
      BY <2>1 DEF InOrder
    <3> HIDE DEF P, one, asking
    <3> QED
      BY <3>1, <3>2
  <2> HIDE DEF asking
  <2>3. DOMAIN asking = 1 .. 1 /\ asking[1] = 1 /\ adt[1].rts = DischargeA
    BY <2>2 DEF LcKeeps, WheADT, AsBuilt
  <2>4. [i \in DOMAIN asking |-> adt[asking[i]].rts] = [i \in 1 .. 1 |-> DischargeA]
    BY <2>3
  <2>5. [i \in 1 .. 1 |-> DischargeA] = <<DischargeA>>
    OBVIOUS
  <2> QED
    BY <1>2, <1>3, <2>4, <2>5
<1>4. CASE ~Alarm
  <2>1. points = {} /\ Cardinality(points) = 0
    BY <1>1, <1>4, FS_EmptySet
  <2>2. asking \in [1 .. 0 -> {}]
    <3> DEFINE P(q) == \A i, j \in DOMAIN q : i < j => q[i] < q[j]
               none == [i \in 1 .. 0 |-> 1]
    <3>1. none \in [1 .. 0 -> {}] /\ P(none)
      OBVIOUS
    <3>2. asking = CHOOSE q \in [1 .. 0 -> {}] : P(q)
      BY <2>1 DEF InOrder
    <3> HIDE DEF P, none, asking
    <3> QED
      BY <3>1, <3>2
  <2> HIDE DEF asking
  <2>3. [i \in DOMAIN asking |-> adt[asking[i]].rts] = <<>>
    BY <2>2
  <2> QED
    BY <1>2, <1>4, <2>3
<1> QED
  BY <1>3, <1>4

\* LC_ExecuteRTS for no request and for one.
LEMMA ExecuteFew ==
  /\ Execute(<<>>) = [pipe |-> whePipe, dropped |-> 0]
  /\ \A cmd : Execute(<<cmd>>) = Handed([pipe |-> whePipe, dropped |-> 0], cmd)
<1> DEFINE first == [pipe |-> whePipe, dropped |-> 0]
<1>1. Execute(<<>>) = first
  <2> DEFINE Turn(st) == [n \in 0 .. 0 |-> IF n = 0 THEN first ELSE Handed(st[n - 1], <<>>[n])]
             f == [n \in 0 .. 0 |-> first]
  <2>1. f = Turn(f)
    OBVIOUS
  <2>2. Execute(<<>>) = (CHOOSE st : st = Turn(st))[0]
    BY DEF Execute
  <2>3. \A st : st = Turn(st) => st[0] = first
    OBVIOUS
  <2> HIDE DEF Turn, f, first
  <2> QED
    BY <2>1, <2>2, <2>3
<1>2. ASSUME NEW cmd PROVE Execute(<<cmd>>) = Handed(first, cmd)
  <2> DEFINE Turn(st) ==
               [n \in 0 .. 1 |-> IF n = 0 THEN first ELSE Handed(st[n - 1], <<cmd>>[n])]
             f == [n \in 0 .. 1 |-> IF n = 0 THEN first ELSE Handed(first, cmd)]
  <2> HIDE DEF first
  <2>1. f = Turn(f)
    OBVIOUS
  <2>2. Execute(<<cmd>>) = (CHOOSE st : st = Turn(st))[1]
    BY DEF Execute, first
  <2>3. \A st : st = Turn(st) => st[1] = Handed(first, cmd)
    OBVIOUS
  <2> HIDE DEF Turn, f
  <2> QED
    BY <2>1, <2>2, <2>3
<1> QED
  BY <1>1, <1>2

LcCommand == [id |-> "CMD", cmd |-> DischargeA, by |-> "LC"]

\* What LC sends for the report it handles.
LEMMA LcSends ==
  ASSUME AsBuilt, LcInv, LcKeeps, MsgTypes, LcHandle
  PROVE  IF Alarm /\ Admits(whePipe, LcCommand, PipeDepth, MsgLimit)
         THEN whePipe' = Put(whePipe, LcCommand, PipeDepth, MsgLimit) /\ setbacks' = setbacks
         ELSE /\ whePipe' = whePipe
              /\ setbacks' = setbacks + IF Alarm THEN 1 ELSE 0
<1>1. lcMsg.id = "WHE_HK" /\ setbacks \in Nat
  BY DEF MsgTypes, LcHandle, Reports
<1>2. Outgoing(lcMsg) = IF Alarm THEN <<DischargeA>> ELSE <<>>
  <2>1. Outgoing(lcMsg) = Requests(Actionpoints, art) \o <<>>
    BY <1>1 DEF Outgoing
  <2>2. Requests(Actionpoints, art) = IF Alarm THEN <<DischargeA>> ELSE <<>>
    BY RequestsAlarm
  <2>3. <<>> \o <<>> = <<>> /\ <<DischargeA>> \o <<>> = <<DischargeA>>
    OBVIOUS
  <2> QED
    BY <2>1, <2>2, <2>3
<1> DEFINE sent == Execute(Outgoing(lcMsg))
<1>3. whePipe' = sent.pipe /\ setbacks' = setbacks + sent.dropped
  BY DEF LcHandle
<1>4. CASE ~Alarm
  <2>1. sent = [pipe |-> whePipe, dropped |-> 0]
    BY <1>2, <1>4, ExecuteFew
  <2> HIDE DEF sent
  <2> QED
    BY <1>3, <1>4, <2>1
<1>5. CASE Alarm
  <2>1. sent = Handed([pipe |-> whePipe, dropped |-> 0], DischargeA)
    BY <1>2, <1>5, ExecuteFew
  <2> HIDE DEF sent
  <2>2. sent = [pipe |-> Put(whePipe, LcCommand, PipeDepth, MsgLimit),
                dropped |-> 0 + IF Admits(whePipe, LcCommand, PipeDepth, MsgLimit) THEN 0 ELSE 1]
    BY <2>1 DEF Handed, LcCommand
  <2>3. CASE Admits(whePipe, LcCommand, PipeDepth, MsgLimit)
    BY <1>1, <1>3, <1>5, <2>2, <2>3
  <2>4. CASE ~Admits(whePipe, LcCommand, PipeDepth, MsgLimit)
    BY <1>1, <1>3, <1>5, <2>2, <2>4 DEF Put
  <2> QED
    BY <2>3, <2>4
<1> QED
  BY <1>4, <1>5

\* What LC makes of the report it handles.
LEMMA LcHears ==
  ASSUME AsBuilt, LcInv, LcKeeps, MsgTypes, LcHandle
  PROVE  LcKeeps' /\ (Alarm' <=> Loud(lcMsg.data))
<1>1. lcMsg.id = "WHE_HK" /\ lcMsg.data # TooShort
  BY LcAssumption DEF MsgTypes, LcHandle, Reports, TooShort
<1>2. CheckMsgForWPs(lcMsg, Sampled(Actionpoints, art))
  BY <1>1 DEF LcHandle, AppPipe, SampleAPReq, HousekeepingReq, SetLCState, CommandAPs
<1>3. LcKeeps'
  BY <1>2, SampledAlarm DEF CheckMsgForWPs, LcKeeps
<1>4. wrt'["w0"].result = Truth(Compare(wdt["w0"], lcMsg.data))
  BY <1>1, <1>2 DEF CheckMsgForWPs, ProcessWP, AsBuilt, LcKeeps, WheWDT
<1>5. Compare(wdt["w0"], lcMsg.data) <=> Loud(lcMsg.data)
  BY DEF AsBuilt, LcKeeps, WheWDT, Compare, Loud
<1> QED
  BY <1>3, <1>4, <1>5 DEF Alarm, Truth

(***************************************************************************)
(* The loop runs the two applications.                                     *)
(***************************************************************************)

LEMMA CommandsKnown ==
  /\ DischargeA \in WheCommands
  /\ MsgTypes /\ wheMsg.id = "CMD" => wheMsg.cmd \in WheCommands
<1>1. DischargeA \in WheCommands
  BY DEF DischargeA, WheCommands, Caps
<1>2. MsgTypes /\ wheMsg.id = "CMD" => wheMsg.cmd \in WheCommands
  BY <1>1 DEF MsgTypes, WheMessages, NoMsg
<1> QED
  BY <1>1, <1>2

LEMMA WheActs ==
  ASSUME MsgTypes, [Next]_vars
  PROVE  [WheNext]_instr
<1> USE DEF WheNext
<1>1. CASE UNCHANGED instr
  BY <1>1
<1>2. CASE WheWakeup
  BY <1>2 DEF WheWakeup
<1>3. CASE WheCommand
  BY <1>3, CommandsKnown DEF WheCommand
<1>4. CASE RestartWhe
  BY <1>4 DEF RestartWhe
<1> QED
  BY <1>1, <1>2, <1>3, <1>4
     DEF Next, vars, wheTask, Tick, GroundCommand, WheStep, WheTake, LcStep, LcTake, LcHandle, RestartLc

Bytes == 0 .. ByteMod - 1

LEMMA LcActs ==
  ASSUME MsgTypes, [Next]_vars
  PROVE  [LcNext(LcIds, Bytes)]_lcVars
<1>1. CASE UNCHANGED lcVars
  BY <1>1
<1>2. CASE LcHandle
  <2>1. lcMsg \in [id : LcIds, data : Bytes] /\ AppPipe(lcMsg)
    BY <1>2 DEF LcHandle, MsgTypes, Reports, LcIds, Bytes
  <2>2. lcMsg \in LcMessages(LcIds, Bytes)
    BY <2>1 DEF LcMessages
  <2> QED
    BY <2>1, <2>2 DEF LcNext
<1>3. CASE RestartLc
  BY <1>3 DEF RestartLc, LcNext
<1> QED
  BY <1>1, <1>2, <1>3
     DEF Next, vars, lcTask, Tick, GroundCommand, WheStep, WheTake, WheWakeup, WheCommand,
         LcStep, LcTake, RestartWhe

(***************************************************************************)
(* What the steps do to the messages.                                      *)
(***************************************************************************)

Pipes == MsgTypes /\ OneMessage

LEMMA MessageIds ==
  /\ \A m \in WheMessages : m.id \in WheIds
  /\ \A m \in Reports : m.id \in LcIds /\ m # NoMsg
  /\ ~Ours(NoMsg)
<1>1. \A m \in WheMessages : m.id \in WheIds
  BY DEF WheMessages, WheIds
<1>2. \A m \in Reports : m.id = "WHE_HK"
  BY DEF Reports
<1>3. NoMsg.id = "NONE"
  BY DEF NoMsg
<1> QED
  BY <1>1, <1>2, <1>3 DEF LcIds, Ours, IsCommand

\* A message of the loop put where there is none, and one of the ground.
LEMMA PutWhe ==
  ASSUME Pipes, NEW x \in WheMessages, Ours(x) => Clear(whePipe.queue, wheMsg) /\ ~Reported',
         whePipe' = Put(whePipe, x, PipeDepth, MsgLimit),
         UNCHANGED wheMsg
  PROVE  /\ whePipe' \in [queue : Seq(WheMessages), count : [WheIds -> Nat]]
         /\ Single(whePipe.queue, wheMsg)'
         /\ Reported' /\ Reported => Clear(whePipe.queue, wheMsg)'
         /\ ~IsCommand(x) => (Commanded' <=> Commanded)
         /\ IsCommand(x) => (Commanded' <=> Admits(whePipe, x, PipeDepth, MsgLimit))
<1> DEFINE q == whePipe.queue
<1>1. /\ whePipe \in [queue : Seq(WheMessages), count : [WheIds -> Nat]]
      /\ x.id \in WheIds /\ q \in Seq(WheMessages)
  BY MessageIds DEF Pipes, MsgTypes
<1>2. /\ whePipe' \in [queue : Seq(WheMessages), count : [WheIds -> Nat]]
      /\ IF Admits(whePipe, x, PipeDepth, MsgLimit)
         THEN whePipe'.queue = Append(q, x) ELSE whePipe' = whePipe
  <2> DEFINE r == Put(whePipe, x, PipeDepth, MsgLimit)
  <2>1. /\ r \in [queue : Seq(WheMessages), count : [WheIds -> Nat]]
        /\ IF Admits(whePipe, x, PipeDepth, MsgLimit)
           THEN r.queue = Append(q, x) /\ r.count = [whePipe.count EXCEPT ![x.id] = @ + 1]
           ELSE r = whePipe
    BY <1>1, PutQueue
  <2> HIDE DEF r
  <2> QED
    BY <2>1 DEF r
<1>3. Single(q, wheMsg) /\ (Reported => Clear(q, wheMsg))
  BY DEF Pipes, OneMessage
<1>4. /\ ~Ours(x) => /\ Single(q, wheMsg) => Single(Append(q, x), wheMsg)
                     /\ Clear(q, wheMsg) => Clear(Append(q, x), wheMsg)
                     /\ Commands(q, wheMsg) <=> Commands(Append(q, x), wheMsg)
      /\ Clear(q, wheMsg) => /\ Single(Append(q, x), wheMsg)
                             /\ Commands(Append(q, x), wheMsg) <=> IsCommand(x)
  BY <1>1, AppendOurs
<1>5. /\ IsCommand(x) => Ours(x)
      /\ Clear(q, wheMsg) => ~Commands(q, wheMsg)
  BY DEF Ours, Clear, Commands
<1>6. CASE Admits(whePipe, x, PipeDepth, MsgLimit)
  BY <1>2, <1>3, <1>4, <1>5, <1>6 DEF Commanded
<1>7. CASE ~Admits(whePipe, x, PipeDepth, MsgLimit)
  BY <1>2, <1>3, <1>5, <1>7 DEF Commanded
<1> QED
  BY <1>6, <1>7

\* The pipe of LC is as it was.
LEMMA SameReports ==
  ASSUME Pipes, UNCHANGED <<lcPipe, lcMsg>>
  PROVE  /\ Reported' = Reported /\ Report' = Report
         /\ lcPipe' \in [queue : Seq(Reports), count : [LcIds -> Nat]]
         /\ lcMsg' \in Reports \cup {NoMsg}
         /\ Len(lcPipe.queue)' <= 1 /\ (lcMsg' # NoMsg => lcPipe.queue' = <<>>)
         /\ lcPipe.count'["WHE_HK"] = IF Reported' THEN 1 ELSE 0
BY DEF Pipes, MsgTypes, OneMessage, Reported, Report

LEMMA TickPipes ==
  ASSUME AsBuilt, Pipes, Tick
  PROVE  Pipes' /\ ~Commanded /\ ~Commanded' /\ ~Reported /\ Reported' = Reported
<1>1. Idle /\ UNCHANGED <<wheMsg, lcPipe, lcMsg, setbacks>>
  BY DEF AsBuilt, Tick, wheTask, lcTask
<1>2. Clear(whePipe.queue, wheMsg) /\ ~Commanded /\ ~Reported
  BY <1>1, MessageIds DEF Idle, Waiting, Clear, Commanded, Commands, Reported, Ours
<1> DEFINE x == [id |-> "1HZ"]
<1>3. x \in WheMessages /\ ~IsCommand(x)
  BY DEF WheMessages, IsCommand
<1>4. whePipe' = Put(whePipe, x, PipeDepth, MsgLimit)
  BY DEF Tick
<1> HIDE DEF x
<1>5. /\ Reported' = Reported
      /\ lcPipe' \in [queue : Seq(Reports), count : [LcIds -> Nat]]
      /\ lcMsg' \in Reports \cup {NoMsg}
      /\ Len(lcPipe.queue)' <= 1 /\ (lcMsg' # NoMsg => lcPipe.queue' = <<>>)
      /\ lcPipe.count'["WHE_HK"] = IF Reported' THEN 1 ELSE 0
  BY <1>1, SameReports
<1>6. /\ whePipe' \in [queue : Seq(WheMessages), count : [WheIds -> Nat]]
      /\ Single(whePipe.queue, wheMsg)' /\ (Commanded' <=> Commanded)
  BY <1>1, <1>2, <1>3, <1>4, <1>5, PutWhe
<1> QED
  BY <1>1, <1>2, <1>5, <1>6 DEF Pipes, MsgTypes, OneMessage

LEMMA GroundPipes ==
  ASSUME AsBuilt, Pipes, GroundCommand
  PROVE  Pipes' /\ Commanded' = Commanded /\ Reported' = Reported /\ Report' = Report
<1>1. UNCHANGED <<wheMsg, lcPipe, lcMsg, setbacks>>
  BY DEF GroundCommand, wheTask, lcTask
<1>2. PICK cmd \in GroundWhe :
        whePipe' = Put(whePipe, [id |-> "CMD", cmd |-> cmd, by |-> "GROUND"], PipeDepth, MsgLimit)
  BY DEF GroundCommand
<1> DEFINE x == [id |-> "CMD", cmd |-> cmd, by |-> "GROUND"]
<1>3. x \in WheMessages /\ ~IsCommand(x) /\ ~Ours(x)
  BY DEF AsBuilt, WheMessages, IsCommand, Ours
<1> HIDE DEF x
<1>5. /\ Reported' = Reported /\ Report' = Report
      /\ lcPipe' \in [queue : Seq(Reports), count : [LcIds -> Nat]]
      /\ lcMsg' \in Reports \cup {NoMsg}
      /\ Len(lcPipe.queue)' <= 1 /\ (lcMsg' # NoMsg => lcPipe.queue' = <<>>)
      /\ lcPipe.count'["WHE_HK"] = IF Reported' THEN 1 ELSE 0
  BY <1>1, SameReports
<1>6. /\ whePipe' \in [queue : Seq(WheMessages), count : [WheIds -> Nat]]
      /\ Single(whePipe.queue, wheMsg)' /\ (Commanded' <=> Commanded)
      /\ Reported' => Clear(whePipe.queue, wheMsg)'
  BY <1>1, <1>2, <1>3, <1>5, PutWhe DEF x
<1> QED
  BY <1>1, <1>5, <1>6 DEF Pipes, MsgTypes, OneMessage, Commanded, Commands

LEMMA WheTakePipes ==
  ASSUME Pipes, WheTake
  PROVE  Pipes' /\ Commanded' = Commanded /\ Reported' = Reported /\ Report' = Report
<1>1. /\ wheMsg = NoMsg /\ Waiting(whePipe) /\ UNCHANGED <<lcPipe, lcMsg, setbacks>>
      /\ wheMsg' = Head(whePipe.queue) /\ whePipe' = Take(whePipe)
  BY DEF WheTake, lcTask
<1>2. /\ whePipe \in [queue : Seq(WheMessages), count : [WheIds -> Nat]]
      /\ whePipe.queue \in Seq(WheMessages) /\ whePipe.queue # <<>>
  BY <1>1 DEF Pipes, MsgTypes, Waiting
<1>3. /\ whePipe' \in [queue : Seq(WheMessages), count : [WheIds -> Nat]]
      /\ whePipe'.queue = Tail(whePipe.queue) /\ wheMsg' \in WheMessages
  BY <1>1, <1>2, TakeQueue
<1>4. /\ Reported' = Reported /\ Report' = Report
      /\ lcPipe' \in [queue : Seq(Reports), count : [LcIds -> Nat]]
      /\ lcMsg' \in Reports \cup {NoMsg}
      /\ Len(lcPipe.queue)' <= 1 /\ (lcMsg' # NoMsg => lcPipe.queue' = <<>>)
      /\ lcPipe.count'["WHE_HK"] = IF Reported' THEN 1 ELSE 0
  BY <1>1, SameReports
<1>5. ~Ours(wheMsg)
  BY <1>1, MessageIds
<1>6. /\ Single(whePipe.queue, wheMsg) => Single(whePipe.queue, wheMsg)'
      /\ Clear(whePipe.queue, wheMsg) => Clear(whePipe.queue, wheMsg)'
      /\ Commanded' <=> Commanded
  BY <1>1, <1>2, <1>3, <1>5, TakeOurs DEF Commanded
<1> QED
  BY <1>1, <1>3, <1>4, <1>6 DEF Pipes, MsgTypes, OneMessage, Commanded, Commands

\* The handled message leaves the pipe of WHE.
LEMMA DoneWhe ==
  ASSUME Pipes, wheMsg # NoMsg, whePipe' = Release(whePipe, wheMsg), wheMsg' = NoMsg
  PROVE  /\ whePipe' \in [queue : Seq(WheMessages), count : [WheIds -> Nat]]
         /\ wheMsg' \in WheMessages \cup {NoMsg}
         /\ Single(whePipe.queue, wheMsg)'
         /\ Ours(wheMsg) => /\ ~Reported /\ Clear(whePipe.queue, wheMsg)' /\ ~Commanded'
                            /\ Commanded <=> IsCommand(wheMsg)
         /\ ~Ours(wheMsg) => /\ Commanded' <=> Commanded
                             /\ Reported => Clear(whePipe.queue, wheMsg)'
<1>1. /\ whePipe \in [queue : Seq(WheMessages), count : [WheIds -> Nat]]
      /\ wheMsg.id \in WheIds
  BY MessageIds DEF Pipes, MsgTypes
<1>2. /\ whePipe' \in [queue : Seq(WheMessages), count : [WheIds -> Nat]]
      /\ whePipe'.queue = whePipe.queue
  BY <1>1, ReleaseQueue
<1>3. Single(whePipe.queue, wheMsg) /\ (Reported => Clear(whePipe.queue, wheMsg))
  BY DEF Pipes, OneMessage
<1>4. /\ Single(whePipe.queue, wheMsg')
      /\ Clear(whePipe.queue, wheMsg) => Clear(whePipe.queue, wheMsg')
      /\ Ours(wheMsg) => Clear(whePipe.queue, wheMsg') /\ ~Commands(whePipe.queue, wheMsg')
      /\ ~IsCommand(wheMsg) => (Commands(whePipe.queue, wheMsg') <=> Commands(whePipe.queue, wheMsg))
  BY <1>3, DoneOurs
<1>5. /\ IsCommand(wheMsg) => Ours(wheMsg)
      /\ Clear(whePipe.queue, wheMsg) => ~Ours(wheMsg)
  BY DEF Ours, Clear
<1>6. Ours(wheMsg) => (Commanded <=> IsCommand(wheMsg))
  <2>1. \A m : IsCommand(m) => Ours(m)
    BY DEF Ours
  <2> QED
    BY <1>3, <2>1 DEF Single, Commanded, Commands
<1> QED
  BY <1>2, <1>3, <1>4, <1>5, <1>6 DEF Commanded

LEMMA WheCommandPipes ==
  ASSUME Pipes, WheCommand
  PROVE  /\ Pipes' /\ Reported' = Reported /\ Report' = Report
         /\ IF wheMsg.by = "LC" THEN ~Commanded' /\ ~Reported ELSE Commanded' = Commanded
<1>1. /\ wheMsg.id = "CMD" /\ UNCHANGED <<lcPipe, lcMsg, setbacks>>
      /\ whePipe' = Release(whePipe, wheMsg) /\ wheMsg' = NoMsg
  BY DEF WheCommand, lcTask
<1>2. wheMsg # NoMsg
  BY <1>1 DEF NoMsg
<1>3. Ours(wheMsg) <=> wheMsg.by = "LC"
  BY <1>1 DEF Ours, IsCommand
<1>4. /\ Reported' = Reported /\ Report' = Report
      /\ lcPipe' \in [queue : Seq(Reports), count : [LcIds -> Nat]]
      /\ lcMsg' \in Reports \cup {NoMsg}
      /\ Len(lcPipe.queue)' <= 1 /\ (lcMsg' # NoMsg => lcPipe.queue' = <<>>)
      /\ lcPipe.count'["WHE_HK"] = IF Reported' THEN 1 ELSE 0
  BY <1>1, SameReports
<1>5. /\ whePipe' \in [queue : Seq(WheMessages), count : [WheIds -> Nat]]
      /\ wheMsg' \in WheMessages \cup {NoMsg}
      /\ Single(whePipe.queue, wheMsg)'
      /\ Ours(wheMsg) => /\ ~Reported /\ Clear(whePipe.queue, wheMsg)' /\ ~Commanded'
                         /\ Commanded <=> IsCommand(wheMsg)
      /\ ~Ours(wheMsg) => /\ Commanded' <=> Commanded
                          /\ Reported => Clear(whePipe.queue, wheMsg)'
  BY <1>1, <1>2, DoneWhe
<1> QED
  BY <1>1, <1>3, <1>4, <1>5 DEF Pipes, MsgTypes, OneMessage, Commanded, Commands

\* The wakeup is over; what WHE reports is all that waits for LC.
LEMMA WheWakeupPipes ==
  ASSUME Pipes, WheWakeup, instr'.charge["A"] \in Int
  PROVE  /\ Pipes' /\ ~Commanded /\ ~Commanded' /\ ~Reported
         /\ IF instr.dmg = "MAJOR" THEN ~Reported' ELSE Reported' /\ Report' = HkTlm(instr')
<1>1. /\ wheMsg.id = "1HZ" /\ UNCHANGED <<lcMsg, setbacks>>
      /\ whePipe' = Release(whePipe, wheMsg) /\ wheMsg' = NoMsg
      /\ lcPipe' = IF instr.dmg = "MAJOR" THEN lcPipe
                   ELSE Put(lcPipe, HkTlm(instr'), PipeDepth, MsgLimit)
  BY DEF WheWakeup, lcTask
<1>2. wheMsg # NoMsg
  BY <1>1 DEF NoMsg
<1>3. Ours(wheMsg) /\ ~IsCommand(wheMsg)
  BY <1>1 DEF Ours, IsCommand
<1>4. /\ whePipe' \in [queue : Seq(WheMessages), count : [WheIds -> Nat]]
      /\ wheMsg' \in WheMessages \cup {NoMsg}
      /\ Single(whePipe.queue, wheMsg)'
      /\ Ours(wheMsg) => /\ ~Reported /\ Clear(whePipe.queue, wheMsg)' /\ ~Commanded'
                         /\ Commanded <=> IsCommand(wheMsg)
  BY <1>1, <1>2, DoneWhe
<1>5. CASE instr.dmg = "MAJOR"
  <2>1. /\ Reported' = Reported
        /\ lcPipe' \in [queue : Seq(Reports), count : [LcIds -> Nat]]
        /\ lcMsg' \in Reports \cup {NoMsg}
        /\ Len(lcPipe.queue)' <= 1 /\ (lcMsg' # NoMsg => lcPipe.queue' = <<>>)
        /\ lcPipe.count'["WHE_HK"] = IF Reported' THEN 1 ELSE 0
    BY <1>1, <1>5, SameReports
  <2> QED
    BY <1>1, <1>3, <1>4, <1>5, <2>1 DEF Pipes, MsgTypes, OneMessage, Commanded, Commands
<1>6. CASE instr.dmg # "MAJOR"
  <2> DEFINE x == HkTlm(instr')
  <2>1. x \in Reports /\ x.id = "WHE_HK"
    BY ByteOf DEF HkTlm, Reports
  <2>2. lcPipe \in [queue : Seq(Reports), count : [LcIds -> Nat]] /\ "WHE_HK" \in LcIds
    BY DEF Pipes, MsgTypes, LcIds
  <2>3. lcPipe.queue = <<>> /\ lcMsg = NoMsg /\ lcPipe.count["WHE_HK"] = 0
    BY <1>3, <1>4 DEF Pipes, OneMessage, Reported
  <2>4. lcPipe' = Put(lcPipe, x, PipeDepth, MsgLimit)
    BY <1>1, <1>6
  <2>5. Admits(lcPipe, x, PipeDepth, MsgLimit)
    BY <2>1, <2>3, WheLoopAssumption DEF Admits
  <2> HIDE DEF x
  <2>6. /\ lcPipe' \in [queue : Seq(Reports), count : [LcIds -> Nat]]
        /\ lcPipe'.queue = Append(lcPipe.queue, x)
        /\ lcPipe'.count = [lcPipe.count EXCEPT !["WHE_HK"] = @ + 1]
    BY <2>1, <2>2, <2>4, <2>5, PutQueue
  <2>7. lcPipe'.queue = <<x>> /\ lcPipe'.count["WHE_HK"] = 1 /\ lcMsg' = NoMsg
    BY <1>1, <2>2, <2>3, <2>6
  <2>8. Len(<<x>>) = 1 /\ <<x>>[1] = x /\ <<x>> # <<>>
    OBVIOUS
  <2>9. Reported' /\ Report' = x /\ Len(lcPipe.queue)' = 1
    BY <2>7, <2>8 DEF Reported, Report
  <2>10. MsgTypes'
    BY <1>1, <1>4, <2>6, <2>7 DEF Pipes, MsgTypes
  <2>11. OneMessage'
    BY <1>3, <1>4, <2>7, <2>9 DEF OneMessage
  <2> QED
    BY <1>3, <1>4, <1>6, <2>9, <2>10, <2>11 DEF Pipes, x
<1> QED
  BY <1>5, <1>6

LEMMA LcTakePipes ==
  ASSUME Pipes, LcTake
  PROVE  /\ Pipes' /\ Commanded' = Commanded
         /\ Reported /\ Reported' /\ Report' = Report
<1>1. /\ lcMsg = NoMsg /\ Waiting(lcPipe) /\ UNCHANGED <<wheMsg, whePipe, setbacks>>
      /\ lcMsg' = Head(lcPipe.queue) /\ lcPipe' = Take(lcPipe)
  BY DEF LcTake, wheTask
<1>2. /\ lcPipe \in [queue : Seq(Reports), count : [LcIds -> Nat]]
      /\ lcPipe.queue \in Seq(Reports) /\ lcPipe.queue # <<>> /\ Len(lcPipe.queue) <= 1
  BY <1>1 DEF Pipes, MsgTypes, OneMessage, Waiting
<1>3. /\ lcPipe' \in [queue : Seq(Reports), count : [LcIds -> Nat]]
      /\ lcPipe'.queue = Tail(lcPipe.queue) /\ lcPipe'.count = lcPipe.count
      /\ lcMsg' \in Reports
  BY <1>1, <1>2, TakeQueue
<1>4. lcPipe'.queue = <<>> /\ lcMsg' = lcPipe.queue[1]
  BY <1>1, <1>2, <1>3
<1>5. lcMsg' # NoMsg
  BY <1>3, MessageIds
<1>6. Reported /\ Reported' /\ Report' = Report
  BY <1>1, <1>2, <1>4, <1>5 DEF Reported, Report
<1>7. MsgTypes'
  BY <1>1, <1>3 DEF Pipes, MsgTypes
<1>8. OneMessage'
  BY <1>1, <1>3, <1>4, <1>6 DEF Pipes, OneMessage
<1> QED
  BY <1>1, <1>6, <1>7, <1>8 DEF Pipes, Commanded, Commands

\* LC is done with the report, and may have sent a command.
LEMMA LcHandlePipes ==
  ASSUME AsBuilt, LcInv, LcKeeps, Pipes, LcHandle
  PROVE  /\ Pipes' /\ Reported /\ Report = lcMsg /\ ~Reported' /\ ~Commanded
         /\ Commanded' => Alarm
         /\ setbacks' = IF Alarm /\ ~Commanded' THEN setbacks + 1 ELSE setbacks
<1>1. /\ lcMsg # NoMsg /\ UNCHANGED wheMsg
      /\ lcPipe' = Release(lcPipe, lcMsg) /\ lcMsg' = NoMsg
  BY DEF LcHandle, wheTask
<1>2. /\ lcPipe \in [queue : Seq(Reports), count : [LcIds -> Nat]]
      /\ lcMsg.id = "WHE_HK" /\ "WHE_HK" \in LcIds
      /\ lcPipe.queue = <<>> /\ lcPipe.count["WHE_HK"] = 1
      /\ Reported /\ Report = lcMsg /\ setbacks \in Nat
  BY <1>1 DEF Pipes, MsgTypes, OneMessage, Reports, LcIds, Reported, Report
<1>3. /\ lcPipe' \in [queue : Seq(Reports), count : [LcIds -> Nat]]
      /\ lcPipe'.queue = lcPipe.queue
      /\ lcPipe'.count["WHE_HK"] =
           IF lcPipe.count["WHE_HK"] > 0 THEN lcPipe.count["WHE_HK"] - 1 ELSE 0
  BY <1>1, <1>2, ReleaseQueue
<1>4. ~Reported' /\ lcPipe'.queue = <<>> /\ lcPipe'.count["WHE_HK"] = 0
  BY <1>1, <1>2, <1>3 DEF Reported
<1>5. /\ Single(whePipe.queue, wheMsg) /\ Clear(whePipe.queue, wheMsg) /\ ~Commanded
      /\ whePipe \in [queue : Seq(WheMessages), count : [WheIds -> Nat]]
  <2>1. Single(whePipe.queue, wheMsg) /\ Clear(whePipe.queue, wheMsg)
    BY <1>2 DEF Pipes, OneMessage
  <2>2. \A m : IsCommand(m) => Ours(m)
    BY DEF Ours
  <2> QED
    BY <2>1, <2>2 DEF Clear, Commanded, Commands, Pipes, MsgTypes
<1>6. LcCommand \in WheMessages /\ IsCommand(LcCommand)
  BY DEF LcCommand, WheMessages, IsCommand
<1>7. /\ whePipe' \in [queue : Seq(WheMessages), count : [WheIds -> Nat]]
      /\ Single(whePipe.queue, wheMsg)' /\ setbacks' \in Nat
      /\ Commanded' => Alarm
      /\ setbacks' = IF Alarm /\ ~Commanded' THEN setbacks + 1 ELSE setbacks
  <2>1. CASE Alarm /\ Admits(whePipe, LcCommand, PipeDepth, MsgLimit)
    <3>1. whePipe' = Put(whePipe, LcCommand, PipeDepth, MsgLimit) /\ setbacks' = setbacks
      BY <2>1, LcSends DEF Pipes
    <3>2. /\ whePipe' \in [queue : Seq(WheMessages), count : [WheIds -> Nat]]
          /\ Single(whePipe.queue, wheMsg)' /\ Commanded'
      BY <1>1, <1>4, <1>5, <1>6, <2>1, <3>1, PutWhe
    <3> QED
      BY <1>2, <2>1, <3>1, <3>2
  <2>2. CASE ~(Alarm /\ Admits(whePipe, LcCommand, PipeDepth, MsgLimit))
    <3>1. whePipe' = whePipe /\ setbacks' = setbacks + IF Alarm THEN 1 ELSE 0
      BY <2>2, LcSends DEF Pipes
    <3>2. Commanded' = Commanded /\ Single(whePipe.queue, wheMsg)'
      BY <1>1, <1>5, <3>1 DEF Commanded, Commands
    <3>3. setbacks' = (IF Alarm THEN setbacks + 1 ELSE setbacks) /\ setbacks' \in Nat
      BY <1>2, <3>1
    <3> QED
      BY <1>5, <3>1, <3>2, <3>3
  <2> QED
    BY <2>1, <2>2
<1>8. MsgTypes'
  BY <1>1, <1>3, <1>7 DEF Pipes, MsgTypes
<1>9. Len(<<>>) = 0
  OBVIOUS
<1>10. OneMessage'
  BY <1>1, <1>4, <1>7, <1>9 DEF OneMessage
<1> QED
  BY <1>2, <1>4, <1>5, <1>7, <1>8, <1>10 DEF Pipes

\* The pipe of an application that starts.
LEMMA EmptyPipes ==
  /\ EmptyFor(WheIds) \in [queue : Seq(WheMessages), count : [WheIds -> Nat]]
  /\ Single(EmptyFor(WheIds).queue, NoMsg) /\ Clear(EmptyFor(WheIds).queue, NoMsg)
  /\ ~Commands(EmptyFor(WheIds).queue, NoMsg)
  /\ EmptyFor(LcIds) \in [queue : Seq(Reports), count : [LcIds -> Nat]]
  /\ EmptyFor(LcIds).queue = <<>> /\ EmptyFor(LcIds).count["WHE_HK"] = 0
<1>1. /\ EmptyFor(WheIds) \in [queue : Seq(WheMessages), count : [WheIds -> Nat]]
      /\ EmptyFor(WheIds).queue = <<>>
  BY DEF EmptyFor
<1>2. /\ EmptyFor(LcIds) \in [queue : Seq(Reports), count : [LcIds -> Nat]]
      /\ EmptyFor(LcIds).queue = <<>> /\ EmptyFor(LcIds).count["WHE_HK"] = 0
  BY DEF EmptyFor, LcIds
<1>3. ~Ours(NoMsg) /\ ~IsCommand(NoMsg) /\ 1 .. Len(<<>>) = {}
  BY MessageIds DEF Ours
<1> QED
  BY <1>1, <1>2, <1>3 DEF Single, Clear, Commands

LEMMA RestartWhePipes ==
  ASSUME Pipes, RestartWhe
  PROVE  Pipes' /\ ~Commanded' /\ Reported' = Reported /\ Report' = Report
<1>1. /\ whePipe' = EmptyFor(WheIds) /\ wheMsg' = NoMsg
      /\ UNCHANGED <<lcPipe, lcMsg, setbacks>>
  BY DEF RestartWhe, lcTask
<1>2. /\ Reported' = Reported /\ Report' = Report
      /\ lcPipe' \in [queue : Seq(Reports), count : [LcIds -> Nat]]
      /\ lcMsg' \in Reports \cup {NoMsg}
      /\ Len(lcPipe.queue)' <= 1 /\ (lcMsg' # NoMsg => lcPipe.queue' = <<>>)
      /\ lcPipe.count'["WHE_HK"] = IF Reported' THEN 1 ELSE 0
  BY <1>1, SameReports
<1> QED
  BY <1>1, <1>2, EmptyPipes DEF Pipes, MsgTypes, OneMessage, Commanded

LEMMA RestartLcPipes ==
  ASSUME Pipes, RestartLc
  PROVE  Pipes' /\ Commanded' = Commanded /\ ~Reported'
<1>1. /\ lcPipe' = EmptyFor(LcIds) /\ lcMsg' = NoMsg /\ setbacks' = setbacks + 1
      /\ UNCHANGED <<wheMsg, whePipe>>
  BY DEF RestartLc, wheTask
<1>2. ~Reported' /\ Commanded' = Commanded
  BY <1>1, EmptyPipes DEF Reported, Commanded, Commands
<1>3. MsgTypes'
  BY <1>1, EmptyPipes DEF Pipes, MsgTypes
<1>4. Len(<<>>) = 0
  OBVIOUS
<1>5. OneMessage'
  BY <1>1, <1>2, <1>4, EmptyPipes DEF Pipes, OneMessage
<1> QED
  BY <1>2, <1>3, <1>5 DEF Pipes

(***************************************************************************)
(* The steps of the loop, as far as the invariants tell them apart.        *)
(***************************************************************************)

SamePhase ==
  (Commanded' <=> Commanded) /\ (Reported' <=> Reported) /\ (Reported => Report' = Report)

\* A message is sent or taken, or a destroyed instrument woken.
Rests == SamePhase /\ UNCHANGED <<instr, lcVars, setbacks>>

\* WHE works, and reports.
Wakes ==
  /\ instr.dmg # "MAJOR" /\ ProcessWakeup
  /\ ~Commanded /\ ~Commanded' /\ ~Reported /\ Reported' /\ Report' = HkTlm(instr')
  /\ UNCHANGED <<lcVars, setbacks>>

\* WHE executes a command: that of LC, or one of the ground.
Obeys ==
  /\ Commanding(instr, instr') /\ UNCHANGED <<lcVars, setbacks>>
  /\ \/ SamePhase
     \/ /\ ~Reported /\ ~Reported' /\ ~Commanded'
        /\ Accepting(instr) => instr'.cap["A"] # "CHARGING"

\* LC asks for the last alarm, and hears the next.
Hears ==
  /\ Reported /\ ~Reported' /\ ~Commanded /\ (Commanded' => Alarm)
  /\ setbacks' = IF Alarm /\ ~Commanded' THEN setbacks + 1 ELSE setbacks
  /\ Alarm' <=> Loud(Report.data)
  /\ LcKeeps' /\ UNCHANGED instr

NewWhe ==
  /\ ~Commanded' /\ Reported' = Reported /\ Report' = Report
  /\ instr' \in Fresh /\ UNCHANGED <<lcVars, setbacks>>

NewLc ==
  /\ Commanded' = Commanded /\ ~Reported' /\ ~Alarm' /\ LcKeeps'
  /\ setbacks' = setbacks + 1 /\ UNCHANGED instr

LEMMA LoopMoves ==
  ASSUME AsBuilt, LoopInv, [Next]_vars
  PROVE  Pipes' /\ (Rests \/ Wakes \/ Obeys \/ Hears \/ NewWhe \/ NewLc)
<1>0. Pipes /\ Inv /\ LcInv /\ LcKeeps
  BY DEF LoopInv, Pipes
<1>1. CASE Tick
  BY <1>0, <1>1, TickPipes DEF Tick, wheTask, lcTask, Rests, SamePhase
<1>2. CASE GroundCommand
  BY <1>0, <1>2, GroundPipes DEF GroundCommand, wheTask, lcTask, Rests, SamePhase
<1>3. CASE WheTake
  BY <1>0, <1>3, WheTakePipes DEF WheTake, lcTask, Rests, SamePhase
<1>4. CASE WheWakeup
  <2>1. ProcessWakeup /\ UNCHANGED <<lcVars, setbacks>>
    BY <1>4 DEF WheWakeup, lcTask
  <2>2. instr'.charge["A"] \in Int
    <3>1. Inv'
      BY <1>0, <1>4, WheStepInv DEF WheNext, WheWakeup
    <3> QED
      BY <3>1, Types DEF Inv, Done, Caps
  <2>3. /\ Pipes' /\ ~Commanded /\ ~Commanded' /\ ~Reported
        /\ IF instr.dmg = "MAJOR" THEN ~Reported' ELSE Reported' /\ Report' = HkTlm(instr')
    BY <1>0, <1>4, <2>2, WheWakeupPipes
  <2>4. CASE instr.dmg = "MAJOR"
    BY <2>1, <2>3, <2>4 DEF ProcessWakeup, Rests, SamePhase
  <2>5. CASE instr.dmg # "MAJOR"
    BY <2>1, <2>3, <2>5 DEF Wakes
  <2> QED
    BY <2>4, <2>5
<1>5. CASE WheCommand
  <2>1. /\ wheMsg.id = "CMD" /\ ProcessGroundCommand(wheMsg.cmd)
        /\ UNCHANGED <<lcVars, setbacks>>
    BY <1>5 DEF WheCommand, lcTask
  <2>2. /\ wheMsg.cmd \in WheCommands
        /\ wheMsg.by = "LC" => wheMsg.cmd = DischargeA
    BY <1>0, <2>1, CommandsKnown DEF Pipes, MsgTypes, WheMessages, NoMsg
  <2>3. /\ Commanding(instr, instr')
        /\ wheMsg.cmd = DischargeA /\ Accepting(instr) => instr'.cap["A"] # "CHARGING"
    BY <1>0, <2>1, <2>2, CommandMoves
  <2>4. /\ Pipes' /\ Reported' = Reported /\ Report' = Report
        /\ IF wheMsg.by = "LC" THEN ~Commanded' /\ ~Reported ELSE Commanded' = Commanded
    BY <1>0, <1>5, WheCommandPipes
  <2> QED
    BY <2>1, <2>2, <2>3, <2>4 DEF Obeys, SamePhase
<1>6. CASE LcTake
  BY <1>0, <1>6, LcTakePipes DEF LcTake, wheTask, Rests, SamePhase
<1>7. CASE LcHandle
  <2>1. /\ Pipes' /\ Reported /\ Report = lcMsg /\ ~Reported' /\ ~Commanded
        /\ Commanded' => Alarm
        /\ setbacks' = IF Alarm /\ ~Commanded' THEN setbacks + 1 ELSE setbacks
    BY <1>0, <1>7, LcHandlePipes
  <2>2. LcKeeps' /\ (Alarm' <=> Loud(lcMsg.data))
    BY <1>0, <1>7, LcHears DEF Pipes
  <2>3. UNCHANGED instr
    BY <1>7 DEF LcHandle, wheTask
  <2> QED
    BY <2>1, <2>2, <2>3 DEF Hears
<1>8. CASE RestartWhe
  BY <1>0, <1>8, RestartWhePipes DEF RestartWhe, WheRestart, lcTask, NewWhe
<1>9. CASE RestartLc
  <2>1. LcKeeps' /\ ~Alarm'
    BY <1>9 DEF RestartLc, LcRestart, LcKeeps, AsBuilt, FreshWRT, FreshART, WheADT, Alarm
  <2> QED
    BY <1>0, <1>9, <2>1, RestartLcPipes DEF RestartLc, wheTask, NewLc
<1>10. CASE UNCHANGED vars
  BY <1>0, <1>10
     DEF vars, wheTask, lcTask, Pipes, MsgTypes, OneMessage, Rests, SamePhase,
         Commanded, Commands, Reported, Report
<1> QED
  BY <1>1, <1>2, <1>3, <1>4, <1>5, <1>6, <1>7, <1>8, <1>9, <1>10 DEF Next, WheStep, LcStep

(***************************************************************************)
(* The report.                                                             *)
(***************************************************************************)

LEMMA FreshInstrument ==
  ASSUME NEW w \in Fresh
  PROVE  w.sbc = "OFF" /\ w.pwr = 0 /\ w.charge["A"] = 0 /\ w.cap["A"] = "CHARGING"
BY DEF Fresh, Caps

LEMMA ReportStep ==
  ASSUME AsBuilt, LoopInv, [Next]_vars
  PROVE  ReportTells'
<1>1. ReportTells /\ Inv /\ Inv' /\ 0 # 1
  BY LoopMoves, WheActs, WheStepInv DEF LoopInv
<1>2. CASE Rests
  BY <1>1, <1>2 DEF Rests, SamePhase, ReportTells, Unseen, ChargeA
<1>3. CASE Wakes
  <2>1. Report'.data = ChargeA' % ByteMod
    BY <1>3 DEF Wakes, HkTlm, ChargeA
  <2>2. instr'.sbc = "OFF" => ChargeA' = 0
    BY <1>1, <1>3, WakeupMoves DEF Wakes, ReportTells, ChargeA
  <2> QED
    BY <2>1, <2>2 DEF ReportTells
<1>4. CASE Obeys
  <2>1. Unseen => Unseen'
    BY <1>4 DEF Obeys, Commanding, Unseen, AsBuilt
  <2>2. /\ ChargeA' = ChargeA /\ (instr'.sbc = "OFF" => instr.sbc = "OFF")
        /\ Reported' => Reported /\ Report' = Report
    BY <1>4 DEF Obeys, Commanding, ChargeA, SamePhase
  <2> QED
    BY <1>1, <2>1, <2>2 DEF ReportTells
<1>5. CASE Hears
  BY <1>1, <1>5 DEF Hears, ReportTells, ChargeA
<1>6. CASE NewWhe
  BY <1>6, FreshInstrument DEF NewWhe, ReportTells, Unseen, ChargeA
<1>7. CASE NewLc
  BY <1>1, <1>7 DEF NewLc, ReportTells, ChargeA
<1> QED
  BY <1>2, <1>3, <1>4, <1>5, <1>6, <1>7, LoopMoves

LEMMA LoopStep ==
  ASSUME AsBuilt, LoopInv, [Next]_vars
  PROVE  LoopInv'
<1>1. MsgTypes /\ Inv /\ LcInv /\ LcKeeps
  BY DEF LoopInv
<1>2. Inv'
  BY <1>1, WheActs, WheStepInv
<1>3. LcInv'
  <2>1. LcIds \cap OwnIds = {}
    BY DEF LcIds, OwnIds
  <2> QED
    BY <1>1, <2>1, LcActs, LcKeepsInv
<1>4. Pipes' /\ LcKeeps'
  <2>1. UNCHANGED lcVars => LcKeeps'
    BY <1>1 DEF lcVars, LcKeeps
  <2> QED
    BY <2>1, LoopMoves DEF Rests, Wakes, Obeys, Hears, NewWhe, NewLc
<1> QED
  BY <1>2, <1>3, <1>4, ReportStep DEF LoopInv, Pipes

LEMMA LoopStart ==
  ASSUME AsBuilt, Init
  PROVE  LoopInv /\ ~Alarm /\ ~Reported /\ ~Commanded /\ instr \in Fresh
<1>1. Inv /\ instr \in Fresh
  BY FreshDone DEF Init, WheInit, Inv
<1>2. LcInv
  BY LcStart DEF Init
<1>3. LcKeeps /\ ~Alarm
  BY DEF Init, LcInit, LcKeeps, AsBuilt, FreshWRT, FreshART, WheADT, Alarm
<1>4. ~Reported /\ ~Commanded
  BY EmptyPipes DEF Init, Reported, Commanded
<1>5. MsgTypes
  BY EmptyPipes DEF Init, MsgTypes
<1>6. Len(<<>>) = 0
  OBVIOUS
<1>7. OneMessage
  BY <1>4, <1>6, EmptyPipes DEF Init, OneMessage
<1>8. ReportTells
  BY <1>1, <1>4, FreshInstrument DEF ReportTells, ChargeA
<1> QED
  BY <1>1, <1>2, <1>3, <1>4, <1>5, <1>7, <1>8 DEF LoopInv

LEMMA LoopInvariance == ASSUME AsBuilt PROVE Spec => []LoopInv
<1>1. Init => LoopInv
  BY LoopStart
<1>2. LoopInv /\ [Next]_vars => LoopInv'
  BY LoopStep
<1> QED
  BY <1>1, <1>2, PTL DEF Spec

(***************************************************************************)
(* LC holds the charge of capacitor A.                                     *)
(***************************************************************************)

\* The bound leaves two gains to the threshold, and two to every setback.
Numbers ==
  /\ ChargeA \in Int /\ setbacks \in Nat /\ ChargeA <= ChargeMax
  /\ GainAlone \in Nat /\ GainShared \in Nat /\ Threshold \in Nat /\ 0 < Threshold
  /\ Bound \in Nat /\ Threshold + GainAlone + GainAlone <= Bound
  /\ Ahead \in Nat /\ Ahead <= GainAlone + GainAlone
  /\ ChargeMax \in Int /\ ByteMod \in Nat

LEMMA NumbersHold == AsBuilt /\ LoopInv => Numbers
<1> SUFFICES ASSUME AsBuilt, LoopInv PROVE Numbers
  OBVIOUS
<1>1. /\ instr \in Instruments /\ "A" \in Caps /\ setbacks \in Nat /\ Within(instr, "A")
      /\ GainAlone \in Nat /\ GainShared \in Nat /\ Threshold \in Nat /\ 0 < Threshold
      /\ ByteMod \in Nat /\ FullCharge \in Nat /\ Percent \in Nat
  BY WheAssumption, LcAssumption, WheLoopAssumption
     DEF LoopInv, Inv, Done, Caps, MsgTypes, AsBuilt
<1>2. ChargeA \in Int /\ ChargeA <= ChargeMax /\ ChargeMax \in Int
  BY <1>1, Types DEF ChargeA, Within, ChargeMax
<1>3. Bound \in Nat /\ Threshold + GainAlone + GainAlone <= Bound
  <2> DEFINE p == GainAlone * setbacks
  <2>1. p \in Nat /\ 2 * GainAlone * (1 + setbacks) = 2 * GainAlone + 2 * p
    BY <1>1
  <2> HIDE DEF p
  <2> QED
    BY <1>1, <2>1 DEF Bound
<1>4. Ahead \in Nat /\ Ahead <= GainAlone + GainAlone
  BY <1>1 DEF Ahead
<1> QED
  BY <1>1, <1>2, <1>3, <1>4 DEF Numbers

LEMMA NumbersNext == ASSUME AsBuilt PROVE LoopInv' => Numbers'
<1>1. LoopInv => Numbers
  BY NumbersHold
<1> QED
  BY <1>1, PTL

LEMMA BoundStep ==
  ASSUME AsBuilt, LoopInv, setbacks' = setbacks + 1
  PROVE  Bound' = Bound + GainAlone + GainAlone
<1> DEFINE p == 2 * GainAlone * (1 + setbacks)
<1>1. GainAlone \in Nat /\ setbacks \in Nat /\ Threshold \in Nat
  BY NumbersHold DEF Numbers
<1>2. p \in Nat /\ 2 * GainAlone * (1 + (setbacks + 1)) = p + GainAlone + GainAlone
  BY <1>1
<1>3. Bound = Threshold + p /\ Bound' = Threshold + 2 * GainAlone * (1 + (setbacks + 1))
  BY DEF Bound
<1> HIDE DEF p
<1> QED
  BY <1>1, <1>2, <1>3

LEMMA HeldStep ==
  ASSUME AsBuilt, LoopInv, Held, [Next]_vars
  PROVE  Held'
<1> DEFINE Charging == instr.cap["A"] = "CHARGING"
<1>0. LoopInv' /\ Inv /\ Inv' /\ Numbers /\ Numbers'
  BY LoopStep, NumbersHold, NumbersNext DEF LoopInv
<1>a. /\ {ChargeA, Ahead, Bound, GainAlone, Threshold} \subseteq Int
      /\ ChargeA' \in Int /\ Ahead' \in Int /\ Bound' \in Int
  BY <1>0 DEF Numbers
<1>b. PICK c \in Int, a \in Int, b \in Int, c1 \in Int, a1 \in Int, b1 \in Int,
           g \in Int, t \in Int :
        /\ c = ChargeA /\ a = Ahead /\ b = Bound /\ g = GainAlone /\ t = Threshold
        /\ c1 = ChargeA' /\ a1 = Ahead' /\ b1 = Bound'
  BY <1>a
<1>1. SUFFICES ASSUME Readable', instr'.sbc # "ERROR"
               PROVE  c1 < b1 /\ (Charging' => c1 + a1 < b1)
  BY <1>b DEF Held
<1> HIDE DEF Charging
<1>2. /\ 0 <= g /\ 0 < t /\ t + g + g <= b /\ t + g + g <= b1
      /\ 0 <= a /\ a <= g + g /\ 0 <= a1 /\ a1 <= g + g
  BY <1>0, <1>b DEF Numbers
<1>3. /\ setbacks' = setbacks \/ setbacks' = setbacks + 1
      /\ setbacks' = setbacks => b1 = b
      /\ setbacks' = setbacks + 1 => b1 = b + g + g
  <2>1. setbacks' \in {setbacks, setbacks + 1}
    BY LoopMoves DEF Rests, Wakes, Obeys, Hears, NewWhe, NewLc
  <2>2. setbacks' = setbacks => Bound' = Bound
    BY DEF Bound
  <2>3. setbacks' = setbacks + 1 => Bound' = Bound + GainAlone + GainAlone
    BY BoundStep
  <2> QED
    BY <1>b, <2>1, <2>2, <2>3
<1>4. b <= b1
  BY <1>2, <1>3
<1>5. Readable
  <2>1. ByteMod \in Int /\ (2 * ChargeMax < ByteMod \/ 2 * b1 <= ByteMod)
    BY <1>1, <1>b, LcAssumption DEF Readable
  <2>2. 2 * b1 <= ByteMod => 2 * b <= ByteMod
    BY <1>4, <2>1
  <2> QED
    BY <1>b, <2>1, <2>2 DEF Readable
<1>6. instr.sbc # "ERROR" => c < b /\ (Charging => c + a < b)
  BY <1>5, <1>b DEF Held, Charging
\* A charge of zero is below every bound.
<1>7. ASSUME c1 <= 0 PROVE c1 < b1 /\ (Charging' => c1 + a1 < b1)
  BY <1>2, <1>7
<1>8. CASE Rests
  <2>1. /\ instr.sbc # "ERROR" /\ (Charging' <=> Charging)
        /\ c1 = c /\ a1 = a /\ b1 = b
    BY <1>1, <1>3, <1>8, <1>b DEF Rests, SamePhase, ChargeA, Ahead, Alarm, lcVars, Charging
  <2> QED
    BY <1>6, <2>1
<1>9. CASE Wakes
  <2>1. a = a1 + g /\ b1 = b
    <3>1. UNCHANGED <<wrt, setbacks>>
      BY <1>9 DEF Wakes, lcVars
    <3> DEFINE k == IF Alarm THEN 0 ELSE GainAlone
    <3>2. k \in Int /\ k' = k
      BY <1>a, <3>1 DEF Alarm
    <3>3. Ahead = k + GainAlone /\ Ahead' = k' + 0
      BY <1>9 DEF Wakes, Ahead
    <3> HIDE DEF k
    <3>4. a = k + g /\ a1 = k + 0
      BY <1>b, <3>2, <3>3
    <3> QED
      BY <1>3, <3>1, <3>2, <3>4
  <2>2. CASE instr.sbc = "OFF" /\ instr'.charge = instr.charge
    <3>1. c1 = 0
      BY <1>b, <2>2 DEF LoopInv, ReportTells, ChargeA
    <3> QED
      BY <1>7, <3>1
  <2>3. CASE instr.sbc # "ERROR" /\ Drawn(instr, instr', "A")
    <3>1. c < b /\ (Charging => c + a < b)
      BY <1>6, <2>3
    <3>2. instr.cap["A"] \in {"CHARGING", "DISCHARGING", "LEAKING", "BROKEN"}
      BY <1>0, Types DEF Inv, Done, Caps
    <3>3. CASE Charging /\ c1 <= c + g
      BY <1>2, <2>1, <3>1, <3>3
    <3>4. CASE c1 <= c /\ ~Charging'
      BY <1>2, <2>1, <3>1, <3>4
    <3>5. CASE c1 <= g
      BY <1>2, <2>1, <3>5
    <3> QED
      BY <1>b, <2>3, <3>2, <3>3, <3>4, <3>5 DEF Drawn, ChargeA, Charging
  <2> QED
    BY <1>0, <1>1, <1>9, <2>2, <2>3, WakeupMoves DEF Wakes
<1>10. CASE Obeys
  <2>1. c1 = c /\ b1 = b /\ instr.sbc # "ERROR" /\ (Charging' => Charging)
    BY <1>1, <1>3, <1>10, <1>b DEF Obeys, Commanding, ChargeA, Charging
  <2>2. CASE SamePhase
    <3>1. a1 = a
      BY <1>10, <1>b, <2>2 DEF Obeys, SamePhase, Ahead, Alarm, lcVars
    <3> QED
      BY <1>6, <2>1, <3>1
  <2>3. CASE Accepting(instr) => ~Charging'
    <3>1. CASE ~Charging'
      BY <1>6, <2>1, <3>1
    <3>2. CASE ~Accepting(instr)
      <4>1. c1 = 0
        BY <1>b, <2>1, <3>2 DEF Accepting, LoopInv, ReportTells
      <4> QED
        BY <1>7, <4>1
    <3> QED
      BY <2>3, <3>1, <3>2
  <2> QED
    BY <1>10, <2>2, <2>3 DEF Obeys, Charging
<1>11. CASE Hears
  <2>1. c1 = c /\ instr.sbc # "ERROR" /\ (Charging' <=> Charging)
    BY <1>1, <1>11, <1>b DEF Hears, ChargeA, Charging
  <2>2. c < b /\ (Charging => c + a < b)
    BY <1>6, <2>1
  <2>3. /\ a = IF Alarm THEN 0 ELSE g
        /\ a1 = IF Commanded' THEN 0 ELSE (IF Alarm' THEN 0 ELSE g) + g
    <3>1. Ahead = (IF Alarm THEN 0 ELSE g) + 0
      BY <1>11, <1>b DEF Hears, Ahead
    <3>2. Ahead' = IF Commanded' THEN 0 ELSE (IF Alarm' THEN 0 ELSE g) + g
      BY <1>11, <1>b DEF Hears, Ahead
    <3> QED
      BY <1>b, <3>1, <3>2
  <2>4. CASE Commanded'
    <3>1. a1 = 0
      BY <2>3, <2>4
    <3> QED
      BY <1>2, <1>4, <2>1, <2>2, <3>1
  <2>5. CASE ~Commanded' /\ Alarm
    <3>1. b1 = b + g + g
      BY <1>3, <1>11, <2>5 DEF Hears
    <3> QED
      BY <1>2, <2>1, <2>2, <3>1
  <2>6. CASE ~Commanded' /\ ~Alarm /\ Alarm'
    <3>1. a = g /\ a1 = g
      BY <2>3, <2>6
    <3> QED
      BY <1>4, <2>1, <2>2, <3>1
  <2>7. CASE ~Commanded' /\ ~Alarm /\ ~Alarm'
    \* The charge was below the threshold when it was reported.
    <3>1. c < t
      <4>1. CASE instr.sbc = "OFF"
        BY <1>2, <1>b, <4>1 DEF LoopInv, ReportTells
      <4>2. CASE instr.sbc # "OFF"
        <5>1. Report.data = ChargeA % ByteMod
          BY <1>11, <4>2 DEF Hears, LoopInv, ReportTells, Unseen
        <5>2. ~Loud(c % ByteMod)
          BY <1>11, <1>b, <2>7, <5>1 DEF Hears
        <5>3. 2 * c < ByteMod
          <6>1. ChargeMax \in Int /\ ByteMod \in Int /\ c <= ChargeMax
            BY <1>0, <1>b DEF Numbers
          <6>2. 2 * ChargeMax < ByteMod \/ 2 * b <= ByteMod
            BY <1>5, <1>b DEF Readable
          <6> QED
            BY <2>2, <6>1, <6>2
        <5> QED
          BY <1>b, <5>2, <5>3, Reading
      <4> QED
        BY <4>1, <4>2
    <3> QED
      BY <1>2, <1>4, <2>1, <2>2, <3>1
  <2> QED
    BY <2>4, <2>5, <2>6, <2>7
<1>12. CASE NewWhe
  <2>1. c1 = 0
    BY <1>12, <1>b, FreshInstrument DEF NewWhe, ChargeA
  <2> QED
    BY <1>7, <2>1
<1>13. CASE NewLc
  <2>1. /\ c1 = c /\ instr.sbc # "ERROR" /\ (Charging' <=> Charging)
        /\ b1 = b + g + g
    BY <1>1, <1>3, <1>13, <1>b DEF NewLc, ChargeA, Charging
  <2> QED
    BY <1>2, <1>6, <2>1
<1> QED
  BY <1>8, <1>9, <1>10, <1>11, <1>12, <1>13, LoopMoves

(***************************************************************************)
(* LC discharges what it saw charged.                                      *)
(***************************************************************************)

\* A charge is never overdrawn so far that its byte reads as a charge.
LEMMA Overdrawn ==
  ASSUME AsBuilt, Distinct, LoopInv
  PROVE  0 <= 2 * ChargeA + ByteMod
<1> DEFINE n == instr.dmgCnt
<1>1. /\ n \in Nat /\ n <= DamageMax /\ DamageMax \in Nat /\ ObsDrain \in Nat
      /\ ChargeA \in Int /\ 0 <= ChargeA + Drained(n)
  BY Types, WheAssumption DEF LoopInv, Inv, Done, Within, Caps, ChargeA, DamageMax
<1>2. PICK k \in Nat : DamageMax = n + k
  <2>1. DamageMax - n \in Nat /\ DamageMax = n + (DamageMax - n)
    BY <1>1
  <2> QED
    BY <2>1
<1> HIDE DEF n
<1>3. Drained(n) \in Int /\ Drained(DamageMax) \in Int /\ Drained(n) <= Drained(DamageMax)
  <2>1. ObsDrain * n \in Nat /\ ObsDrain * k \in Nat /\ ObsDrain * (n + k) = ObsDrain * n + ObsDrain * k
    BY <1>1, <1>2
  <2> QED
    BY <1>2, <2>1 DEF Drained
<1> QED
  BY <1>1, <1>3, LcAssumption DEF Distinct

LEMMA DeservedStep ==
  ASSUME AsBuilt, Distinct, LoopInv, Deserved, [Next]_vars
  PROVE  Deserved'
<1> DEFINE Charging == instr.cap["A"] = "CHARGING"
           Enough == ChargeA + ObsDrain >= Threshold + GainShared
<1>0. LoopInv' /\ Inv /\ Inv' /\ Numbers /\ Numbers'
  BY LoopStep, NumbersHold, NumbersNext DEF LoopInv
<1>1. /\ Alarm /\ ~Reported => Unseen \/ ChargeA >= Threshold
      /\ Commanded \/ (Reported /\ Alarm) => (Accepting(instr) /\ Charging => Enough)
  BY DEF Deserved, Gained
<1>2. SUFFICES /\ Alarm' /\ ~Reported' => Unseen' \/ ChargeA' >= Threshold
               /\ Commanded' \/ (Reported' /\ Alarm')
                    => (Accepting(instr') /\ Charging' => Enough')
  BY DEF Deserved, Gained
<1>3. CASE Rests
  BY <1>1, <1>3 DEF Rests, SamePhase, Alarm, Unseen, ChargeA, lcVars
<1>4. CASE Wakes
  <2>1. SUFFICES ASSUME Alarm', Accepting(instr'), Charging' PROVE Enough'
    BY <1>4 DEF Wakes
  <2>2. /\ Alarm /\ instr'.sbc \notin {"OFF", "ERROR"}
    BY <1>4, <2>1 DEF Wakes, Alarm, lcVars, Accepting
  <2>3. ~Unseen /\ Drawn(instr, instr', "A")
    BY <1>0, <1>4, <2>2, WakeupMoves DEF Wakes, Unseen
  <2>4. ChargeA >= Threshold
    BY <1>1, <1>4, <2>2, <2>3 DEF Wakes
  <2>5. {ChargeA, Threshold, GainShared, ObsDrain, DischargeStep} \subseteq Int /\ ChargeA' \in Int
    BY <1>0, WheAssumption DEF Numbers
  <2>6. instr.cap["A"] = "CHARGING"
    <3>1. instr.cap["A"] \in {"CHARGING", "DISCHARGING", "LEAKING", "BROKEN"}
      BY <1>0, Types DEF Inv, Done, Caps
    <3>2. ~(ChargeA <= DischargeStep)
      BY <2>4, <2>5 DEF Distinct
    <3> QED
      BY <2>1, <2>3, <3>1, <3>2 DEF Drawn, ChargeA
  <2>7. ChargeA + GainShared <= ChargeA' + ObsDrain
    BY <2>3, <2>6 DEF Drawn, ChargeA
  <2>8. PICK c \in Int, c1 \in Int, t \in Int, s \in Int, d \in Int :
          c = ChargeA /\ c1 = ChargeA' /\ t = Threshold /\ s = GainShared /\ d = ObsDrain
    BY <2>5
  <2>9. c1 + d >= t + s
    <3>1. c >= t /\ c + s <= c1 + d
      BY <2>4, <2>7, <2>8
    <3> QED
      BY <3>1
  <2> QED
    BY <2>8, <2>9
<1>5. CASE Obeys
  <2>1. /\ ChargeA' = ChargeA /\ (Alarm' <=> Alarm) /\ (Charging' => Charging)
        /\ Accepting(instr') => Accepting(instr)
        /\ Unseen => Unseen'
    BY <1>5 DEF Obeys, Commanding, ChargeA, Alarm, lcVars, Accepting, Unseen, AsBuilt
  <2> HIDE DEF Charging
  <2> QED
    BY <1>1, <1>5, <2>1 DEF Obeys, SamePhase
<1>6. CASE Hears
  <2>1. ChargeA' = ChargeA /\ (Unseen' <=> Unseen) /\ instr' = instr
    BY <1>6 DEF Hears, ChargeA, Unseen
  <2>2. ASSUME Alarm' PROVE Unseen \/ ChargeA >= Threshold
    <3>1. SUFFICES ASSUME ~Unseen PROVE ChargeA >= Threshold
      OBVIOUS
    <3>2. Loud(ChargeA % ByteMod)
      BY <1>6, <2>2, <3>1 DEF Hears, LoopInv, ReportTells
    <3>3. ChargeA \in Int /\ Threshold \in Int
      BY <1>0 DEF Numbers
    <3>4. Threshold <= ChargeA
      BY <3>2, <3>3, Overdrawn, Reading
    <3> QED
      BY <3>3, <3>4
  <2> QED
    BY <1>1, <1>6, <2>1, <2>2 DEF Hears
<1>7. CASE NewWhe
  BY <1>7, FreshInstrument DEF NewWhe, Unseen, Accepting
<1>8. CASE NewLc
  BY <1>1, <1>8 DEF NewLc, ChargeA
<1> QED
  BY <1>3, <1>4, <1>5, <1>6, <1>7, <1>8, LoopMoves

(***************************************************************************)
(* The theorems.                                                           *)
(***************************************************************************)

\* WHE is in the loop what it is alone: WHE_TaskPipe sees no message that does
\* not wake it or hold a command it knows.
THEOREM LoopRunsWhe == ASSUME AsBuilt PROVE Spec => WheSpec
<1>1. Init => WheInit
  BY DEF Init
<1>2. LoopInv /\ [Next]_vars => [WheNext]_instr
  BY WheActs DEF LoopInv
<1> QED
  BY <1>1, <1>2, LoopInvariance, PTL DEF Spec, WheSpec

\* LC is in the loop what it is alone: LC_AppPipe sees the housekeeping of WHE.
THEOREM LoopRunsLc == ASSUME AsBuilt PROVE Spec => LcSpec(LcIds, Bytes)
<1>1. Init => LcInit
  BY DEF Init
<1>2. LoopInv /\ [Next]_vars => [LcNext(LcIds, Bytes)]_lcVars
  BY LcActs DEF LoopInv
<1> QED
  BY <1>1, <1>2, LoopInvariance, PTL DEF Spec, LcSpec

\* LC holds the charge of capacitor A below the bound its delays, lost commands
\* and restarts allow, as long as a signed byte tells the charges up to there.
THEOREM LoopHoldsCharge == ASSUME AsBuilt PROVE Spec => [](Readable => ChargeIsHeld)
<1>1. Init => HeldInv
  <2> SUFFICES ASSUME Init PROVE HeldInv
    OBVIOUS
  <2>1. LoopInv /\ ~Alarm /\ ~Reported /\ ~Commanded /\ instr \in Fresh
    BY LoopStart
  <2>2. ChargeA = 0 /\ Numbers
    BY <2>1, FreshInstrument, NumbersHold DEF ChargeA
  <2>3. ChargeA < Bound /\ ChargeA + Ahead < Bound
    BY <2>2 DEF Numbers
  <2> QED
    BY <2>1, <2>3 DEF HeldInv, Held
<1>2. HeldInv /\ [Next]_vars => HeldInv'
  BY LoopStep, HeldStep DEF HeldInv
<1>3. HeldInv => (Readable => ChargeIsHeld)
  BY DEF HeldInv, Held, ChargeIsHeld, ChargeA, Bound
<1> QED
  BY <1>1, <1>2, <1>3, PTL DEF Spec

\* With the numbers of the code it does, until LC was set back more than seven
\* times.
THEOREM LoopHoldsChargeInFlight ==
  ASSUME AsBuilt, Threshold = 95, GainAlone = 2, ByteMod = 256
  PROVE  Spec => [](setbacks <= 7 => ChargeIsHeld)
<1>1. LoopInv /\ (Readable => ChargeIsHeld) => (setbacks <= 7 => ChargeIsHeld)
  <2>1. LoopInv /\ setbacks <= 7 => Readable
    <3> SUFFICES ASSUME LoopInv, setbacks <= 7 PROVE 2 * Bound <= ByteMod
      BY DEF Readable
    <3>1. setbacks \in Nat /\ Bound = 95 + 4 * (1 + setbacks)
      BY DEF LoopInv, MsgTypes, Bound
    <3> QED
      BY <3>1
  <2> QED
    BY <2>1
<1> QED
  BY <1>1, LoopInvariance, LoopHoldsCharge, PTL

\* A command LC sent starts no discharge that the charge did not ask for.
THEOREM LoopDeservesDischarge ==
  ASSUME AsBuilt, Distinct PROVE Spec => DischargeIsDeserved
<1>1. Init => DeservedInv
  <2> SUFFICES ASSUME Init PROVE DeservedInv
    OBVIOUS
  <2>1. LoopInv /\ ~Alarm /\ ~Reported /\ ~Commanded
    BY LoopStart
  <2> QED
    BY <2>1 DEF DeservedInv, Deserved
<1>2. DeservedInv /\ [Next]_vars => DeservedInv'
  BY LoopStep, DeservedStep DEF DeservedInv
<1>3. DeservedInv /\ [Next]_vars =>
        [(/\ WheCommand /\ wheMsg.by = "LC"
          /\ instr.cap["A"] = "CHARGING" /\ instr'.cap["A"] = "DISCHARGING")
            => instr.charge["A"] + ObsDrain >= Threshold + GainShared]_vars
  <2> SUFFICES ASSUME DeservedInv, WheCommand, wheMsg.by = "LC", instr.cap["A"] = "CHARGING",
                      instr'.cap["A"] = "DISCHARGING"
               PROVE  instr.charge["A"] + ObsDrain >= Threshold + GainShared
    OBVIOUS
  <2>1. Inv /\ MsgTypes /\ wheMsg.id = "CMD" /\ ProcessGroundCommand(wheMsg.cmd)
    BY DEF DeservedInv, LoopInv, WheCommand
  <2>2. Commanded
    BY <2>1 DEF Commanded, Commands, IsCommand
  <2>3. wheMsg.cmd = DischargeA
    BY <2>1 DEF MsgTypes, WheMessages, NoMsg
  <2>4. Accepting(instr)
    BY <2>1, <2>3 DEF ProcessGroundCommand, CapCmd, DischargeA
  <2> QED
    BY <2>2, <2>4 DEF DeservedInv, Deserved, Gained, ChargeA
<1> QED
  BY <1>1, <1>2, <1>3, PTL DEF Spec, DischargeIsDeserved
=============================================================================
