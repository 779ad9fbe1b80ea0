------------------------------ MODULE WheProofs ------------------------------
(***************************************************************************)
(* Proofs about Whe, for every value of its constants that satisfies       *)
(* WheAssumption.                                                          *)
(*                                                                         *)
(* A wakeup passes the instrument through its parts, so the invariant is   *)
(* stated of an instrument w that stands between two of them: Stage(w, k)  *)
(* is what holds after at most k of the parts have damaged it.             *)
(***************************************************************************)
EXTENDS Whe, TLAPS

\* The type of WHE_Info with a damage count that has no bound yet.
Instruments ==
  [sbc : {"OFF", "POWERED", "OBSERVING", "ERROR"},
   dmg : {"NONE", "MINOR", "MAJOR"}, dmgCnt : Nat,
   act : Caps, pwr : 0 .. PowerDelay, obs : 0 .. ObsTicks,
   charge : [Caps -> Int],
   cap : [Caps -> {"CHARGING", "DISCHARGING", "LEAKING", "BROKEN"}],
   delay : [Caps -> 0 .. DischargeDelay], temp : Temps,
   htr : {"OFF", "ON"}, louver : {"CLOSE", "OPEN"}, lost : BOOLEAN]

\* What n damages stand for.
Drained(n) == ObsDrain * n

\* The bounds of ChargeIsBounded.
Within(w, c) == 0 <= w.charge[c] + Drained(w.dmgCnt) /\ w.charge[c] <= ChargeMax

\* A capacitor that may still charge has survived the draws: its excess is
\* one they may let pass, and one more gain stays below ChargeMax.
Fits(w, c) ==
  w.cap[c] \in {"CHARGING", "DISCHARGING"} => w.charge[c] <= FullCharge + Percent - 1

\* Inside a wakeup, an instrument that is damaged too often or lost does not
\* observe.
Stage(w, k) ==
  /\ w \in Instruments
  /\ \A c \in Caps : Within(w, c)
  /\ w.dmgCnt <= MaxDamage + k
  /\ w.dmgCnt > MaxDamage => w.dmg = "MAJOR" /\ w.sbc = "ERROR"
  /\ w.lost => w.sbc = "ERROR"

AllFit(w) == \A c \in Caps : Fits(w, c)

\* What holds between two wakeups; the state ERROR may have been left again
\* by the observation in whose wakeup the instrument was lost.
Done(w) ==
  /\ w \in Instruments
  /\ \A c \in Caps : Within(w, c)
  /\ AllFit(w)
  /\ w.dmgCnt <= DamageMax
  /\ w.dmgCnt > MaxDamage => w.dmg = "MAJOR"
  /\ w.lost => w.dmg = "MAJOR" \/ w.sbc = "ERROR"

Inv == Done(instr)

(***************************************************************************)
(* Lemmas about the parts of a wakeup.                                     *)
(***************************************************************************)

\* The drain of one more damage.
LEMMA DrainStep ==
  ASSUME NEW n \in Nat
  PROVE  /\ Drained(n) \in Nat
         /\ Drained(n + 1) = Drained(n) + ObsDrain
BY WheAssumption DEF Drained

LEMMA Types ==
  ASSUME NEW w \in Instruments
  PROVE  /\ w.sbc \in {"OFF", "POWERED", "OBSERVING", "ERROR"}
         /\ w.dmg \in {"NONE", "MINOR", "MAJOR"}
         /\ w.dmgCnt \in Nat /\ w.act \in Caps
         /\ w.pwr \in 0 .. PowerDelay /\ w.obs \in 0 .. ObsTicks
         /\ w.charge \in [Caps -> Int] /\ \A c \in Caps : w.charge[c] \in Int
         /\ w.cap \in [Caps -> {"CHARGING", "DISCHARGING", "LEAKING", "BROKEN"}]
         /\ w.delay \in [Caps -> 0 .. DischargeDelay]
         /\ \A c \in Caps : w.delay[c] \in 0 .. DischargeDelay
         /\ w.temp \in Temps /\ w.htr \in {"OFF", "ON"} /\ w.louver \in {"CLOSE", "OPEN"}
         /\ w.lost \in BOOLEAN
BY DEF Instruments

\* What Stage says of the capacitors and the damages depends on few fields.
LEMMA SameCaps ==
  ASSUME NEW w, NEW k, NEW v \in Instruments, Stage(w, k), AllFit(w),
         v.charge = w.charge, v.cap = w.cap, v.dmgCnt = w.dmgCnt, v.lost = w.lost,
         v.dmg \in {w.dmg, "MAJOR"},
         \/ v.sbc \in {w.sbc, "ERROR"}
         \/ w.sbc # "ERROR" /\ v.dmg = w.dmg
  PROVE  Stage(v, k) /\ AllFit(v)
BY DEF Stage, AllFit, Within, Fits

\* A destroyed instrument keeps its capacitors and its damages.
LEMMA DestroyStage ==
  ASSUME NEW w, NEW k \in Nat, Stage(w, k)
  PROVE  /\ Stage(Destroy(w), k)
         /\ Destroy(w).charge = w.charge /\ Destroy(w).cap = w.cap
         /\ Destroy(w).dmgCnt = w.dmgCnt /\ Destroy(w).sbc = "ERROR"
         /\ Destroy(w).dmg = "MAJOR"
<1>1. Destroy(w) \in Instruments
  BY Zenon DEF Stage, Destroy, Instruments
<1>2. /\ Destroy(w).charge = w.charge /\ Destroy(w).cap = w.cap
      /\ Destroy(w).dmgCnt = w.dmgCnt /\ Destroy(w).sbc = "ERROR"
      /\ Destroy(w).dmg = "MAJOR"
  BY DEF Stage, Destroy, Instruments
<1> QED
  BY <1>1, <1>2 DEF Stage, Within

\* What Damage makes of the fields.
LEMMA DamageFields ==
  ASSUME NEW w \in Instruments
  PROVE  /\ Damage(w) \in Instruments
         /\ Damage(w).charge = w.charge /\ Damage(w).cap = w.cap
         /\ Damage(w).dmgCnt = w.dmgCnt + 1
         /\ Damage(w).sbc \in {w.sbc, "ERROR"}
         /\ w.dmgCnt + 1 > MaxDamage => Damage(w).dmg = "MAJOR" /\ Damage(w).sbc = "ERROR"
         /\ Damage(w).lost => w.lost \/ w.dmgCnt + 1 > MaxDamage
<1> DEFINE d == [w EXCEPT !.dmg = "MINOR", !.dmgCnt = @ + 1]
<1>1. d \in Instruments
  <2>1. w.dmgCnt + 1 \in Nat
    BY Types
  <2> QED
    BY <2>1, Zenon DEF Instruments
<1>2. d.dmgCnt = w.dmgCnt + 1 /\ d.charge = w.charge /\ d.cap = w.cap /\ d.sbc = w.sbc
      /\ d.lost = w.lost
  BY DEF Instruments
<1>3. Damage(w) = IF d.dmgCnt > MaxDamage THEN Destroy(d) ELSE d
  BY DEF Damage
<1> HIDE DEF d
<1>4. CASE d.dmgCnt > MaxDamage
  <2>1. Destroy(d) \in Instruments
    BY <1>1, Zenon DEF Destroy, Instruments
  <2>2. /\ Destroy(d).dmgCnt = d.dmgCnt
        /\ Destroy(d).charge = d.charge /\ Destroy(d).cap = d.cap
        /\ Destroy(d).dmg = "MAJOR" /\ Destroy(d).sbc = "ERROR"
    BY <1>1 DEF Destroy, Instruments
  <2> QED
    BY <1>2, <1>3, <1>4, <2>1, <2>2
<1>5. CASE ~(d.dmgCnt > MaxDamage)
  BY <1>1, <1>2, <1>3, <1>5
<1> QED
  BY <1>4, <1>5

\* One damage more, and destruction past the limit.
LEMMA DamageStage ==
  ASSUME NEW w, NEW k \in Nat, Stage(w, k)
  PROVE  Stage(Damage(w), k + 1)
<1> DEFINE d == Damage(w)
<1>1. /\ d \in Instruments /\ d.dmgCnt = w.dmgCnt + 1 /\ d.charge = w.charge
      /\ d.dmgCnt > MaxDamage => d.dmg = "MAJOR" /\ d.sbc = "ERROR"
      /\ d.sbc \in {w.sbc, "ERROR"}
      /\ d.lost => w.lost \/ d.dmgCnt > MaxDamage
  BY DamageFields DEF Stage
<1> HIDE DEF d
<1>2. \A c \in Caps : Within(d, c)
  BY <1>1, DrainStep, Types, WheAssumption DEF Within, Stage
<1>3. d.dmgCnt <= MaxDamage + (k + 1)
  BY <1>1, Types, WheAssumption DEF Stage
<1>4. d.lost => d.sbc = "ERROR"
  BY <1>1 DEF Stage
<1> QED
  BY <1>1, <1>2, <1>3, <1>4 DEF Stage, d

\* Powering up touches no capacitor.
LEMMA PowerUpStage ==
  ASSUME NEW w, NEW k \in Nat, Stage(w, k), AllFit(w)
  PROVE  /\ Stage(PowerUp(w), k) /\ AllFit(PowerUp(w))
         /\ w.sbc = "ERROR" => PowerUp(w).sbc = "ERROR"
<1>1. CASE w.sbc = "OFF" /\ w.pwr > 0
  <2> DEFINE left == w.pwr - 1
             sbc == IF w.pwr = 1 THEN "POWERED" ELSE "OFF"
             v == [w EXCEPT !.pwr = left, !.sbc = sbc]
  <2>1. PowerUp(w) = v
    BY <1>1 DEF PowerUp
  <2>2. w \in Instruments /\ left \in 0 .. PowerDelay
    BY <1>1, Types, WheAssumption DEF Stage
  <2>3. sbc \in {"OFF", "POWERED", "OBSERVING", "ERROR"}
    OBVIOUS
  <2> HIDE DEF left, sbc
  <2>4. v \in Instruments
    BY <2>2, <2>3, Zenon DEF Instruments
  <2>5. v.charge = w.charge /\ v.cap = w.cap /\ v.dmgCnt = w.dmgCnt /\ v.dmg = w.dmg
      /\ v.lost = w.lost
    BY <2>2 DEF Instruments
  <2> HIDE DEF v
  <2> QED
    BY <1>1, <2>1, <2>4, <2>5, SameCaps
<1>2. CASE ~(w.sbc = "OFF" /\ w.pwr > 0)
  BY <1>2 DEF PowerUp
<1> QED
  BY <1>1, <1>2

\* A discharge only takes charge, and never below zero.
LEMMA DischargeStage ==
  ASSUME NEW w, NEW k \in Nat, NEW c \in Caps, NEW d \in Discharge(w, c),
         Stage(w, k), AllFit(w)
  PROVE  Stage(d, k) /\ AllFit(d) /\ d.sbc = w.sbc
<1>0. w \in Instruments
  BY DEF Stage
<1>1. CASE w.cap[c] # "DISCHARGING"
  BY <1>1 DEF Discharge
<1>2. CASE w.cap[c] = "DISCHARGING" /\ w.delay[c] > 0
  <2> DEFINE left == w.delay[c] - 1
  <2>1. d = [w EXCEPT !.delay[c] = left]
    BY <1>2 DEF Discharge
  <2>2. left \in 0 .. DischargeDelay
    BY <1>0, <1>2, Types, WheAssumption
  <2> HIDE DEF left
  <2>3. d \in Instruments
    BY <1>0, <2>1, <2>2 DEF Instruments
  <2>4. /\ d.charge = w.charge /\ d.cap = w.cap /\ d.dmgCnt = w.dmgCnt
        /\ d.dmg = w.dmg /\ d.sbc = w.sbc /\ d.lost = w.lost
    BY <1>0, <2>1 DEF Instruments
  <2> QED
    BY <2>3, <2>4, SameCaps
<1>3. CASE w.cap[c] = "DISCHARGING" /\ ~(w.delay[c] > 0)
  <2> DEFINE left == w.charge[c] - DischargeStep
             new == IF left <= 0 THEN 0 ELSE left
             st == IF left <= 0 THEN "CHARGING" ELSE "DISCHARGING"
             e == [w EXCEPT !.charge[c] = new, !.cap[c] = st]
  <2>1. PICK t \in Warmer(w.temp) : d = [e EXCEPT !.temp = t]
    BY <1>3 DEF Discharge
  <2>2. w.charge[c] \in Int /\ w.charge[c] <= FullCharge + Percent - 1 /\ w.dmgCnt \in Nat
    BY <1>0, <1>3, Types DEF AllFit, Fits
  <2>3. new \in Nat /\ new \in Int /\ new <= FullCharge + Percent - 1
    BY <2>2, WheAssumption
  <2>4. st \in {"CHARGING", "DISCHARGING"}
    OBVIOUS
  <2> HIDE DEF new, st
  <2>5. t \in Temps
    BY <1>0, Types DEF Warmer, Temps
  <2>6. [w.charge EXCEPT ![c] = new] \in [Caps -> Int]
        /\ [w.cap EXCEPT ![c] = st] \in [Caps -> {"CHARGING", "DISCHARGING", "LEAKING", "BROKEN"}]
    BY <1>0, <2>3, <2>4, Types
  <2>7. e \in Instruments
    BY <1>0, <2>6, Zenon DEF Instruments
  <2>8. /\ e.charge = [w.charge EXCEPT ![c] = new] /\ e.cap = [w.cap EXCEPT ![c] = st]
        /\ e.dmgCnt = w.dmgCnt /\ e.dmg = w.dmg /\ e.sbc = w.sbc /\ e.lost = w.lost
    BY <1>0 DEF Instruments
  <2> HIDE DEF e
  <2>9. d \in Instruments
    BY <2>1, <2>5, <2>7, Zenon DEF Instruments
  <2>10. /\ d.charge = e.charge /\ d.cap = e.cap
         /\ d.dmgCnt = e.dmgCnt /\ d.dmg = e.dmg /\ d.sbc = e.sbc /\ d.lost = e.lost
    BY <2>1, <2>7 DEF Instruments
  <2>11. \A b \in Caps : Within(d, b) /\ Fits(d, b)
    <3> TAKE b \in Caps
    <3>1. CASE b = c
      <4>1. d.charge[b] = new
        BY <1>0, <2>8, <2>10, <3>1, Types
      <4>2. Drained(d.dmgCnt) \in Nat
        BY <2>2, <2>8, <2>10, DrainStep
      <4> QED
        BY <2>3, <4>1, <4>2, WheAssumption DEF Within, Fits, ChargeMax
    <3>2. CASE b # c
      <4>1. d.charge[b] = w.charge[b] /\ d.cap[b] = w.cap[b] /\ d.dmgCnt = w.dmgCnt
        BY <1>0, <2>8, <2>10, <3>2, Types
      <4> QED
        BY <4>1 DEF Stage, AllFit, Within, Fits
    <3> QED
      BY <3>1, <3>2
  <2> QED
    BY <2>8, <2>9, <2>10, <2>11 DEF Stage, AllFit
<1> QED
  BY <1>1, <1>2, <1>3

\* A part that damages less is a part that may damage more.
LEMMA StageWeaker ==
  ASSUME NEW w, NEW k \in Nat, Stage(w, k)
  PROVE  Stage(w, k + 1)
BY Types, WheAssumption DEF Stage

\* A new state of a capacitor, as such, is no matter for Stage.
LEMMA SetCapStage ==
  ASSUME NEW w, NEW k \in Nat, NEW c \in Caps, Stage(w, k),
         NEW st \in {"CHARGING", "DISCHARGING", "LEAKING", "BROKEN"}
  PROVE  LET v == [w EXCEPT !.cap[c] = st]
         IN  /\ Stage(v, k) /\ v.sbc = w.sbc /\ v.dmg = w.dmg
             /\ v.charge = w.charge /\ v.cap = [w.cap EXCEPT ![c] = st]
<1> DEFINE v == [w EXCEPT !.cap[c] = st]
<1>0. w \in Instruments
  BY DEF Stage
<1>1. v \in Instruments
  BY <1>0 DEF Instruments
<1>2. /\ v.charge = w.charge /\ v.cap = [w.cap EXCEPT ![c] = st]
      /\ v.dmgCnt = w.dmgCnt /\ v.dmg = w.dmg /\ v.sbc = w.sbc /\ v.lost = w.lost
  BY <1>0 DEF Instruments
<1> HIDE DEF v
<1>3. Stage(v, k)
  BY <1>1, <1>2 DEF Stage, Within
<1> QED
  BY <1>2, <1>3 DEF v

\* A capacitor gains charge as long as it fits, and so stays below ChargeMax.
LEMMA ChargeStage ==
  ASSUME NEW w, NEW k \in Nat, NEW c \in Caps, Stage(w, k), AllFit(w)
  PROVE  LET v == Charge(w, c)
         IN  /\ Stage(v, k) /\ v.sbc = w.sbc /\ v.dmg = w.dmg
             /\ \A b \in Caps \ {c} : Fits(v, b)
<1>0. w \in Instruments
  BY DEF Stage
<1>1. CASE w.cap[c] # "CHARGING"
  BY <1>1 DEF Charge, AllFit
<1>2. CASE w.cap[c] = "CHARGING"
  <2> DEFINE g == IF w.cap[Other(c)] # "CHARGING" THEN GainAlone ELSE GainShared
             n == w.charge[c] + g
             v == [w EXCEPT !.charge[c] = n]
  <2>1. Charge(w, c) = v
    BY <1>2 DEF Charge
  <2>2. w.charge[c] \in Int /\ w.charge[c] <= FullCharge + Percent - 1 /\ w.dmgCnt \in Nat
    BY <1>0, <1>2, Types DEF AllFit, Fits
  <2>3. g \in Nat /\ g <= GainAlone
    BY WheAssumption
  <2> HIDE DEF g
  <2>4. n \in Int /\ n <= ChargeMax /\ n >= w.charge[c]
    BY <2>2, <2>3, WheAssumption DEF ChargeMax
  <2> HIDE DEF n
  <2>5. v \in Instruments
    BY <1>0, <2>4 DEF Instruments
  <2>6. /\ v.charge = [w.charge EXCEPT ![c] = n] /\ v.cap = w.cap
        /\ v.dmgCnt = w.dmgCnt /\ v.dmg = w.dmg /\ v.sbc = w.sbc /\ v.lost = w.lost
    BY <1>0 DEF Instruments
  <2> HIDE DEF v
  <2>7. v.charge[c] = n /\ \A b \in Caps \ {c} : v.charge[b] = w.charge[b]
    BY <1>0, <2>6, Types
  <2>8. Drained(w.dmgCnt) \in Nat
    BY <2>2, DrainStep
  <2>9. Within(v, c)
    BY <2>2, <2>4, <2>6, <2>7, <2>8, WheAssumption DEF Within, Stage
  <2>10. \A b \in Caps \ {c} : Within(v, b) /\ Fits(v, b)
    BY <2>6, <2>7 DEF Within, Fits, Stage, AllFit
  <2> QED
    BY <2>1, <2>5, <2>6, <2>9, <2>10 DEF Stage
<1> QED
  BY <1>1, <1>2

\* The draws leave no capacitor charging or discharging that does not fit.
LEMMA OverchargeStage ==
  ASSUME NEW w, NEW k \in Nat, NEW c \in Caps, Stage(w, k),
         \A b \in Caps \ {c} : Fits(w, b),
         NEW v \in Overcharge(w, c)
  PROVE  /\ Stage(v, k + 1) /\ AllFit(v)
         /\ w.sbc = "ERROR" => v.sbc = "ERROR"
<1> DEFINE excess == w.charge[c] - FullCharge
<1>0. w \in Instruments /\ excess \in Int /\ w.charge[c] \in Int
  BY Types, WheAssumption DEF Stage
<1>1. CASE excess <= 0
  <2>1. v = w
    BY <1>1 DEF Overcharge
  <2>2. Fits(w, c)
    BY <1>0, <1>1, WheAssumption DEF Fits
  <2> QED
    BY <2>1, <2>2, StageWeaker DEF AllFit
<1>2. CASE ~(excess <= 0)
  <2>1. PICK val \in 0 .. Percent - 1 :
          v = IF 2 * val + 1 < excess THEN Destroy([w EXCEPT !.cap[c] = "BROKEN"])
              ELSE IF val < excess THEN Damage([w EXCEPT !.cap[c] = "LEAKING"])
              ELSE w
    BY <1>2 DEF Overcharge
  <2>2. CASE 2 * val + 1 < excess
    <3> DEFINE x == [w EXCEPT !.cap[c] = "BROKEN"]
    <3>1. /\ Stage(x, k) /\ x.charge = w.charge
          /\ x.cap = [w.cap EXCEPT ![c] = "BROKEN"]
      BY SetCapStage
    <3> HIDE DEF x
    <3>2. /\ Stage(Destroy(x), k) /\ Destroy(x).charge = x.charge
          /\ Destroy(x).cap = x.cap /\ Destroy(x).sbc = "ERROR"
      BY <3>1, DestroyStage
    <3>3. v = Destroy(x)
      BY <2>1, <2>2 DEF x
    <3>4. AllFit(v)
      BY <1>0, <3>1, <3>2, <3>3, Types DEF AllFit, Fits
    <3> QED
      BY <3>2, <3>3, <3>4, StageWeaker
  <2>3. CASE ~(2 * val + 1 < excess) /\ val < excess
    <3> DEFINE x == [w EXCEPT !.cap[c] = "LEAKING"]
    <3>1. /\ Stage(x, k) /\ x.charge = w.charge /\ x.sbc = w.sbc
          /\ x.cap = [w.cap EXCEPT ![c] = "LEAKING"]
      BY SetCapStage
    <3> HIDE DEF x
    <3>2. /\ Stage(Damage(x), k + 1) /\ Damage(x).charge = x.charge
          /\ Damage(x).cap = x.cap /\ Damage(x).sbc \in {x.sbc, "ERROR"}
      BY <3>1, DamageStage, DamageFields DEF Stage
    <3>3. v = Damage(x)
      BY <2>1, <2>3 DEF x
    <3>4. AllFit(v)
      BY <1>0, <3>1, <3>2, <3>3, Types DEF AllFit, Fits
    <3> QED
      BY <3>1, <3>2, <3>3, <3>4
  <2>4. CASE ~(2 * val + 1 < excess) /\ ~(val < excess)
    <3>1. v = w
      BY <2>1, <2>4
    <3>2. Fits(w, c)
      BY <1>0, <2>4, WheAssumption DEF Fits
    <3> QED
      BY <3>1, <3>2, StageWeaker DEF AllFit
  <2> QED
    BY <2>2, <2>3, <2>4
<1> QED
  BY <1>1, <1>2

\* WHE_UpdateCap damages at most once.
LEMMA UpdateCapStage ==
  ASSUME NEW w, NEW k \in Nat, NEW c \in Caps, Stage(w, k), AllFit(w),
         NEW v \in UpdateCap(w, c)
  PROVE  /\ Stage(v, k + 1) /\ AllFit(v)
         /\ w.sbc = "ERROR" => v.sbc = "ERROR"
<1>1. CASE v = w
  BY <1>1, StageWeaker
<1>2. CASE v = Destroy(w)
  <2>1. /\ Stage(v, k) /\ v.charge = w.charge /\ v.cap = w.cap /\ v.sbc = "ERROR"
    BY <1>2, DestroyStage
  <2> QED
    BY <2>1, StageWeaker DEF AllFit, Fits
<1>3. CASE \E d \in Discharge(w, c) : v \in Overcharge(Charge(d, c), c)
  <2>1. PICK d \in Discharge(w, c) : v \in Overcharge(Charge(d, c), c)
    BY <1>3
  <2>2. Stage(d, k) /\ AllFit(d) /\ d.sbc = w.sbc
    BY DischargeStage
  <2> DEFINE x == Charge(d, c)
  <2>3. Stage(x, k) /\ x.sbc = d.sbc /\ \A b \in Caps \ {c} : Fits(x, b)
    BY <2>2, ChargeStage
  <2>4. v \in Overcharge(x, c)
    BY <2>1
  <2> HIDE DEF x
  <2> QED
    BY <2>2, <2>3, <2>4, OverchargeStage
<1>4. v = w \/ v = Destroy(w) \/ \E d \in Discharge(w, c) : v \in Overcharge(Charge(d, c), c)
  <2>1. CASE w.sbc = "OFF" \/ w.cap[c] = "BROKEN"
    BY <2>1 DEF UpdateCap
  <2>2. CASE ~(w.sbc = "OFF" \/ w.cap[c] = "BROKEN")
    <3>1. v \in UNION {Overcharge(Charge(d, c), c) : d \in Discharge(w, c)}
            \/ v \in IF \A b \in Caps : w.cap[b] = "DISCHARGING" THEN {Destroy(w)} ELSE {}
      BY <2>2 DEF UpdateCap
    <3> QED
      BY <3>1
  <2> QED
    BY <2>1, <2>2
<1> QED
  BY <1>1, <1>2, <1>3, <1>4

\* A new temperature is no matter for Stage.
LEMMA TempStage ==
  ASSUME NEW w, NEW k \in Nat, NEW t \in Temps, Stage(w, k), AllFit(w)
  PROVE  LET v == [w EXCEPT !.temp = t]
         IN  Stage(v, k) /\ AllFit(v) /\ v.sbc = w.sbc
<1> DEFINE v == [w EXCEPT !.temp = t]
<1>0. w \in Instruments
  BY DEF Stage
<1>1. v \in Instruments
  BY <1>0, Zenon DEF Instruments
<1>2. /\ v.charge = w.charge /\ v.cap = w.cap
      /\ v.dmgCnt = w.dmgCnt /\ v.dmg = w.dmg /\ v.sbc = w.sbc /\ v.lost = w.lost
  BY <1>0 DEF Instruments
<1> HIDE DEF v
<1>3. Stage(v, k) /\ AllFit(v)
  BY <1>1, <1>2, SameCaps
<1> QED
  BY <1>2, <1>3 DEF v

\* WHE_UpdateTherm damages at most once.
LEMMA UpdateThermStage ==
  ASSUME NEW w, NEW k \in Nat, Stage(w, k), AllFit(w), NEW v \in UpdateTherm(w)
  PROVE  /\ Stage(v, k + 1) /\ AllFit(v)
         /\ w.sbc = "ERROR" => v.sbc = "ERROR"
<1>0. w \in Instruments /\ w.temp \in Temps
  BY Types DEF Stage
<1>1. PICK s \in {w, Destroy(w), Damage(w)}, t \in Temps : v = [s EXCEPT !.temp = t]
  BY <1>0 DEF UpdateTherm, Warmer, Cooler, Temps
<1>2. Stage(s, k + 1) /\ s.charge = w.charge /\ s.cap = w.cap /\ s.sbc \in {w.sbc, "ERROR"}
  <2>1. CASE s = w
    BY <2>1, StageWeaker
  <2>2. CASE s = Destroy(w)
    BY <2>2, DestroyStage, StageWeaker
  <2>3. CASE s = Damage(w)
    BY <1>0, <2>3, DamageStage, DamageFields
  <2> QED
    BY <2>1, <2>2, <2>3
<1>3. AllFit(s)
  BY <1>2 DEF AllFit, Fits
<1>4. k + 1 \in Nat
  OBVIOUS
<1> QED
  BY <1>1, <1>2, <1>3, <1>4, TempStage

\* A wakeup of an observation overdraws no more than it damages.
LEMMA ObservedDone ==
  ASSUME NEW w \in Instruments, \A c \in Caps : Within(w, c), AllFit(w),
         w.dmgCnt <= MaxDamage
  PROVE  LET o == Observed(w)
         IN  /\ o \in Instruments /\ AllFit(o)
             /\ \A c \in Caps : Within(o, c)
             /\ o.dmgCnt <= MaxDamage + 1
             /\ o.dmgCnt > MaxDamage => o.dmg = "MAJOR"
             /\ o.lost => w.lost \/ o.dmgCnt > MaxDamage
<1> DEFINE n == w.charge[w.act] - ObsDrain
           d == [w EXCEPT !.charge[w.act] = n]
           low == IF d.charge[w.act] <= ObsLow THEN Damage(d) ELSE d
           o == IF w.obs > 0 THEN [low EXCEPT !.obs = @ - 1] ELSE [low EXCEPT !.sbc = "POWERED"]
<1>1. /\ w.act \in Caps /\ w.charge \in [Caps -> Int] /\ w.charge[w.act] \in Int
      /\ w.dmgCnt \in Nat /\ w.obs \in 0 .. ObsTicks
  BY Types
<1>2. n \in Int /\ n <= w.charge[w.act]
  BY <1>1, WheAssumption
<1>3. d \in Instruments
  BY <1>1, <1>2 DEF Instruments
<1>4. /\ d.charge = [w.charge EXCEPT ![w.act] = n] /\ d.cap = w.cap
      /\ d.dmgCnt = w.dmgCnt /\ d.obs = w.obs /\ d.act = w.act /\ d.lost = w.lost
  BY DEF Instruments
<1>5. Observed(w) = o
  BY DEF Observed
<1> HIDE DEF d
<1>6. /\ low \in Instruments /\ low.charge = d.charge /\ low.cap = d.cap
      /\ IF n <= ObsLow
         THEN low.dmgCnt = w.dmgCnt + 1 /\ (low.dmgCnt > MaxDamage => low.dmg = "MAJOR")
         ELSE low.dmgCnt = w.dmgCnt
      /\ low.lost => w.lost \/ low.dmgCnt > MaxDamage
  BY <1>1, <1>3, <1>4, DamageFields
<1> HIDE DEF low
<1>7. \A c \in Caps : Within(low, c) /\ Fits(low, c)
  <2> TAKE c \in Caps
  <2>1. /\ Drained(w.dmgCnt) \in Nat /\ Drained(w.dmgCnt + 1) = Drained(w.dmgCnt) + ObsDrain
        /\ ObsDrain \in Nat /\ ObsLow \in Nat /\ w.charge[c] \in Int
        /\ ChargeMax \in Int /\ FullCharge + Percent - 1 \in Int
    BY <1>1, DrainStep, WheAssumption DEF ChargeMax
  <2>2. Within(w, c) /\ Fits(w, c)
    BY DEF AllFit
  <2>3. CASE c = w.act
    <3>1. low.charge[c] = n /\ low.cap[c] = w.cap[c]
      BY <1>1, <1>4, <1>6, <2>3
    <3>2. n = w.charge[c] - ObsDrain
      BY <2>3
    <3> HIDE DEF n
    <3> QED
      BY <1>2, <1>6, <2>1, <2>2, <3>1, <3>2 DEF Within, Fits
  <2>4. CASE c # w.act
    <3>1. low.charge[c] = w.charge[c] /\ low.cap[c] = w.cap[c]
      BY <1>1, <1>4, <1>6, <2>4
    <3> HIDE DEF n
    <3> QED
      BY <1>6, <2>1, <2>2, <3>1 DEF Within, Fits
  <2> QED
    BY <2>3, <2>4
<1>8. low.dmgCnt <= MaxDamage + 1 /\ (low.dmgCnt > MaxDamage => low.dmg = "MAJOR")
  <2> HIDE DEF n
  <2> QED
    BY <1>1, <1>6, WheAssumption
<1>9. low.obs \in 0 .. ObsTicks /\ (w.obs > 0 => low.obs = w.obs)
  BY <1>3, <1>4, <1>6, Types DEF low, Damage, Destroy, Instruments
<1>10. /\ o \in Instruments /\ o.charge = low.charge /\ o.cap = low.cap
       /\ o.dmgCnt = low.dmgCnt /\ o.dmg = low.dmg /\ o.lost = low.lost
  <2>1. CASE w.obs > 0
    <3> DEFINE m == low.obs - 1
    <3>1. m \in 0 .. ObsTicks
      BY <1>9, <2>1, WheAssumption
    <3>2. o = [low EXCEPT !.obs = m]
      BY <2>1
    <3> HIDE DEF m, o
    <3>3. o \in Instruments
      BY <1>6, <3>1, <3>2, Zenon DEF Instruments
    <3> QED
      BY <1>6, <3>2, <3>3 DEF Instruments
  <2>2. CASE ~(w.obs > 0)
    <3>1. o = [low EXCEPT !.sbc = "POWERED"]
      BY <2>2
    <3> HIDE DEF o
    <3>2. o \in Instruments
      BY <1>6, <3>1, Zenon DEF Instruments
    <3> QED
      BY <1>6, <3>1, <3>2 DEF Instruments
  <2> QED
    BY <2>1, <2>2
<1> HIDE DEF o
<1>11. /\ AllFit(o) /\ \A c \in Caps : Within(o, c)
       /\ o.dmgCnt <= MaxDamage + 1 /\ (o.dmgCnt > MaxDamage => o.dmg = "MAJOR")
       /\ o.lost => w.lost \/ o.dmgCnt > MaxDamage
  BY <1>6, <1>7, <1>8, <1>10 DEF AllFit, Within, Fits
<1> QED
  BY <1>5, <1>10, <1>11

\* The end of a wakeup.
LEMMA UpdateObsDone ==
  ASSUME NEW w, Stage(w, 3), AllFit(w), NEW v \in UpdateObs(w)
  PROVE  Done(v) /\ (w.sbc = "ERROR" => v.sbc = "ERROR")
<1>0. w \in Instruments /\ w.temp \in Temps /\ w.dmgCnt \in Nat
  BY Types DEF Stage
<1>1. CASE w.sbc # "OBSERVING"
  BY <1>1 DEF UpdateObs, Stage, Done, DamageMax
<1>2. CASE w.sbc = "OBSERVING"
  <2> DEFINE o == Observed(w)
  <2>1. w.dmgCnt <= MaxDamage
    BY <1>0, <1>2, WheAssumption DEF Stage
  <2>2. /\ o \in Instruments /\ AllFit(o)
        /\ \A c \in Caps : Within(o, c)
        /\ o.dmgCnt <= MaxDamage + 1
        /\ o.dmgCnt > MaxDamage => o.dmg = "MAJOR"
        /\ o.lost => o.dmgCnt > MaxDamage
    BY <1>0, <1>2, <2>1, ObservedDone DEF Stage
  <2>3. PICK t \in Temps :
          v = CASE t = "OK" -> o
                [] t = "WARM" -> [o EXCEPT !.temp = t, !.sbc = "POWERED"]
                [] t = "HOT" -> Damage([o EXCEPT !.temp = t, !.sbc = "POWERED"])
    BY <1>0, <1>2 DEF UpdateObs, Warmer, Temps
  <2> HIDE DEF o
  <2> DEFINE x == [o EXCEPT !.temp = t, !.sbc = "POWERED"]
  <2>4. x \in Instruments
    BY <2>2, Zenon DEF Instruments
  <2>5. /\ x.charge = o.charge /\ x.cap = o.cap
        /\ x.dmgCnt = o.dmgCnt /\ x.dmg = o.dmg /\ x.lost = o.lost
    BY <2>2 DEF Instruments
  <2>6. v = CASE t = "OK" -> o [] t = "WARM" -> x [] t = "HOT" -> Damage(x)
    BY <2>3
  <2> HIDE DEF x
  <2>7. o.dmgCnt \in Nat
    BY <2>2, Types
  <2>8. CASE v = o
    BY <1>2, <2>2, <2>7, <2>8, WheAssumption DEF Done, DamageMax
  <2>9. CASE v = x
    BY <1>2, <2>2, <2>4, <2>5, <2>7, <2>9, WheAssumption DEF Done, DamageMax, AllFit, Fits, Within
  <2>10. CASE v = Damage(x)
    <3>1. /\ v \in Instruments /\ v.charge = x.charge /\ v.cap = x.cap
          /\ v.dmgCnt = x.dmgCnt + 1
          /\ v.dmgCnt > MaxDamage => v.dmg = "MAJOR"
          /\ v.lost => x.lost \/ v.dmgCnt > MaxDamage
      BY <2>4, <2>10, DamageFields
    <3>2. v.dmgCnt <= DamageMax
      BY <2>2, <2>5, <2>7, <3>1, WheAssumption DEF DamageMax
    <3>3. \A c \in Caps : Within(v, c)
      BY <2>2, <2>5, <2>7, <3>1, DrainStep, Types, WheAssumption DEF Within
    <3> QED
      BY <1>2, <2>2, <2>5, <2>7, <3>1, <3>2, <3>3, WheAssumption DEF Done, AllFit, Fits
  <2> QED
    BY <1>2, <2>6, <2>8, <2>9, <2>10 DEF Temps
<1> QED
  BY <1>1, <1>2

(***************************************************************************)
(* The actions.                                                            *)
(***************************************************************************)

LEMMA FreshDone == ASSUME NEW w \in Fresh PROVE Done(w)
<1>1. PICK t \in {"OK", "WARM"} :
        w = [sbc |-> "OFF", dmg |-> "NONE", dmgCnt |-> 0, act |-> "A", pwr |-> 0, obs |-> 0,
             charge |-> [c \in Caps |-> 0], cap |-> [c \in Caps |-> "CHARGING"],
             delay |-> [c \in Caps |-> 0], temp |-> t, htr |-> "OFF", louver |-> "CLOSE",
             lost |-> FALSE]
  BY DEF Fresh
<1>2. 0 \in 0 .. PowerDelay /\ 0 \in 0 .. ObsTicks /\ 0 \in 0 .. DischargeDelay /\ 0 \in Nat
  BY WheAssumption
<1>3. w \in Instruments
  BY <1>1, <1>2 DEF Instruments, Caps, Temps
<1>4. Drained(0) = 0
  BY WheAssumption DEF Drained
<1> QED
  BY <1>1, <1>3, <1>4, WheAssumption DEF Done, Within, AllFit, Fits, ChargeMax, DamageMax

\* A wakeup passes at most three damages to the observation it ends in.
LEMMA WakeupDone ==
  ASSUME Inv, ProcessWakeup
  PROVE  Inv'
<1>1. CASE instr.dmg = "MAJOR"
  BY <1>1 DEF ProcessWakeup, Inv
<1>2. CASE instr.dmg # "MAJOR"
  <2> DEFINE p == PowerUp(instr)
  <2>0. instr \in Instruments /\ AllFit(instr) /\ Stage(instr, 0)
    BY <1>2, Types, WheAssumption DEF Inv, Done, Stage
  <2>1. Stage(p, 0) /\ AllFit(p) /\ (instr.sbc = "ERROR" => p.sbc = "ERROR")
    BY <2>0, PowerUpStage
  <2>2. PICK a \in UpdateCap(p, "A") : \E b \in UpdateCap(a, "B") :
          \E t \in UpdateTherm(b) : instr' \in UpdateObs(t)
    BY <1>2 DEF ProcessWakeup
  <2> HIDE DEF p
  <2>3. "A" \in Caps /\ "B" \in Caps /\ 0 + 1 = 1 /\ 1 + 1 = 2 /\ 2 + 1 = 3
    BY DEF Caps
  <2>4. Stage(a, 1) /\ AllFit(a) /\ (p.sbc = "ERROR" => a.sbc = "ERROR")
    BY <2>1, <2>3, UpdateCapStage
  <2>5. PICK b \in UpdateCap(a, "B") : \E t \in UpdateTherm(b) : instr' \in UpdateObs(t)
    BY <2>2
  <2>6. Stage(b, 2) /\ AllFit(b) /\ (a.sbc = "ERROR" => b.sbc = "ERROR")
    BY <2>3, <2>4, UpdateCapStage
  <2>7. PICK t \in UpdateTherm(b) : instr' \in UpdateObs(t)
    BY <2>5
  <2>8. Stage(t, 3) /\ AllFit(t) /\ (b.sbc = "ERROR" => t.sbc = "ERROR")
    BY <2>3, <2>6, UpdateThermStage
  <2>9. Done(instr') /\ (t.sbc = "ERROR" => instr'.sbc = "ERROR")
    BY <2>7, <2>8, UpdateObsDone
  <2> QED
    BY <1>2, <2>1, <2>4, <2>6, <2>8, <2>9 DEF Inv
<1> QED
  BY <1>1, <1>2

\* A command that touches neither charges nor capacitors.
LEMMA SameDone ==
  ASSUME NEW w, NEW v \in Instruments, Done(w),
         v.charge = w.charge, v.cap = w.cap, v.dmgCnt = w.dmgCnt, v.dmg = w.dmg,
         v.lost = w.lost, w.sbc = "ERROR" => v.sbc = "ERROR"
  PROVE  Done(v)
BY DEF Done, AllFit, Within, Fits

\* What is said of every command.
Kept(w, v) ==
  /\ Done(v) /\ v.dmg = w.dmg
  /\ w.sbc = "ERROR" => v.sbc = "ERROR"

LEMMA CapCmdDone ==
  ASSUME NEW w, Done(w), NEW cmd, cmd.cap \in Caps
  PROVE  Kept(w, CapCmd(w, cmd))
<1> DEFINE v == CapCmd(w, cmd)
           c == cmd.cap
<1>0. w \in Instruments
  BY DEF Done
<1>1. CASE v = w
  BY <1>1 DEF Kept
<1>2. CASE v = [w EXCEPT !.act = c]
  <2>1. v \in Instruments
    BY <1>0, <1>2, Zenon DEF Instruments
  <2>2. /\ v.charge = w.charge /\ v.cap = w.cap
        /\ v.dmgCnt = w.dmgCnt /\ v.dmg = w.dmg /\ v.sbc = w.sbc /\ v.lost = w.lost
    BY <1>0, <1>2 DEF Instruments
  <2> HIDE DEF v
  <2> QED
    BY <2>1, <2>2, SameDone DEF Kept, v
<1>3. CASE w.cap[c] = "CHARGING"
           /\ v = [w EXCEPT !.delay[c] = DischargeDelay, !.cap[c] = "DISCHARGING"]
  <2>1. /\ [w.delay EXCEPT ![c] = DischargeDelay] \in [Caps -> 0 .. DischargeDelay]
        /\ [w.cap EXCEPT ![c] = "DISCHARGING"]
              \in [Caps -> {"CHARGING", "DISCHARGING", "LEAKING", "BROKEN"}]
    BY <1>0, Types, WheAssumption
  <2>2. v \in Instruments
    BY <1>0, <1>3, <2>1, Zenon DEF Instruments
  <2>3. /\ v.charge = w.charge /\ v.cap = [w.cap EXCEPT ![c] = "DISCHARGING"]
        /\ v.dmgCnt = w.dmgCnt /\ v.dmg = w.dmg /\ v.sbc = w.sbc /\ v.lost = w.lost
    BY <1>0, <1>3 DEF Instruments
  <2> HIDE DEF v
  <2>4. AllFit(v)
    BY <1>0, <1>3, <2>3, Types DEF Done, AllFit, Fits
  <2>5. Done(v)
    BY <2>2, <2>3, <2>4 DEF Done, Within
  <2> QED
    BY <2>3, <2>5 DEF Kept, v
<1> QED
  BY <1>1, <1>2, <1>3 DEF CapCmd

LEMMA ObsCmdDone ==
  ASSUME NEW w, Done(w), NEW cmd
  PROVE  Kept(w, ObsCmd(w, cmd))
<1> DEFINE v == ObsCmd(w, cmd)
<1>0. w \in Instruments
  BY DEF Done
<1>1. CASE v = w
  BY <1>1 DEF Kept
<1>2. CASE /\ w.sbc # "ERROR"
           /\ \/ v = [w EXCEPT !.sbc = "OBSERVING", !.obs = ObsTicks]
              \/ v = [w EXCEPT !.sbc = "POWERED", !.obs = 0]
  <2>1. ObsTicks \in 0 .. ObsTicks /\ 0 \in 0 .. ObsTicks
    BY WheAssumption
  <2>2. v \in Instruments
    BY <1>0, <1>2, <2>1, Zenon DEF Instruments
  <2>3. v.charge = w.charge /\ v.cap = w.cap /\ v.dmgCnt = w.dmgCnt /\ v.dmg = w.dmg
      /\ v.lost = w.lost
    BY <1>0, <1>2 DEF Instruments
  <2> HIDE DEF v
  <2> QED
    BY <1>2, <2>2, <2>3, SameDone DEF Kept, v
<1> QED
  BY <1>1, <1>2 DEF ObsCmd

\* The commands that set one field.
LEMMA FieldCmdDone ==
  ASSUME NEW w, Done(w)
  PROVE  /\ Kept(w, SbcCmd(w))
         /\ \A x \in {"OFF", "ON"} : Kept(w, [w EXCEPT !.htr = x])
         /\ \A x \in {"CLOSE", "OPEN"} : Kept(w, [w EXCEPT !.louver = x])
<1>0. w \in Instruments
  BY DEF Done
<1>1. Kept(w, SbcCmd(w))
  <2> DEFINE v == [w EXCEPT !.pwr = PowerDelay]
  <2>1. PowerDelay \in 0 .. PowerDelay
    BY WheAssumption
  <2>2. v \in Instruments
    BY <1>0, <2>1, Zenon DEF Instruments
  <2>3. /\ v.charge = w.charge /\ v.cap = w.cap
        /\ v.dmgCnt = w.dmgCnt /\ v.dmg = w.dmg /\ v.sbc = w.sbc /\ v.lost = w.lost
    BY <1>0 DEF Instruments
  <2>4. SbcCmd(w) = IF w.sbc = "OFF" THEN v ELSE w
    BY DEF SbcCmd
  <2> HIDE DEF v
  <2> QED
    BY <2>2, <2>3, <2>4, SameDone DEF Kept
<1>2. ASSUME NEW x \in {"OFF", "ON"} PROVE Kept(w, [w EXCEPT !.htr = x])
  <2> DEFINE v == [w EXCEPT !.htr = x]
  <2>1. v \in Instruments
    BY <1>0, Zenon DEF Instruments
  <2>2. /\ v.charge = w.charge /\ v.cap = w.cap
        /\ v.dmgCnt = w.dmgCnt /\ v.dmg = w.dmg /\ v.sbc = w.sbc /\ v.lost = w.lost
    BY <1>0 DEF Instruments
  <2> HIDE DEF v
  <2> QED
    BY <2>1, <2>2, SameDone DEF Kept, v
<1>3. ASSUME NEW x \in {"CLOSE", "OPEN"} PROVE Kept(w, [w EXCEPT !.louver = x])
  <2> DEFINE v == [w EXCEPT !.louver = x]
  <2>1. v \in Instruments
    BY <1>0, Zenon DEF Instruments
  <2>2. /\ v.charge = w.charge /\ v.cap = w.cap
        /\ v.dmgCnt = w.dmgCnt /\ v.dmg = w.dmg /\ v.sbc = w.sbc /\ v.lost = w.lost
    BY <1>0 DEF Instruments
  <2> HIDE DEF v
  <2> QED
    BY <2>1, <2>2, SameDone DEF Kept, v
<1> QED
  BY <1>1, <1>2, <1>3

LEMMA CommandDone ==
  ASSUME Inv, NEW cmd \in WheCommands, ProcessGroundCommand(cmd)
  PROVE  Kept(instr, instr')
<1>0. Done(instr)
  BY DEF Inv
<1>1. CASE cmd.cc \in {"CAP_ACTIVE", "CAP_DISCHARGE"}
  <2>1. cmd.cap \in Caps
    BY <1>1 DEF WheCommands
  <2>2. instr' = CapCmd(instr, cmd)
    BY <1>1 DEF ProcessGroundCommand
  <2> QED
    BY <1>0, <2>1, <2>2, CapCmdDone
<1>2. CASE cmd.cc \in {"OBS_START", "OBS_STOP"}
  <2>1. instr' = ObsCmd(instr, cmd)
    BY <1>2 DEF ProcessGroundCommand
  <2> QED
    BY <1>0, <2>1, ObsCmdDone
<1>3. CASE cmd.cc = "POWER_SBC"
  <2>1. instr' = SbcCmd(instr)
    BY <1>3 DEF ProcessGroundCommand
  <2> QED
    BY <1>0, <2>1, FieldCmdDone
<1>4. CASE cmd.cc \in {"HTR_OFF", "HTR_ON"}
  <2>1. \E x \in {"OFF", "ON"} : instr' = [instr EXCEPT !.htr = x]
    BY <1>4 DEF ProcessGroundCommand
  <2> QED
    BY <1>0, <2>1, FieldCmdDone
<1>5. CASE cmd.cc \in {"LOUVER_CLOSE", "LOUVER_OPEN"}
  <2>1. \E x \in {"CLOSE", "OPEN"} : instr' = [instr EXCEPT !.louver = x]
    BY <1>5 DEF ProcessGroundCommand
  <2> QED
    BY <1>0, <2>1, FieldCmdDone
<1> QED
  BY <1>1, <1>2, <1>3, <1>4, <1>5 DEF WheCommands

\* Every step keeps the invariant.
LEMMA WheStepInv ==
  ASSUME Inv, [WheNext]_instr
  PROVE  Inv'
<1>1. CASE ProcessWakeup
  BY <1>1, WakeupDone
<1>2. CASE \E cmd \in WheCommands : ProcessGroundCommand(cmd)
  BY <1>2, CommandDone DEF Kept, Inv
<1>3. CASE WheRestart
  <2>1. instr' \in Fresh
    BY <1>3 DEF WheRestart
  <2>2. Done(instr')
    BY <2>1, FreshDone
  <2> QED
    BY <2>1, <2>2 DEF Inv
<1>4. CASE UNCHANGED instr
  BY <1>4 DEF Inv
<1> QED
  BY <1>1, <1>2, <1>3, <1>4 DEF WheNext

(***************************************************************************)
(* The theorems.                                                           *)
(***************************************************************************)

LEMMA WheInv == WheSpec => []Inv
<1>1. WheInit => Inv
  BY FreshDone DEF WheInit, Inv
<1>2. Inv /\ [WheNext]_instr => Inv'
  BY WheStepInv
<1> QED
  BY <1>1, <1>2, PTL DEF WheSpec

\* WHE_Info keeps its types, whatever is drawn and commanded; in one life no
\* more than three damages are counted beyond the limit.
THEOREM WheTypeCorrect == WheSpec => []WheTypeOK
<1>1. Inv => WheTypeOK
  <2> SUFFICES ASSUME Inv PROVE WheTypeOK
    OBVIOUS
  <2>1. instr \in Instruments /\ instr.dmgCnt <= DamageMax
    BY DEF Inv, Done
  <2>2. instr.dmgCnt \in 0 .. DamageMax
    BY <2>1, Types, WheAssumption DEF DamageMax
  <2> QED
    BY <2>1, <2>2, Zenon DEF WheTypeOK, Instruments
<1> QED
  BY <1>1, WheInv, PTL

\* No capacitor is overdrawn by more than its damages, nor charged beyond
\* what the draws let pass, for every length of observations and discharges.
THEOREM WheChargeBounded == WheSpec => []ChargeIsBounded
<1>1. Inv => ChargeIsBounded
  <2> SUFFICES ASSUME Inv, NEW c \in Caps
               PROVE  /\ instr.charge[c] >= -(ObsDrain * instr.dmgCnt)
                      /\ instr.charge[c] <= ChargeMax
    BY DEF ChargeIsBounded
  <2>1. Within(instr, c) /\ instr.charge[c] \in Int /\ instr.dmgCnt \in Nat
    BY Types DEF Inv, Done
  <2>2. Drained(instr.dmgCnt) = ObsDrain * instr.dmgCnt /\ Drained(instr.dmgCnt) \in Nat
    BY <2>1, DrainStep DEF Drained
  <2>3. instr.charge[c] >= -Drained(instr.dmgCnt) /\ instr.charge[c] <= ChargeMax
    BY <2>1, <2>2 DEF Within
  <2> QED
    BY <2>2, <2>3
<1> QED
  BY <1>1, WheInv, PTL

\* An instrument damaged beyond its limit is destroyed, and stays so.
THEOREM WheSpentDestroyed == WheSpec => []SpentIsDestroyed
<1>1. Inv => SpentIsDestroyed
  BY DEF Inv, Done, SpentIsDestroyed
<1> QED
  BY <1>1, WheInv, PTL

\* An instrument that is lost is out of service until a restart, whatever the
\* wakeup that lost it has written over the mark of the loss.
THEOREM WheLostStaysOut == WheSpec => []LostStaysOutOfService
<1>1. Inv => LostStaysOutOfService
  BY DEF Inv, Done, LostStaysOutOfService
<1> QED
  BY <1>1, WheInv, PTL
=============================================================================
