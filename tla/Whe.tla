--------------------------------- MODULE Whe ---------------------------------
(***************************************************************************)
(* The WHE instrument simulator, cfs/apps/whe/fsw/src/whe.c: its whole     *)
(* state is the structure WHE_Info, here the record instr.  WHE is one     *)
(* task that handles one message at a time, so a wakeup is one step; what  *)
(* happens inside it happens in the order of the code, and every draw of   *)
(* rand() is a choice.  A part of the wakeup is a set: what it can make of *)
(* the instrument it finds.                                                *)
(*                                                                         *)
(* The temperature is a floating point number that moves by less than a    *)
(* band at a time; it is modelled by its band.  The counters of commands,  *)
(* which ReportHousekeeping clears, and of finished observations are left  *)
(* out: nothing reads them.                                                *)
(***************************************************************************)
EXTENDS Integers

CONSTANTS
  FullCharge,     \* a capacitor charged beyond it may leak or break (100)
  Percent,        \* the draws of rand() % 100 (100)
  GainShared,     \* charge a wakeup adds when both capacitors charge (1)
  GainAlone,      \* charge a wakeup adds when the other one does not (2)
  DischargeStep,  \* charge a wakeup of a discharge takes (10)
  DischargeDelay, \* wakeups between the command and the discharge (3)
  ObsTicks,       \* wakeups an observation lasts (15)
  ObsDrain,       \* charge a wakeup of an observation takes (5)
  ObsLow,         \* an observation at this charge or less damages (5)
  PowerDelay,     \* wakeups until the instrument is powered (5)
  MaxDamage       \* damages the instrument survives (3)

ASSUME WheAssumption ==
  /\ {FullCharge, DischargeDelay, ObsTicks, ObsDrain, ObsLow, MaxDamage} \subseteq Nat
  /\ {Percent, GainShared, GainAlone, DischargeStep, PowerDelay} \subseteq Nat \ {0}
  /\ GainShared <= GainAlone

\* WHE_Info, and a history that no step reads: whether WHE_Destroy has been
\* called in the life of the instrument (lost).
VARIABLE instr

Caps == {"A", "B"}
Other(c) == IF c = "A" THEN "B" ELSE "A"

\* OK: at most 20 degrees.  WARM: too warm to observe.  HOT: more than 35.
Temps == {"OK", "WARM", "HOT"}
Warmer(t) == {t} \cup (CASE t = "OK" -> {"WARM"} [] t = "WARM" -> {"HOT"} [] t = "HOT" -> {})
Cooler(t) == {t} \cup (CASE t = "OK" -> {} [] t = "WARM" -> {"OK"} [] t = "HOT" -> {"WARM"})

WheCommands ==
  [cc : {"CAP_ACTIVE", "CAP_DISCHARGE"}, cap : Caps]
    \cup [cc : {"OBS_START", "OBS_STOP", "POWER_SBC", "HTR_OFF", "HTR_ON",
                "LOUVER_CLOSE", "LOUVER_OPEN"}]

\* WHE_AppInit: the temperature is drawn below 30.
Fresh ==
  {[sbc |-> "OFF", dmg |-> "NONE", dmgCnt |-> 0, act |-> "A", pwr |-> 0, obs |-> 0,
    charge |-> [c \in Caps |-> 0], cap |-> [c \in Caps |-> "CHARGING"],
    delay |-> [c \in Caps |-> 0], temp |-> t, htr |-> "OFF", louver |-> "CLOSE",
    lost |-> FALSE] :
      t \in {"OK", "WARM"}}

WheInit == instr \in Fresh
-----------------------------------------------------------------------------
(* Damage.  Damage after Destroy writes MINOR over MAJOR.                  *)

Destroy(w) == [w EXCEPT !.dmg = "MAJOR", !.sbc = "ERROR", !.lost = TRUE]

\* Mutant: only the damage that exceeds the limit destroys.
DamageOnce(w) ==
  LET d == [w EXCEPT !.dmg = "MINOR", !.dmgCnt = @ + 1]
  IN  IF d.dmgCnt = MaxDamage + 1 THEN Destroy(d) ELSE d

Damage(w) ==
  LET d == [w EXCEPT !.dmg = "MINOR", !.dmgCnt = @ + 1]
  IN  IF d.dmgCnt > MaxDamage THEN Destroy(d) ELSE d
-----------------------------------------------------------------------------
(* The parts of a wakeup.                                                  *)

\* Mutant: the last tick is not counted.
PowerUpStops(w) ==
  IF w.sbc = "OFF" /\ w.pwr > 1
  THEN [w EXCEPT !.pwr = @ - 1, !.sbc = IF w.pwr = 1 THEN "POWERED" ELSE "OFF"]
  ELSE w

PowerUp(w) ==
  IF w.sbc = "OFF" /\ w.pwr > 0
  THEN [w EXCEPT !.pwr = @ - 1, !.sbc = IF w.pwr = 1 THEN "POWERED" ELSE "OFF"]
  ELSE w

\* A discharge waits its delay; the wakeup that empties the capacitor makes
\* it charge again.
Discharge(w, c) ==
  IF w.cap[c] # "DISCHARGING" THEN {w}
  ELSE IF w.delay[c] > 0 THEN {[w EXCEPT !.delay[c] = @ - 1]}
  ELSE LET left == w.charge[c] - DischargeStep
           d == [w EXCEPT !.charge[c] = IF left <= 0 THEN 0 ELSE left,
                          !.cap[c] = IF left <= 0 THEN "CHARGING" ELSE "DISCHARGING"]
       IN  {[d EXCEPT !.temp = t] : t \in Warmer(w.temp)}

Charge(w, c) ==
  IF w.cap[c] # "CHARGING" THEN w
  ELSE [w EXCEPT !.charge[c] =
          @ + (IF w.cap[Other(c)] # "CHARGING" THEN GainAlone ELSE GainShared)]

\* A capacitor breaks with half a percent for each unit of excess, and leaks
\* with another half; one that leaks already may do so again.
Overcharge(w, c) ==
  LET excess == w.charge[c] - FullCharge
  IN  IF excess <= 0 THEN {w}
      ELSE {IF 2 * val + 1 < excess THEN Destroy([w EXCEPT !.cap[c] = "BROKEN"])
            ELSE IF val < excess THEN Damage([w EXCEPT !.cap[c] = "LEAKING"])
            ELSE w : val \in 0 .. Percent - 1}

\* While both discharge, four draws in five destroy the instrument.
UpdateCap(w, c) ==
  IF w.sbc = "OFF" \/ w.cap[c] = "BROKEN" THEN {w}
  ELSE (UNION {Overcharge(Charge(d, c), c) : d \in Discharge(w, c)})
         \cup (IF \A k \in Caps : w.cap[k] = "DISCHARGING" THEN {Destroy(w)} ELSE {})

UpdateTherm(w) ==
  LET struck == {w} \cup (IF w.temp = "HOT" THEN {Destroy(w), Damage(w)} ELSE {})
      cooled == IF w.louver = "OPEN" THEN Cooler(w.temp) ELSE {w.temp}
      heated == IF w.htr = "ON" THEN cooled \cup (UNION {Warmer(t) : t \in cooled}) ELSE cooled
  IN  {[s EXCEPT !.temp = t] : s \in struck, t \in heated}

\* Mutant: the charge of capacitor A is tested whichever is active.
ObservedTestsA(w) ==
  LET drained == [w EXCEPT !.charge[w.act] = @ - ObsDrain]
      low == IF drained.charge["A"] <= ObsLow THEN Damage(drained) ELSE drained
  IN  IF w.obs > 0 THEN [low EXCEPT !.obs = @ - 1] ELSE [low EXCEPT !.sbc = "POWERED"]

\* What an observation takes of the active capacitor, before its temperature
\* is looked at.
Observed(w) ==
  LET drained == [w EXCEPT !.charge[w.act] = @ - ObsDrain]
      low == IF drained.charge[w.act] <= ObsLow THEN Damage(drained) ELSE drained
  IN  IF w.obs > 0 THEN [low EXCEPT !.obs = @ - 1] ELSE [low EXCEPT !.sbc = "POWERED"]

UpdateObs(w) ==
  IF w.sbc # "OBSERVING" THEN {w}
  ELSE LET o == Observed(w)
       IN  {CASE t = "OK" -> o
              [] t = "WARM" -> [o EXCEPT !.temp = t, !.sbc = "POWERED"]
              [] t = "HOT" -> Damage([o EXCEPT !.temp = t, !.sbc = "POWERED"]) :
             t \in Warmer(w.temp)}

\* Mutant: a destroyed instrument goes on.
ProcessWakeupAlways ==
  \E a \in UpdateCap(PowerUp(instr), "A") : \E b \in UpdateCap(a, "B") :
    \E t \in UpdateTherm(b) : instr' \in UpdateObs(t)

\* A destroyed instrument does nothing at a wakeup, not even report.
ProcessWakeup ==
  IF instr.dmg = "MAJOR" THEN UNCHANGED instr
  ELSE \E a \in UpdateCap(PowerUp(instr), "A") : \E b \in UpdateCap(a, "B") :
         \E t \in UpdateTherm(b) : instr' \in UpdateObs(t)
-----------------------------------------------------------------------------
(* The commands.  An unknown code has no effect.                           *)

Accepting(w) == w.sbc \notin {"OFF", "ERROR"}

\* Mutant: a discharge command starts its delay again.
CapCmdRearms(w, cmd) ==
  IF ~Accepting(w) THEN w
  ELSE IF cmd.cc = "CAP_ACTIVE" THEN [w EXCEPT !.act = cmd.cap]
  ELSE IF w.cap[cmd.cap] \notin {"CHARGING", "DISCHARGING"} THEN w
  ELSE [w EXCEPT !.delay[cmd.cap] = DischargeDelay, !.cap[cmd.cap] = "DISCHARGING"]

CapCmd(w, cmd) ==
  IF ~Accepting(w) THEN w
  ELSE IF cmd.cc = "CAP_ACTIVE" THEN [w EXCEPT !.act = cmd.cap]
  ELSE IF w.cap[cmd.cap] # "CHARGING" THEN w
  ELSE [w EXCEPT !.delay[cmd.cap] = DischargeDelay, !.cap[cmd.cap] = "DISCHARGING"]

\* Mutant: the state is compared with OBSERVING alone.
ObsCmdAnyState(w, cmd) ==
  IF w.sbc # "OBSERVING" /\ cmd.cc = "OBS_START"
  THEN [w EXCEPT !.sbc = "OBSERVING", !.obs = ObsTicks]
  ELSE IF w.sbc = "OBSERVING" /\ cmd.cc = "OBS_STOP"
  THEN [w EXCEPT !.sbc = "POWERED", !.obs = 0] ELSE w

\* WHE_TestSBC, which would ask for charge and temperature, says yes.
ObsCmd(w, cmd) ==
  IF w.sbc = "POWERED" /\ cmd.cc = "OBS_START"
  THEN [w EXCEPT !.sbc = "OBSERVING", !.obs = ObsTicks]
  ELSE IF w.sbc = "OBSERVING" /\ cmd.cc = "OBS_STOP"
  THEN [w EXCEPT !.sbc = "POWERED", !.obs = 0] ELSE w

SbcCmd(w) == IF w.sbc = "OFF" THEN [w EXCEPT !.pwr = PowerDelay] ELSE w

ProcessGroundCommand(cmd) ==
  instr' = CASE cmd.cc \in {"CAP_ACTIVE", "CAP_DISCHARGE"} -> CapCmd(instr, cmd)
             [] cmd.cc \in {"OBS_START", "OBS_STOP"} -> ObsCmd(instr, cmd)
             [] cmd.cc = "POWER_SBC" -> SbcCmd(instr)
             [] cmd.cc = "HTR_OFF" -> [instr EXCEPT !.htr = "OFF"]
             [] cmd.cc = "HTR_ON" -> [instr EXCEPT !.htr = "ON"]
             [] cmd.cc = "LOUVER_CLOSE" -> [instr EXCEPT !.louver = "CLOSE"]
             [] cmd.cc = "LOUVER_OPEN" -> [instr EXCEPT !.louver = "OPEN"]

\* ES restarts the application: the instrument is new.
WheRestart == instr' \in Fresh

WheNext ==
  \/ ProcessWakeup
  \/ \E cmd \in WheCommands : ProcessGroundCommand(cmd)
  \/ WheRestart

WheSpec == WheInit /\ [][WheNext]_instr
-----------------------------------------------------------------------------
\* The most damage one life counts: three parts of one wakeup may each
\* damage an instrument that the first of them has destroyed.
DamageMax == MaxDamage + 3

\* A capacitor is never charged beyond this.
ChargeMax == FullCharge + Percent - 1 + GainAlone

\* The type of WHE_Info.
WheTypeOK ==
  instr \in [sbc : {"OFF", "POWERED", "OBSERVING", "ERROR"},
             dmg : {"NONE", "MINOR", "MAJOR"}, dmgCnt : 0 .. DamageMax,
             act : Caps, pwr : 0 .. PowerDelay, obs : 0 .. ObsTicks,
             charge : [Caps -> Int],
             cap : [Caps -> {"CHARGING", "DISCHARGING", "LEAKING", "BROKEN"}],
             delay : [Caps -> 0 .. DischargeDelay], temp : Temps,
             htr : {"OFF", "ON"}, louver : {"CLOSE", "OPEN"}, lost : BOOLEAN]

\* An observation may overdraw a capacitor, but never by more than the damage
\* already counted stands for; and the draws stop a capacitor from charging
\* for ever.  Between the two bounds a byte of telemetry tells every charge.
ChargeIsBounded ==
  \A c \in Caps : /\ instr.charge[c] >= -(ObsDrain * instr.dmgCnt)
                  /\ instr.charge[c] <= ChargeMax

\* An instrument damaged too often is stopped, although the damage of a later
\* part of the same wakeup writes MINOR over the MAJOR of an earlier one.
SpentIsDestroyed == instr.dmgCnt > MaxDamage => instr.dmg = "MAJOR"

\* A lost instrument is out of service until the application is restarted.
\* What WHE_Destroy writes does not last: in the same wakeup, damage may write
\* MINOR over MAJOR (whe.c:354) and the end or the abort of the observation
\* POWERED over ERROR (whe.c:328-336).  But never both: so it either does
\* nothing at a wakeup, or is in the state that no command and no part of a
\* wakeup leaves.
LostStaysOutOfService == instr.lost => instr.dmg = "MAJOR" \/ instr.sbc = "ERROR"
=============================================================================
