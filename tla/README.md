# WISE-HEADACHE-JASH: a TLA+ development

The repository is a flight software class project on NASA's core Flight System
(cFS).  Two simulated telescopes run as cFS applications: **WISE**, which the team's
own application **THERM** keeps warm and ventilated, and the older **WHE**, whose
overcharged capacitor the limit checker **LC** discharges.  The scheduler **SCH**
wakes them, the ground (COSMOS) commands them, and all of them meet only in the
software bus of the cFE.  This directory models the instruments, the two control
loops and the bus in TLA+, checks them with TLC and proves theorems about them with
TLAPS.

## 1. The system

### Components

| Component | State it keeps | Operations | Correct when |
|---|---|---|---|
| **WISE** (`src/cfs/apps/wise`) | charge, chart state and discharge delay of three capacitors; heaters, louvers, temperature; life cycle, damage tokens; countdown and recorder of observations; command counters | ten ground commands; a wakeup that drains the command pipe, steps capacitors, observation and temperature, publishes housekeeping | charts are followed, every fault destroys, countdown and delays are never inherited, charge and temperature stay bounded, an unpowered instrument is untouched and a lost one inert |
| **THERM** (`src/cfs/apps/therm`) | attempts per louver, one flag per heater and wakeup, command counters | drains its commands, then answers every WISE housekeeping message with relative toggles | louvers are opened without spending the last charge; heaters follow the temperature; attempts are spent on the louver they are counted for |
| **WHE** (`src/cfs/apps/whe`) | one structure: charge, state and delay of two capacitors, power and observation counters, damage, temperature, heater, louver | nine ground commands, each handled at once; a 1 Hz wakeup | charge stays bounded, a spent instrument is destroyed, a lost one stays out of service |
| **LC** (`src/cfs/apps/lc`) | state of the application; definition and result tables of watchpoints and actionpoints | on every message: samples the actionpoints, then handles a sample request, a housekeeping request (with the table loads), a command or a monitored message | answers from unmeasured watchpoints are right, no valid equation is illegal, results and fails belong to the tables now loaded |
| **Software bus** (`src/cfs/cfe/.../sb`) | pipes, routes, destinations with `BuffCount`, buffers with `UseCount`, zero copy descriptors | create and delete a pipe, subscribe, unsubscribe, send, receive, zero copy, enable and disable a route, clean up after an application | buffers are freed by their last holder and by no other, no message goes to a pipe that is gone, a limit is not lowered for good |
| **SCH** (`src/cfs/apps/sch`) | schedule table, current slot | sends the entries of a slot, 100 slots a second | each enabled entry is sent once per pass |
| **ES** (`.../es`) | application table | starts, cleans up and restarts applications | an application that ended leaves nothing behind |
| **COSMOS** (`src/cosmos`) | - | command database, test procedures | - |
| other cFS applications, cFE, OSAL, PSP | vendored | - | - |

### Interactions

- **The thermal loop.**  SCH sends a wakeup to WISE in slot 0, to THERM in slot 0
  after it, and to WISE again in slot 26 (`sch_def_schtbl.c:96,97,288`): WISE runs
  twice for each run of THERM.  WISE ends a wakeup by publishing its housekeeping;
  THERM reads it in its next wakeup and answers through the command pipe WISE
  shares with the ground.
- **The discharge loop.**  SCH wakes WHE in slot 0 (`sch_def_schtbl.c:94`).  WHE
  publishes its housekeeping; LC watches the charge of capacitor A in it and, when
  it is at least 95, sends the discharge command to the pipe of WHE
  (`lc_custom.c:81`).  The schedule entries that would send LC its own sample and
  housekeeping requests are commented out: the housekeeping of WHE is all that
  wakes it.
- **Restarts.**  The startup script (`src/cfs/build/cpu1/exe/cfe_es_startup.scr:16-18,31`)
  has ES restart an application that raises an exception.  ES deletes its pipes,
  with the messages in them, and starts it anew; commands it had sent stay in the
  pipes of the others.  An application that leaves its run loop is not restarted.
- SCH, WISE, THERM, WHE and LC are tasks of one priority.  They share the pipes and
  nothing else, and no command is acknowledged.

### What is hard

- **Stale housekeeping.** THERM and LC answer messages sent before their last
  commands were executed; THERM's commands are toggles, LC repeats its own.
- **Loss.** A message over the limit of its pipe (1 for wakeups, 4 for the rest) is
  dropped and the sender is told nothing.
- **Interleaving.** Any task may run between two messages of another.  In the bus,
  a receiver works on its pipe before it takes the semaphore, and the deletion of a
  pipe gives the semaphore back many times while others go on sending to it.
- **Restarts.** Toggles of a former life are still queued when the new one starts
  to count; a message may be read after its route was deleted and made anew.
- **Wakeups that go on.** A step of a wakeup of WISE or WHE may destroy the
  instrument; the later steps of that wakeup still run, and in WHE write over it.
- **Failure.** A pipe read that fails marks the application, which leaves its loop
  only after the rest of the wakeup.
- **Long command sequences.** The ground may select, discharge, observe and stop in
  any order and at any time, and load tables while results of the old ones stand.
- **Boundaries.** `uint8` counters, a countdown decremented before it is compared,
  charge telemetry cast to an integer, limits compared with `>` or `>=`.

`PROJECT.json` lists each hazard at its line with the properties that cover it.

## 2. The modules

| Module | Models | Shape |
|---|---|---|
| `Instrument` | what WISE promises: life cycle and capacitor chart | abstract specification |
| `Wise` | `wise_app.c` | one action per function of a wakeup, one operator per command |
| `WiseProofs`, `WiseRefinement` | - | theorems about `Wise`; `Wise` implements `Instrument` |
| `Pipe` | `CFE_SB_SendMsg`/`CFE_SB_RcvMsg` at one destination with one limit | operators on a record `[queue, count]` |
| `Therm` | `therm_app.c` | one action per message taken and per message sent |
| `ThermalLoop` | SCH's entries, pipes, `Wise`, `Therm`, the ground and ES | composition by `INSTANCE` |
| `LoopProofs` | - | theorems about `ThermalLoop` |
| `Whe` | `whe.c` | the structure `WHE_Info` as a record; one action per message |
| `WheProofs` | - | theorems about `Whe` |
| `Lc` | `lc_cmds.c`, `lc_action.c`, `lc_watch.c` | one action per kind of message |
| `LcProofs` | - | theorems about `Lc` |
| `SharedPipe` | a pipe that carries several messages, each with its limit | operators on `[queue, count per message]` |
| `WheLoop` | SCH, `Whe`, `Lc`, their pipes, the ground and ES | composition by `EXTENDS` |
| `WheLoopProofs` | - | theorems about `WheLoop` |
| `SoftwareBus` | `cfe_sb_api.c`, `cfe_sb_buf.c`, `cfe_sb_priv.c`, and the clean up of ES | one action per call or, where a call is not atomic, per step of it |
| `SoftwareBusProofs` | - | theorems about the types and routes of `SoftwareBus` |
| `BufferProofs` | - | theorems about its buffers, limits and pipes |
| `MCWise`, `MCThermalLoop`, `MCLc`, `MCWheLoop`, `MCSoftwareBus` | command sets and tables of the instances | for TLC |

**Wise.** The C globals keep their meaning: `gWiseCapCharge`, `gWiseCapState`,
`gWiseCapDelay` are `capCharge`, `capState`, `capDelay`; `gNumChargingCap` and
`gNumDischargingCap` are `numCharging`, `numDischarging`; `gWiseSbcState` is
`sbcState`, and so on.  `pc` is the function the wakeup is in, so the order of
the calls is in the model and a destruction in one is met by the next.
`rand()` is a nondeterministic choice.  Charges are integers in units of
`1/ChargePerPct` percent; the float temperature update is abstracted to its
direction (it warms only with a source of heat, cools only with an open louver)
and to a largest step.  In `Wise` alone the command pipe is any command at any
time of the drain; in `ThermalLoop` it is a real pipe.

**Therm.** `thermPc` is the position in `THERM_RcvMsg`; a housekeeping message is
handled in four steps (louver A, louver B, heater A, heater B), each of which may
send one command, because WISE may drain its pipe between them.  The
housekeeping request both applications accept has no sender in this system and is
left out, and so are events.

**ThermalLoop.** `WiseCommand` and `WiseReport` join an action of `Wise` to a
`Take`/`Put` of a pipe.  `Release` is done with the handling of the message, in
one step: between the end of `CFE_SB_RcvMsg` and the handling no other task can
see the difference.  `RestartApp` is the restart of WISE or THERM at any point of
its work, which includes every point at which ES does it; it empties the pipes of
that application and leaves the others.  `actuations` is a history variable;
`budget` and `restarts` bound what the ground and ES do.

**Whe.** WHE handles one message at a time and its state is one structure, so a
wakeup is one step.  A part of it (damage, discharge, overcharge, observation,
temperature) is the set of what it can make of the instrument it finds; their
composition keeps the order of `WHE_ProcessWakeup`.  The float temperature, which
moves by less than a band at a time, is its band.

**Lc.** Equations in reverse Polish notation are evaluated and validated as the
code does it, the one with a stack and the other with depths: both are recursive
functions over the items, so that they can be proved about.  Every message first
samples every actionpoint (`AppPipe`), as `LC_AppPipe` does.  A failed actionpoint
stays ACTIVE.  A watchpoint reads one byte, signed or not.  The tables are
variables, replaced by loads that pass their validation.

**WheLoop.** `WheWDT` and `WheADT` are the entries of the default tables the
repository builds LC with.  `setbacks` counts what LC cannot be blamed for, its
restarts and the commands the bus dropped.

**SoftwareBus.** `CFE_SB_SendMsgFull` holds the semaphore (`lock`) over `SendMsg`,
one `Deliver` for each destination and `FinishSend`; `CFE_SB_RcvMsg` is
`StartRcv` and `ReadQueue` without it and `EndRcv` under it; every other call is
one step under it, and the route commands do not ask for it.  ES cleans up an
application pipe by pipe: each route, each receive, each zero copy descriptor and
the end are steps between which others run.  One of them may be the application
itself: `CFE_ES_CleanUpApp` deletes its pipes first and its task last
(`cfe_es_apps.c:1251`, `1282`).  It has either ended (`ExitApp`, which delays for
ever), or has not asked for its next turn in the time ES gave it; then it is in any
call, which it goes on with, and may send.  It may take a message ES would have
drained, finish a receive on a pipe that is closed or that another application has
got since, and be deleted with a buffer in hand (`DeleteTask`).  `forced` records
that this has begun to be possible.  The list of destinations is a set, for its order is not told
apart by what is checked.  `ActsAsPipe` is a refinement: as long as its routes
stay, every step shows at a pipe as one operation of `SharedPipe`, or not at all.
It is why `WheLoop` may use those operations for the sends and receives that are
several steps here; `Pipe` is the case of a single limit.

## 3. The runs

| Run | Question | Bounds |
|---|---|---|
| `wise_power` | charts, counts, limits, and `Wise => Instrument`; observations and discharges end | 2 capacitors, at most 1 discharging without risk, temperature fixed, fair task |
| `wise_thermal` | unpowered is pristine, destroyed is inert, overheating is cut off | 1 capacitor, 5 degrees, one louver and heater commanded, pipe reads may fail |
| `wise_tokens` | *violation*: six tokens destroy the instrument | the code's 6 tokens, 1 capacitor, only powered |
| `loop_louver` | toggles are counted over a restart of THERM; THERM spares the last charge | 2 attempts, charge needed 3, full 4, sound louvers, 1 restart |
| `loop_fail` | the counts of the pipes; THERM's types | every command of THERM, failing reads, 2 ground commands, limit 2, 1 restart of WISE |
| `loop_cold` | heat in the cold | frozen cold temperature, frozen charge, limit 2, fair tasks, 1 restart of either |
| `loop_giveup` | *violation*: the event "failed to change after 3 attempts" | the code's 3 attempts and limit 4, sound louvers |
| `loop_heater` | *violation*: the comment "Temp is low. Increase temp" | limit 4 |
| `lc_points` | equations, results and fails under every message, load and restart | every equation of up to 4 items, 2 watchpoints, 1 actionpoint, bytes modulo 4 |
| `lc_disabled` | *violation*: the users guide on the state DISABLED | as `lc_points`, one equation |
| `whe_loop` | WHE is safe, LC holds its charge and discharges only what was charged, discharges and power-ups end | 3 ground commands, 1 restart, limit 1 |
| `sb_bus` | buffers, routes and limits under every interleaving with a clean up; a pipe is a `SharedPipe`; the clean up ends | 1 message, 2 pipes, 2 applications of which ES may stop one, 2 buffers, limit 1 below depth 2 |

### Why the bounds are enough

*WISE and THERM.*  Scaled charges keep the order of the code's
(`LvrCost < ObsMinCharge < ObsCost < DischargeStep < FullCharge`) in the runs
about power, and leave an excess over `FullCharge` in which every draw happens;
two capacitors are the least with an active and another one.  `loop_louver`
keeps the inequality that makes its property hold: each louver may spend
`MaxLvrAttempts` actuations on stale news of a charge of `LvrMinCharge`.  Two
louvers of 2 attempts may take 4 from a charge of 3, and only the gain of the
wakeup between pays for the last; the code's two of 3 may take 6 from 5 percent
(with a gain of 3).  With a minimum of 2 TLC shows the instrument destroyed.  Pipe
limits of 2 make drops frequent; `loop_cold` also holds with the code's 4.  With a
limit of 1 it does not: the toggle of heater B is dropped behind that of heater A
for ever.  `loop_cold` freezes the capacitor (`ChargeGain = 0`) because an
instrument that charges is sooner or later lost to an overcharge, and any promise
"unless the instrument is lost" would hold of it whatever THERM did.

*LC.*  An equation of four items holds two operands and an operator, or one with a
`NOT`; two watchpoints with different messages and ages give every pair of
results.  The largest age (1) and one fail before a request (`maxFails` 1) are the
least at which a countdown and a count of fails mean something.

*WHE and LC.*  A power-up takes two wakeups, so that no result of LC from a former
life is left when WHE charges again; in the code it takes five.
`Threshold - 1 + 2 * GainAlone` is at most `FullCharge`, as in the code
(94 + 4 <= 100): LC acts before an overcharge can draw.  `Prompt` has SCH wait for
the work of a second to be done, which takes milliseconds.  Commands that only
undo another of the three (heater off, louver closed, capacitor A selected) are
not sent.  The tables are those LC starts with; loads are `lc_points`'s subject.

*The bus.*  One message and one limit are enough for every interleaving of one
route with its deletion and return, two pipes for a send that is between its
destinations and for a freed entry that is given to the other application, two
buffers for one that is queued while another is current or put aside.  A limit
below the depth reaches both reasons for a refusal.  ES cleans up one of the two
applications (`External`), ended or in any call; the other is one of the cFE, which
ES never stops.  `BuffersAreCounted` speaks of the states before ES first cleans up
an application that has not ended, the other invariants of all.

`CHECK_DEADLOCK FALSE` appears only where pipe reads may fail: an application
that left its loop stops the system.

Every property has a mutant: an operator that changes one mapped definition the
way a plausible bug would, under which TLC finds the property violated.

### Fairness

`Wise!Fairness`: SCH's slots do not stop, so wakeups come (`WF(Wakeup)`); a
task that can run runs (`WF(Step)`); the loop that drains the command pipe has
no bound, and is trusted to end because the ground does not send without pause
(`SF(EndOfCommands)`).  `ThermalLoop!Fairness` is weak fairness of SCH, WISE and
THERM, which have one priority.  `DrainsEnd` adds that the drain loops end: 26
slots of 10 ms lie between two wakeups of WISE, far more than a message takes.
The assumption matters: without it TLC finds a THERM that reads exactly as fast
as WISE publishes, never ends its wakeup, never clears its heater flags and
leaves a heater off in the cold.

`WheLoop!Fairness`: the timer of SCH runs, and each task takes the message that
waits and is done with the one it holds; restarts and commands are not fair.

`SbFairSpec`: the holder of the semaphore runs its finite loop to the end
(`WF`), and ES, which waits for a semaphore that is passed on again and again and
whose priority (68) is above that of all the applications here but one, gets it
again and again (`SF(CleanUp)`).  Nothing is assumed of the other calls: the clean
up ends although others go on sending, because it deletes the routes before it
drains the pipe.  Without that order TLC finds a drain that never ends.

### Findings

1. **A sound louver is given up** (`therm_app.c:142`).  Two housekeeping messages
   wait for each wakeup of THERM; both show the louver shut and each is
   answered.  Two toggles leave it shut; the third uses up the attempts and
   raises "assumed broken or stuck" about a louver that obeyed every command.
2. **A toggle in the cold switches a heater off** (`therm_app.c:204`), when it
   answers housekeeping sent before the last toggle was executed.  `ColdGetsHeat`
   shows that it comes on again.
3. **A DISABLED LC goes on sampling** (`lc_cmds.c:290`): it counts fails on every
   message, where the users guide (`cfs_lc.dox:169`) says it performs no limit
   tests.
4. **Six damage tokens do not destroy WISE** (`wise_app.c:1491`): the token is
   counted and then compared with `>`, so it is the seventh that does.
   `wise_app.h:77` says "6 minor damage tokens result in instrument destruction";
   `DamageBound` states what the code does.

Divergences read in the code, not run:

- An instrument of WHE that is lost in a wakeup may report MINOR and go on stepping
  in the state ERROR (`whe.c:354` writes over MAJOR), or be MAJOR, do nothing at a
  wakeup and yet accept commands (`whe.c:328-336` writes POWERED over ERROR).
  `LostStaysOutOfService` shows that it never loses both marks.
- `WISE_ToggleLvr` (`wise_app.c:1262-1269`) reports a louver that does not exist
  and goes on: it takes the charge and reads and writes behind its arrays.  The
  ground database offers the two louvers only, and the model commands no other.
- WISE starts at 5..14 C (`wise_app.h:71`), not around the midpoint of 25 C the
  comment above it promises.
- `therm_app.c:148` tests the counter of louver A for the event about louver B.
- `cfs_lc.dox:827` answers "No" to whether a failed actionpoint requests its
  sequence more than once, and `lc_action.c:271` says that it goes passive; the
  line that would do it (273) is commented out.  `DischargeIsDeserved` shows that
  the repetition does no harm to WHE.
- The watchpoint "WHE Capacitor A Charge >= 95" reads a signed byte: a charge of
  128 or more would be negative.  `ChargeIsBounded` with the draws of `rand() % 100`
  keeps it below 202, so the telemetry byte is right and LC's reading may not be.
  `LoopHoldsChargeInFlight` shows that LC keeps the charge in the range it can read
  until it was set back more than seven times (a command dropped, or a restart);
  from then on nothing proved here excludes a charge it reads as negative.
- `cfe_sb_api.c:963` says that a routing entry has a destination "by design".  A
  subscription that found no block left one without (`Subscribe`, its second
  disjunct); the entry's next unsubscribe reads through NULL.
- A destination block is read (`->Next`) after it was returned to the pool, in
  `CFE_SB_UnsubscribeFull` and, after the semaphore was given back, in
  `CFE_SB_DeletePipeFull`.
- An application that ES cleans up before it has ended may lose buffers: the one in
  its hands when its task is deleted, or the one a late receive makes current at a
  pipe that was closed meanwhile (and that the next receive of its new owner, if
  any, drops).  Their use counts stay (`BuffersAreCounted` without `~forced` fails
  in TLC); nothing is freed too early, and no limit is lowered for good.

## 4. The proofs

Every theorem holds for all values of the constants that the named assumptions
admit (`CapAssumption`, `ObsAssumption`, `TempAssumption`, `LoopAssumption`,
`WheAssumption`, `LcAssumption`, `DefaultAssumption`, `WheLoopAssumption`,
`SbAssumption`), and those the table names.  Each follows one argument:
`Init => Inv`, `Inv /\ [Next]_vars => Inv'` (one step per action), `Inv => Property`,
then PTL.

| Theorem | States | Rests on |
|---|---|---|
| `WiseProofs!TypeCorrect` | `[](TypeOK /\ ObsCountMatches)` | `TypeInv` is inductive only with the countdown: `obsCount - 1` is natural because an observation has `obsCount >= 1` |
| `BreakingDestroys` | `[]BrokenCapDestroys` | `HealthStep`: a step destroys or leaves the health alone |
| `DischargesInFull` | `[]DelayIsSpent` | only `CAP_DISCHARGE` arms a delay, and only a discharge with none left returns to charging |
| `ChargeIsBounded` | `[]ChargeBound` | `SparedBound`: a capacitor no draw hits has at most the excess `Percent - 1` |
| `CountsStayFresh` | `[]CountsAreFresh` | the counts are taken on entry of each capacitor's step; the one chart move after the count breaks a charging capacitor |
| `DamageIsBounded` | `[]DamageBound` | a strengthening that counts, per control point, the tokens a wakeup may still add |
| `BreaksByOwnFault` | `OnlyOwnFaultBreaks` | an action property, from `TypeInv` |
| `WiseRefinement!CountdownMatches` | `[]ObsCountMatches` | `TypeCorrect` |
| `OffStaysPristine` | `[]OffIsPristine` | `OffInv`: an instrument that is off is also not in the middle of a part of the wakeup that would change it |
| `DestroyedStaysInert` | `DestroyedIsInert` | an action property, from the invariants of the health |
| `OverheatingEnds` | `[]TempBound` | the last draw was survived by the temperature before the last step |
| `WiseImplementsInstrument` | `Spec => ImplementsInstrument` | step simulation: every action is a step of the life cycle or of one capacitor's chart, or a stutter |
| `LoopProofs!LoopTypeCorrect` | `[]TypeOK` | the types of `Therm` and the schedule |
| `PipesStayCounted` | `[]PipesAreCounted` | `BusInv`: each pipe's count is its queue plus what its receiver holds, and what the receiver holds fits the point it is at |
| `TogglesStayCounted` | `[]TogglesAreCounted`, if the ground neither toggles a louver nor clears the attempts | `BusInv`; a toggle that moves from the queue to the task and to the instrument keeps the sum, a send raises both sides |
| `WheProofs!WheTypeCorrect`, `WheChargeBounded`, `WheSpentDestroyed` | `[]WheTypeOK`, `[]ChargeIsBounded`, `[]SpentIsDestroyed` | `Done`, the invariant between messages, and `Stage`, which each part of a wakeup hands to the next: it lets MINOR stand over MAJOR until the wakeup's end |
| `WheLostStaysOut` | `[]LostStaysOutOfService` | the same: `Stage` follows the two marks of the loss, of which a part of the wakeup writes over one at most |
| `LcProofs!LcResultsCurrent` | `[]ResultsAreOfThisTable` | `WatchInv`: with the types of the watchpoint tables |
| `LcTypeCorrect` | `[]LcTypeOK` | `LcInv`: with the types of the results; `RunType`: a run over an equation ends with a stack of results or with an answer |
| `LcFailsCurrent` | `[]FailsAreCurrent` | `LcInv`, in which a count above zero goes with FAIL or ERROR |
| `LcDefiniteIsRight` | `[]DefiniteIsRight`, for equations of any length | `RunSettles`: a run over unmeasured results and one over the measured keep stacks that agree wherever the first is PASS or FAIL |
| `LcErrorComesFromWatch` | `[]ErrorComesFromWatch` | `FreeRun`: the depth `LC_ValidateRPN` counts is the depth of the stack, so a valid equation is run to its end, and without an ERROR on the stack |
| `WheLoopProofs!LoopRunsWhe`, `LoopRunsLc` | `Spec => WheSpec`, `Spec => LcSpec(...)` | `MsgTypes`: what the pipes carry is what the components accept |
| `LoopHoldsCharge` | `[](Readable => ChargeIsHeld)` | `OneMessage` and `Held` |
| `LoopHoldsChargeInFlight` | `[](setbacks <= 7 => ChargeIsHeld)`, for a threshold of 95, a gain of 2 and a byte of 256 | `LoopHoldsCharge` |
| `LoopDeservesDischarge` | `DischargeIsDeserved`, if `Distinct` | `OneMessage` and `Deserved` |
| `SoftwareBusProofs!BusTypes` | `[]SbTypeOK` | `TypeInv`: a receive or clean up that is under way knows its pipe, a send its buffer; `Release` guards the subtraction |
| `DeliveriesReachPipes` | `[]RoutesLeadToPipes` | `RouteInv`: a sender holds the semaphore (so whoever gets it free meets no send half done); ES is at a pipe of the application it cleans up, which starts no call but a send; from the drain on nothing leads to that pipe |
| `BufferProofs!BuffersOutliveHolders` | `[]NeverFreedEarly`: no use count is below the number of holders, and a free buffer has none | `CountInv` |
| `CountsMatchHolders` | `[]BuffersAreCounted` | `CountInv` |
| `LimitsAreGivenBack` | `[]CountsNeverLeak` | `CountInv`; a place is taken with a queue entry and given back by whoever reads it, or gone with its destination |
| `BusKeepsPipes` | `ActsAsPipe` | `CountInv`, and `Kept`: no step changes the message of a buffer that is queued or just read |

**The equations of LC.**  What `LC_EvaluateRPN` computes for an equation of any
length is proved by induction over its items.  `NaturalsInduction` takes an operator
as a parameter, which the provers here cannot instantiate; the lemma `Induction`
says the same of a *set* of numbers and follows from the well-foundedness of `<`.
A monitored message must not have the id of one of LC's own commands
(`mids \cap OwnIds = {}`: `LC_AppPipe` tells them apart by it), and the default
action table must pass the validation LC makes of it (`DefaultAssumption`;
`LC_LoadDefaultTables`, `lc_app.c:1097`).

**WHE and LC.**  The theorems assume `AsBuilt`, what the repository builds and
configures: one watchpoint and one actionpoint with the entries of the default
tables, a power-up that takes more than one wakeup (5 in the code), a threshold
that a signed byte can hold (2 * 95 < 256), and a second
long enough for its work (`Prompt`).  Everything else is arbitrary: the gains, the
pipe limits, the commands of the ground, the restarts of both.
`Inv` of `Whe` and `LcInv` hold in the loop because its steps are theirs; the rest
of the argument is about the messages.  `OneMessage`: between two ticks there is
one message in the loop and its place tells the phase, that is a wakeup, a report,
or a command of LC.  `ReportTells`: the report in flight is the charge of the
instrument, or of one that ES has restarted since.  `Held`: to the charge are added
the gains still `Ahead` before the discharge, one if the report of the threshold
has not been made and one if LC has not sampled its result; a charge below the
threshold has both before it, a command underway has none, and a command
dropped or a result forgotten puts both back, which the bound pays for by two gains.
`Readable` says that a signed byte tells every charge up to the bound, or
every charge there can be.  `Deserved`: a command underway meets an instrument that
refuses it or that has gained since the threshold.  `Distinct` asks that no
overdrawn charge reads as one above the threshold and that a discharge ends below
it: 2 * 60 <= 256 and 10 < 95 in the code.

**Buffers, limits and pipes.**  A holder of a buffer is a place (an entry of a
queue, the current buffer of a pipe, a task that has just read it or is sending it,
a list of zero copy buffers); the proofs count places, with the theorems about
finite sets.  `CountInv` is `RouteInv` with: while only applications that had ended
were cleaned up, the one being cleaned up has ended (`Halted`), who reads a pipe owns
it (`Reading`), and a pipe that is read has no current buffer (`Emptied`); always, a
pipe not in use has an empty queue and nothing put aside (`Vacant`), a drained one
has an empty queue (`Emptied`), a buffer is put aside only during a receive or where
one was cut short (`PutAside`), a task has a buffer in hand only while it sends or
has read one (`InHands`), a zero copy buffer not yet sent has been given to no one
else (`Reserved`), and every buffer has at least as many uses as holders, exactly as
many while not `forced` (`Counted`).  The use of a buffer is compared with the
holders a step takes away and adds (`Tally`, `Shed`), so that a holder lost with a
task or written over by a late receive only makes the inequality strict.
`LimitsAreGivenBack` needs no such exception: what a deleted task had in hand was
read from a pipe whose destinations, with their counts, ES had deleted before.

`RouteInv` is needed because the property alone says nothing of the moment a pipe
is closed: that no route is left then follows only from what ES did steps before
and from no other task being able to subscribe a pipe it does not own.

Only model-checked: the liveness properties (`ObservationEnds`, `DischargeEnds` of
both instruments, `ColdGetsHeat`, `PowerComesUp`, `CleanUpEnds`), because fairness and
ENABLED are beyond the prover; and `LouversSpareTheInstrument`, an invariant whose
proof would have to relate the charge of a capacitor, the toggles underway and the
age of the housekeeping THERM is reading, and that holds for particular inequalities
between their numbers.

## 5. Not modelled

Of the repository's C files nearly all are vendored: the cFE, OSAL and PSP, the
stock applications, and their unit tests, which alone are more than half of the
lines.  The applications written for this project (WISE, THERM, WHE) are modelled
in full, and of the vendored code what carries their behaviour: the software bus
and the limit checker.  The rest has no part in it.

- *Everywhere*: events, the format of telemetry, statistics and counters that
  nothing decides by, performance markers.
- *SCH*: slot timing, table loads, ground commands; its entries are a fixed order.
- *LC*: data wider than a byte, bit masks, the custom function, actionpoint
  statistics, the critical data store (not built), leaving on a pipe error.
  `MaxFailCount` bounds the consecutive fails (`FailsAfter`): it is at least the
  fails a request needs, and above that the code only compares the count, which it
  lets run on in a `uint16`.
- *Software bus*: subscription reports, local scope, sequence counts,
  `CFE_SB_GetLastSenderId`, table dumps.  `CFE_SB_ZeroCopyGetPtr` is one step,
  though the code writes the owner of the descriptor after it gave the semaphore
  back.  A route command is one step, though it finds the destination and writes it
  without the semaphore; a block freed in between is in no list, or that of another
  destination, and the late write is a command for that one.
- *An application that is cleaned up before it has ended* finishes the call it is in
  and may send; that it starts another receive, subscribes, or uses zero copy
  buffers in the turn it has left is not modelled (`Calls`; the hazards at
  `cfe_sb_api.c:1487` and `1739` say what could come of it).  Its task is not
  deleted in the middle of a send, which would keep the semaphore (`DeleteTask`).
  Deletion takes effect at once, where POSIX waits for the task's next cancellation
  point.  A receive from a queue that is deleted ends without a message, and so does
  one that was preempted before it read the id of its queue; it never reads the
  queue of the pipe's next owner.
- *ES*: when it restarts an application; the models restart it at any point.  A
  restart of WISE together with a second power-on is left out of `loop_louver`:
  THERM's answer to the housekeeping of the former life takes the last of a charge
  that starts at zero, TLC shows, and no document promises otherwise.
- *COSMOS* beyond the commands it sends; the other applications, OSAL and PSP.

## 6. Plan

Done: the instruments, the two loops with restarts, the limit checker, the bus, and
the theorems above.  Worth doing next, in this order:

1. `LouversSpareTheInstrument` as a theorem, with the inequality its numbers need
   as a hypothesis.
2. SCH: the slots, the synchronisation to the major frame and the loss of slots
   (`sch_custom.c`), as a specification `Tick` and `ProcessNextEntry` refine.
