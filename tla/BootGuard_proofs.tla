-------------------------- MODULE BootGuard_proofs ----------------------------
(***************************************************************************)
(* BootGuard for any limit, any number of deferred resets and any number   *)
(* of faults: its type invariant, safe mode exactly when earned, and a     *)
(* parked erase before the stack.                                          *)
(*                                                                         *)
(* The count in RTC RAM is ahead of the deaths it stands for by the boot   *)
(* under way (CountIsDeaths); what is due is asked for in RTC RAM, or      *)
(* being erased, or blank (DueIsAsked), and no task of an earlier boot is  *)
(* left to park anything in between (TasksRun).                            *)
(***************************************************************************)
EXTENDS BootGuard, TLAPS

Early == {"rom", "guard", "erasing", "init"}

\* What the count says.
Fails == IF breadcrumb.magic THEN breadcrumb.fails ELSE 0

CountIsDeaths ==
  /\ phase = "rom" => ~safe /\ ~vouched /\ Fails = deaths
  /\ phase # "rom" =>
       /\ vouched => Fails = 0 /\ deaths = 0
       /\ ~vouched /\ safe => Fails = deaths /\ deaths >= BOOT_FAIL_LIMIT
       /\ ~vouched /\ ~safe => Fails = deaths + 1 /\ deaths < BOOT_FAIL_LIMIT

\* Reset tasks belong to a boot that takes commands.
TasksRun == (\E k \in ResetTask : reset[k].pc # "none") => phase \notin Early

IsBlank(p) == IF p = "nvs" THEN nvs = "blank" ELSE storage = "blank"

DueIsAsked ==
  /\ \A p \in Partition : owed[p] \in {"parked", "overtaken"} => phase \notin Early
  /\ \A p \in Partition : owed[p] = "parked" => p \in Erased(pendingErase)
  /\ \A p \in Partition : owed[p] = "due" =>
       \/ phase \in Early /\ IsBlank(p)
       \/ phase = "erasing" /\ p \in Erased(options)
       \/ phase \in {"rom", "guard"} /\ p \in Erased(pendingErase)
  /\ owed["zb_storage"] # "overtaken"

Counted == TypeOK /\ CountIsDeaths
Count1 == Counted /\ TasksRun
------------------------------------------------------------------------------
LEMMA Limit == BOOT_FAIL_LIMIT \in Nat /\ BOOT_FAIL_LIMIT >= 1
BY BootAssumption

LEMMA Records ==
  /\ Garbage \in [magic : BOOLEAN, fails : 0 .. BOOT_FAIL_LIMIT] /\ ~Garbage.magic
  /\ \A n \in 0 .. BOOT_FAIL_LIMIT :
       /\ Count(n) \in [magic : BOOLEAN, fails : 0 .. BOOT_FAIL_LIMIT]
       /\ Count(n).magic /\ Count(n).fails = n
  /\ NoTask \in [pc : {"none", "asleep", "parked"}, options : 0 .. 2] /\ NoTask.pc = "none"
BY Limit DEF Garbage, Count, NoTask

LEMMA FailsTyped == TypeOK => Fails \in 0 .. BOOT_FAIL_LIMIT
BY Limit DEF TypeOK, Fails

Owed == [Partition -> {"no", "parked", "overtaken", "due"}]

\* What is owed keeps its type.
LEMMA OwedTyped ==
  /\ Settled \in Owed /\ \A p \in Partition : Settled[p] = "no"
  /\ owed \in Owed => \A o \in 0 .. 2 : Owing(o) \in Owed
  /\ owed \in Owed /\ Restart => owed' \in Owed
BY DEF Settled, Owed, Owing, Restart

LEMMA NoTasks ==
  [k \in ResetTask |-> NoTask] \in [ResetTask -> [pc : {"none", "asleep", "parked"}, options : 0 .. 2]]
BY Records

LEMMA CountInit == Init => Count1
<1> SUFFICES ASSUME Init PROVE Count1
  OBVIOUS
<1>1. /\ breadcrumb = Garbage /\ phase = "rom" /\ safe = FALSE /\ vouched = FALSE /\ deaths = 0
      /\ reset = [k \in ResetTask |-> NoTask]
  BY DEF Init
<1>2. TypeOK
  <2>1. reset \in [ResetTask -> [pc : {"none", "asleep", "parked"}, options : 0 .. 2]]
    BY <1>1, NoTasks
  <2>2. breadcrumb \in [magic : BOOLEAN, fails : 0 .. BOOT_FAIL_LIMIT]
    BY <1>1, Records
  <2>5. safe \in BOOLEAN /\ vouched \in BOOLEAN
    BY DEF Init
  <2>3. /\ storage \in {"loadable", "wedged", "blank"} /\ pendingErase \in 0 .. 2
        /\ nvs \in {"used", "blank"} /\ options \in 0 .. 2
        /\ phase = "rom" /\ stack = "none" /\ timer = "off" /\ owed \in Owed
    BY OwedTyped DEF Init
  <2>4. /\ deaths \in 0 .. BOOT_FAIL_LIMIT /\ outside \in 0 .. MAX_OUTSIDE
        /\ powerCycles \in 0 .. MAX_POWER_CYCLES /\ faults \in 0 .. MAX_FAULTS
    BY Limit, BootAssumption DEF Init
  <2> QED BY <2>1, <2>2, <2>3, <2>4, <2>5 DEF TypeOK, Owed
<1>3. CountIsDeaths
  BY <1>1, Records DEF CountIsDeaths, Fails
<1>4. TasksRun
  BY <1>1, Records DEF TasksRun
<1> QED BY <1>2, <1>3, <1>4 DEF Count1, Counted

\* A restart that leaves the count alone, after Died.
LEMMA RestartCounts ==
  ASSUME Count1, Restart, Died, breadcrumb' = breadcrumb, pendingErase' = pendingErase,
         storage' = storage, nvs' = nvs,
         outside' \in 0 .. MAX_OUTSIDE, powerCycles' = powerCycles, faults' \in 0 .. MAX_FAULTS
  PROVE  Count1'
<1>1. /\ phase' = "rom" /\ safe' = FALSE /\ stack' = "none" /\ timer' = "off"
      /\ vouched' = FALSE /\ owed' \in Owed /\ options' = 0
      /\ reset' = [k \in ResetTask |-> NoTask]
  BY OwedTyped DEF Restart, Count1, Counted, TypeOK, Owed
<1>2. Fails' = Fails /\ Fails \in 0 .. BOOT_FAIL_LIMIT
  BY FailsTyped DEF Count1, Counted, Fails
<1>3. deaths' = Fails
  BY DEF Count1, Counted, CountIsDeaths, Died
<1>4. TypeOK'
  <2>1. breadcrumb' \in [magic : BOOLEAN, fails : 0 .. BOOT_FAIL_LIMIT]
    BY DEF Count1, Counted, TypeOK
  <2>2. /\ pendingErase' \in 0 .. 2 /\ storage' \in {"loadable", "wedged", "blank"}
        /\ nvs' \in {"used", "blank"} /\ powerCycles' \in 0 .. MAX_POWER_CYCLES
    BY DEF Count1, Counted, TypeOK
  <2>3. reset' \in [ResetTask -> [pc : {"none", "asleep", "parked"}, options : 0 .. 2]]
    BY <1>1, NoTasks
  <2>4. options' \in 0 .. 2 /\ deaths' \in 0 .. BOOT_FAIL_LIMIT
    BY <1>1, <1>2, <1>3
  <2> QED BY <1>1, <2>1, <2>2, <2>3, <2>4 DEF TypeOK, Owed
<1>5. CountIsDeaths'
  BY <1>1, <1>2, <1>3 DEF CountIsDeaths
<1>6. TasksRun'
  BY <1>1, Records DEF TasksRun
<1> QED BY <1>4, <1>5, <1>6 DEF Count1, Counted

LEMMA CountedNext == Count1 /\ [Next]_vars => Counted'
<1> SUFFICES ASSUME Count1, [Next]_vars PROVE Counted'
  OBVIOUS
<1>typed. TypeOK /\ CountIsDeaths /\ Fails \in 0 .. BOOT_FAIL_LIMIT /\ deaths \in Nat
          /\ outside \in 0 .. MAX_OUTSIDE /\ powerCycles \in 0 .. MAX_POWER_CYCLES
          /\ faults \in 0 .. MAX_FAULTS
          /\ MAX_OUTSIDE \in Nat /\ MAX_POWER_CYCLES \in Nat /\ MAX_FAULTS \in Nat
  BY FailsTyped, BootAssumption, Limit DEF Count1, Counted, TypeOK
<1>clear. ASSUME ClearFailures
          PROVE  /\ breadcrumb' \in [magic : BOOLEAN, fails : 0 .. BOOT_FAIL_LIMIT]
                 /\ Fails' = 0
  BY <1>clear, Records, Limit DEF ClearFailures, Fails
<1>1. CASE GuardInit
  <2>1. /\ phase = "rom" /\ phase' = "guard"
        /\ safe' = TooMany(Fails)
        /\ timer' = GuardTimer(TooMany(Fails))
        /\ breadcrumb' = IF TooMany(Fails) THEN breadcrumb ELSE Count(Fails + 1)
        /\ UNCHANGED <<pendingErase, storage, nvs, options, stack, reset, vouched, deaths, owed,
                       outside, powerCycles, faults>>
    BY <1>1 DEF GuardInit, Fails, history, bounds, flash
  <2>2. ~vouched /\ Fails = deaths
    BY <2>1, <1>typed DEF CountIsDeaths
  <2>3. CASE TooMany(Fails)
    <3>1. safe' /\ breadcrumb' = breadcrumb /\ deaths >= BOOT_FAIL_LIMIT /\ safe' \in BOOLEAN
          /\ timer' = "heal"
      BY <2>1, <2>2, <2>3 DEF TooMany, GuardTimer
    <3>2. TypeOK'
      BY <2>1, <3>1, <1>typed DEF TypeOK
    <3>3. CountIsDeaths'
      BY <2>1, <2>2, <3>1 DEF CountIsDeaths, Fails
    <3> QED BY <3>2, <3>3 DEF Counted
  <2>4. CASE ~TooMany(Fails)
    <3>1. safe' = FALSE /\ breadcrumb' = Count(Fails + 1) /\ timer' = "deadline"
      <4>1. TooMany(Fails) = FALSE
        BY <2>4 DEF TooMany
      <4>2. GuardTimer(TooMany(Fails)) = "deadline"
        BY <2>4 DEF GuardTimer
      <4> QED BY <2>1, <4>1, <4>2, <2>4
    <3>2. Fails < BOOT_FAIL_LIMIT /\ Fails + 1 \in 0 .. BOOT_FAIL_LIMIT
      BY <2>4, <1>typed, Limit DEF TooMany
    <3>3. Fails' = Fails + 1 /\ breadcrumb' \in [magic : BOOLEAN, fails : 0 .. BOOT_FAIL_LIMIT]
      BY <3>1, <3>2, Records DEF Fails
    <3>4. TypeOK'
      BY <2>1, <3>1, <3>3, <1>typed DEF TypeOK
    <3>5. CountIsDeaths'
      BY <2>1, <2>2, <3>1, <3>2, <3>3 DEF CountIsDeaths
    <3> QED BY <3>4, <3>5 DEF Counted
  <2> QED BY <2>3, <2>4
\* Steps that concern neither the count nor what it stands for.
<1>quiet. ASSUME UNCHANGED <<breadcrumb, safe, vouched, deaths>>,
                 phase # "rom", phase' # "rom", TypeOK'
          PROVE  Counted'
  BY <1>quiet, <1>typed DEF Count1, Counted, CountIsDeaths, Fails
<1>2. CASE HandlePendingErase
  <2>1. TypeOK'
    BY <1>2, <1>typed DEF HandlePendingErase, TypeOK, history, bounds, flash
  <2> QED BY <1>2, <2>1, <1>quiet DEF HandlePendingErase, history
<1>3. CASE EraseStorage
  <2>1. TypeOK'
    BY <1>3, <1>typed DEF EraseStorage, TypeOK, rtc, history, bounds
  <2> QED BY <1>3, <2>1, <1>quiet DEF EraseStorage, rtc, history
<1>4. CASE InitAndStart
  <2>1. TypeOK'
    BY <1>4, <1>typed, OwedTyped DEF InitAndStart, TypeOK, rtc, bounds, Owed
  <2> QED BY <1>4, <2>1, <1>quiet DEF InitAndStart, rtc
<1>5. CASE MarkAlive
  <2>1. TypeOK'
    BY <1>5, <1>typed, <1>clear, Limit DEF MarkAlive, TypeOK, bounds, flash
  <2>2. CountIsDeaths'
    BY <1>5, <1>clear DEF MarkAlive, CountIsDeaths
  <2> QED BY <2>1, <2>2 DEF Counted
<1>6. CASE StopDeadline
  <2>1. TypeOK'
    BY <1>6, <1>typed DEF StopDeadline, TypeOK, rtc, history, bounds, flash
  <2> QED BY <1>6, <2>1, <1>quiet DEF StopDeadline, rtc, history
<1>7. CASE Choke
  <2>1. CASE phase' = "hung" /\ UNCHANGED <<options, safe, stack, timer, reset, history>>
    <3>1. TypeOK'
      BY <1>7, <2>1, <1>typed DEF Choke, TypeOK, rtc, history, bounds, flash
    <3> QED BY <1>7, <2>1, <3>1, <1>quiet DEF Choke, rtc, history
  <2>2. CASE Restart /\ Died
    BY <1>7, <2>2, <1>typed, RestartCounts DEF Count1, Choke, rtc, bounds, flash
  <2> QED BY <1>7, <2>1, <2>2 DEF Choke
<1>8. CASE Stumble
  <2>1. TypeOK'
    BY <1>8, <1>typed DEF Stumble, TypeOK, rtc, history, flash
  <2> QED BY <1>8, <2>1, <1>quiet DEF Stumble, rtc, history
<1>9. CASE Save
  <2>1. TypeOK'
    BY <1>9, <1>typed DEF Save, TypeOK, rtc, history
  <2> QED BY <1>9, <2>1, <1>quiet DEF Save, rtc, history
<1>10. CASE Deadline
  BY <1>10, <1>typed, RestartCounts DEF Count1, Deadline, rtc, flash
<1>11. CASE Heal
  <2>1. /\ phase' = "rom" /\ safe' = FALSE /\ stack' = "none" /\ timer' = "off"
        /\ vouched' = FALSE /\ owed' \in Owed /\ deaths' = 0 /\ options' = 0
        /\ reset' = [k \in ResetTask |-> NoTask] /\ ClearFailures
    BY <1>11, <1>typed, OwedTyped DEF Heal, Restart, TypeOK, Owed
  <2>4. breadcrumb' \in [magic : BOOLEAN, fails : 0 .. BOOT_FAIL_LIMIT] /\ Fails' = 0
    BY <2>1, <1>clear
  <2>2. TypeOK'
    <3>1. reset' \in [ResetTask -> [pc : {"none", "asleep", "parked"}, options : 0 .. 2]]
      BY <2>1, NoTasks
    <3>2. safe' \in BOOLEAN /\ vouched' \in BOOLEAN
      BY <2>1
    <3>3. /\ phase' = "rom" /\ stack' = "none" /\ timer' = "off" /\ owed' \in Owed
          /\ pendingErase' \in 0 .. 2 /\ storage' \in {"loadable", "wedged", "blank"}
          /\ nvs' \in {"used", "blank"} /\ options' \in 0 .. 2
      BY <1>11, <2>1, <1>typed DEF Heal, TypeOK, flash
    <3>4. /\ deaths' \in 0 .. BOOT_FAIL_LIMIT /\ outside' \in 0 .. MAX_OUTSIDE
          /\ powerCycles' \in 0 .. MAX_POWER_CYCLES /\ faults' \in 0 .. MAX_FAULTS
      BY <1>11, <2>1, <1>typed, Limit DEF Heal, bounds
    <3> QED BY <3>1, <3>2, <3>3, <3>4, <2>4 DEF TypeOK, Owed
  <2>3. CountIsDeaths'
    BY <2>1, <2>4 DEF CountIsDeaths
  <2> QED BY <2>2, <2>3 DEF Counted
<1>12. CASE OutsideReset
  BY <1>12, <1>typed, RestartCounts DEF Count1, OutsideReset, rtc, flash
<1>13. CASE PowerCycle
  <2>1. Fails' = 0
    BY <1>13, Records DEF PowerCycle, Fails
  <2>2. TypeOK'
    <3>1. reset' \in [ResetTask -> [pc : {"none", "asleep", "parked"}, options : 0 .. 2]]
      BY <1>13, NoTasks DEF PowerCycle
    <3>2. breadcrumb' \in [magic : BOOLEAN, fails : 0 .. BOOT_FAIL_LIMIT]
      BY <1>13, Records DEF PowerCycle
    <3>3. safe' \in BOOLEAN /\ vouched' \in BOOLEAN
      BY <1>13 DEF PowerCycle
    <3>4. /\ phase' = "rom" /\ stack' = "none" /\ timer' = "off" /\ owed' \in Owed
          /\ pendingErase' \in 0 .. 2 /\ storage' \in {"loadable", "wedged", "blank"}
          /\ nvs' \in {"used", "blank"} /\ options' \in 0 .. 2
      BY <1>13, <1>typed, OwedTyped DEF PowerCycle, TypeOK, flash
    <3>5. /\ deaths' \in 0 .. BOOT_FAIL_LIMIT /\ outside' \in 0 .. MAX_OUTSIDE
          /\ powerCycles' \in 0 .. MAX_POWER_CYCLES /\ faults' \in 0 .. MAX_FAULTS
      BY <1>13, <1>typed, Limit DEF PowerCycle
    <3> QED BY <3>1, <3>2, <3>3, <3>4, <3>5 DEF TypeOK, Owed
  <2>3. CountIsDeaths'
    BY <1>13, <2>1 DEF PowerCycle, CountIsDeaths
  <2> QED BY <2>2, <2>3 DEF Counted
<1>14. ASSUME NEW k \in ResetTask, NcpReset(k)
       PROVE  Counted'
  <2>1. reset' \in [ResetTask -> [pc : {"none", "asleep", "parked"}, options : 0 .. 2]]
    BY <1>14, <1>typed DEF NcpReset, TypeOK
  <2>2. TypeOK'
    BY <1>14, <2>1, <1>typed DEF NcpReset, TypeOK, rtc, history, flash
  <2> QED BY <1>14, <2>2, <1>quiet DEF NcpReset, rtc, history
<1>15. ASSUME NEW k \in ResetTask, Park(k)
       PROVE  Counted'
  <2>1. reset' \in [ResetTask -> [pc : {"none", "asleep", "parked"}, options : 0 .. 2]]
    BY <1>15, <1>typed DEF Park, TypeOK
  <2>2. pendingErase' \in 0 .. 2 /\ owed' \in Owed
    BY <1>15, <1>typed, OwedTyped DEF Park, TypeOK, Owed
  <2>3. TypeOK'
    BY <1>15, <2>1, <2>2, <1>typed, <1>clear, Limit DEF Park, TypeOK, bounds, flash, Owed
  <2>5. phase' # "rom" /\ vouched' /\ deaths' = 0 /\ Fails' = 0
    <3>1. phase # "rom" /\ phase' = phase
      BY <1>15 DEF Park, Count1, TasksRun, Early
    <3> QED BY <3>1, <1>15, <1>clear DEF Park
  <2>4. CountIsDeaths'
    BY <2>5 DEF CountIsDeaths
  <2> QED BY <2>3, <2>4 DEF Counted
<1>16. ASSUME NEW k \in ResetTask, NcpRestart(k)
       PROVE  Counted'
  BY <1>16, <1>typed, RestartCounts DEF Count1, NcpRestart, rtc, bounds, flash
<1>17. CASE UNCHANGED vars
  BY <1>17 DEF vars, rtc, flash, history, bounds, Count1, Counted, TypeOK, CountIsDeaths, Fails
<1> QED BY <1>1, <1>2, <1>3, <1>4, <1>5, <1>6, <1>7, <1>8, <1>9, <1>10, <1>11, <1>12, <1>13,
           <1>14, <1>15, <1>16, <1>17 DEF Next, BootStep

\* A task is made when commands are taken; a boot starts with none.
LEMMA TasksNext == Count1 /\ [Next]_vars => TasksRun'
<1> SUFFICES ASSUME Count1, [Next]_vars PROVE TasksRun'
  OBVIOUS
<1>1. TasksRun /\ reset \in [ResetTask -> [pc : {"none", "asleep", "parked"}, options : 0 .. 2]]
  BY DEF Count1, Counted, TypeOK
<1>2. ASSUME reset' = [k \in ResetTask |-> NoTask] PROVE TasksRun'
  BY <1>2, Records DEF TasksRun
<1>3. ASSUME reset' = reset, phase' \in Early => phase \in Early PROVE TasksRun'
  BY <1>1, <1>3 DEF TasksRun
<1>4. ASSUME phase' \notin Early PROVE TasksRun'
  BY <1>4 DEF TasksRun
<1>5. CASE GuardInit \/ HandlePendingErase \/ EraseStorage
  BY <1>3, <1>5 DEF GuardInit, HandlePendingErase, EraseStorage, Early
<1>6. CASE InitAndStart \/ MarkAlive \/ StopDeadline \/ Stumble \/ Save
  BY <1>4, <1>6 DEF InitAndStart, MarkAlive, StopDeadline, Stumble, Save, Early
<1>7. CASE Choke
  BY <1>2, <1>4, <1>7 DEF Choke, Restart, Early
<1>8. CASE Deadline \/ Heal \/ OutsideReset \/ PowerCycle
  BY <1>2, <1>8 DEF Deadline, Heal, OutsideReset, PowerCycle, Restart
<1>9. ASSUME NEW k \in ResetTask, NcpReset(k) \/ Park(k) \/ NcpRestart(k) PROVE TasksRun'
  <2>1. CASE NcpReset(k)
    BY <1>4, <2>1 DEF NcpReset, Early
  <2>2. CASE Park(k)
    BY <1>1, <1>4, <2>2 DEF Park, TasksRun
  <2>3. CASE NcpRestart(k)
    BY <1>2, <2>3 DEF NcpRestart, Restart
  <2> QED BY <1>9, <2>1, <2>2, <2>3
<1>10. CASE UNCHANGED vars
  BY <1>3, <1>10 DEF vars
<1> QED BY <1>5, <1>6, <1>7, <1>8, <1>9, <1>10 DEF Next, BootStep

LEMMA CountAlways == Spec => []Count1
<1>1. Count1 /\ [Next]_vars => Count1'
  BY CountedNext, TasksNext DEF Count1
<1> QED BY CountInit, <1>1, PTL DEF Spec
------------------------------------------------------------------------------
\* What is due stays asked for, and nobody parks anew before it is carried out.
LEMMA DueNext == ~EraseInterrupted /\ Count1 /\ DueIsAsked /\ [Next]_vars => DueIsAsked'
<1> SUFFICES ASSUME ~EraseInterrupted, Count1, DueIsAsked, [Next]_vars PROVE DueIsAsked'
  OBVIOUS
<1>1. /\ TasksRun /\ pendingErase \in 0 .. 2 /\ options \in 0 .. 2 /\ owed \in Owed
      /\ reset \in [ResetTask -> [pc : {"none", "asleep", "parked"}, options : 0 .. 2]]
  BY DEF Count1, Counted, TypeOK, Owed
<1>zb. "zb_storage" \in Partition
  BY DEF Partition
\* A restart, which no running task, timer or crash can bring during the erase.
<1>2. ASSUME Restart, pendingErase' = pendingErase, flash' = flash, phase # "erasing"
      PROVE  DueIsAsked'
  <2>1. /\ phase' = "rom" /\ nvs' = nvs /\ storage' = storage
        /\ \A p \in Partition :
             owed'[p] = IF owed[p] \in {"parked", "due"} THEN "due" ELSE "no"
    BY <1>2 DEF Restart, flash
  <2>2. ASSUME NEW p \in Partition, owed'[p] = "due"
        PROVE  IsBlank(p)' \/ p \in Erased(pendingErase)'
    BY <1>2, <2>1, <2>2 DEF DueIsAsked, IsBlank, Erased
  <2> QED BY <2>1, <2>2, <1>zb DEF DueIsAsked, Early
\* Nothing is due once commands are taken, and what is parked stays so.
<1>3. ASSUME pendingErase' = pendingErase, owed' = owed, phase \notin Early, phase' \notin Early
      PROVE  DueIsAsked'
  <2>1. \A p \in Partition : owed[p] # "due"
    BY <1>3 DEF DueIsAsked, Early
  <2> QED BY <1>3, <2>1 DEF DueIsAsked, Erased
<1>4. CASE GuardInit
  <2>1. /\ phase = "rom" /\ phase' = "guard" /\ owed' = owed
        /\ pendingErase' = pendingErase /\ nvs' = nvs /\ storage' = storage
    BY <1>4 DEF GuardInit, history, flash
  <2> QED BY <2>1 DEF DueIsAsked, Early, IsBlank, Erased
<1>5. CASE HandlePendingErase
  <2>1. /\ phase = "guard" /\ phase' = IF EraseAsked THEN "erasing" ELSE "init"
        /\ owed' = owed /\ options' = pendingErase /\ nvs' = nvs /\ storage' = storage
    BY <1>5 DEF HandlePendingErase, history, flash
  <2>2. \A p \in Partition : owed[p] \notin {"parked", "overtaken"}
    BY <2>1 DEF DueIsAsked, Early
  <2>3. ASSUME NEW p \in Partition, owed[p] = "due"
        PROVE  IsBlank(p)' \/ (phase' = "erasing" /\ p \in Erased(options)')
    <3>1. IsBlank(p) \/ p \in Erased(pendingErase)
      BY <2>1, <2>3 DEF DueIsAsked
    <3>2. p \in Erased(pendingErase) => EraseAsked
      BY DEF Erased, EraseAsked
    <3> QED BY <2>1, <3>1, <3>2 DEF IsBlank, Erased
  <2>4. phase' \in Early
    BY <2>1 DEF Early
  <2> QED BY <2>1, <2>2, <2>3, <2>4, <1>zb DEF DueIsAsked
<1>6. CASE EraseStorage
  <2>1. /\ phase = "erasing" /\ phase' = "init" /\ owed' = owed
        /\ storage' = IF "zb_storage" \in Erased(options) THEN "blank" ELSE storage
        /\ nvs' = IF "nvs" \in Erased(options) THEN "blank" ELSE nvs
    BY <1>6 DEF EraseStorage, history
  <2>2. \A p \in Partition : owed[p] \notin {"parked", "overtaken"}
    BY <2>1 DEF DueIsAsked, Early
  <2>3. ASSUME NEW p \in Partition, owed[p] = "due"
        PROVE  IsBlank(p)'
    <3>1. IsBlank(p) \/ p \in Erased(options)
      BY <2>1, <2>3 DEF DueIsAsked
    <3> QED BY <2>1, <3>1 DEF IsBlank, Partition
  <2> QED BY <2>1, <2>2, <2>3, <1>zb DEF DueIsAsked, Early
<1>7. CASE InitAndStart
  BY <1>7, <1>zb, OwedTyped DEF InitAndStart, DueIsAsked
<1>8. CASE MarkAlive \/ StopDeadline \/ Stumble \/ Save
  BY <1>3, <1>8 DEF MarkAlive, StopDeadline, Stumble, Save, Early, rtc, history
<1>9. CASE Choke
  BY <1>2, <1>3, <1>9 DEF Choke, Early, rtc, history
<1>10. CASE Deadline
  BY <1>2, <1>10 DEF Deadline, rtc
<1>11. CASE Heal
  BY <1>2, <1>11 DEF Heal
<1>12. CASE OutsideReset
  BY <1>2, <1>12 DEF OutsideReset, rtc
<1>13. CASE PowerCycle
  BY <1>13, <1>zb, OwedTyped DEF PowerCycle, DueIsAsked
<1>14. ASSUME NEW k \in ResetTask, NcpReset(k) PROVE DueIsAsked'
  BY <1>3, <1>14 DEF NcpReset, Early, rtc, history
<1>15. ASSUME NEW k \in ResetTask, Park(k) PROVE DueIsAsked'
  <2>1. phase \notin Early /\ phase' = phase
    BY <1>1, <1>15 DEF Park, TasksRun
  <2>2. CASE reset[k].options \in {1, 2}
    <3> DEFINE o == reset[k].options
    <3>0. pendingErase' = o /\ o \in {1, 2} /\ owed' = Owing(o)
      BY <1>15, <2>2 DEF Park
    <3>1. /\ pendingErase' = o /\ o \in {1, 2}
          /\ \A p \in Partition :
               owed'[p] = IF p \in Erased(o) THEN "parked"
                          ELSE IF owed[p] = "parked" THEN "overtaken" ELSE owed[p]
      BY <3>0 DEF Owing, Erased
    <3>2. \A p \in Partition : owed[p] # "due"
      BY <2>1 DEF DueIsAsked, Early
    <3>3. "zb_storage" \in Erased(o)
      BY <3>1, <1>zb DEF Erased
    <3>4. Erased(pendingErase)' = Erased(o)
      BY <3>1 DEF Erased
    <3>5. ASSUME NEW p \in Partition
          PROVE  /\ owed'[p] # "due"
                 /\ owed'[p] = "parked" => p \in Erased(pendingErase)'
      BY <3>1, <3>2, <3>4
    <3>6. owed'["zb_storage"] # "overtaken"
      BY <3>1, <3>3, <1>zb
    <3> QED BY <2>1, <3>5, <3>6 DEF DueIsAsked
  <2>3. CASE reset[k].options \notin {1, 2}
    BY <1>3, <1>15, <2>1, <2>3 DEF Park
  <2> QED BY <2>2, <2>3
<1>16. ASSUME NEW k \in ResetTask, NcpRestart(k) PROVE DueIsAsked'
  <2>1. phase # "erasing"
    BY <1>1, <1>16 DEF NcpRestart, TasksRun, Early
  <2> QED BY <1>2, <1>16, <2>1 DEF NcpRestart, rtc
<1>17. CASE UNCHANGED vars
  BY <1>17 DEF vars, rtc, flash, history, DueIsAsked, IsBlank, Erased
<1> QED BY <1>4, <1>5, <1>6, <1>7, <1>8, <1>9, <1>10, <1>11, <1>12, <1>13, <1>14, <1>15, <1>16,
           <1>17 DEF Next, BootStep
------------------------------------------------------------------------------
\* Every variable keeps its type, and the count in RTC RAM never passes the limit,
\* whatever ends the boots (main.cpp:70-107).
THEOREM TypeCorrect == Spec => []TypeOK
<1>1. Count1 => TypeOK
  BY DEF Count1, Counted
<1> QED BY CountAlways, <1>1, PTL

\* A boot is in safe mode exactly when BOOT_FAIL_LIMIT boots before it died
\* without being vouched for (main.cpp:80-92).
THEOREM SafeModeIsEarned == Spec => []SafeModeEarned
<1>1. Count1 => SafeModeEarned
  <2> SUFFICES ASSUME Count1, phase # "rom", ~(safe /\ vouched)
               PROVE  safe <=> deaths >= BOOT_FAIL_LIMIT
    BY DEF SafeModeEarned
  <2>1. deaths \in 0 .. BOOT_FAIL_LIMIT /\ safe \in BOOLEAN /\ vouched \in BOOLEAN
    BY DEF Count1, Counted, TypeOK
  <2>2. CASE vouched
    <3>1. deaths = 0 /\ ~safe
      BY <2>2 DEF Count1, Counted, CountIsDeaths
    <3>2. ~(deaths >= BOOT_FAIL_LIMIT)
      BY <3>1, Limit
    <3> QED BY <3>1, <3>2
  <2>3. CASE ~vouched /\ safe
    BY <2>3 DEF Count1, Counted, CountIsDeaths
  <2>4. CASE ~vouched /\ ~safe
    <3>1. deaths < BOOT_FAIL_LIMIT
      BY <2>4 DEF Count1, Counted, CountIsDeaths
    <3>2. ~(deaths >= BOOT_FAIL_LIMIT)
      BY <3>1, <2>1, Limit
    <3> QED BY <2>4, <3>2
  <2> QED BY <2>2, <2>3, <2>4
<1> QED BY CountAlways, <1>1, PTL

\* No boot lets nvs_flash_init or the stack at a partition whose erase was parked
\* before it, as long as the erase itself is not cut short, and of what is parked
\* only nvs can be parked over (main.cpp:24-42, commands_impl.h:102-105).
THEOREM ErasePrecedesStack ==
  ASSUME ~EraseInterrupted
  PROVE  Spec => []EraseBeforeStack
<1>1. Init => DueIsAsked
  BY OwedTyped DEF Init, DueIsAsked, Partition
<1>2. Count1 /\ DueIsAsked /\ [Next]_vars => DueIsAsked'
  BY DueNext
<1>3. DueIsAsked => EraseBeforeStack
  BY DEF DueIsAsked, EraseBeforeStack, IsBlank, Partition
<1> QED BY CountAlways, <1>1, <1>2, <1>3, PTL DEF Spec
==============================================================================
