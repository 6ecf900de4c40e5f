------------------------------ MODULE BootGuard ------------------------------
(***************************************************************************)
(* The WEDGE-1 boot guard and the parked NVRAM erase: what survives a      *)
(* restart in RTC-noinit RAM, and what each boot makes of it.              *)
(*                                                                         *)
(* A boot runs boot_guard::init, handle_pending_erase, app::init (which    *)
(* initialises ZBOSS) and app::start, which starts the ZBOSS task unless   *)
(* the guard chose safe mode.  Anything may end a boot early: a hang in    *)
(* the stack, a crash, a reset pulsed by the host opening its port, a      *)
(* power cut, the guard's own timers, or an NCP_RESET's deferred task.     *)
(***************************************************************************)
EXTENDS Naturals

CONSTANTS BOOT_FAIL_LIMIT,
          ResetTask,        \* identities of NCP_RESET's deferred tasks
          EraseInterrupted, \* an outside reset may come during the boot-time erase
          MAX_OUTSIDE,      \* bounds: resets from outside, crashes and NCP_RESETs,
          MAX_POWER_CYCLES, \*   power cycles,
          MAX_FAULTS        \*   hangs, slow boots and datasets that go bad

ASSUME BootAssumption ==
  /\ BOOT_FAIL_LIMIT \in Nat \ {0}
  /\ EraseInterrupted \in BOOLEAN
  /\ {MAX_OUTSIDE, MAX_POWER_CYCLES, MAX_FAULTS} \subseteq Nat

VARIABLES
  breadcrumb,    \* g_boot_breadcrumb: [magic, fails]
  pendingErase,  \* g_pending_ncp_erase: the options parked, 0 if none or garbage
  storage,       \* zb_storage: a dataset the stack loads, one it chokes on, or blank
  nvs,           \* the nvs partition: in use, or blank
  options,       \* handle_pending_erase's local: the erase under way
  phase,         \* how far this boot is
  safe,          \* s_safe_mode
  stack,         \* what this boot has done with ZBOSS
  timer,         \* the esp_timer the guard armed
  reset,         \* the deferred reset tasks: [pc, options]
  vouched,       \* history: this boot reached SKIP_STARTUP, or was cleared
  deaths,        \* history: boots in a row that ended without being vouched for
  owed,          \* history: per partition, an erase parked, parked over by a later
                 \*   NCP_RESET, or due in the boot that follows
  outside, powerCycles, faults

rtc == <<breadcrumb, pendingErase>>
history == <<vouched, deaths, owed>>
bounds == <<outside, powerCycles, faults>>
flash == <<storage, nvs>>
vars == <<rtc, flash, options, phase, safe, stack, timer, reset, history, bounds>>

\* RTC RAM after a power-on: the magic is wrong.
Garbage == [magic |-> FALSE, fails |-> 0]
Count(n) == [magic |-> TRUE, fails |-> n]

Partition == {"zb_storage", "nvs"}

\* Nothing is owed.
Settled == [p \in Partition |-> "no"]

NoTask == [pc |-> "none", options |-> 0]

Init ==
  /\ breadcrumb = Garbage /\ pendingErase = 0
  /\ storage \in {"loadable", "wedged", "blank"}
  /\ nvs \in {"used", "blank"} /\ options = 0
  /\ phase = "rom" /\ safe = FALSE /\ stack = "none" /\ timer = "off"
  /\ reset = [k \in ResetTask |-> NoTask]
  /\ vouched = FALSE /\ deaths = 0 /\ owed = Settled
  /\ outside = 0 /\ powerCycles = 0 /\ faults = 0

------------------------------------------------------------------------------
(* How a boot ends. *)

\* A restart keeps RTC RAM and flash and loses the rest.
Restart ==
  /\ phase' = "rom" /\ safe' = FALSE /\ stack' = "none" /\ timer' = "off"
  /\ reset' = [k \in ResetTask |-> NoTask]
  /\ vouched' = FALSE
  /\ options' = 0
  /\ owed' = [p \in Partition |-> IF owed[p] \in {"parked", "due"} THEN "due" ELSE "no"]

\* A boot nobody vouched for has died early; one in safe mode keeps the count.
Died == deaths' = IF vouched \/ safe \/ phase = "rom" THEN deaths ELSE deaths + 1

\* Mutant of ClearFailures: the count stays.
ClearFailuresNot == UNCHANGED breadcrumb

\* boot_guard::clear
ClearFailures == breadcrumb' = Count(0)

\* The host pulses a reset by opening its port, or the firmware crashes.
OutsideReset ==
  /\ outside < MAX_OUTSIDE
  /\ phase = "erasing" => EraseInterrupted
  /\ outside' = outside + 1
  /\ Restart /\ Died
  /\ UNCHANGED <<rtc, flash, powerCycles, faults>>

PowerCycle ==
  /\ powerCycles < MAX_POWER_CYCLES
  /\ powerCycles' = powerCycles + 1
  /\ breadcrumb' = Garbage /\ pendingErase' = 0
  /\ phase' = "rom" /\ safe' = FALSE /\ stack' = "none" /\ timer' = "off"
  /\ reset' = [k \in ResetTask |-> NoTask]
  /\ vouched' = FALSE /\ deaths' = 0 /\ owed' = Settled /\ options' = 0
  /\ UNCHANGED <<flash, outside, faults>>

\* deadline_cb: 30 s after boot_guard::init the stack is not up.  It always comes
\* to a hung boot; a boot that is only slow meets it now and then.
Deadline ==
  /\ timer = "deadline"
  /\ \/ phase = "hung" /\ UNCHANGED faults
     \/ /\ phase \in {"init", "starting", "alive"} /\ faults < MAX_FAULTS
        /\ faults' = faults + 1
  /\ Restart /\ Died
  /\ UNCHANGED <<rtc, flash, outside, powerCycles>>

\* The self-heal timer of safe mode: clear, restart.
Heal ==
  /\ timer = "heal" /\ phase = "safe"
  /\ ClearFailures
  /\ Restart /\ deaths' = 0
  /\ UNCHANGED <<pendingErase, flash, bounds>>

------------------------------------------------------------------------------
(* A boot, step by step. *)

\* Mutants of TooMany and GuardTimer: one death too late; no deadline.
TooManyLate(fails) == fails > BOOT_FAIL_LIMIT
GuardTimerHealOnly(isSafe) == IF isSafe THEN "heal" ELSE "off"

TooMany(fails) == fails >= BOOT_FAIL_LIMIT
GuardTimer(isSafe) == IF isSafe THEN "heal" ELSE "deadline"

\* boot_guard::init
GuardInit ==
  LET fails == IF breadcrumb.magic THEN breadcrumb.fails ELSE 0
  IN /\ phase = "rom"
     /\ phase' = "guard"
     /\ safe' = TooMany(fails)
     /\ timer' = GuardTimer(TooMany(fails))
     /\ breadcrumb' = IF TooMany(fails) THEN breadcrumb ELSE Count(fails + 1)
     /\ UNCHANGED <<pendingErase, flash, options, stack, reset, history, bounds>>

\* Mutant of EraseAsked: NVRAM erase (options 1) is overlooked.
EraseAskedFactoryOnly == pendingErase = 2

EraseAsked == pendingErase \in {1, 2}

\* handle_pending_erase clears the request first ...
HandlePendingErase ==
  /\ phase = "guard"
  /\ phase' = IF EraseAsked THEN "erasing" ELSE "init"
  /\ options' = pendingErase
  /\ pendingErase' = 0
  /\ UNCHANGED <<breadcrumb, flash, safe, stack, timer, reset, history, bounds>>

\* Mutant of Erased: nvs is never erased.
ErasedStorageOnly(o) == {"zb_storage"}

\* What options 1 (NVRAM erase) and 2 (factory reset) erase.
Erased(o) == {p \in Partition : o = 2 \/ (o = 1 /\ p = "zb_storage")}

\* ... then erases what its options name.
EraseStorage ==
  /\ phase = "erasing"
  /\ phase' = "init"
  /\ storage' = IF "zb_storage" \in Erased(options) THEN "blank" ELSE storage
  /\ nvs' = IF "nvs" \in Erased(options) THEN "blank" ELSE nvs
  /\ options' = 0
  /\ UNCHANGED <<rtc, safe, stack, timer, reset, history, bounds>>

\* app::init runs nvs_flash_init and zb_ncp::init, then app::start: in safe mode the
\* pump alone, otherwise also the ZBOSS task.  What was due is done, or too late.
InitAndStart ==
  /\ phase = "init"
  /\ nvs' = "used"
  /\ stack' = IF safe THEN "initialised" ELSE "started"
  /\ phase' = IF safe THEN "safe" ELSE "starting"
  /\ owed' = Settled
  /\ UNCHANGED <<rtc, storage, options, safe, timer, reset, vouched, deaths, bounds>>

\* The stack chokes on its dataset: it hangs, or crashes the chip.
Choke ==
  /\ phase = "starting" /\ storage = "wedged"
  /\ \/ phase' = "hung"
        /\ UNCHANGED <<options, safe, stack, timer, reset, history>>
     \/ Restart /\ Died
  /\ UNCHANGED <<rtc, flash, bounds>>

\* A hang in early start-up whose cause is transient.
Stumble ==
  /\ phase = "starting" /\ faults < MAX_FAULTS
  /\ faults' = faults + 1
  /\ phase' = "hung"
  /\ UNCHANGED <<rtc, flash, options, safe, stack, timer, reset, history, outside, powerCycles>>

\* continue_zboss -> mark_zboss_alive: the count is cleared ...
MarkAlive ==
  /\ phase = "starting" /\ storage # "wedged"
  /\ phase' = "alive"
  /\ ClearFailures
  /\ vouched' = TRUE /\ deaths' = 0
  /\ UNCHANGED <<pendingErase, flash, options, safe, stack, timer, reset, owed, bounds>>

\* ... then the deadline is stopped.
StopDeadline ==
  /\ phase = "alive"
  /\ phase' = "up"
  /\ timer' = "off"
  /\ UNCHANGED <<rtc, flash, options, safe, stack, reset, history, bounds>>

\* The stack forms a network and saves it, or a flash write is cut and its
\* dataset goes bad (external).
Save ==
  /\ phase = "up"
  /\ \/ storage' = "loadable" /\ UNCHANGED faults
     \/ storage' = "wedged" /\ faults < MAX_FAULTS /\ faults' = faults + 1
  /\ UNCHANGED <<rtc, nvs, options, phase, safe, stack, timer, reset, history, outside, powerCycles>>

------------------------------------------------------------------------------
(* cmd_handle<NCP_RESET> and ncp_reset_deferred_task. *)

\* The pump takes commands from app::start on; the task sleeps 300 ms first.
NcpReset(k) ==
  /\ phase \in {"starting", "alive", "up", "safe", "hung"}
  /\ reset[k].pc = "none"
  /\ outside < MAX_OUTSIDE
  /\ outside' = outside + 1
  /\ \E o \in {0, 1, 2} : reset' = [reset EXCEPT ![k] = [pc |-> "asleep", options |-> o]]
  /\ UNCHANGED <<rtc, flash, options, phase, safe, stack, timer, history, powerCycles, faults>>

\* Parking options o, of which NVRAM erase promises zb_storage and factory reset all:
\* the one cell of RTC RAM forgets what was parked before.
Owing(o) == [p \in Partition |->
  IF o = 2 \/ p = "zb_storage" THEN "parked"
  ELSE IF owed[p] = "parked" THEN "overtaken" ELSE owed[p]]

\* The erase is parked and the failures cleared; then another 150 ms.
Park(k) ==
  /\ reset[k].pc = "asleep"
  /\ reset' = [reset EXCEPT ![k].pc = "parked"]
  /\ IF reset[k].options \in {1, 2}
     THEN pendingErase' = reset[k].options /\ owed' = Owing(reset[k].options)
     ELSE UNCHANGED <<pendingErase, owed>>
  /\ ClearFailures
  /\ vouched' = TRUE /\ deaths' = 0
  /\ UNCHANGED <<flash, options, phase, safe, stack, timer, bounds>>

NcpRestart(k) ==
  /\ reset[k].pc = "parked"
  /\ Restart /\ Died
  /\ UNCHANGED <<rtc, flash, bounds>>

BootStep ==
  GuardInit \/ HandlePendingErase \/ EraseStorage \/ InitAndStart \/ MarkAlive \/ StopDeadline

Next ==
  \/ BootStep \/ Choke \/ Stumble \/ Save
  \/ Deadline \/ Heal \/ OutsideReset \/ PowerCycle
  \/ \E k \in ResetTask : NcpReset(k) \/ Park(k) \/ NcpRestart(k)

Spec == Init /\ [][Next]_vars

\* The processor runs, timers expire, tasks that sleep wake.
FairSpec ==
  /\ Spec
  /\ WF_vars(BootStep) /\ WF_vars(Choke)
  /\ WF_vars(Deadline) /\ WF_vars(Heal)
  /\ \A k \in ResetTask : WF_vars(Park(k)) /\ WF_vars(NcpRestart(k))

------------------------------------------------------------------------------
\* Every variable has its type.
TypeOK ==
  /\ breadcrumb \in [magic : BOOLEAN, fails : 0 .. BOOT_FAIL_LIMIT]
  /\ pendingErase \in 0 .. 2
  /\ storage \in {"loadable", "wedged", "blank"}
  /\ nvs \in {"used", "blank"} /\ options \in 0 .. 2
  /\ phase \in {"rom", "guard", "erasing", "init", "starting", "alive", "up", "safe", "hung"}
  /\ safe \in BOOLEAN
  /\ stack \in {"none", "initialised", "started"}
  /\ timer \in {"off", "deadline", "heal"}
  /\ reset \in [ResetTask -> [pc : {"none", "asleep", "parked"}, options : 0 .. 2]]
  /\ vouched \in BOOLEAN /\ deaths \in 0 .. BOOT_FAIL_LIMIT
  /\ owed \in [Partition -> {"no", "parked", "overtaken", "due"}]
  /\ outside \in 0 .. MAX_OUTSIDE /\ powerCycles \in 0 .. MAX_POWER_CYCLES
  /\ faults \in 0 .. MAX_FAULTS

\* A boot is in safe mode exactly when the BOOT_FAIL_LIMIT boots before it died
\* without the stack coming up and without a reset the host asked for: one good
\* boot, a supervised reset, the self-heal or a power cycle starts the count anew.
SafeModeEarned ==
  phase # "rom" /\ ~(safe /\ vouched) => (safe <=> deaths >= BOOT_FAIL_LIMIT)

\* No boot lets nvs_flash_init or the stack at a partition whose erase was parked
\* before it.  A later NCP_RESET can park its NVRAM erase over a factory reset, which
\* spares nvs (overtaken); zb_storage is erased whatever is parked over what.
EraseBeforeStack ==
  /\ phase = "init" /\ owed["zb_storage"] = "due" => storage = "blank"
  /\ phase = "init" /\ owed["nvs"] = "due" => nvs = "blank"
  /\ owed["zb_storage"] # "overtaken"

\* The stick is never mute for good, whatever its dataset: again and again it is
\* up or, in safe mode, answers the host (WEDGE-1).
NeverMute == []<>(phase \in {"up", "safe"})

\* A stick wedged on its dataset comes up once the host's erase is parked, unless
\* the power is cut, which takes the request with RTC RAM.
ParkedEraseRecovers ==
  \A n \in 0 .. MAX_POWER_CYCLES :
    (pendingErase # 0 /\ powerCycles = n) ~> (phase = "up" \/ powerCycles # n)
==============================================================================
