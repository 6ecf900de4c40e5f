---------------------------- MODULE Commissioning -----------------------------
(***************************************************************************)
(* How the coordinator gets onto its network, and the restore that changes *)
(* which one (RESTORE_STRUCTURED_BACKUP).  A boot applies an image parked  *)
(* in NVS, starts the ZBOSS task, and once the dataset is loaded           *)
(* (SKIP_STARTUP) commissions: it forms if the host asked for it or an image*)
(* was applied, and resumes otherwise.  The host may send NWK_FORMATION,   *)
(* NWK_START_WITHOUT_FORMATION, parameters of its own and another restore  *)
(* at any point of this.                                                   *)
(*                                                                         *)
(* Handlers and ZBOSS callbacks exclude each other (the big lock); resets  *)
(* cut everything.  The stack itself is external: what it loads, when a    *)
(* commissioning may start and how it ends.                                *)
(***************************************************************************)
EXTENDS Naturals

CONSTANTS Image,        \* the backups hosts restore
          Poison,       \* those that make a setter panic
          Request,      \* NWK_FORMATION and NWK_START_WITHOUT_FORMATION commands
          EraseMayFail, \* the erase of zb_storage may fail
          MAX_RESETS,   \* bounds: resets from outside,
          MAX_SAFE,     \*   boots in safe mode,
          MAX_FAULTS,   \*   failures of NVS, flash and formations,
          MAX_RESTORES  \*   restores

ASSUME CommissioningAssumption ==
  /\ Poison \subseteq Image
  /\ EraseMayFail \in BOOLEAN
  /\ {MAX_RESETS, MAX_SAFE, MAX_FAULTS, MAX_RESTORES} \subseteq Nat
  /\ {"none", "prior", "fresh"} \cap (Image \cup Request) = {}

VARIABLES
  blob,       \* NVS "restore_pend"/"tlv": the image parked, or "none"
  storage,    \* the network in zb_storage, "none" if erased
  counters,   \* its ZB_IB_COUNTERS are saved
  phase,      \* how far this boot is
  planting,   \* the image apply_pending_restore is at
  nib,        \* the network in the stack's RAM
  applied,    \* s_restore_applied
  formation,  \* single_cmd_delayed<NWK_FORMATION>::m_cmd, "none" if free
  bdb,        \* the commissioning under way
  signal,     \* the signal scheduled
  imposed,    \* the host has set parameters over those that were planted
  storing,    \* the image a restore handler has put into NVS and not yet erased for
  restart,    \* restart tasks under way
  answer,     \* history: what each command was answered
  told,       \* history: what the last restore of each image was answered
  formed,     \* history: this boot has formed a network
  disturbed,  \* history: since the last restore answered with success, a fault or an
              \*   event that restores do not allow for
  resets, safes, faults, restores

flash == <<blob, storage, counters>>
zboss == <<nib, bdb, signal, imposed>>
history == <<answer, told, formed, disturbed>>
bounds == <<resets, safes, faults, restores>>
vars == <<flash, phase, planting, zboss, applied, formation, storing, restart, history, bounds>>

Network == Image \cup {"prior", "fresh"}

Init ==
  /\ blob = "none" /\ storage \in {"none", "prior"} /\ counters = (storage = "prior")
  /\ phase = "off" /\ planting = "none" /\ nib = "none" /\ applied = FALSE
  /\ formation = "none" /\ bdb = "none" /\ signal = "none" /\ imposed = FALSE
  /\ storing = "none" /\ restart = FALSE
  /\ answer = [r \in Request |-> "none"] /\ told = [i \in Image |-> "none"]
  /\ formed = FALSE /\ disturbed = FALSE
  /\ resets = 0 /\ safes = 0 /\ faults = 0 /\ restores = 0

------------------------------------------------------------------------------
(* Resets. *)

\* NVS and flash survive, all else starts again.
Reboot ==
  /\ phase' = "off" /\ planting' = "none" /\ nib' = "none" /\ applied' = FALSE
  /\ formation' = "none" /\ bdb' = "none" /\ signal' = "none" /\ imposed' = FALSE
  /\ storing' = "none" /\ restart' = FALSE /\ formed' = FALSE
  /\ UNCHANGED <<flash, answer, told>>

OutsideReset ==
  /\ resets < MAX_RESETS
  /\ resets' = resets + 1 /\ disturbed' = TRUE
  /\ Reboot
  /\ UNCHANGED <<safes, faults, restores>>

\* The restart task of a restore: one second is up.
DeferredRestart ==
  /\ restart
  /\ Reboot
  /\ UNCHANGED <<disturbed, bounds>>

\* A failure among those bounded by MAX_FAULTS.
Fault ==
  /\ faults < MAX_FAULTS
  /\ faults' = faults + 1 /\ disturbed' = TRUE
  /\ UNCHANGED <<resets, safes, restores>>

NoFault == UNCHANGED <<disturbed, bounds>>

------------------------------------------------------------------------------
(* A boot. *)

\* Mutant of TakeBlob: the image is not erased before it is applied.
TakeBlobKeeps ==
  /\ phase = "off" /\ blob # "none"
  /\ phase' = "applying" /\ planting' = blob
  /\ UNCHANGED <<flash, zboss, applied, formation, storing, restart, history, bounds>>

\* apply_pending_restore, up to nvs_commit: the image is read and erased before
\* anything is set.  It cannot be read: it stays.  The erase is not checked.
TakeBlob ==
  /\ phase = "off" /\ blob # "none"
  /\ \/ phase' = "applying" /\ planting' = blob /\ blob' = "none" /\ NoFault
     \/ phase' = "applying" /\ planting' = blob /\ UNCHANGED blob /\ Fault
     \/ phase' = "initialised" /\ UNCHANGED <<planting, blob>> /\ Fault
  /\ UNCHANGED <<storage, counters, zboss, applied, formation, storing, restart, answer, told, formed>>

NoBlob ==
  /\ phase = "off" /\ blob = "none"
  /\ phase' = "initialised"
  /\ UNCHANGED <<flash, planting, zboss, applied, formation, storing, restart, history, bounds>>

\* The setters, one per TLV, or the panic of one of them.
Plant ==
  /\ phase = "applying"
  /\ IF planting \in Poison
     THEN Reboot /\ disturbed' = TRUE /\ UNCHANGED bounds
     ELSE /\ phase' = "initialised" /\ nib' = planting /\ planting' = "none" /\ applied' = TRUE
          /\ UNCHANGED <<flash, bdb, signal, imposed, formation, storing, restart, history, bounds>>

\* app::start_int: the ZBOSS task is started before the first command is taken,
\* unless the boot guard chose safe mode, which blocks all the commands below.
Start ==
  /\ phase = "initialised"
  /\ \/ phase' = "starting" /\ UNCHANGED <<disturbed, bounds>>
     \/ /\ safes < MAX_SAFE
        /\ phase' = "safe" /\ safes' = safes + 1 /\ disturbed' = TRUE
        /\ UNCHANGED <<resets, faults, restores>>
  /\ UNCHANGED <<flash, planting, zboss, applied, formation, storing, restart, answer, told, formed>>

\* The big lock: no restore handler is in the middle of its work.
BigLockFree == storing = "none"

\* SKIP_STARTUP (external): a dataset in flash is loaded over what was planted.
SkipStartup ==
  /\ phase = "starting" /\ BigLockFree
  /\ phase' = "loaded"
  /\ nib' = IF storage # "none" THEN storage ELSE nib
  /\ UNCHANGED <<flash, planting, bdb, signal, imposed, applied, formation, storing, restart, history, bounds>>

------------------------------------------------------------------------------
(* Commissioning. *)

\* bdb_start_top_level_commissioning (external): one at a time; before the stack
\* is up it may refuse.
BdbAccepts(ok) ==
  ok \in IF bdb # "none" THEN {FALSE} ELSE IF phase = "starting" THEN BOOLEAN ELSE {TRUE}

\* Mutant of TakeFormation: the slot is not freed.
TakeFormationKeeps(how) ==
  /\ UNCHANGED formation
  /\ answer' = IF formation = "none" THEN answer ELSE [answer EXCEPT ![formation] = how]

\* delayed_cmd_process::response on single_cmd_delayed<NWK_FORMATION>::resolve_take.
TakeFormation(how) ==
  /\ formation' = "none"
  /\ answer' = IF formation = "none" THEN answer ELSE [answer EXCEPT ![formation] = how]

Kind == IF formation # "none" \/ applied THEN "formation" ELSE "initialization"

\* continue_zboss.
ContinueZboss ==
  /\ phase = "loaded" /\ BigLockFree
  /\ phase' = "up"
  /\ \E ok \in BOOLEAN :
       /\ BdbAccepts(ok)
       /\ bdb' = IF ok THEN Kind ELSE bdb
       /\ IF ok \/ formation = "none" THEN UNCHANGED <<formation, answer>> ELSE TakeFormation("error")
  /\ UNCHANGED <<flash, planting, nib, signal, imposed, applied, storing, restart, told, formed, disturbed, bounds>>

\* The commissioning ends (external).  A formation keeps a network that was
\* planted, unless the host has set other parameters since, and makes a new one
\* otherwise; the stack saves it and schedules the signal.  In the second before a
\* restart this is a save over the erased flash.
BdbEnds ==
  /\ bdb # "none" /\ signal = "none" /\ phase \in {"starting", "loaded", "up"} /\ BigLockFree
  /\ bdb' = "none"
  /\ \/ /\ bdb = "formation"
        /\ signal' = "formed" /\ formed' = TRUE
        /\ nib' = IF applied /\ nib \in Image /\ ~imposed THEN nib ELSE "fresh"
        /\ storage' = nib' /\ counters' = ~(applied /\ nib \in Image)
        /\ disturbed' = (disturbed \/ restart) /\ UNCHANGED bounds
     \/ /\ bdb = "formation"
        /\ signal' = "failed" /\ Fault
        /\ UNCHANGED <<nib, storage, counters, formed>>
     \/ /\ bdb = "initialization"
        /\ signal' = "started"
        /\ UNCHANGED <<nib, storage, counters, formed, disturbed, bounds>>
  /\ UNCHANGED <<blob, phase, planting, imposed, applied, formation, storing, restart, answer, told>>

\* Mutant of FormationSignal: the counters are left to the stack.
FormationSignalOnly ==
  /\ signal \in {"formed", "failed"} /\ BigLockFree
  /\ signal' = "none"
  /\ TakeFormation(IF signal = "formed" THEN "ok" ELSE "error")
  /\ UNCHANGED <<flash, phase, planting, nib, bdb, imposed, applied, storing, restart, told, formed, disturbed, bounds>>

\* zboss_signal_handler, ZB_BDB_SIGNAL_FORMATION: it answers whatever is pending;
\* after a restore the counters are written, and a failure only logged.  In the
\* second before a restart they go to the flash just erased.
FormationSignal ==
  /\ signal \in {"formed", "failed"} /\ BigLockFree
  /\ signal' = "none"
  /\ TakeFormation(IF signal = "formed" THEN "ok" ELSE "error")
  /\ \/ /\ counters' = (counters \/ (signal = "formed" /\ applied /\ storage # "none"))
        /\ disturbed' = (disturbed \/ (signal = "formed" /\ applied /\ restart))
        /\ UNCHANGED bounds
     \/ signal = "formed" /\ applied /\ UNCHANGED counters /\ Fault
  /\ UNCHANGED <<blob, storage, phase, planting, nib, bdb, imposed, applied, storing, restart, told, formed>>

\* Mutant of StartSignal: it answers the wrong command.
StartSignalAnswers ==
  /\ signal = "started" /\ BigLockFree
  /\ signal' = "none"
  /\ TakeFormation("ok")
  /\ UNCHANGED <<flash, phase, planting, nib, bdb, imposed, applied, storing, restart, told, formed, disturbed, bounds>>

\* DEVICE_FIRST_START and DEVICE_REBOOT answer NWK_START_WITHOUT_FORMATION, which
\* never waits: its handler finds the stack started.
StartSignal ==
  /\ signal = "started" /\ BigLockFree
  /\ signal' = "none"
  /\ UNCHANGED <<flash, phase, planting, nib, bdb, imposed, applied, formation, storing, restart, history, bounds>>

\* The running stack saves its network now and then (external).
Save ==
  /\ phase = "up" /\ BigLockFree /\ bdb = "none" /\ signal = "none"
  /\ nib # "none" /\ storage # nib
  /\ storage' = nib /\ counters' = TRUE
  /\ disturbed' = (disturbed \/ restart)
  /\ UNCHANGED <<blob, phase, planting, zboss, applied, formation, storing, restart, answer, told, formed, bounds>>

------------------------------------------------------------------------------
(* Commands from the host. *)

CanHandle == phase \in {"starting", "loaded", "up"} /\ BigLockFree

\* Mutant of Refused: a refused commissioning is not reported.
RefusedSilently(r) == formation' = r /\ UNCHANGED answer

\* start_delayed failed: the command just armed is answered.
Refused(r) == formation' = "none" /\ answer' = [answer EXCEPT ![r] = "error"]

\* NWK_FORMATION: busy, bad arguments, or a formation started if the stack lets it.
\* Channel mask and extended PAN id are set on the way, whatever comes of it; they
\* need not differ from those planted, and bad arguments may end it before.
NwkFormation(r) ==
  /\ CanHandle /\ answer[r] = "none" /\ formation # r
  /\ IF formation # "none"
     THEN answer' = [answer EXCEPT ![r] = "busy"] /\ UNCHANGED <<formation, bdb, imposed>>
     ELSE /\ imposed' \in {imposed, applied}
          /\ \/ Refused(r) /\ UNCHANGED bdb
             \/ /\ BdbAccepts(TRUE)
                /\ formation' = r /\ bdb' = "formation" /\ UNCHANGED answer
             \/ /\ BdbAccepts(FALSE)
                /\ Refused(r) /\ UNCHANGED bdb
  /\ UNCHANGED <<flash, phase, planting, nib, signal, applied, storing, restart, told, formed, disturbed, bounds>>

\* NWK_START_WITHOUT_FORMATION: the stack is started, so it is answered at once.
NwkStartWithoutFormation(r) ==
  /\ CanHandle /\ answer[r] = "none" /\ formation # r
  /\ answer' = [answer EXCEPT ![r] = "started"]
  /\ UNCHANGED <<flash, phase, planting, zboss, applied, formation, storing, restart, told, formed, disturbed, bounds>>

\* SET_PAN_ID, SET_EXTENDED_PAN_ID, SET_ZIGBEE_CHANNEL_MASK and SET_NWK_KEY before
\* the network is there, which the next formation uses.
SetParameters ==
  /\ CanHandle /\ ~formed
  /\ imposed' = applied
  /\ UNCHANGED <<flash, phase, planting, nib, bdb, signal, applied, formation, storing, restart, history, bounds>>

\* RESTORE_STRUCTURED_BACKUP with a valid image (an invalid one is refused before
\* anything is touched): it is put into NVS, or that fails.
StoreBlob(i) ==
  /\ CanHandle /\ restores < MAX_RESTORES
  /\ restores' = restores + 1 /\ UNCHANGED <<resets, safes>>
  /\ \/ /\ blob' = i /\ storing' = i /\ told' = [told EXCEPT ![i] = "none"]
        /\ UNCHANGED <<disturbed, faults>>
     \/ /\ faults < MAX_FAULTS /\ faults' = faults + 1 /\ disturbed' = TRUE
        /\ told' = [told EXCEPT ![i] = "failed"] /\ UNCHANGED <<blob, storing>>
  /\ UNCHANGED <<storage, counters, phase, planting, zboss, applied, formation, restart, answer, formed>>

\* Mutant of Erase: the old network stays.
EraseSkipped ==
  /\ storing # "none"
  /\ storing' = "none" /\ restart' = TRUE /\ told' = [told EXCEPT ![storing] = "ok"]
  /\ disturbed' = FALSE
  /\ UNCHANGED <<flash, phase, planting, zboss, applied, formation, answer, formed, bounds>>

\* Then zb_storage is erased and a restart scheduled, which is not checked: there may
\* be none, and the answer is the same.  A failed erase is answered and leaves the
\* image in NVS.
Erase ==
  /\ storing # "none"
  /\ storing' = "none"
  /\ \/ /\ storage' = "none" /\ counters' = FALSE /\ restart' = TRUE
        /\ told' = [told EXCEPT ![storing] = "ok"]
        /\ disturbed' = FALSE /\ UNCHANGED bounds
     \/ /\ storage' = "none" /\ counters' = FALSE /\ UNCHANGED restart
        /\ told' = [told EXCEPT ![storing] = "ok"]
        /\ Fault
     \/ /\ EraseMayFail /\ Fault
        /\ told' = [told EXCEPT ![storing] = "failed"]
        /\ UNCHANGED <<storage, counters, restart>>
  /\ UNCHANGED <<blob, phase, planting, zboss, applied, formation, answer, formed>>

------------------------------------------------------------------------------
BootStep == TakeBlob \/ NoBlob \/ Plant \/ Start

Zboss == SkipStartup \/ ContinueZboss \/ BdbEnds \/ FormationSignal \/ StartSignal

Next ==
  \/ BootStep \/ Zboss \/ Save \/ Erase
  \/ OutsideReset \/ DeferredRestart \/ SetParameters
  \/ \E r \in Request : NwkFormation(r) \/ NwkStartWithoutFormation(r)
  \/ \E i \in Image : StoreBlob(i)

Spec == Init /\ [][Next]_vars

\* The processor runs, the ZBOSS task finishes what it began, tasks that sleep
\* wake.  None on the host, on resets, or on the stack's saves.
FairSpec ==
  /\ Spec
  /\ WF_vars(BootStep) /\ WF_vars(Zboss) /\ WF_vars(Erase) /\ WF_vars(DeferredRestart)

------------------------------------------------------------------------------

\* The setters of apply_pending_restore work only on a factory-reset stack (SDK
\* issue 445): unless something failed, or the stack saved in the second before
\* the restart, an image is applied over erased storage only.
AppliedOnBlank == phase = "applying" /\ ~disturbed => storage = "none"

\* A command is answered once: a signal that comes after continue_zboss or a
\* refusal has answered finds nothing to answer.
AnsweredOnce == [][\A r \in Request : answer[r] # "none" => answer'[r] = answer[r]]_vars

\* NWK_FORMATION is answered with success only in a boot that formed a network.
OkMeansFormed ==
  [][\A r \in Request : answer[r] = "none" /\ answer'[r] = "ok" => formed]_vars

\* A pending NWK_FORMATION does not stay pending: refusals are answered, and every
\* formation that was started ends in a signal.
FormationSettles == \A r \in Request : (formation = r) ~> (formation # r)

\* An image that panics the chip does not keep it from starting: again and again it
\* is up, or in safe mode.
NoCrashLoop == []<>(phase \in {"up", "safe"})

\* A restore answered with success takes effect: its network is formed and kept
\* with its frame counter, unless another restore replaces it, the host sets other
\* parameters (NWK_FORMATION's own among them) between the restart that plants it and
\* its formation, or something disturbs it.
RestoreTakesEffect ==
  \A i \in Image :
    (told[i] = "ok" /\ blob = i)
      ~> \/ storage = i /\ counters
         \/ disturbed
         \/ blob # i /\ blob # "none"
         \/ blob = "none" /\ imposed

\* "M1: don't reboot into apply_pending_restore() on a failed wipe": an image whose
\* restore was answered with a failure is not applied by a later boot.
FailedIsNotApplied == phase = "applying" => told[planting] # "failed"
==============================================================================
