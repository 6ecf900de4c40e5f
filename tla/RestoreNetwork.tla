--------------------------- MODULE RestoreNetwork ----------------------------
(***************************************************************************)
(* cmd_handle<RESTORE_NETWORK>: a host writes a whole flash image (the nvs *)
(* partition, then zb_storage) in chunks.  The image is buffered in RAM    *)
(* and committed after the last chunk if it passes the gate; when the      *)
(* buffer cannot be had, chunks go straight to flash that was erased first.*)
(* Once flash has been touched the boot must end in a restart, which a     *)
(* deferred task brings about a second later.                              *)
(*                                                                         *)
(* The handler runs on the app task; the restart task, ZBOSS's own saves   *)
(* and the power supply act at any point of a commit.                      *)
(***************************************************************************)
EXTENDS Naturals

CONSTANTS Nvs, Zb,         \* units of the two halves of an image
          MaxChunk,        \* units one frame carries at most
          Image,           \* the images hosts send
          GoodImages,      \* those whose zb_storage half passes zb_storage_image_ok
          BufferMayFail,   \* malloc of the image buffer may fail
          TasksMayFail,    \* xTaskCreate may fail
          FlashMayFail,    \* a partition erase or write may fail
          MAX_POWER_CUTS,  \* bounds: power cuts and restarts considered
          MAX_BOOTS

ASSUME RestoreAssumption ==
  /\ {Nvs, Zb} \subseteq Nat \ {0}
  /\ MaxChunk \in 1 .. Nvs + Zb - 1
  /\ GoodImages \subseteq Image
  /\ {BufferMayFail, TasksMayFail, FlashMayFail} \subseteq BOOLEAN
  /\ {MAX_POWER_CUTS, MAX_BOOTS} \subseteq Nat
  /\ {"prior", "erased", "none"} \cap Image = {}

Capacity == Nvs + Zb
Unit == 0 .. Capacity - 1
NvsUnit == 0 .. Nvs - 1
ZbUnit == Nvs .. Capacity - 1
Erased == [u \in Unit |-> "erased"]

VARIABLES
  flash,         \* content of each unit of the two partitions
  active, next,  \* s_restore_session: active, next_offset
  buffered, img, \* s_restore_img: allocated, its content
  dirty,         \* s_restore_flash_dirty
  rebootPending, \* s_restore_reboot_pending
  rebootTask,    \* the deferred restart task exists
  commit,        \* the operation of a commit the handler is at
  bad,           \* units of the partitions a commit failed to erase or write (e1 .. e4)
  sending,       \* the image the host sends in this session
  bootFlash,     \* history: flash when this boot began
  completed,     \* history: the image the last session completed, or "none"
  streamed,      \* history: the images sent past the buffer
  powerCuts, boots

session == <<active, next, buffered, img>>
reboot == <<rebootPending, rebootTask>>
bounds == <<powerCuts, boots>>
vars == <<flash, session, dirty, reboot, commit, bad, sending, bootFlash, completed, streamed, bounds>>

Init ==
  /\ flash = [u \in Unit |-> "prior"]
  /\ active = FALSE /\ next = 0 /\ buffered = FALSE /\ img = Erased
  /\ dirty = FALSE /\ rebootPending = FALSE /\ rebootTask = FALSE
  /\ commit = "none" /\ bad = {}
  /\ sending \in Image
  /\ bootFlash = flash /\ completed = "none" /\ streamed = {}
  /\ powerCuts = 0 /\ boots = 0

------------------------------------------------------------------------------
(* The ways out of the handler. *)

\* restore_schedule_reboot: at most one task per boot, its creation unchecked.
ScheduleReboot ==
  IF rebootPending
  THEN UNCHANGED reboot
  ELSE /\ rebootPending' = TRUE
       /\ rebootTask' \in (IF TasksMayFail THEN BOOLEAN ELSE {TRUE})

FreeBuffer == buffered' = FALSE /\ img' = Erased

\* Mutant of Fail: no restart (before review #1).
FailStays(touched) ==
  FreeBuffer /\ active' = FALSE /\ UNCHANGED reboot

\* restore_fail: with flash touched in this boot it restarts.
Fail(touched) ==
  /\ FreeBuffer
  /\ active' = FALSE
  /\ IF touched THEN ScheduleReboot ELSE UNCHANGED reboot

\* The session stands at `at`; with the last chunk in it closes, and is committed
\* if buffered or else complete.
Advance(at, inRam) ==
  /\ next' = at
  /\ active' = (at < Capacity)
  /\ IF at < Capacity
     THEN /\ completed' = "none"
          /\ UNCHANGED <<commit, reboot>>
     ELSE IF inRam
     THEN /\ commit' = "gate" /\ completed' = "none"
          /\ UNCHANGED reboot
     ELSE /\ ScheduleReboot
          /\ completed' = sending
          /\ UNCHANGED commit

\* Mutants: of Stored, the last unit is left out; of Latch, the latch is forgotten.
StoredShort(f, i, at, n) == [u \in Unit |-> IF u \in at .. at + n - 2 THEN i ELSE f[u]]
LatchForgotten == UNCHANGED dirty

\* The chunk stays inside the image (C3).
InImage(at, n) == at + n <= Capacity

\* From here every exit restarts (review #1).
Latch == dirty' = TRUE

\* f with n units of image i at offset `at`.
Stored(f, i, at, n) == [u \in Unit |-> IF u \in at .. at + n - 1 THEN i ELSE f[u]]

------------------------------------------------------------------------------
(* The handler on one frame. *)

\* The frame is short, declares another capacity or runs past it, has no session
\* to go to, or is out of order.
Reject ==
  /\ commit = "none"
  /\ Fail(dirty)
  /\ UNCHANGED <<flash, next, dirty, commit, bad, sending, bootFlash, completed, streamed, bounds>>

\* Offset 0 opens a session or restarts one: with a buffer, flash is left alone.
OpenBuffered(i, n) ==
  /\ commit = "none"
  /\ sending' = i
  /\ buffered' = TRUE /\ img' = Stored(Erased, i, 0, n)
  /\ Advance(n, TRUE)
  /\ UNCHANGED <<flash, dirty, bad, bootFlash, streamed, bounds>>

\* Without one, flash is erased and the first chunk written to it.
OpenStreaming(i, n) ==
  /\ BufferMayFail
  /\ commit = "none"
  /\ sending' = i
  /\ Latch
  /\ \/ /\ flash' = Stored(Erased, i, 0, n)
        /\ FreeBuffer
        /\ Advance(n, FALSE)
     \/ /\ FlashMayFail
        /\ flash' \in {[u \in Unit |-> IF u \in I THEN "erased" ELSE flash[u]] :
                        I \in SUBSET Unit} \cup {Stored(Erased, i, 0, m) : m \in 0 .. n}
        /\ Fail(TRUE)
        /\ completed' = "none"
        /\ UNCHANGED <<next, commit>>
  /\ streamed' = streamed \cup {i}
  /\ UNCHANGED <<bad, bootFlash, bounds>>

\* The next chunk of the session, of the image it was opened with.
Chunk(n) ==
  /\ commit = "none"
  /\ active /\ next > 0 /\ InImage(next, n)
  /\ IF buffered
     THEN /\ img' = Stored(img, sending, next, n)
          /\ Advance(next + n, TRUE)
          /\ UNCHANGED <<flash, buffered>>
     ELSE \/ /\ flash' = Stored(flash, sending, next, n)
             /\ Advance(next + n, FALSE)
             /\ UNCHANGED <<buffered, img>>
          \/ /\ FlashMayFail
             /\ \E m \in 0 .. n : flash' = Stored(flash, sending, next, m)
             /\ Fail(TRUE)
             /\ UNCHANGED <<next, commit, completed>>
  /\ UNCHANGED <<dirty, bad, sending, bootFlash, streamed, bounds>>

------------------------------------------------------------------------------
(* The commit, one flash operation at a time. *)

\* Mutant of GateOk: anything that is not blank passes.
GateOkNotBlank == \E u \in ZbUnit : img[u] # "erased"

\* zb_storage_image_ok: some page of the image holds a record.
GateOk == \E u \in ZbUnit : img[u] \in GoodImages

Gate ==
  /\ commit = "gate"
  /\ IF GateOk
     THEN /\ commit' = "eraseNvs" /\ Latch
          /\ UNCHANGED <<active, buffered, img, reboot>>
     ELSE /\ commit' = "none"
          /\ Fail(dirty)
          /\ UNCHANGED dirty
  /\ UNCHANGED <<flash, next, bad, sending, bootFlash, completed, streamed, bounds>>

\* The units the operation at hand is about, and what it makes of them.
Units == CASE commit \in {"eraseNvs", "writeNvs"} -> NvsUnit
           [] commit \in {"eraseZb", "writeZb", "wipe"} -> ZbUnit
           [] OTHER -> {}
Goal == IF commit \in {"writeNvs", "writeZb"} THEN img ELSE Erased

\* Flash with the operation done on the units J.
Done(J) == [u \in Unit |-> IF u \in J THEN Goal[u] ELSE flash[u]]

\* Both partitions are erased, then each is written if its erase went well.
Attempt ==
  IF commit \in {"writeNvs", "writeZb"} /\ Units \cap bad # {}
  THEN UNCHANGED <<flash, bad>>
  ELSE \/ flash' = Done(Units) /\ UNCHANGED bad
       \/ /\ FlashMayFail
          /\ \E J \in SUBSET Units : flash' = Done(J)
          /\ bad' = bad \cup Units

CommitFlash ==
  /\ commit \in {"eraseNvs", "eraseZb", "writeNvs", "writeZb"}
  /\ Attempt
  /\ commit' = CASE commit = "eraseNvs" -> "eraseZb"
                 [] commit = "eraseZb" -> "writeNvs"
                 [] commit = "writeNvs" -> "writeZb"
                 [] commit = "writeZb" -> IF bad' = {} THEN "ok" ELSE "wipe"
  /\ UNCHANGED <<session, dirty, reboot, sending, bootFlash, completed, streamed, bounds>>

\* After a failure zb_storage is wiped, with no look at the result (review #2).
Wipe ==
  /\ commit = "wipe"
  /\ commit' = "failed"
  /\ \E J \in (IF FlashMayFail THEN SUBSET Units ELSE {Units}) : flash' = Done(J)
  /\ UNCHANGED <<session, dirty, reboot, bad, sending, bootFlash, completed, streamed, bounds>>

\* The handler's end: the buffer goes back and the restart is scheduled.
EndCommit ==
  /\ commit \in {"ok", "failed"}
  /\ commit' = "none" /\ bad' = {}
  /\ completed' = IF commit = "ok" THEN sending ELSE "none"
  /\ FreeBuffer
  /\ ScheduleReboot
  /\ UNCHANGED <<flash, active, next, dirty, sending, bootFlash, streamed, bounds>>

------------------------------------------------------------------------------
(* Restarts. *)

\* The flash operation under way may be cut in the middle.
Restart ==
  /\ boots < MAX_BOOTS
  /\ boots' = boots + 1
  /\ \E J \in SUBSET Units : flash' = Done(J)
  /\ bootFlash' = flash'
  /\ active' = FALSE /\ next' = 0 /\ FreeBuffer
  /\ dirty' = FALSE /\ rebootPending' = FALSE /\ rebootTask' = FALSE
  /\ commit' = "none" /\ bad' = {} /\ completed' = "none"
  /\ UNCHANGED <<sending, streamed>>

\* The restart task's second is up, whatever the handler is at.
DeferredRestart == rebootTask /\ Restart /\ UNCHANGED powerCuts

PowerCut ==
  /\ powerCuts < MAX_POWER_CUTS
  /\ powerCuts' = powerCuts + 1
  /\ Restart

Next ==
  \/ Reject
  \/ \E i \in Image, n \in 0 .. MaxChunk : OpenBuffered(i, n) \/ OpenStreaming(i, n)
  \/ \E n \in 0 .. MaxChunk : Chunk(n)
  \/ Gate \/ CommitFlash \/ Wipe \/ EndCommit
  \/ DeferredRestart \/ PowerCut

Spec == Init /\ [][Next]_vars

------------------------------------------------------------------------------

\* Until flash is marked dirty nothing has been written: a restore rejected, cut
\* short or abandoned in RAM has no side effect (buffer before commit).
RejectedIsHarmless == ~dirty => flash = bootFlash

\* Once flash is dirty, every way out of a session has a restart coming, also a
\* later session's rejection (review #1).
DirtyEndsInRestart == dirty /\ ~active /\ commit = "none" => rebootTask

\* A completed restore has put one image on flash, all of it, whatever sessions
\* were abandoned, restarted or rejected on the way.
CompletedIsWhole == completed # "none" => \A u \in Unit : flash[u] = completed

\* Nothing of an image the gate refuses is on flash, unless it was sent past the
\* buffer, where there is no gate.
GateProtects == \A u \in Unit : flash[u] \in GoodImages \cup streamed \cup {"prior", "erased"}

\* No boot meets a torn zb_storage: "a partial write must NOT persist a
\* truncated/torn zb_storage page" (review #2).
BootsWhole == \A u, v \in ZbUnit : bootFlash[u] = bootFlash[v]
==============================================================================
