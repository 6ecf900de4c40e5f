------------------------------ MODULE BackupPull -----------------------------
(***************************************************************************)
(* cmd_handle<GET_NETWORK_BACKUP>: a host pulls the two flash partitions   *)
(* (nvs, then zb_storage) chunk by chunk, out of a RAM snapshot that the   *)
(* first chunk takes, or from flash where there is none.                   *)
(*                                                                         *)
(* The handler holds the big lock, so that ZBOSS saves between chunks and  *)
(* not during one.  Answers may be lost, pulls given up and begun again;   *)
(* over the UART a pull can outlive a restart of the chip.                 *)
(***************************************************************************)
EXTENDS Naturals

CONSTANTS Nvs, Zb,         \* chunks of the two partitions (a chunk never spans both)
          MemoryMayFail,   \* malloc of the snapshot, or the bulk read, may fail
          ReadMayFail,     \* a direct read of flash may fail
          MAX_WRITES,      \* bounds: writes of flash, restarts,
          MAX_RESTARTS,
          MAX_PULLS,       \*   pulls a host begins,
          MAX_LOST         \*   answers that do not reach it

ASSUME BackupAssumption ==
  /\ {Nvs, Zb} \subseteq Nat \ {0}
  /\ {MemoryMayFail, ReadMayFail} \subseteq BOOLEAN
  /\ {MAX_WRITES, MAX_RESTARTS, MAX_PULLS, MAX_LOST} \subseteq Nat

Total == Nvs + Zb
Unit == 0 .. Total - 1
ZbUnit == Nvs .. Total - 1

\* A unit holds what a write left on it, or nothing ZBOSS could load.
Data(n) == <<"data", n>>
Torn == <<"torn", 0>>
Erased == <<"erased", 0>>
Loadable(f) == \A u \in ZbUnit : f[u] \notin {Torn, Erased}

None == [u \in {} |-> Erased]

VARIABLES
  flash,      \* the two partitions
  joined,     \* zb_zdo_joined() /\ zb_get_pan_id() # 0xFFFF
  snapshot,   \* s_backup_snapshot, None when it is null
  overwritten,\* a RESTORE_NETWORK has erased flash in this boot
  pull,       \* the host: "idle", "pulling", "done", "refused", "failed"
  at,         \* the chunk it asks for next
  image,      \* what it has got
  origin,     \* history: flash when the pull's first chunk was served
  excuses,    \* history: what has befallen the pull
  writes, restarts, pulls, lost

host == <<pull, at, image>>
history == <<origin, excuses>>
bounds == <<writes, restarts, pulls, lost>>
vars == <<flash, joined, snapshot, overwritten, host, history, bounds>>

Init ==
  /\ flash = [u \in Unit |-> Data(0)]
  /\ joined = TRUE
  /\ snapshot = None
  /\ overwritten = FALSE
  /\ pull = "idle" /\ at = 0 /\ image = flash
  /\ origin = flash /\ excuses = {}
  /\ writes = 0 /\ restarts = 0 /\ pulls = 0 /\ lost = 0

------------------------------------------------------------------------------
(* The host (external). *)

\* It begins a pull, or gives one up and begins again.
Begin ==
  /\ pulls < MAX_PULLS
  /\ pulls' = pulls + 1
  /\ pull' = "pulling" /\ at' = 0
  /\ UNCHANGED <<flash, joined, snapshot, overwritten, image, history, writes, restarts, lost>>

\* An answer reaches the host, or it will ask for the same chunk again.
Heard == UNCHANGED lost
Lost == lost < MAX_LOST /\ lost' = lost + 1 /\ UNCHANGED host

Ends(how) == pull' = how /\ UNCHANGED <<at, image>>

------------------------------------------------------------------------------
(* The handler. *)

\* Mutant of Fit: any coordinator is backed up (before BACKUP-1).
FitAny == TRUE

\* BACKUP-1: there must be a network.
Fit == joined

Refuse ==
  /\ pull = "pulling" /\ at = 0
  /\ ~Fit
  /\ snapshot' = None
  /\ (Heard /\ Ends("refused")) \/ Lost
  /\ UNCHANGED <<flash, joined, overwritten, history, writes, restarts, pulls>>

\* Mutant of Fresh: a snapshot still held is served as it is.
FreshIfNone == IF snapshot = None THEN flash ELSE snapshot

\* Taken anew by every first chunk, in the memory of an earlier one if that is still held.
Fresh == flash

\* Mutant of Left: the snapshot stays for the next pull.
LeftHeld(k, s) == s

\* What is left of the snapshot once chunk k is read: nothing after the last.  (Nothing
\* either after a read past the end, which no host asks for.)
Left(k, s) == IF k + 1 >= Total THEN None ELSE s

\* Chunk k goes out, of the snapshot s or, without one, of flash.
Serve(k, s) ==
  /\ snapshot' = Left(k, s)
  /\ \/ /\ Heard
        /\ image' = [image EXCEPT ![k] = IF s = None THEN flash[k] ELSE s[k]]
        /\ at' = k + 1
        /\ pull' = IF k + 1 = Total THEN "done" ELSE "pulling"
     \/ Lost

\* Offset 0.  The allocation or the bulk read of the partitions may fail.
FirstChunk ==
  /\ pull = "pulling" /\ at = 0
  /\ Fit
  /\ \E s \in {Fresh} \cup (IF MemoryMayFail THEN {None} ELSE {}) :
       /\ Serve(0, s)
       /\ excuses' = (IF s = None THEN {"no memory"} ELSE {})
                       \cup (IF overwritten THEN {"restore"} ELSE {})
  /\ origin' = flash
  /\ UNCHANGED <<flash, joined, overwritten, writes, restarts, pulls>>

LaterChunk ==
  /\ pull = "pulling" /\ at > 0
  /\ Serve(at, snapshot)
  /\ excuses' = IF at + 1 = Total /\ lost' > lost THEN excuses \cup {"end lost"} ELSE excuses
  /\ UNCHANGED <<flash, joined, overwritten, origin, writes, restarts, pulls>>

\* A direct read fails: the host is told, and is given no bytes.
ReadFails ==
  /\ ReadMayFail
  /\ pull = "pulling"
  /\ \/ at = 0 /\ Fit /\ MemoryMayFail /\ snapshot' = None
     \/ at > 0 /\ snapshot = None /\ UNCHANGED snapshot
  /\ (Heard /\ Ends("failed")) \/ Lost
  /\ UNCHANGED <<flash, joined, overwritten, history, writes, restarts, pulls>>

------------------------------------------------------------------------------
(* What goes on meanwhile. *)

Written(U, what) == [u \in Unit |-> IF u \in U THEN what ELSE flash[u]]

Writes == writes < MAX_WRITES /\ writes' = writes + 1

\* ZBOSS saves its datasets, another handler stores something in nvs.
Save ==
  /\ Writes /\ joined
  /\ \E U \in (SUBSET Unit) \ {{}} : flash' = Written(U, Data(writes'))
  /\ UNCHANGED <<joined, snapshot, overwritten, host, history, restarts, pulls, lost>>

\* A network is formed on a coordinator without one.
Form ==
  /\ Writes /\ ~joined
  /\ flash' = Written(ZbUnit, Data(writes'))
  /\ joined' = TRUE
  /\ UNCHANGED <<snapshot, overwritten, host, history, restarts, pulls, lost>>

\* RESTORE_NETWORK erases both partitions; the stack runs on until the restart.
RestoreErases ==
  /\ flash' = Written(Unit, Erased)
  /\ overwritten' = TRUE
  /\ UNCHANGED <<joined, snapshot, host, history, bounds>>

\* A reset, in which a save under way may tear.  The stack comes up on what it can load.
Restart ==
  /\ restarts < MAX_RESTARTS
  /\ restarts' = restarts + 1
  /\ flash' \in {flash} \cup {Written(U, Torn) : U \in SUBSET ZbUnit}
  /\ joined' = Loadable(flash')
  /\ snapshot' = None
  /\ overwritten' = FALSE
  /\ excuses' = excuses \cup {"restart"}
  /\ UNCHANGED <<host, origin, writes, pulls, lost>>

Next ==
  \/ Begin
  \/ Refuse \/ FirstChunk \/ LaterChunk \/ ReadFails
  \/ Save \/ Form \/ RestoreErases \/ Restart

Spec == Init /\ [][Next]_vars

------------------------------------------------------------------------------
\* The whole image is what flash was when its first chunk was served, although ZBOSS saves
\* meanwhile and pulls before it were given up half way ("can no longer mutate while it is
\* being pulled", README.md:48) -- if the snapshot could be had, the chip did not restart
\* under the pull, and the last chunk was not asked for twice.
OnePointInTime ==
  pull = "done" /\ excuses \subseteq {"restore"} => image = origin

\* The memory of the snapshot is in use only while a pull is under way or left half way.
MemoryGoesBack == pull \in {"done", "refused"} => snapshot = None

\* BACKUP-1: an image pulled whole is one the stack can load, whatever a cut save has left
\* on flash -- under the conditions of OnePointInTime, and if no RESTORE_NETWORK has
\* erased flash under the running stack.
NoPoisonedBackup == pull = "done" /\ excuses = {} => Loadable(image)
==============================================================================
