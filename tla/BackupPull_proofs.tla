-------------------------- MODULE BackupPull_proofs ---------------------------
(***************************************************************************)
(* BackupPull for partitions of any size and without any bound on saves,   *)
(* restarts, pulls and lost answers: its three invariants.                 *)
(*                                                                         *)
(* What is in the host's image is tied to the flash of the first chunk by  *)
(* way of the snapshot (InPull); that flash is loadable because BACKUP-1   *)
(* asks the running stack (StackLoadable).                                 *)
(***************************************************************************)
EXTENDS BackupPull, TLAPS

Value == {Data(n) : n \in Nat} \cup {Torn, Erased}
Content == [Unit -> Value]

Types ==
  /\ flash \in Content /\ image \in Content /\ origin \in Content
  /\ snapshot = None \/ snapshot \in Content
  /\ pull \in {"idle", "pulling", "done", "refused", "failed"}
  /\ at \in 0 .. Total
  /\ pull = "pulling" => at < Total
  /\ writes \in Nat /\ lost \in Nat

\* A stack that has joined runs on what it could load, until a restore erases it.
StackLoadable == joined /\ ~overwritten => Loadable(flash)

\* Half way through a pull that nothing has befallen the snapshot is there, and what the
\* host has got agrees with it.
InPull ==
  pull = "pulling" /\ at > 0 /\ excuses \subseteq {"restore"} =>
    snapshot = origin /\ \A u \in Unit : u < at => image[u] = origin[u]

\* Where no restore came first either, the pull began on something loadable.
BegunLoadable ==
  ((pull = "pulling" /\ at > 0) \/ pull = "done") /\ excuses = {} => Loadable(origin)

Inv ==
  /\ Types /\ StackLoadable /\ InPull /\ BegunLoadable
  /\ OnePointInTime /\ MemoryGoesBack
------------------------------------------------------------------------------
\* The first chunk is never the last, and a snapshot is not nothing.
LEMMA Sizes ==
  /\ Nvs \in Nat \ {0} /\ Zb \in Nat \ {0} /\ Total \in Nat /\ Total > 1
  /\ 0 \in Unit /\ ZbUnit \subseteq Unit
BY BackupAssumption DEF Total, Unit, ZbUnit

LEMMA SomethingTaken == ASSUME NEW s \in Content PROVE s # None
<1>1. 0 \in DOMAIN s
  BY Sizes DEF Content
<1>2. DOMAIN None = {}
  BY DEF None
<1> QED BY <1>1, <1>2

LEMMA DataIsGood == \A n : Data(n) \notin {Torn, Erased}
BY DEF Data, Torn, Erased

LEMMA WrittenIsContent ==
  ASSUME flash \in Content, NEW U \in SUBSET Unit, NEW v \in Value
  PROVE  Written(U, v) \in Content
BY DEF Content, Written

LEMMA InvInit == Init => Inv
<1> SUFFICES ASSUME Init PROVE Inv
  OBVIOUS
<1>1. flash \in Content /\ image = flash /\ origin = flash
  BY DEF Init, Content, Value
<1>2. Types
  BY <1>1, Sizes DEF Init, Types
<1>3. Loadable(flash)
  BY Sizes, DataIsGood DEF Init, Loadable
<1> QED
  BY <1>1, <1>2, <1>3
  DEF Init, Inv, StackLoadable, InPull, BegunLoadable, OnePointInTime, MemoryGoesBack

\* What the answer to chunk k leaves behind.
LEMMA ServeResult ==
  ASSUME Types, pull = "pulling", NEW k \in Unit, at = k,
         NEW s, s = None \/ s \in Content, Serve(k, s)
  PROVE  /\ snapshot' = IF k + 1 >= Total THEN None ELSE s
         /\ \/ /\ lost' = lost
               /\ image' = [image EXCEPT ![k] = IF s = None THEN flash[k] ELSE s[k]]
               /\ image' \in Content
               /\ at' = k + 1
               /\ pull' = IF k + 1 = Total THEN "done" ELSE "pulling"
            \/ /\ lost' = lost + 1
               /\ UNCHANGED host
<1>1. image \in Content /\ flash[k] \in Value /\ (s # None => s[k] \in Value)
  BY DEF Types, Content
<1>2. [image EXCEPT ![k] = IF s = None THEN flash[k] ELSE s[k]] \in Content
  BY <1>1 DEF Content
<1> QED BY <1>2 DEF Serve, Left, Heard, Lost

LEMMA InvNext == Inv /\ [Next]_vars => Inv'
<1> SUFFICES ASSUME Inv, [Next]_vars PROVE Inv'
  OBVIOUS
<1> USE DEF Inv
<1>1. CASE Begin
  <2>1. Types'
    BY <1>1, Sizes DEF Begin, history, Types
  <2> QED BY <1>1, <2>1
      DEF Begin, history, StackLoadable, InPull, BegunLoadable, OnePointInTime, MemoryGoesBack
<1>2. CASE Refuse
  <2>1. lost' \in Nat /\ UNCHANGED <<at, image>> /\ snapshot' = None
        /\ (pull' = "refused" \/ pull' = pull)
    BY <1>2 DEF Refuse, Heard, Ends, Lost, host, Types
  <2>2. Types'
    BY <1>2, <2>1 DEF Refuse, Types, history
  <2> QED BY <1>2, <2>1, <2>2
      DEF Refuse, history, StackLoadable, InPull, BegunLoadable, OnePointInTime, MemoryGoesBack
<1>3. CASE FirstChunk
  <2>1. PICK s \in {Fresh} \cup (IF MemoryMayFail THEN {None} ELSE {}) :
          /\ Serve(0, s)
          /\ excuses' = (IF s = None THEN {"no memory"} ELSE {})
                          \cup (IF overwritten THEN {"restore"} ELSE {})
    BY <1>3 DEF FirstChunk
  <2>2. s = flash \/ s = None
    BY <2>1 DEF Fresh
  <2>3. /\ at = 0 /\ pull = "pulling" /\ joined /\ origin' = flash
        /\ UNCHANGED <<flash, joined, overwritten, writes>>
    BY <1>3 DEF FirstChunk, Fit
  <2>4. flash \in Content
    BY DEF Types
  <2>5. /\ snapshot' = s
        /\ \/ /\ lost' = lost /\ at' = 1 /\ pull' = "pulling" /\ image' \in Content
              /\ image' = [image EXCEPT ![0] = IF s = None THEN flash[0] ELSE s[0]]
           \/ lost' = lost + 1 /\ UNCHANGED host
    <3>1. 0 \in Unit /\ ~(0 + 1 >= Total) /\ 0 + 1 # Total /\ 0 + 1 = 1
      BY Sizes
    <3>2. Types /\ (s = None \/ s \in Content)
      BY <2>2, <2>4
    <3>3. /\ snapshot' = IF 0 + 1 >= Total THEN None ELSE s
          /\ \/ /\ lost' = lost
                /\ image' = [image EXCEPT ![0] = IF s = None THEN flash[0] ELSE s[0]]
                /\ image' \in Content
                /\ at' = 0 + 1
                /\ pull' = IF 0 + 1 = Total THEN "done" ELSE "pulling"
             \/ lost' = lost + 1 /\ UNCHANGED host
      BY <2>1, <2>3, <3>1, <3>2, ServeResult
    <3> QED BY <3>1, <3>3
  <2>6. Types'
    BY <2>2, <2>3, <2>4, <2>5, Sizes DEF Types, host
  <2>7. StackLoadable'
    BY <2>3 DEF StackLoadable
  <2>8. InPull'
    <3> SUFFICES ASSUME at' > 0, excuses' \subseteq {"restore"}
                 PROVE  snapshot' = origin' /\ \A u \in Unit : u < at' => image'[u] = origin'[u]
      BY DEF InPull
    <3>1. s = flash
      BY <2>1, <2>2
    <3>2. at' = 1 /\ image' = [image EXCEPT ![0] = flash[0]]
      BY <2>3, <2>4, <2>5, <3>1, SomethingTaken DEF host
    <3>3. image'[0] = flash[0]
      BY <3>2, Sizes DEF Types, Content
    <3> QED BY <2>3, <2>5, <3>1, <3>2, <3>3 DEF Unit
  <2>9. BegunLoadable'
    BY <2>1, <2>3, Sizes DEF BegunLoadable, StackLoadable
  <2>10. pull' = "pulling"
    BY <2>3, <2>5 DEF host
  <2> QED BY <2>6, <2>7, <2>8, <2>9, <2>10 DEF OnePointInTime, MemoryGoesBack
<1>4. CASE LaterChunk
  <2>1. pull = "pulling" /\ at > 0 /\ Serve(at, snapshot)
    BY <1>4 DEF LaterChunk
  <2>2. UNCHANGED <<flash, joined, overwritten, origin, writes>>
    BY <1>4 DEF LaterChunk
  <2>3. /\ \A e \in excuses : e \in excuses'
        /\ at + 1 = Total /\ lost' > lost => "end lost" \in excuses'
    BY <1>4 DEF LaterChunk
  <2>4. at \in Unit /\ at < Total /\ at \in Nat /\ Total \in Nat /\ lost \in Nat
    BY <2>1, Sizes DEF Types, Unit
  <2>5. /\ snapshot' = IF at + 1 >= Total THEN None ELSE snapshot
        /\ \/ /\ lost' = lost /\ at' = at + 1 /\ image' \in Content
              /\ image' = [image EXCEPT ![at] = IF snapshot = None THEN flash[at] ELSE snapshot[at]]
              /\ pull' = IF at + 1 = Total THEN "done" ELSE "pulling"
           \/ lost' = lost + 1 /\ UNCHANGED host
    BY <2>1, <2>4, ServeResult DEF Types
  <2>6. Types'
    BY <2>1, <2>2, <2>4, <2>5 DEF Types, host
  <2>7. StackLoadable'
    BY <2>2 DEF StackLoadable
  <2>8. BegunLoadable'
    BY <2>1, <2>2, <2>3 DEF BegunLoadable
  <2>9. MemoryGoesBack'
    BY <2>1, <2>4, <2>5 DEF MemoryGoesBack, host
  <2>10. CASE lost' = lost + 1 /\ UNCHANGED host
    <3>1. at + 1 = Total => "end lost" \in excuses'
      <4>1. lost' > lost
        BY <2>4, <2>10
      <4> QED BY <2>3, <4>1
    <3>2. at + 1 < Total => snapshot' = snapshot
      BY <2>4, <2>5
    <3>3. InPull'
      <4> SUFFICES ASSUME pull' = "pulling", at' > 0, excuses' \subseteq {"restore"}
                   PROVE  snapshot' = origin' /\ \A u \in Unit : u < at' => image'[u] = origin'[u]
        BY DEF InPull
      <4>1. excuses \subseteq {"restore"} /\ at + 1 # Total
        BY <2>3, <3>1
      <4>2. at + 1 < Total
        BY <2>4, <4>1
      <4> QED BY <2>1, <2>2, <2>10, <3>2, <4>1, <4>2 DEF InPull, host
    <3> QED BY <2>1, <2>6, <2>7, <2>8, <2>9, <2>10, <3>3 DEF OnePointInTime, host
  <2>11. CASE lost' = lost /\ at' = at + 1
             /\ image' = [image EXCEPT ![at] = IF snapshot = None THEN flash[at] ELSE snapshot[at]]
             /\ pull' = IF at + 1 = Total THEN "done" ELSE "pulling"
    <3>1. ASSUME excuses' \subseteq {"restore"}
          PROVE  snapshot = origin /\ \A u \in Unit : u < at' => image'[u] = origin[u]
      <4>1. snapshot = origin /\ \A u \in Unit : u < at => image[u] = origin[u]
        BY <2>1, <2>3, <3>1 DEF InPull
      <4>2. origin # None
        BY SomethingTaken DEF Types
      <4>3. image' = [image EXCEPT ![at] = origin[at]] /\ image \in Content
        BY <2>11, <4>1, <4>2 DEF Types
      <4>4. \A u \in Unit : u < at + 1 => u < at \/ u = at
        BY <2>4 DEF Unit
      <4> QED BY <2>4, <2>11, <4>1, <4>3, <4>4 DEF Content
    <3>2. InPull'
      <4> SUFFICES ASSUME pull' = "pulling", at' > 0, excuses' \subseteq {"restore"}
                   PROVE  snapshot' = origin' /\ \A u \in Unit : u < at' => image'[u] = origin'[u]
        BY DEF InPull
      <4>1. snapshot' = snapshot
        BY <2>4, <2>5, <2>11
      <4> QED BY <2>2, <3>1, <4>1
    <3>3. OnePointInTime'
      <4> SUFFICES ASSUME pull' = "done", excuses' \subseteq {"restore"} PROVE image' = origin'
        BY DEF OnePointInTime
      <4>1. at' = Total /\ \A u \in Unit : image'[u] = origin[u]
        BY <2>4, <2>11, <3>1 DEF Unit
      <4> QED BY <2>2, <2>6, <4>1 DEF Types, Content
    <3> QED BY <2>6, <2>7, <2>8, <2>9, <3>2, <3>3
  <2> QED BY <2>5, <2>10, <2>11
<1>5. CASE ReadFails
  <2>1. /\ pull = "pulling" /\ lost' \in Nat /\ UNCHANGED <<at, image>>
        /\ (pull' = "failed" \/ pull' = pull)
        /\ (at = 0 /\ snapshot' = None) \/ UNCHANGED snapshot
    BY <1>5 DEF ReadFails, Heard, Ends, Lost, host, Types
  <2>2. Types'
    BY <1>5, <2>1 DEF ReadFails, Types, history
  <2> QED BY <1>5, <2>1, <2>2
      DEF ReadFails, history, StackLoadable, InPull, BegunLoadable, OnePointInTime, MemoryGoesBack
<1>6. CASE Save
  <2>1. PICK U \in (SUBSET Unit) \ {{}} : flash' = Written(U, Data(writes'))
    BY <1>6 DEF Save
  <2>2. writes' \in Nat
    BY <1>6 DEF Save, Writes, Types
  <2>3. flash' \in Content
    BY <2>1, <2>2, WrittenIsContent DEF Types, Value
  <2>4. Types'
    BY <1>6, <2>2, <2>3 DEF Save, Types, host, history
  <2>5. Loadable(flash) => Loadable(flash')
    BY <2>1, DataIsGood, Sizes DEF Loadable, Written
  <2> QED BY <1>6, <2>4, <2>5
      DEF Save, host, history, StackLoadable, InPull, BegunLoadable, OnePointInTime, MemoryGoesBack
<1>7. CASE Form
  <2>1. writes' \in Nat /\ flash' = Written(ZbUnit, Data(writes'))
    BY <1>7 DEF Form, Writes, Types
  <2>2. flash' \in Content
    BY <2>1, WrittenIsContent, Sizes DEF Types, Value
  <2>3. Types'
    BY <1>7, <2>1, <2>2 DEF Form, Types, host, history
  <2>4. Loadable(flash')
    BY <2>1, DataIsGood, Sizes DEF Loadable, Written
  <2> QED BY <1>7, <2>3, <2>4
      DEF Form, host, history, StackLoadable, InPull, BegunLoadable, OnePointInTime, MemoryGoesBack
<1>8. CASE RestoreErases
  <2>1. flash' \in Content
    BY <1>8, WrittenIsContent DEF RestoreErases, Types, Value
  <2>2. Types'
    BY <1>8, <2>1 DEF RestoreErases, Types, host, history, bounds
  <2> QED BY <1>8, <2>2
      DEF RestoreErases, host, history, StackLoadable, InPull, BegunLoadable, OnePointInTime,
          MemoryGoesBack
<1>9. CASE Restart
  <2>1. flash' \in Content
    BY <1>9, WrittenIsContent, Sizes DEF Restart, Types, Value
  <2>2. joined' = Loadable(flash') /\ "restart" \in excuses' /\ snapshot' = None
    BY <1>9 DEF Restart
  <2>3. Types'
    BY <1>9, <2>1, <2>2 DEF Restart, Types, host, Loadable
  <2> QED BY <1>9, <2>2, <2>3
      DEF Restart, host, StackLoadable, InPull, BegunLoadable, OnePointInTime, MemoryGoesBack
<1>10. CASE UNCHANGED vars
  <2>1. Types'
    BY <1>10 DEF vars, host, history, bounds, Types
  <2> QED BY <1>10, <2>1
      DEF vars, host, history, bounds, StackLoadable, InPull, BegunLoadable, OnePointInTime,
          MemoryGoesBack
<1> QED BY <1>1, <1>2, <1>3, <1>4, <1>5, <1>6, <1>7, <1>8, <1>9, <1>10 DEF Next

LEMMA InvAlways == Spec => []Inv
BY InvInit, InvNext, PTL DEF Spec

\* A pull that ends whole is the flash of its first chunk, however many saves, retries and
\* pulls given up there are, unless one of the named exceptions befell it.
THEOREM PullsAreOnePoint == Spec => []OnePointInTime
<1>1. Inv => OnePointInTime
  BY DEF Inv
<1> QED BY <1>1, InvAlways, PTL

\* The snapshot's memory goes back with the last chunk and with a refusal.
THEOREM SnapshotIsFreed == Spec => []MemoryGoesBack
<1>1. Inv => MemoryGoesBack
  BY DEF Inv
<1> QED BY <1>1, InvAlways, PTL

\* A backup pulled whole can be loaded, whatever cut saves have left on flash before.
THEOREM BackupsLoad == Spec => []NoPoisonedBackup
<1>1. Inv => NoPoisonedBackup
  BY DEF Inv, BegunLoadable, OnePointInTime, NoPoisonedBackup
<1> QED BY <1>1, InvAlways, PTL
==============================================================================
