------------------------ MODULE RestoreNetwork_proofs -------------------------
(***************************************************************************)
(* RestoreNetwork for partitions of any size, any set of images and chunks *)
(* of any length, whatever fails: what a restore may leave on flash.       *)
(*                                                                         *)
(* The invariant follows the image.  While a session is open, everything   *)
(* below next_offset is of the image being sent, in RAM or on flash        *)
(* (InSession); a commit has the whole image in RAM, past the gate a good  *)
(* one, and puts it down half by half (InCommit).                          *)
(***************************************************************************)
EXTENDS RestoreNetwork, TLAPS

Content == Image \cup {"prior", "erased"}

Types ==
  /\ flash \in [Unit -> Content] /\ img \in [Unit -> Content]
  /\ next \in 0 .. Capacity
  /\ commit \in {"none", "gate", "eraseNvs", "eraseZb", "writeNvs", "writeZb", "wipe", "ok", "failed"}
  /\ bad \subseteq Unit
  /\ sending \in Image
  /\ completed \in Image \cup {"none"}

\* Flash is as it was found until it is marked dirty.
Untouched == ~dirty => flash = bootFlash /\ commit \in {"none", "gate"}

InSession ==
  active =>
    /\ commit = "none" /\ completed = "none"
    /\ buffered => \A u \in Unit : u < next => img[u] = sending
    /\ ~buffered => /\ dirty /\ sending \in streamed
                    /\ \A u \in Unit : u < next => flash[u] = sending

InCommit ==
  commit # "none" =>
    /\ completed = "none"
    /\ \A u \in Unit : img[u] = sending
    /\ commit # "gate" => sending \in GoodImages
    /\ commit = "writeZb" /\ bad = {} => \A u \in NvsUnit : flash[u] = sending
    /\ commit = "ok" => \A u \in Unit : flash[u] = sending

Inv == Types /\ Untouched /\ InSession /\ InCommit /\ CompletedIsWhole /\ GateProtects
------------------------------------------------------------------------------
LEMMA Sizes ==
  /\ Nvs \in Nat /\ Nvs >= 1 /\ Zb \in Nat /\ Zb >= 1 /\ Capacity \in Nat /\ Capacity = Nvs + Zb
  /\ MaxChunk \in Nat /\ MaxChunk < Capacity
BY RestoreAssumption DEF Capacity

LEMMA Halves ==
  /\ NvsUnit \subseteq Unit /\ ZbUnit \subseteq Unit /\ Unit = NvsUnit \cup ZbUnit
  /\ NvsUnit # {} /\ ZbUnit # {}
<1>1. 0 \in NvsUnit /\ Nvs \in ZbUnit
  BY Sizes DEF NvsUnit, ZbUnit
<1>2. NvsUnit \subseteq Unit /\ ZbUnit \subseteq Unit /\ Unit \subseteq NvsUnit \cup ZbUnit
  BY Sizes DEF NvsUnit, ZbUnit, Unit
<1> QED BY <1>1, <1>2

LEMMA Contents ==
  /\ GoodImages \subseteq Image /\ Image \subseteq Content
  /\ "none" \notin Image /\ "prior" \notin Image /\ "erased" \notin Image
  /\ Erased \in [Unit -> Content] /\ \A u \in Unit : Erased[u] = "erased"
BY RestoreAssumption DEF Content, Erased

\* What a write of n units of image i at `at` leaves.
LEMMA StoredIs ==
  ASSUME NEW f \in [Unit -> Content], NEW i \in Image, NEW at \in Nat, NEW n \in Nat
  PROVE  /\ Stored(f, i, at, n) \in [Unit -> Content]
         /\ \A u \in Unit : Stored(f, i, at, n)[u] = f[u] \/ Stored(f, i, at, n)[u] = i
         /\ \A u \in Unit : u >= at /\ u < at + n => Stored(f, i, at, n)[u] = i
         /\ \A u \in Unit : u < at => Stored(f, i, at, n)[u] = f[u]
<1> Unit \subseteq Nat
  BY Sizes DEF Unit
<1>1. \A u \in Unit : u \in at .. at + n - 1 <=> u >= at /\ u < at + n
  OBVIOUS
<1> QED BY <1>1, Contents DEF Stored

\* What a flash operation leaves, however far it came.
LEMMA DoneIs ==
  ASSUME Types, NEW J \in SUBSET Units
  PROVE  /\ Done(J) \in [Unit -> Content]
         /\ \A u \in Unit : Done(J)[u] = flash[u] \/ Done(J)[u] = "erased"
                            \/ (commit \in {"writeNvs", "writeZb"} /\ Done(J)[u] = img[u])
         /\ \A u \in Unit : u \notin J => Done(J)[u] = flash[u]
         /\ \A u \in Unit : u \in J => Done(J)[u] = Goal[u]
<1>1. Goal \in [Unit -> Content] /\ (Goal = Erased \/ (commit \in {"writeNvs", "writeZb"} /\ Goal = img))
  BY Contents DEF Goal, Types
<1> QED BY <1>1, Contents DEF Done, Types

LEMMA Idle == commit \in {"none", "gate", "ok", "failed"} => Units = {}
BY DEF Units

LEMMA InvInit == Init => Inv
<1> SUFFICES ASSUME Init PROVE Inv
  OBVIOUS
<1>1. Types
  BY Contents, Sizes DEF Init, Types, Content
<1>2. Untouched /\ InSession /\ InCommit /\ CompletedIsWhole
  BY DEF Init, Untouched, InSession, InCommit, CompletedIsWhole
<1>3. GateProtects
  BY DEF Init, GateProtects
<1> QED BY <1>1, <1>2, <1>3 DEF Inv
------------------------------------------------------------------------------
(* The handler. *)

LEMMA RejectKeeps == Inv /\ Reject => Inv'
<1> SUFFICES ASSUME Inv, Reject PROVE Inv'
  OBVIOUS
<1>1. /\ active' = FALSE /\ commit' = "none" /\ commit = "none" /\ img' = Erased
      /\ UNCHANGED <<flash, next, dirty, bad, sending, bootFlash, completed, streamed>>
  BY DEF Reject, Fail, FreeBuffer
<1>2. Types'
  BY <1>1, Contents DEF Inv, Types
<1>3. Untouched' /\ InSession' /\ InCommit' /\ CompletedIsWhole' /\ GateProtects'
  BY <1>1 DEF Inv, Untouched, InSession, InCommit, CompletedIsWhole, GateProtects
<1> QED BY <1>2, <1>3 DEF Inv

LEMMA OpenBufferedKeeps ==
  ASSUME Inv, NEW i \in Image, NEW n \in 0 .. MaxChunk, OpenBuffered(i, n)
  PROVE  Inv'
<1>1. n \in Nat /\ n < Capacity
  BY Sizes
<1>2. /\ commit = "none" /\ commit' = "none" /\ sending' = i /\ buffered' = TRUE /\ completed' = "none"
      /\ next' = n /\ img' = Stored(Erased, i, 0, n)
      /\ UNCHANGED <<flash, dirty, bad, bootFlash, streamed>>
  BY <1>1 DEF OpenBuffered, Advance
<1>3. img' \in [Unit -> Content] /\ \A u \in Unit : u < next' => img'[u] = sending'
  <2>1. \A u \in Unit : u >= 0 /\ (u < n => u < 0 + n)
    BY <1>1, Sizes DEF Unit
  <2> QED BY <1>1, <1>2, <2>1, StoredIs, Contents
<1>4. Types'
  BY <1>1, <1>2, <1>3, Sizes DEF Inv, Types
<1>5. Untouched' /\ InSession' /\ InCommit' /\ CompletedIsWhole' /\ GateProtects'
  BY <1>2, <1>3 DEF Inv, Untouched, InSession, InCommit, CompletedIsWhole, GateProtects
<1> QED BY <1>4, <1>5 DEF Inv

LEMMA OpenStreamingKeeps ==
  ASSUME Inv, NEW i \in Image, NEW n \in 0 .. MaxChunk, OpenStreaming(i, n)
  PROVE  Inv'
<1>1. n \in Nat /\ n < Capacity
  BY Sizes
<1>2. /\ commit = "none" /\ sending' = i /\ buffered' = FALSE /\ dirty' = TRUE /\ img' = Erased
      /\ commit' = "none" /\ completed' = "none" /\ streamed' = streamed \cup {i} /\ bad' = bad
  BY <1>1 DEF OpenStreaming, Latch, FreeBuffer, Fail, Advance
<1>3. next' \in 0 .. Capacity
  <2>1. next' = n \/ next' = next
    BY DEF OpenStreaming, Advance
  <2>2. next \in 0 .. Capacity
    BY DEF Inv, Types
  <2> QED BY <1>1, <2>1, <2>2, Sizes
<1>4. /\ flash' \in [Unit -> Content]
      /\ \A u \in Unit : flash'[u] = flash[u] \/ flash'[u] = "erased" \/ flash'[u] = i
      /\ active' => \A u \in Unit : u < next' => flash'[u] = i
  <2>1. CASE flash' = Stored(Erased, i, 0, n) /\ Advance(n, FALSE)
    <3>1. \A u \in Unit : u >= 0 /\ (u < n => u < 0 + n)
      BY <1>1, Sizes DEF Unit
    <3>2. next' = n
      BY <2>1 DEF Advance
    <3> QED BY <1>1, <2>1, <3>1, <3>2, StoredIs, Contents
  <2>2. CASE /\ flash' \in {[u \in Unit |-> IF u \in I THEN "erased" ELSE flash[u]] :
                        I \in SUBSET Unit} \cup {Stored(Erased, i, 0, m) : m \in 0 .. n}
             /\ Fail(TRUE)
    <3>1. ~active'
      BY <2>2 DEF Fail
    <3>2. CASE \E I \in SUBSET Unit : flash' = [u \in Unit |-> IF u \in I THEN "erased" ELSE flash[u]]
      BY <3>1, <3>2, Contents DEF Inv, Types, Content
    <3>3. CASE \E m \in 0 .. n : flash' = Stored(Erased, i, 0, m)
      <4>1. PICK m \in 0 .. n : flash' = Stored(Erased, i, 0, m)
        BY <3>3
      <4>2. m \in Nat
        BY <1>1
      <4> QED BY <3>1, <4>1, <4>2, StoredIs, Contents
    <3> QED BY <2>2, <3>2, <3>3
  <2> QED BY <2>1, <2>2 DEF OpenStreaming
<1>5. Types'
  BY <1>2, <1>3, <1>4, Contents DEF Inv, Types
<1>6. GateProtects'
  BY <1>2, <1>4 DEF Inv, GateProtects
<1>7. Untouched' /\ InSession' /\ InCommit' /\ CompletedIsWhole'
  BY <1>2, <1>4 DEF Inv, Untouched, InSession, InCommit, CompletedIsWhole
<1> QED BY <1>5, <1>6, <1>7 DEF Inv

LEMMA ChunkKeeps ==
  ASSUME Inv, NEW n \in 0 .. MaxChunk, Chunk(n)
  PROVE  Inv'
<1>1. n \in Nat /\ next \in Nat /\ next + n \in 0 .. Capacity
  BY Sizes DEF Inv, Types, Chunk, InImage
<1>2. /\ active /\ commit = "none" /\ completed = "none" /\ sending \in Image
      /\ UNCHANGED <<dirty, bad, sending, bootFlash, streamed>>
      /\ flash \in [Unit -> Content] /\ img \in [Unit -> Content]
  BY DEF Chunk, Inv, InSession, Types
<1>3. CASE buffered
  <2>1. /\ img' = Stored(img, sending, next, n) /\ flash' = flash /\ buffered'
        /\ Advance(next + n, TRUE)
    BY <1>3 DEF Chunk
  <2>2. img' \in [Unit -> Content]
    BY <1>1, <1>2, <2>1, StoredIs
  <2>3. \A u \in Unit : u < next + n => img'[u] = sending
    <3> SUFFICES ASSUME NEW u \in Unit, u < next + n PROVE img'[u] = sending
      OBVIOUS
    <3>1. u \in Nat /\ (u < next \/ u >= next)
      BY <1>1, Sizes DEF Unit
    <3>2. u < next => img[u] = sending
      BY <1>2, <1>3 DEF Inv, InSession
    <3> QED BY <1>1, <1>2, <2>1, <3>1, <3>2, StoredIs
  <2>4. CASE next + n < Capacity
    <3>1. next' = next + n /\ commit' = "none" /\ completed' = "none"
      BY <1>2, <2>1, <2>4 DEF Advance
    <3>2. Types'
      BY <1>1, <1>2, <2>1, <2>2, <3>1 DEF Inv, Types
    <3>3. Untouched' /\ InSession' /\ InCommit' /\ CompletedIsWhole' /\ GateProtects'
      BY <1>2, <2>1, <2>3, <3>1
      DEF Inv, Untouched, InSession, InCommit, CompletedIsWhole, GateProtects
    <3> QED BY <3>2, <3>3 DEF Inv
  <2>5. CASE ~(next + n < Capacity)
    <3>1. ~active' /\ next' = next + n /\ commit' = "gate" /\ completed' = "none"
      BY <2>1, <2>5 DEF Advance
    <3>2. \A u \in Unit : u < next + n
      BY <1>1, <2>5, Sizes DEF Unit
    <3>3. Types'
      BY <1>1, <1>2, <2>1, <2>2, <3>1 DEF Inv, Types
    <3>4. InCommit'
      BY <1>2, <2>3, <3>1, <3>2 DEF InCommit
    <3>5. Untouched' /\ InSession' /\ CompletedIsWhole' /\ GateProtects'
      BY <1>2, <2>1, <3>1 DEF Inv, Untouched, InSession, CompletedIsWhole, GateProtects
    <3> QED BY <3>3, <3>4, <3>5 DEF Inv
  <2> QED BY <2>4, <2>5
<1>4. CASE ~buffered
  <2>1. dirty /\ sending \in streamed /\ \A u \in Unit : u < next => flash[u] = sending
    BY <1>2, <1>4 DEF Inv, InSession
  <2>2. CASE flash' = Stored(flash, sending, next, n) /\ Advance(next + n, FALSE)
             /\ UNCHANGED <<buffered, img>>
    <3>1. /\ flash' \in [Unit -> Content]
          /\ \A u \in Unit : flash'[u] = flash[u] \/ flash'[u] = sending
      BY <1>1, <1>2, <2>2, StoredIs
    <3>2. \A u \in Unit : u < next + n => flash'[u] = sending
      <4> SUFFICES ASSUME NEW u \in Unit, u < next + n PROVE flash'[u] = sending
        OBVIOUS
      <4>1. u \in Nat /\ (u < next \/ u >= next)
        BY <1>1, Sizes DEF Unit
      <4> QED BY <1>1, <1>2, <2>1, <2>2, <4>1, StoredIs
    <3>3. commit' = "none" /\ next' = next + n
      BY <1>2, <2>2 DEF Advance
    <3>4. CASE next + n < Capacity
      <4>1. completed' = "none"
        BY <2>2, <3>4 DEF Advance
      <4>2. Types'
        BY <1>1, <1>2, <2>2, <3>1, <3>3, <4>1 DEF Inv, Types
      <4>3. Untouched' /\ InSession' /\ InCommit' /\ CompletedIsWhole' /\ GateProtects'
        BY <1>2, <1>4, <2>1, <2>2, <3>1, <3>2, <3>3, <4>1
        DEF Inv, Untouched, InSession, InCommit, CompletedIsWhole, GateProtects
      <4> QED BY <4>2, <4>3 DEF Inv
    <3>5. CASE ~(next + n < Capacity)
      <4>1. completed' = sending /\ ~active'
        BY <2>2, <3>5 DEF Advance
      <4>2. \A u \in Unit : u < next + n
        BY <1>1, <3>5, Sizes DEF Unit
      <4>3. Types'
        BY <1>1, <1>2, <2>2, <3>1, <3>3, <4>1 DEF Inv, Types
      <4>4. CompletedIsWhole'
        BY <3>2, <4>1, <4>2 DEF CompletedIsWhole
      <4>5. Untouched' /\ InSession' /\ InCommit' /\ GateProtects'
        BY <1>2, <2>1, <3>1, <3>3, <4>1 DEF Inv, Untouched, InSession, InCommit, GateProtects
      <4> QED BY <4>3, <4>4, <4>5 DEF Inv
    <3> QED BY <3>4, <3>5
  <2>3. ASSUME NEW m \in 0 .. n, flash' = Stored(flash, sending, next, m), Fail(TRUE),
               UNCHANGED <<next, commit, completed>>
        PROVE  Inv'
    <3>1. /\ flash' \in [Unit -> Content]
          /\ \A u \in Unit : flash'[u] = flash[u] \/ flash'[u] = sending
      <4>1. m \in Nat
        BY <1>1
      <4> QED BY <1>1, <1>2, <2>3, <4>1, StoredIs
    <3>2. ~active' /\ img' = Erased
      BY <2>3 DEF Fail, FreeBuffer
    <3>3. Types'
      BY <1>2, <2>3, <3>1, <3>2, Contents DEF Inv, Types
    <3>4. Untouched' /\ InSession' /\ InCommit' /\ CompletedIsWhole' /\ GateProtects'
      BY <1>2, <2>1, <2>3, <3>1, <3>2
      DEF Inv, Untouched, InSession, InCommit, CompletedIsWhole, GateProtects
    <3> QED BY <3>3, <3>4 DEF Inv
  <2> QED BY <1>4, <2>2, <2>3 DEF Chunk
<1> QED BY <1>3, <1>4
------------------------------------------------------------------------------
(* The commit. *)

LEMMA GateKeeps == Inv /\ Gate => Inv'
<1> SUFFICES ASSUME Inv, Gate PROVE Inv'
  OBVIOUS
<1>1. /\ commit = "gate" /\ ~active /\ completed = "none" /\ \A u \in Unit : img[u] = sending
      /\ UNCHANGED <<flash, next, bad, sending, bootFlash, completed, streamed>>
  BY DEF Gate, Inv, InSession, InCommit
<1>2. CASE GateOk
  <2>1. commit' = "eraseNvs" /\ dirty' /\ UNCHANGED <<active, buffered, img>>
    BY <1>2 DEF Gate, Latch
  <2>2. sending \in GoodImages
    BY <1>1, <1>2, Halves DEF GateOk
  <2>3. Types'
    BY <1>1, <2>1 DEF Inv, Types
  <2>4. Untouched' /\ InSession' /\ InCommit' /\ CompletedIsWhole' /\ GateProtects'
    BY <1>1, <2>1, <2>2 DEF Inv, Untouched, InSession, InCommit, CompletedIsWhole, GateProtects
  <2> QED BY <2>3, <2>4 DEF Inv
<1>3. CASE ~GateOk
  <2>1. commit' = "none" /\ active' = FALSE /\ img' = Erased /\ dirty' = dirty
    BY <1>3 DEF Gate, Fail, FreeBuffer
  <2>2. Types'
    BY <1>1, <2>1, Contents DEF Inv, Types
  <2>3. Untouched' /\ InSession' /\ InCommit' /\ CompletedIsWhole' /\ GateProtects'
    BY <1>1, <2>1 DEF Inv, Untouched, InSession, InCommit, CompletedIsWhole, GateProtects
  <2> QED BY <2>2, <2>3 DEF Inv
<1> QED BY <1>2, <1>3

\* What a step of a commit past the gate may do to flash.
LEMMA OnFlash ==
  ASSUME Inv, commit \notin {"none", "gate"}, NEW J \in SUBSET Units, flash' = Done(J),
         UNCHANGED <<img, sending, streamed>>
  PROVE  flash' \in [Unit -> Content] /\ GateProtects'
<1>1. sending \in GoodImages /\ \A u \in Unit : img[u] = sending
  BY DEF Inv, InCommit
<1>2. Types
  BY DEF Inv
<1>3. flash' \in [Unit -> Content] /\ \A u \in Unit : flash'[u] = flash[u] \/ flash'[u] = "erased" \/ flash'[u] = img[u]
  BY <1>2, DoneIs
<1> QED BY <1>1, <1>3 DEF Inv, GateProtects

LEMMA CommitFlashKeeps == Inv /\ CommitFlash => Inv'
<1> SUFFICES ASSUME Inv, CommitFlash PROVE Inv'
  OBVIOUS
<1>1. /\ commit \in {"eraseNvs", "eraseZb", "writeNvs", "writeZb"} /\ ~active /\ completed = "none" /\ dirty
      /\ \A u \in Unit : img[u] = sending
      /\ sending \in GoodImages
      /\ UNCHANGED <<active, next, buffered, img, dirty, sending, bootFlash, completed, streamed>>
  BY DEF CommitFlash, session, Inv, InSession, InCommit, Untouched
<1>2. Units \subseteq Unit /\ Units # {}
  BY <1>1, Halves DEF Units
<1>3. bad' \subseteq Unit /\ flash' \in [Unit -> Content] /\ GateProtects'
  <2>1. CASE UNCHANGED <<flash, bad>>
    BY <1>1, <2>1 DEF Inv, Types, GateProtects
  <2>2. CASE flash' = Done(Units) /\ UNCHANGED bad
    BY <1>1, <2>2, OnFlash DEF Inv, Types
  <2>3. ASSUME NEW J \in SUBSET Units, flash' = Done(J), bad' = bad \cup Units
        PROVE  bad' \subseteq Unit /\ flash' \in [Unit -> Content] /\ GateProtects'
    BY <1>1, <1>2, <2>3, OnFlash DEF Inv, Types
  <2> QED BY <2>1, <2>2, <2>3 DEF CommitFlash, Attempt
<1>4. commit' \in {"eraseZb", "writeNvs", "writeZb", "ok", "wipe"}
      /\ (commit' = "writeZb" => commit = "writeNvs")
      /\ (commit' = "ok" => commit = "writeZb" /\ bad' = {})
  BY <1>1 DEF CommitFlash
\* A write that leaves nothing bad behind was made, after an erase that was.
<1>5. ASSUME commit \in {"writeNvs", "writeZb"}, bad' = {}
      PROVE  bad = {} /\ flash' = Done(Units)
  BY <1>2, <1>5 DEF CommitFlash, Attempt
<1>6. ASSUME commit \in {"writeNvs", "writeZb"}, bad' = {}
      PROVE  \A u \in Unit : (u \in Units => flash'[u] = sending) /\ (u \notin Units => flash'[u] = flash[u])
  <2>1. Goal = img
    BY <1>6 DEF Goal
  <2>2. Types
    BY DEF Inv
  <2> QED BY <1>1, <1>5, <1>6, <2>1, <2>2, DoneIs
<1>7. Types'
  BY <1>1, <1>3, <1>4 DEF Inv, Types
<1>8. InCommit'
  <2>1. commit' = "writeZb" /\ bad' = {} => \A u \in NvsUnit : flash'[u] = sending
    <3> SUFFICES ASSUME commit' = "writeZb", bad' = {} PROVE \A u \in NvsUnit : flash'[u] = sending
      OBVIOUS
    <3>1. commit = "writeNvs" /\ Units = NvsUnit
      BY <1>4 DEF Units
    <3> QED BY <1>6, <3>1, Halves
  <2>2. commit' = "ok" => \A u \in Unit : flash'[u] = sending
    <3> SUFFICES ASSUME commit' = "ok" PROVE \A u \in Unit : flash'[u] = sending
      OBVIOUS
    <3>1. commit = "writeZb" /\ bad' = {} /\ bad = {} /\ Units = ZbUnit
      BY <1>4, <1>5 DEF Units
    <3>2. \A u \in NvsUnit : flash[u] = sending
      BY <3>1 DEF Inv, InCommit
    <3> QED BY <1>6, <3>1, <3>2, Halves
  <2> QED BY <1>1, <1>4, <2>1, <2>2 DEF InCommit
<1>9. Untouched' /\ InSession' /\ CompletedIsWhole'
  BY <1>1 DEF Untouched, InSession, CompletedIsWhole
<1> QED BY <1>3, <1>7, <1>8, <1>9 DEF Inv

LEMMA WipeKeeps == Inv /\ Wipe => Inv'
<1> SUFFICES ASSUME Inv, Wipe PROVE Inv'
  OBVIOUS
<1>1. /\ commit = "wipe" /\ commit' = "failed" /\ ~active /\ completed = "none" /\ dirty
      /\ \A u \in Unit : img[u] = sending
      /\ sending \in GoodImages
      /\ UNCHANGED <<active, next, buffered, img, dirty, bad, sending, bootFlash, completed, streamed>>
  BY DEF Wipe, session, Inv, InSession, InCommit, Untouched
<1>2. flash' \in [Unit -> Content] /\ GateProtects'
  <2>1. PICK J \in SUBSET Units : flash' = Done(J)
    BY DEF Wipe
  <2> QED BY <1>1, <2>1, OnFlash
<1>3. Types'
  BY <1>1, <1>2 DEF Inv, Types
<1>4. Untouched' /\ InSession' /\ InCommit' /\ CompletedIsWhole'
  BY <1>1 DEF Untouched, InSession, InCommit, CompletedIsWhole
<1> QED BY <1>2, <1>3, <1>4 DEF Inv

LEMMA EndCommitKeeps == Inv /\ EndCommit => Inv'
<1> SUFFICES ASSUME Inv, EndCommit PROVE Inv'
  OBVIOUS
<1>1. /\ commit \in {"ok", "failed"} /\ commit' = "none" /\ bad' = {} /\ img' = Erased
      /\ completed' = (IF commit = "ok" THEN sending ELSE "none")
      /\ UNCHANGED <<flash, active, next, dirty, sending, bootFlash, streamed>>
  BY DEF EndCommit, FreeBuffer
<1>2. ~active /\ (commit = "ok" => \A u \in Unit : flash[u] = sending) /\ dirty
  BY <1>1 DEF Inv, InSession, InCommit, Untouched
<1>3. Types'
  BY <1>1, Contents DEF Inv, Types
<1>4. CompletedIsWhole'
  BY <1>1, <1>2 DEF CompletedIsWhole
<1>5. Untouched' /\ InSession' /\ InCommit' /\ GateProtects'
  BY <1>1, <1>2 DEF Inv, Untouched, InSession, InCommit, GateProtects
<1> QED BY <1>3, <1>4, <1>5 DEF Inv

LEMMA RestartKeeps == Inv /\ Restart => Inv'
<1> SUFFICES ASSUME Inv, Restart PROVE Inv'
  OBVIOUS
<1>1. /\ active' = FALSE /\ next' = 0 /\ img' = Erased /\ commit' = "none" /\ bad' = {}
      /\ completed' = "none" /\ bootFlash' = flash' /\ UNCHANGED <<sending, streamed>>
  BY DEF Restart, FreeBuffer
<1>2. PICK J \in SUBSET Units : flash' = Done(J)
  BY DEF Restart
<1>3. Types
  BY DEF Inv
<1>4. flash' \in [Unit -> Content]
      /\ \A u \in Unit : flash'[u] = flash[u] \/ flash'[u] = "erased" \/
                          (commit \in {"writeNvs", "writeZb"} /\ flash'[u] = img[u])
  BY <1>2, <1>3, DoneIs
<1>5. commit \in {"writeNvs", "writeZb"} => sending \in GoodImages /\ \A u \in Unit : img[u] = sending
  BY DEF Inv, InCommit
<1>6. Types'
  BY <1>1, <1>3, <1>4, Contents, Sizes DEF Types
<1>7. GateProtects'
  BY <1>1, <1>4, <1>5 DEF Inv, GateProtects
<1>8. Untouched' /\ InSession' /\ InCommit' /\ CompletedIsWhole'
  BY <1>1 DEF Untouched, InSession, InCommit, CompletedIsWhole
<1> QED BY <1>6, <1>7, <1>8 DEF Inv

LEMMA InvNext == Inv /\ [Next]_vars => Inv'
<1>1. ASSUME Inv, UNCHANGED vars PROVE Inv'
  <2>1. Types'
    BY <1>1 DEF vars, session, Inv, Types
  <2>2. Untouched' /\ InSession' /\ InCommit' /\ CompletedIsWhole' /\ GateProtects'
    BY <1>1 DEF vars, session, Inv, Untouched, InSession, InCommit, CompletedIsWhole, GateProtects
  <2> QED BY <2>1, <2>2 DEF Inv
<1> QED BY <1>1, RejectKeeps, OpenBufferedKeeps, OpenStreamingKeeps, ChunkKeeps, GateKeeps,
           CommitFlashKeeps, WipeKeeps, EndCommitKeeps, RestartKeeps
        DEF Next, DeferredRestart, PowerCut

LEMMA InvAlways == Spec => []Inv
BY InvInit, InvNext, PTL DEF Spec
------------------------------------------------------------------------------
(* The restart that has to follow. *)

\* Once flash is dirty a restart is pending at every way out, and without a
\* failing xTaskCreate a pending restart has its task.
RestartDue ==
  /\ dirty /\ ~active /\ commit = "none" => rebootPending
  /\ rebootPending => rebootTask
  /\ dirty \in BOOLEAN

LEMMA RestartDueNext == ~TasksMayFail /\ Inv /\ RestartDue /\ [Next]_vars => RestartDue'
<1> SUFFICES ASSUME ~TasksMayFail, Inv, RestartDue, [Next]_vars PROVE RestartDue'
  OBVIOUS
<1>1. ScheduleReboot => rebootPending' /\ rebootTask'
  BY DEF ScheduleReboot, reboot, RestartDue
<1>2. (UNCHANGED reboot => (rebootPending' = rebootPending /\ rebootTask' = rebootTask))
  BY DEF reboot
<1>3. ASSUME ScheduleReboot, dirty' \in BOOLEAN PROVE RestartDue'
  BY <1>1, <1>3 DEF RestartDue
<1>4. ASSUME UNCHANGED reboot, dirty' \in BOOLEAN, active' \/ commit' # "none" PROVE RestartDue'
  BY <1>2, <1>4 DEF RestartDue
<1>5. ASSUME UNCHANGED reboot, dirty' = FALSE PROVE RestartDue'
  <2>1. ~dirty' /\ dirty' \in BOOLEAN
    BY <1>5
  <2>2. rebootPending' => rebootTask'
    BY <1>2, <1>5 DEF RestartDue
  <2> QED BY <2>1, <2>2 DEF RestartDue
<1>6. CASE Reject
  <2>1. dirty' = dirty /\ dirty \in BOOLEAN /\ Fail(dirty)
    BY <1>6 DEF Reject, RestartDue
  <2>2. CASE dirty = TRUE
    BY <1>3, <2>1, <2>2 DEF Fail
  <2>3. CASE dirty = FALSE
    BY <1>5, <2>1, <2>3 DEF Fail
  <2> QED BY <2>1, <2>2, <2>3
<1>7. ASSUME NEW i \in Image, NEW n \in 0 .. MaxChunk, OpenBuffered(i, n) PROVE RestartDue'
  <2>1. n < Capacity
    BY Sizes
  <2>2. dirty' = dirty /\ active' /\ UNCHANGED reboot
    BY <1>7, <2>1 DEF OpenBuffered, Advance
  <2> QED BY <1>4, <2>2 DEF RestartDue
<1>8. ASSUME NEW i \in Image, NEW n \in 0 .. MaxChunk, OpenStreaming(i, n) PROVE RestartDue'
  <2>1. n < Capacity
    BY Sizes
  <2>2. dirty' = TRUE
    BY <1>8 DEF OpenStreaming, Latch
  <2>3. CASE Advance(n, FALSE)
    <3>1. active' /\ UNCHANGED reboot
      BY <2>1, <2>3 DEF Advance
    <3> QED BY <1>4, <2>2, <3>1
  <2>4. CASE Fail(TRUE)
    <3>1. ScheduleReboot
      BY <2>4 DEF Fail
    <3> QED BY <1>3, <2>2, <3>1
  <2> QED BY <1>8, <2>3, <2>4 DEF OpenStreaming
<1>9. ASSUME NEW n \in 0 .. MaxChunk, Chunk(n) PROVE RestartDue'
  <2>1. dirty' = dirty /\ dirty \in BOOLEAN
    BY <1>9 DEF Chunk, RestartDue
  <2>2. ASSUME NEW inRam \in BOOLEAN, Advance(next + n, inRam) PROVE RestartDue'
    <3>1. CASE next + n < Capacity
      <4>1. active' /\ UNCHANGED reboot
        BY <2>2, <3>1 DEF Advance
      <4> QED BY <1>4, <2>1, <4>1
    <3>2. CASE ~(next + n < Capacity) /\ inRam
      <4>1. commit' = "gate" /\ UNCHANGED reboot
        BY <2>2, <3>2 DEF Advance
      <4> QED BY <1>4, <2>1, <4>1
    <3>3. CASE ~(next + n < Capacity) /\ ~inRam
      <4>1. ScheduleReboot
        BY <2>2, <3>3 DEF Advance
      <4> QED BY <1>3, <2>1, <4>1
    <3> QED BY <3>1, <3>2, <3>3
  <2>3. ASSUME Fail(TRUE) PROVE RestartDue'
    <3>1. ScheduleReboot
      BY <2>3 DEF Fail
    <3> QED BY <1>3, <2>1, <3>1
  <2>4. Advance(next + n, TRUE) \/ Advance(next + n, FALSE) \/ Fail(TRUE)
    BY <1>9 DEF Chunk
  <2> QED BY <2>2, <2>3, <2>4
<1>10. CASE Gate
  <2>1. CASE GateOk
    BY <1>4, <1>10, <2>1 DEF Gate, Latch
  <2>2. CASE ~GateOk
    BY <1>3, <1>5, <1>10, <2>2 DEF Gate, Fail, RestartDue
  <2> QED BY <2>1, <2>2
<1>11. CASE CommitFlash
  <2>1. commit' # "none"
    BY <1>11 DEF CommitFlash
  <2> QED BY <1>4, <1>11, <2>1 DEF CommitFlash, RestartDue
<1>12. CASE Wipe
  BY <1>4, <1>12 DEF Wipe, RestartDue
<1>13. CASE EndCommit
  BY <1>3, <1>13 DEF EndCommit, RestartDue
<1>14. CASE DeferredRestart \/ PowerCut
  BY <1>14 DEF DeferredRestart, PowerCut, Restart, RestartDue
<1>15. CASE UNCHANGED vars
  BY <1>15 DEF vars, session, reboot, RestartDue
<1> QED BY <1>6, <1>7, <1>8, <1>9, <1>10, <1>11, <1>12, <1>13, <1>14, <1>15 DEF Next
------------------------------------------------------------------------------
\* A restore that is rejected, cut short or abandoned before its commit has
\* written nothing (commands_impl.h, restore_fail and the buffered chunks).
THEOREM RejectionsAreHarmless == Spec => []RejectedIsHarmless
<1>1. Inv => RejectedIsHarmless
  BY DEF Inv, Untouched, RejectedIsHarmless
<1> QED BY InvAlways, <1>1, PTL

\* Every way out of a session has a restart coming once flash is dirty, also that
\* of a later session, as long as tasks can be created (restore_schedule_reboot
\* does not look at xTaskCreate's result).
THEOREM DirtyRestarts ==
  ASSUME ~TasksMayFail
  PROVE  Spec => []DirtyEndsInRestart
<1>1. Init => RestartDue
  BY DEF Init, RestartDue
<1>2. Inv /\ RestartDue /\ [Next]_vars => RestartDue'
  BY RestartDueNext
<1>3. RestartDue => DirtyEndsInRestart
  BY DEF RestartDue, DirtyEndsInRestart
<1> QED BY InvAlways, <1>1, <1>2, <1>3, PTL DEF Spec

\* A completed restore has put one image on flash, all of it, whatever sessions
\* came before and whichever operation failed (restore_commit_buffered).
THEOREM CompletedAreWhole == Spec => []CompletedIsWhole
<1>1. Inv => CompletedIsWhole
  BY DEF Inv
<1> QED BY InvAlways, <1>1, PTL

\* Nothing of a refused image reaches flash but past the buffer
\* (zb_storage_image_ok).
THEOREM GateHolds == Spec => []GateProtects
<1>1. Inv => GateProtects
  BY DEF Inv
<1> QED BY InvAlways, <1>1, PTL
==============================================================================
