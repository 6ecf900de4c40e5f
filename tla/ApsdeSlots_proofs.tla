-------------------------- MODULE ApsdeSlots_proofs ---------------------------
(***************************************************************************)
(* ApsdeSlots for any number of slots, requests and buffers: its type      *)
(* invariant and its six safety invariants.                                *)
(*                                                                         *)
(* None of them is inductive alone.  Inv1 (types, reservations, owners)    *)
(* is; Inv2 adds the allocation numbers, the send records and the buffers, *)
(* Inv3 where each request is, and each is inductive given the one before. *)
(***************************************************************************)
EXTENDS ApsdeSlots, TLAPS

\* A slot in use has an owner, so the watchdog and an override displace requests.
SlotsOwned == \A i \in Slot : slot[i].state # "NONE" => slot[i].req \in Req

Inv1 == TypeOK /\ ReservationPending /\ SlotsOwned

\* Allocation numbers given out are below the counter ...
NumbersBelow ==
  /\ \A i \in Slot : slot[i].state # "NONE" => slot[i].old < oldCntr
  /\ \A b \in Buf : sent[b].valid => sent[b].old < oldCntr

\* ... so a record that bears a slot's number is that of the slot's own request.
RecordsOwn ==
  \A b \in Buf :
    LET i == sent[b].idx
    IN sent[b].valid /\ slot[i].state # "NONE" /\ slot[i].old = sent[b].old
         => slot[i].req = sentFor[b]

\* The held buffer is the one the report under way will free, and conversely.
HeldByReport ==
  /\ NoBufferLeak
  /\ zb.pc = "report" /\ zb.buf # NoBuf => zb.buf \in Buf /\ buf[zb.buf] = "held"
  /\ zb.pc # "report" => zb.buf = NoBuf

\* A copied buffer has no record, nor, where copies are made, has one that may
\* become a copy.
CopiesUnmarked ==
  /\ \A b \in Buf : buf[b] = "copy" => CopiesMade /\ ~sent[b].valid
  /\ CopiesMade => \A b \in Buf : buf[b] \in {"free", "held"} => ~sent[b].valid

Inv2 == NumbersBelow /\ RecordsOwn /\ HeldByReport /\ CopiesUnmarked /\ ConfirmFidelity

\* Nobody has answered or given up a request that is still to come, in a slot, or
\* in the reply under way.
Open(r) == answers[r] = 0 /\ r \notin gaveUp

\* Where each request is.
Places ==
  /\ \A r \in fresh : Open(r)
  /\ \A i \in Slot : slot[i].state # "NONE" => Open(slot[i].req) /\ slot[i].req \notin fresh
  /\ zb.pc = "report" => zb.req \in Req /\ Open(zb.req) /\ zb.req \notin fresh

Inv3 == Places /\ OneHome /\ AtMostOneAnswer /\ NoAnswerAfterGivingUp
------------------------------------------------------------------------------
(* What the operations of SlotTable return. *)

\* start_resolve picks a slot that is free or waits for a confirm, never a
\* reserved one.
LEMMA PickedNotReserved ==
  ASSUME NEW tab \in [Slot -> SlotRec], NEW i \in Picked(tab)
  PROVE  i \in Slot /\ tab[i].state \in {"NONE", "EXEC"}
BY DEF Picked, InState

\* Claiming a slot changes that slot's state, request and number alone.
LEMMA ClaimResult ==
  ASSUME NEW tab \in [Slot -> SlotRec], NEW i \in Slot, NEW r \in Req, NEW n \in Nat
  PROVE  /\ Claim(tab, i, r, n) \in [Slot -> SlotRec]
         /\ Claim(tab, i, r, n)[i].state = "ALLOCATION"
         /\ Claim(tab, i, r, n)[i].req = r
         /\ Claim(tab, i, r, n)[i].old = n
         /\ \A j \in Slot \ {i} : Claim(tab, i, r, n)[j] = tab[j]
BY DEF Claim, SlotRec, SlotState

\* Releasing slots changes their state alone.
LEMMA ReleaseResult ==
  ASSUME NEW tab \in [Slot -> SlotRec], NEW I \in SUBSET Slot
  PROVE  /\ Release(tab, I) \in [Slot -> SlotRec]
         /\ \A j \in I : Release(tab, I)[j].state = "NONE"
         /\ \A j \in Slot \ I : Release(tab, I)[j] = tab[j]
         /\ \A j \in Slot : Release(tab, I)[j].req = tab[j].req
         /\ \A j \in Slot : Release(tab, I)[j].old = tab[j].old
BY DEF Release, SlotRec, SlotState

\* What process leaves in the slot it claimed, and that it touches no other.
LEMMA AcceptResult ==
  ASSUME slot \in [Slot -> SlotRec], oldCntr \in Nat,
         NEW r \in Req, NEW i \in Slot, Accept(r, i)
  PROVE  /\ slot' \in [Slot -> SlotRec]
         /\ slot'[i].req = r
         /\ slot'[i].old = oldCntr
         /\ \A j \in Slot \ {i} : slot'[j] = slot[j]
         /\ \/ /\ slot'[i].state = "ALLOCATION" /\ queued' = [queued EXCEPT ![i] = @ + 1]
               /\ answers' = answers
            \/ /\ slot'[i].state = "NONE" /\ queued' = queued
               /\ Answer(r)
<1>1. /\ Claim(slot, i, r, oldCntr) \in [Slot -> SlotRec]
      /\ Claim(slot, i, r, oldCntr)[i].state = "ALLOCATION"
      /\ Claim(slot, i, r, oldCntr)[i].req = r
      /\ Claim(slot, i, r, oldCntr)[i].old = oldCntr
      /\ \A j \in Slot \ {i} : Claim(slot, i, r, oldCntr)[j] = slot[j]
  BY ClaimResult
<1>2. CASE slot' = Claim(slot, i, r, oldCntr)
           /\ queued' = [queued EXCEPT ![i] = @ + 1] /\ answers' = answers
  BY <1>1, <1>2
<1>3. CASE slot' = Release(Claim(slot, i, r, oldCntr), {i}) /\ queued' = queued /\ Answer(r)
  BY <1>1, <1>3, ReleaseResult
<1> QED BY <1>2, <1>3 DEF Accept

------------------------------------------------------------------------------
(* Inv1 *)

LEMMA Inv1Init == Init => Inv1
BY SlotAssumption, ApsdeAssumption
DEF Init, Inv1, TypeOK, ReservationPending, SlotsOwned, SlotRec, SentRec, ZbRec, Idle,
    Slot, SlotState

\* The parts Process and the other steps have in common are taken one at a time.
LEMMA Inv1Next == Inv1 /\ [Next]_vars => Inv1'
<1> SUFFICES ASSUME TypeOK, ReservationPending, SlotsOwned, [Next]_vars
             PROVE  TypeOK' /\ ReservationPending' /\ SlotsOwned'
  BY DEF Inv1
<1>zero. 0 \in Slot
  BY SlotAssumption DEF Slot
<1>typed. /\ slot \in [Slot -> SlotRec] /\ oldCntr \in Nat /\ queued \in [Slot -> Nat]
          /\ zb \in ZbRec /\ zb.idx \in Slot
          /\ \A i \in Slot : slot[i].req \in Req \cup {NoReq} /\ slot[i].old \in Nat
                             /\ slot[i].state \in SlotState
  BY DEF TypeOK, ZbRec, SlotRec
<1>idle. Idle \in ZbRec /\ Idle.pc = "idle"
  BY <1>zero DEF Idle, ZbRec
<1>1. ASSUME NEW r \in Req, Process(r)
      PROVE  TypeOK' /\ ReservationPending' /\ SlotsOwned'
  <2>0. zb.pc = "idle" /\ zb' = zb
    BY <1>1 DEF Process
  <2>1. CASE Refuse(r)
    BY <1>1, <2>1, <1>typed
    DEF Process, Refuse, Answer, TypeOK, ReservationPending, SlotsOwned, Slot, SlotState
  <2>2. ASSUME NEW i \in Picked(slot), Accept(r, i)
        PROVE  TypeOK' /\ ReservationPending' /\ SlotsOwned'
    <3>1. i \in Slot /\ slot[i].state \in {"NONE", "EXEC"}
      BY <1>typed, PickedNotReserved
    <3>2. queued[i] = 0
      BY <2>0, <3>1, <1>typed DEF ReservationPending
    <3>3. /\ slot' \in [Slot -> SlotRec]
          /\ slot'[i].req = r
          /\ \A j \in Slot \ {i} : slot'[j] = slot[j]
          /\ \/ slot'[i].state = "ALLOCATION" /\ queued' = [queued EXCEPT ![i] = @ + 1]
             \/ slot'[i].state = "NONE" /\ queued' = queued
      BY <2>2, <3>1, <1>typed, AcceptResult
    <3>4. gaveUp' \in SUBSET Req /\ oldCntr' \in Nat /\ answers' \in [Req -> Nat]
      BY <2>2, <3>1, <1>typed DEF Accept, Displaced, Answer, TypeOK, SlotsOwned
    <3>5. queued' \in [Slot -> Nat]
      BY <3>1, <3>2, <3>3, <1>typed
    <3>6. TypeOK'
      BY <1>1, <3>3, <3>4, <3>5 DEF Process, TypeOK
    <3>7. ReservationPending'
      <4> SUFFICES ASSUME NEW j \in Slot
                   PROVE  queued'[j] = IF slot'[j].state = "ALLOCATION" THEN 1 ELSE 0
        BY <2>0 DEF ReservationPending
      <4>1. CASE j = i
        BY <4>1, <3>1, <3>2, <3>3, <1>typed
      <4>2. CASE j # i
        BY <4>2, <3>3, <2>0, <1>typed DEF ReservationPending
      <4> QED BY <4>1, <4>2
    <3>8. SlotsOwned'
      BY <3>1, <3>3 DEF SlotsOwned
    <3> QED BY <3>6, <3>7, <3>8
  <2> QED BY <1>1, <2>1, <2>2 DEF Process
<1>2. CASE Watchdog
  <2>1. Stale(slot) \in SUBSET Slot
        /\ \A i \in Stale(slot) : slot[i].state = "EXEC" /\ slot[i].req \in Req
    BY <1>typed DEF Stale, InState, SlotsOwned
  <2>2. /\ slot' \in [Slot -> SlotRec]
        /\ \A j \in Stale(slot) : slot'[j].state = "NONE"
        /\ \A j \in Slot \ Stale(slot) : slot'[j] = slot[j]
    BY <1>2, <2>1, <1>typed, ReleaseResult DEF Watchdog
  <2>3. TypeOK'
    BY <1>2, <2>1, <2>2 DEF Watchdog, TypeOK
  <2>4. ReservationPending' /\ SlotsOwned'
    BY <1>2, <2>1, <2>2 DEF Watchdog, ReservationPending, SlotsOwned
  <2> QED BY <2>3, <2>4
<1>3. CASE Tick
  <2>1. \A i \in Slot : /\ slot'[i] \in SlotRec
                        /\ slot'[i].state = slot[i].state
                        /\ slot'[i].req = slot[i].req
    BY <1>3, <1>typed, ApsdeAssumption DEF Tick, SlotRec
  <2>2. TypeOK'
    BY <1>3, <2>1 DEF Tick, TypeOK
  <2>3. ReservationPending' /\ SlotsOwned'
    BY <1>3, <2>1 DEF Tick, ReservationPending, SlotsOwned
  <2> QED BY <2>2, <2>3
<1>4. ASSUME NEW b \in Buf, NEW i \in Slot, DoRequest(b, i)
      PROVE  TypeOK' /\ ReservationPending' /\ SlotsOwned'
  <2>0. zb.pc = "idle" /\ queued[i] = 1 /\ slot[i].state = "ALLOCATION" /\ slot[i].req \in Req
    BY <1>4, <1>typed DEF DoRequest, ReservationPending, SlotsOwned
  <2>1. queued' = [queued EXCEPT ![i] = 0]
    BY <1>4, <2>0 DEF DoRequest
  <2>2. CASE SendAccepted(b, i)
    <3>1. zb' \in ZbRec
      BY <2>2, <1>typed DEF SendAccepted, ZbRec, Idle
    <3>2. sent' \in [Buf -> SentRec] /\ buf' \in [Buf -> {"free", "air", "copy", "held", "lost"}]
      BY <1>4, <2>2, <1>typed DEF SendAccepted, SendRecord, SentRec, TypeOK, Given
    <3>3. TypeOK'
      BY <1>4, <2>1, <2>2, <3>1, <3>2, <1>typed DEF DoRequest, SendAccepted, TypeOK
    <3>4. ReservationPending' /\ SlotsOwned'
      BY <2>0, <2>1, <2>2, <1>typed DEF SendAccepted, ReservationPending, SlotsOwned, Idle
    <3> QED BY <3>3, <3>4
  <2>3. CASE SendRejected(b, i)
    <3>1. /\ slot' \in [Slot -> SlotRec]
          /\ slot'[i].state = "NONE"
          /\ \A j \in Slot \ {i} : slot'[j] = slot[j]
      BY <2>3, <1>typed, ReleaseResult DEF SendRejected
    <3>2. zb' \in ZbRec /\ zb'.pc = "report"
      BY <2>3, <1>typed, <1>zero DEF SendRejected, ZbRec, Idle
    <3>3. buf' \in [Buf -> {"free", "air", "copy", "held", "lost"}] /\ queued' \in [Slot -> Nat]
      BY <2>1, <2>3, <1>typed DEF SendRejected, GiveBack, Given, TypeOK
    <3>4. TypeOK'
      BY <1>4, <2>3, <3>1, <3>2, <3>3 DEF DoRequest, SendRejected, TypeOK
    <3>5. ReservationPending' /\ SlotsOwned'
      BY <2>0, <2>1, <3>1, <3>2, <1>typed DEF ReservationPending, SlotsOwned
    <3> QED BY <3>4, <3>5
  <2> QED BY <1>4, <2>2, <2>3 DEF DoRequest
<1>5. CASE Publish
  <2>0. zb.pc = "publish" /\ queued[zb.idx] = 0 /\ slot[zb.idx].state = "ALLOCATION"
    BY <1>5, <1>typed DEF Publish, ReservationPending
  <2>1. /\ slot' \in [Slot -> SlotRec]
        /\ slot'[zb.idx].state = "EXEC" /\ slot'[zb.idx].req = slot[zb.idx].req
        /\ \A j \in Slot \ {zb.idx} : slot'[j] = slot[j]
    BY <1>5, <1>typed DEF Publish, SlotRec, SlotState
  <2>2. TypeOK'
    BY <1>5, <2>1, <1>idle DEF Publish, TypeOK
  <2>3. ReservationPending' /\ SlotsOwned'
    BY <1>5, <2>0, <2>1, <1>typed DEF Publish, ReservationPending, SlotsOwned, Idle
  <2> QED BY <2>2, <2>3
<1>6. ASSUME NEW b \in Buf, Confirm(b)
      PROVE  TypeOK' /\ ReservationPending' /\ SlotsOwned'
  <2>0. sent[b] \in SentRec /\ sent[b].idx \in Slot /\ zb.pc = "idle"
    BY <1>6 DEF TypeOK, SentRec, Confirm
  <2>1. CASE Matches(sent[b])
    <3>1. slot[sent[b].idx].state = "EXEC" /\ slot[sent[b].idx].req \in Req
      BY <2>0, <2>1 DEF Matches, SlotsOwned
    <3>2. /\ slot' \in [Slot -> SlotRec]
          /\ slot'[sent[b].idx].state = "NONE"
          /\ \A j \in Slot \ {sent[b].idx} : slot'[j] = slot[j]
      BY <1>6, <2>0, <2>1, <1>typed, ReleaseResult DEF Confirm, Take
    <3>3. zb' \in ZbRec
      <4> DEFINE from == IF buf[b] = "air" THEN sentFor[b] ELSE NoReq
      <4>1. zb' = [pc |-> "report", idx |-> 0, buf |-> b, req |-> slot[sent[b].idx].req,
                   confirmed |-> TRUE, from |-> from]
        BY <1>6, <2>1 DEF Confirm, Idle
      <4>2. from \in Req \cup {NoReq}
        BY DEF TypeOK
      <4> HIDE DEF from
      <4> QED BY <3>1, <4>1, <4>2, <1>zero DEF ZbRec
    <3>4. sent' \in [Buf -> SentRec]
      BY <1>6, <2>0 DEF Confirm, TypeOK, SentRec
    <3>5. TypeOK'
      BY <1>6, <2>1, <3>2, <3>3, <3>4 DEF Confirm, TypeOK
    <3>6. ReservationPending' /\ SlotsOwned'
      <4>1. queued' = queued /\ zb'.pc = "report"
        BY <1>6, <2>1 DEF Confirm, Idle
      <4>2. ReservationPending'
        BY <2>0, <3>1, <3>2, <4>1 DEF ReservationPending
      <4> QED BY <3>2, <4>2 DEF SlotsOwned
    <3> QED BY <3>5, <3>6
  <2>2. CASE ~Matches(sent[b])
    <3>1. TypeOK'
      BY <1>6, <2>0, <2>2 DEF Confirm, Drop, TypeOK, SentRec
    <3>2. ReservationPending' /\ SlotsOwned'
      BY <1>6, <2>2 DEF Confirm, ReservationPending, SlotsOwned
    <3> QED BY <3>1, <3>2
  <2> QED BY <2>1, <2>2
<1>7. CASE Report
  <2>1. buf' \in [Buf -> {"free", "air", "copy", "held", "lost"}]
    BY <1>7 DEF Report, TypeOK
  <2>2. answers' \in [Req -> Nat]
    <3>1. answers \in [Req -> Nat] /\ answers' = [answers EXCEPT ![zb.req] = answers[zb.req] + 1]
      BY <1>7 DEF Report, Answer, TypeOK
    <3>2. CASE zb.req \in Req
      BY <3>1, <3>2
    <3>3. CASE zb.req \notin Req
      BY <3>1, <3>3
    <3> QED BY <3>2, <3>3
  <2>3. TypeOK'
    BY <1>7, <2>1, <2>2, <1>idle DEF Report, TypeOK
  <2>4. ReservationPending' /\ SlotsOwned'
    BY <1>7 DEF Report, ReservationPending, SlotsOwned, Idle
  <2> QED BY <2>3, <2>4
<1>8. ASSUME NEW b \in Buf, LoseConfirm(b) \/ CopyBuffer(b)
      PROVE  TypeOK' /\ ReservationPending' /\ SlotsOwned'
  BY <1>8 DEF LoseConfirm, CopyBuffer, TypeOK, ReservationPending, SlotsOwned
<1>9. CASE UNCHANGED vars
  BY <1>9 DEF vars, TypeOK, ReservationPending, SlotsOwned
<1> QED BY <1>1, <1>2, <1>3, <1>4, <1>5, <1>6, <1>7, <1>8, <1>9 DEF Next

LEMMA Inv1Always == Spec => []Inv1
BY Inv1Init, Inv1Next, PTL DEF Spec

\* TypeOK holds in every reachable state, for any number of slots, requests and
\* buffers: no counter underflows, no slot index leaves the table.
THEOREM TypeCorrect == Spec => []TypeOK
<1>1. Inv1 => TypeOK
  BY DEF Inv1
<1> QED BY <1>1, Inv1Always, PTL

\* do_request always finds its slot reserved, and no slot is stranded reserved.
THEOREM ReservationsKept == Spec => []ReservationPending
<1>1. Inv1 => ReservationPending
  BY DEF Inv1
<1> QED BY <1>1, Inv1Always, PTL

------------------------------------------------------------------------------
(* The buffer a report holds. *)

\* The buffers by themselves.
LEMMA HeldNext == Inv1 /\ HeldByReport /\ [Next]_vars => HeldByReport'
<1> SUFFICES ASSUME Inv1, HeldByReport, [Next]_vars
             PROVE  HeldByReport'
  OBVIOUS
<1>typed. buf \in [Buf -> {"free", "air", "copy", "held", "lost"}]
  BY DEF Inv1, TypeOK
<1>none. zb.pc # "report" => \A c \in Buf : buf[c] # "held"
  BY DEF HeldByReport, NoBufferLeak
<1>1. CASE UNCHANGED <<buf, zb>>
  BY <1>1 DEF HeldByReport, NoBufferLeak
<1>2. ASSUME NEW b \in Buf, NEW i \in Slot, DoRequest(b, i)
      PROVE  HeldByReport'
  <2>1. \A c \in Buf : buf'[c] # "held"
    BY <1>2, <1>typed, <1>none DEF DoRequest, SendAccepted, SendRejected, GiveBack, Given
  <2>2. zb'.buf = NoBuf
    BY <1>2 DEF DoRequest, SendAccepted, SendRejected, Idle
  <2> QED BY <2>1, <2>2 DEF HeldByReport, NoBufferLeak
<1>3. CASE Publish
  <2>1. zb'.buf = NoBuf /\ \A c \in Buf : buf'[c] # "held"
    BY <1>3, <1>none DEF Publish, Idle
  <2> QED BY <2>1 DEF HeldByReport, NoBufferLeak
<1>4. ASSUME NEW b \in Buf, Confirm(b)
      PROVE  HeldByReport'
  <2>1. zb.pc = "idle" /\ zb.buf = NoBuf /\ \A c \in Buf : buf[c] # "held"
    BY <1>4, <1>none DEF Confirm, HeldByReport
  <2>2. CASE Matches(sent[b])
    <3>1. buf' = [buf EXCEPT ![b] = "held"] /\ zb'.pc = "report" /\ zb'.buf = b
      BY <1>4, <2>2 DEF Confirm, Idle
    <3> QED BY <2>1, <3>1, <1>typed DEF HeldByReport, NoBufferLeak
  <2>3. CASE ~Matches(sent[b])
    BY <1>4, <2>1, <2>3, <1>typed DEF Confirm, Drop, HeldByReport, NoBufferLeak
  <2> QED BY <2>2, <2>3
<1>5. CASE Report
  <2>1. zb'.buf = NoBuf
    BY <1>5 DEF Report, Idle
  <2>2. \A c \in Buf : buf'[c] # "held"
    <3>1. CASE zb.buf = NoBuf
      BY <1>5, <3>1, ApsdeAssumption DEF Report, HeldByReport, NoBufferLeak
    <3>2. CASE zb.buf # NoBuf
      BY <1>5, <3>2, <1>typed DEF Report, HeldByReport, NoBufferLeak
    <3> QED BY <3>1, <3>2
  <2> QED BY <2>1, <2>2 DEF HeldByReport, NoBufferLeak
<1>6. ASSUME NEW b \in Buf, LoseConfirm(b) \/ CopyBuffer(b)
      PROVE  HeldByReport'
  <2>1. zb.pc = "idle" /\ zb.buf = NoBuf /\ zb' = zb /\ \A c \in Buf : buf[c] # "held"
    BY <1>6, <1>none DEF LoseConfirm, CopyBuffer, HeldByReport
  <2>2. \A c \in Buf : buf'[c] # "held"
    BY <1>6, <2>1, <1>typed DEF LoseConfirm, CopyBuffer
  <2> QED BY <2>1, <2>2 DEF HeldByReport, NoBufferLeak
<1> QED BY <1>1, <1>2, <1>3, <1>4, <1>5, <1>6 DEF Next, Process, Watchdog, Tick, vars

\* No buffer stays with the callback: it is held by the report that will free it.
THEOREM BuffersReturned == Spec => []NoBufferLeak
<1>1. Init => HeldByReport
  BY DEF Init, HeldByReport, NoBufferLeak, Idle
<1>2. HeldByReport => NoBufferLeak
  BY DEF HeldByReport
<1> QED BY <1>1, <1>2, Inv1Always, HeldNext, PTL DEF Spec

------------------------------------------------------------------------------
(* Inv2 *)

LEMMA Inv2Init == Init => Inv2
BY SlotAssumption
DEF Init, Inv2, NumbersBelow, RecordsOwn, HeldByReport, NoBufferLeak, CopiesUnmarked,
    ConfirmFidelity, Idle, Slot

\* A change of the table that keeps the number and the request of every slot in
\* use, and takes no slot into use, keeps the allocation numbers and the records.
LEMMA TableChange ==
  ASSUME Inv1, NumbersBelow, RecordsOwn,
         UNCHANGED <<oldCntr, sent, sentFor>>,
         \A i \in Slot : slot'[i].state # "NONE" =>
           slot[i].state # "NONE" /\ slot'[i].old = slot[i].old /\ slot'[i].req = slot[i].req
  PROVE  NumbersBelow' /\ RecordsOwn'
<1>1. \A b \in Buf : sent[b].idx \in Slot
  BY DEF Inv1, TypeOK, SentRec
<1> QED BY <1>1 DEF NumbersBelow, RecordsOwn

LEMMA Inv2Next ==
  ASSUME ~(LostBuffersReturn /\ CopiesMade)
  PROVE  Inv1 /\ Inv2 /\ [Next]_vars => Inv2'
<1> SUFFICES ASSUME Inv1, NumbersBelow, RecordsOwn, HeldByReport, CopiesUnmarked,
                    ConfirmFidelity, [Next]_vars
             PROVE  NumbersBelow' /\ RecordsOwn' /\ CopiesUnmarked' /\ ConfirmFidelity'
  BY HeldNext DEF Inv2
<1>typed. /\ slot \in [Slot -> SlotRec] /\ oldCntr \in Nat /\ zb.idx \in Slot
          /\ buf \in [Buf -> {"free", "air", "copy", "held", "lost"}]
          /\ sent \in [Buf -> SentRec]
          /\ sentFor \in [Buf -> Req \cup {NoReq}]
          /\ \A i \in Slot : slot[i].old \in Nat /\ slot[i].state \in SlotState
          /\ \A b \in Buf : sent[b].idx \in Slot /\ sent[b].old \in Nat
  BY DEF Inv1, TypeOK, ZbRec, SlotRec, SentRec
<1>1. ASSUME NEW r \in Req, Process(r)
      PROVE  NumbersBelow' /\ RecordsOwn' /\ CopiesUnmarked' /\ ConfirmFidelity'
  <2>1. CopiesUnmarked' /\ ConfirmFidelity'
    BY <1>1 DEF Process, CopiesUnmarked, ConfirmFidelity
  <2>2. CASE Refuse(r)
    BY <1>1, <2>1, <2>2, TableChange DEF Process, Refuse
  <2>3. ASSUME NEW i \in Picked(slot), Accept(r, i)
        PROVE  NumbersBelow' /\ RecordsOwn'
    <3>1. i \in Slot
      BY <1>typed, PickedNotReserved
    <3>2. /\ slot'[i].old = oldCntr
          /\ \A j \in Slot \ {i} : slot'[j] = slot[j]
      BY <2>3, <3>1, <1>typed, AcceptResult
    <3>3. oldCntr' = oldCntr + 1 /\ UNCHANGED <<sent, sentFor>>
      BY <1>1, <2>3 DEF Process, Accept
    <3>4. NumbersBelow'
      BY <3>1, <3>2, <3>3, <1>typed DEF NumbersBelow
    <3>5. \A b \in Buf : sent[b].valid => sent[b].old # oldCntr
      BY <1>typed DEF NumbersBelow
    <3>6. RecordsOwn'
      BY <3>1, <3>2, <3>3, <3>5, <1>typed DEF RecordsOwn
    <3> QED BY <3>4, <3>6
  <2> QED BY <1>1, <2>1, <2>2, <2>3 DEF Process
<1>2. CASE Watchdog
  <2>1. Stale(slot) \in SUBSET Slot
    BY <1>typed DEF Stale, InState
  <2>2. NumbersBelow' /\ RecordsOwn'
    <3>1. /\ \A j \in Stale(slot) : slot'[j].state = "NONE"
          /\ \A j \in Slot \ Stale(slot) : slot'[j] = slot[j]
      BY <1>2, <2>1, <1>typed, ReleaseResult DEF Watchdog
    <3> QED BY <1>2, <3>1, TableChange DEF Watchdog
  <2> QED BY <1>2, <2>2
          DEF Watchdog, CopiesUnmarked, ConfirmFidelity
<1>3. CASE Tick
  <2>1. \A i \in Slot : /\ slot'[i].state = slot[i].state
                        /\ slot'[i].req = slot[i].req /\ slot'[i].old = slot[i].old
    BY <1>3, <1>typed DEF Tick, SlotRec
  <2>2. NumbersBelow' /\ RecordsOwn'
    BY <1>3, <2>1, TableChange DEF Tick
  <2> QED BY <1>3, <2>2
          DEF Tick, CopiesUnmarked, ConfirmFidelity
<1>4. ASSUME NEW b \in Buf, NEW i \in Slot, DoRequest(b, i)
      PROVE  NumbersBelow' /\ RecordsOwn' /\ CopiesUnmarked' /\ ConfirmFidelity'
  <2>0. /\ zb.pc = "idle" /\ buf[b] = "free" /\ oldCntr' = oldCntr
        /\ slot[i].state = "ALLOCATION" /\ \A c \in Buf : buf[c] # "held"
    BY <1>4 DEF DoRequest, Inv1, TypeOK, ReservationPending, HeldByReport, NoBufferLeak
  <2>1. CASE SendAccepted(b, i)
    <3>1. /\ sent'[b].valid /\ sent'[b].idx = i /\ sent'[b].old = slot[i].old
          /\ sentFor'[b] = slot[i].req
          /\ \A c \in Buf \ {b} : sent'[c] = sent[c] /\ sentFor'[c] = sentFor[c]
      BY <2>1, <1>typed DEF SendAccepted, SendRecord
    <3>2. NumbersBelow'
      BY <2>0, <2>1, <3>1 DEF SendAccepted, NumbersBelow
    <3>3. RecordsOwn'
      BY <2>1, <3>1 DEF SendAccepted, RecordsOwn
    <3>4. zb'.pc = "publish" /\ zb'.buf = NoBuf
      BY <2>1 DEF SendAccepted, Idle
    <3>5. buf' = [buf EXCEPT ![b] = "air"]
      BY <2>1, <1>typed DEF SendAccepted, Given
    <3>6. ConfirmFidelity'
      BY <3>4 DEF ConfirmFidelity
    <3>7. CopiesUnmarked'
      BY <3>1, <3>5, <1>typed DEF CopiesUnmarked
    <3> QED BY <3>2, <3>3, <3>6, <3>7
  <2>2. CASE SendRejected(b, i)
    <3>1. slot'[i].state = "NONE" /\ \A j \in Slot \ {i} : slot'[j] = slot[j]
      BY <2>2, <1>typed, ReleaseResult DEF SendRejected
    <3>2. NumbersBelow' /\ RecordsOwn'
      BY <2>0, <2>2, <3>1, TableChange DEF SendRejected
    <3>3. zb'.pc = "report" /\ zb'.buf = NoBuf /\ zb'.confirmed = FALSE
      BY <2>2 DEF SendRejected, Idle
    <3>4. buf' = buf /\ sent' = sent
      BY <2>0, <2>2, <1>typed DEF SendRejected, GiveBack, Given
    <3>5. CopiesUnmarked' /\ ConfirmFidelity'
      BY <2>0, <3>3, <3>4 DEF CopiesUnmarked, ConfirmFidelity
    <3> QED BY <3>2, <3>5
  <2> QED BY <1>4, <2>1, <2>2 DEF DoRequest
<1>5. CASE Publish
  <2>1. /\ zb.pc = "publish" /\ slot[zb.idx].state = "ALLOCATION"
        /\ UNCHANGED <<oldCntr, buf, sent, sentFor>>
    BY <1>5, <1>typed DEF Publish, Inv1, TypeOK, ReservationPending
  <2>2. /\ slot'[zb.idx].req = slot[zb.idx].req /\ slot'[zb.idx].old = slot[zb.idx].old
        /\ \A j \in Slot \ {zb.idx} : slot'[j] = slot[j]
    BY <1>5, <1>typed DEF Publish, SlotRec
  <2>3. NumbersBelow' /\ RecordsOwn'
    BY <2>1, <2>2, TableChange
  <2>4. zb'.pc = "idle" /\ zb'.buf = NoBuf
    BY <1>5 DEF Publish, Idle
  <2> QED BY <2>1, <2>3, <2>4
          DEF CopiesUnmarked, ConfirmFidelity
<1>6. ASSUME NEW b \in Buf, Confirm(b)
      PROVE  NumbersBelow' /\ RecordsOwn' /\ CopiesUnmarked' /\ ConfirmFidelity'
  <2>1. /\ zb.pc = "idle" /\ zb.buf = NoBuf /\ buf[b] \in {"air", "copy"}
        /\ oldCntr' = oldCntr /\ sentFor' = sentFor
        /\ \A c \in Buf : buf[c] # "held"
    BY <1>6 DEF Confirm, HeldByReport, NoBufferLeak
  <2>2. /\ sent' \in [Buf -> SentRec] /\ ~sent'[b].valid
        /\ \A c \in Buf \ {b} : sent'[c] = sent[c]
    <3> DEFINE s == [sent[b] EXCEPT !.valid = FALSE]
    <3>1. sent' = [sent EXCEPT ![b] = s] /\ sent \in [Buf -> SentRec]
      BY <1>6, <1>typed DEF Confirm
    <3>2. s \in SentRec /\ ~s.valid
      BY <3>1 DEF SentRec
    <3> HIDE DEF s
    <3> QED BY <3>1, <3>2
  <2>3. CASE Matches(sent[b])
    <3> DEFINE i == sent[b].idx
    <3>1. /\ slot'[i].state = "NONE" /\ \A j \in Slot \ {i} : slot'[j] = slot[j]
      BY <1>6, <2>3, <1>typed, ReleaseResult, SMTT(30) DEF Confirm, Take
    <3>2. NumbersBelow' /\ RecordsOwn'
      BY <2>1, <2>2, <3>1, <1>typed DEF NumbersBelow, RecordsOwn
    <3>3. buf' = [buf EXCEPT ![b] = "held"]
      BY <1>6, <2>3 DEF Confirm
    <3>4. /\ zb'.pc = "report" /\ zb'.buf = b /\ zb'.req = slot[i].req
          /\ zb'.from = IF buf[b] = "air" THEN sentFor[b] ELSE NoReq
      BY <1>6, <2>3 DEF Confirm, Idle
    <3>6. CopiesUnmarked'
      BY <2>1, <2>2, <3>3, <1>typed DEF CopiesUnmarked
    <3>7. buf[b] = "air"
      BY <2>1, <2>3 DEF Matches, CopiesUnmarked
    <3>8. ConfirmFidelity'
      BY <2>3, <3>4, <3>7 DEF ConfirmFidelity, Matches, RecordsOwn
    <3> QED BY <3>2, <3>6, <3>8
  <2>4. CASE ~Matches(sent[b])
    <3>1. UNCHANGED <<slot, zb>> /\ buf' = [buf EXCEPT ![b] = "free"]
      BY <1>6, <2>4 DEF Confirm, Drop
    <3>2. NumbersBelow' /\ RecordsOwn'
      BY <2>1, <2>2, <3>1 DEF NumbersBelow, RecordsOwn
    <3>3. CopiesUnmarked' /\ ConfirmFidelity'
      BY <2>1, <2>2, <3>1, <1>typed
      DEF CopiesUnmarked, ConfirmFidelity
    <3> QED BY <3>2, <3>3
  <2> QED BY <2>3, <2>4
<1>7. CASE Report
  <2>1. NumbersBelow' /\ RecordsOwn'
    BY <1>7, TableChange DEF Report
  <2>2. zb'.pc = "idle" /\ zb'.buf = NoBuf
    BY <1>7 DEF Report, Idle
  <2>3. \A c \in Buf : buf'[c] = buf[c] \/ (buf'[c] = "free" /\ buf[c] = "held")
    <3>1. CASE zb.buf = NoBuf
      BY <1>7, <3>1 DEF Report
    <3>2. CASE zb.buf # NoBuf
      BY <1>7, <3>2, <1>typed DEF Report, HeldByReport
    <3> QED BY <3>1, <3>2
  <2>4. CopiesUnmarked' /\ ConfirmFidelity'
    BY <1>7, <2>2, <2>3 DEF Report, CopiesUnmarked, ConfirmFidelity
  <2> QED BY <2>1, <2>4
<1>8. ASSUME NEW b \in Buf, LoseConfirm(b) \/ CopyBuffer(b)
      PROVE  NumbersBelow' /\ RecordsOwn' /\ CopiesUnmarked' /\ ConfirmFidelity'
  <2>1. UNCHANGED <<slot, oldCntr, sent, sentFor, zb>>
    BY <1>8 DEF LoseConfirm, CopyBuffer
  <2>2. NumbersBelow' /\ RecordsOwn' /\ ConfirmFidelity'
    BY <2>1 DEF NumbersBelow, RecordsOwn, ConfirmFidelity
  <2>3. zb.pc = "idle" /\ \A c \in Buf : buf[c] # "held"
    BY <1>8 DEF LoseConfirm, CopyBuffer, HeldByReport, NoBufferLeak
  <2>4. CASE LoseConfirm(b)
    <3>1. buf' = [buf EXCEPT ![b] = IF LostBuffersReturn THEN "free" ELSE "lost"]
      BY <2>4 DEF LoseConfirm
    <3> QED BY <2>1, <2>2, <2>3, <3>1, <1>typed, ApsdeAssumption
            DEF CopiesUnmarked
  <2>5. CASE CopyBuffer(b)
    BY <2>1, <2>2, <2>3, <2>5, <1>typed
    DEF CopyBuffer, CopiesUnmarked
  <2> QED BY <1>8, <2>4, <2>5
<1>9. CASE UNCHANGED vars
  BY <1>9 DEF vars, NumbersBelow, RecordsOwn, CopiesUnmarked, ConfirmFidelity
<1> QED BY <1>1, <1>2, <1>3, <1>4, <1>5, <1>6, <1>7, <1>8, <1>9 DEF Next

\* A reply answers the request its confirm is about, never one that took over the
\* slot later and never the confirm of a copied buffer: unless ZBOSS both copies
\* sent buffers and hands buffers out again whose confirm it never delivered.
THEOREM ConfirmsFaithful ==
  ASSUME ~(LostBuffersReturn /\ CopiesMade)
  PROVE  Spec => []ConfirmFidelity
<1>1. Inv2 => ConfirmFidelity
  BY DEF Inv2
<1> QED BY <1>1, Inv1Always, Inv2Init, Inv2Next, PTL DEF Spec

------------------------------------------------------------------------------
(* Inv3 *)

LEMMA Inv3Init == Init => Inv3
BY DEF Init, Inv3, Places, Open, OneHome, AtMostOneAnswer, NoAnswerAfterGivingUp, Idle

\* A step that neither answers nor gives up a request, starts no report and takes
\* no slot into use, keeps Inv3.
LEMMA QuietStep ==
  ASSUME Inv3,
         UNCHANGED <<fresh, answers, gaveUp>>,
         zb'.pc # "report" \/ (zb'.pc = zb.pc /\ zb'.req = zb.req),
         \A i \in Slot : slot'[i].state # "NONE" =>
           slot[i].state # "NONE" /\ slot'[i].req = slot[i].req
  PROVE  Inv3'
<1>1. Places'
  BY DEF Inv3, Places, Open
<1>2. OneHome'
  BY DEF Inv3, OneHome
<1>3. AtMostOneAnswer' /\ NoAnswerAfterGivingUp'
  BY DEF Inv3, AtMostOneAnswer, NoAnswerAfterGivingUp
<1> QED BY <1>1, <1>2, <1>3 DEF Inv3

\* A slot in use is freed and its request goes into the reply.
LEMMA TakeStep ==
  ASSUME Inv1, Inv3, NEW i \in Slot, slot[i].state # "NONE",
         slot' = Release(slot, {i}), zb.pc = "idle",
         zb'.pc = "report", zb'.req = slot[i].req,
         UNCHANGED <<fresh, answers, gaveUp>>
  PROVE  Inv3'
<1>1. slot'[i].state = "NONE" /\ \A j \in Slot \ {i} : slot'[j] = slot[j]
  BY ReleaseResult DEF Inv1, TypeOK
<1>2. slot[i].req \in Req
  BY DEF Inv1, SlotsOwned
<1>3. Places'
  BY <1>1, <1>2 DEF Inv3, Places, Open
<1>4. OneHome'
  BY <1>1 DEF Inv3, OneHome
<1>5. AtMostOneAnswer' /\ NoAnswerAfterGivingUp'
  BY DEF Inv3, AtMostOneAnswer, NoAnswerAfterGivingUp
<1> QED BY <1>3, <1>4, <1>5 DEF Inv3

\* Answering an open request that is in no slot and still to come no more.
LEMMA AnswerOnce ==
  ASSUME Inv1, Inv3, NEW r \in Req, Open(r), Answer(r)
  PROVE  /\ AtMostOneAnswer'
         /\ \A q \in gaveUp : answers'[q] = 0
         /\ \A q \in Req \ {r} : answers'[q] = answers[q]
<1>1. answers \in [Req -> Nat] /\ answers' = [answers EXCEPT ![r] = answers[r] + 1]
      /\ answers[r] = 0 /\ r \notin gaveUp /\ gaveUp \subseteq Req
  BY DEF Inv1, TypeOK, Open, Answer
<1>2. answers'[r] = 1 /\ \A q \in Req \ {r} : answers'[q] = answers[q]
  BY <1>1
<1> QED BY <1>1, <1>2 DEF Inv3, AtMostOneAnswer, NoAnswerAfterGivingUp

LEMMA Inv3Next == Inv1 /\ Inv3 /\ [Next]_vars => Inv3'
<1> SUFFICES ASSUME Inv1, Inv3, [Next]_vars
             PROVE  Inv3'
  OBVIOUS
<1>typed. /\ slot \in [Slot -> SlotRec] /\ oldCntr \in Nat /\ zb.idx \in Slot
          /\ fresh \subseteq Req /\ gaveUp \subseteq Req /\ answers \in [Req -> Nat]
          /\ \A b \in Buf : sent[b].idx \in Slot
  BY DEF Inv1, TypeOK, ZbRec, SentRec
<1>owned. \A i \in Slot : slot[i].state # "NONE" => slot[i].req \in Req
  BY DEF Inv1, SlotsOwned
<1>1. ASSUME NEW r \in Req, Process(r)
      PROVE  Inv3'
  <2>1. /\ zb.pc = "idle" /\ zb' = zb /\ r \in fresh /\ fresh' = fresh \ {r}
        /\ Open(r) /\ \A i \in Slot : slot[i].state # "NONE" => slot[i].req # r
    BY <1>1 DEF Process, Inv3, Places
  <2>2. CASE Refuse(r)
    <3>1. slot' = slot /\ gaveUp' = gaveUp /\ Answer(r)
      BY <2>2 DEF Refuse
    <3>2. /\ AtMostOneAnswer' /\ \A q \in gaveUp : answers'[q] = 0
          /\ \A q \in Req \ {r} : answers'[q] = answers[q]
      BY <2>1, <3>1, AnswerOnce
    <3>3. Places'
      BY <2>1, <3>1, <3>2, <1>typed, <1>owned DEF Inv3, Places, Open
    <3>4. OneHome' /\ NoAnswerAfterGivingUp'
      BY <2>1, <3>1, <3>2 DEF Inv3, OneHome, NoAnswerAfterGivingUp
    <3> QED BY <3>2, <3>3, <3>4 DEF Inv3
  <2>3. ASSUME NEW i \in Picked(slot), Accept(r, i)
        PROVE  Inv3'
    <3>1. i \in Slot /\ slot[i].state \in {"NONE", "EXEC"}
      BY <1>typed, PickedNotReserved
    <3>2. /\ slot'[i].req = r /\ \A j \in Slot \ {i} : slot'[j] = slot[j]
          /\ \/ slot'[i].state = "ALLOCATION" /\ answers' = answers
             \/ slot'[i].state = "NONE" /\ Answer(r)
      BY <2>3, <3>1, <1>typed, AcceptResult
    <3>3. \/ gaveUp' = gaveUp
          \/ gaveUp' = gaveUp \cup {slot[i].req} /\ slot[i].state # "NONE"
      BY <2>3, <3>1 DEF Accept, Displaced
    <3>4. \A q \in Req \ {r} : answers'[q] = answers[q]
      BY <2>1, <3>2, AnswerOnce
    <3>5. AtMostOneAnswer' /\ \A q \in gaveUp : answers'[q] = 0
      BY <2>1, <3>2, AnswerOnce DEF Inv3, AtMostOneAnswer, NoAnswerAfterGivingUp
    <3>6. NoAnswerAfterGivingUp'
      BY <2>1, <3>1, <3>3, <3>4, <3>5, <1>owned DEF NoAnswerAfterGivingUp, Inv3, Places, Open
    <3>7. OneHome'
      BY <2>1, <3>1, <3>2 DEF Inv3, OneHome
    <3>8. \A q \in fresh' : Open(q)'
      BY <2>1, <3>1, <3>3, <3>4, <1>typed DEF Inv3, Places, Open
    <3>9. ASSUME NEW j \in Slot, slot'[j].state # "NONE"
          PROVE  Open(slot[j].req)' /\ slot'[j].req \notin fresh'
      <4>1. CASE j = i
        BY <2>1, <3>1, <3>2, <3>3, <3>9, <4>1 DEF Open
      <4>2. CASE j # i
        <5>1. slot'[j] = slot[j] /\ slot[j].state # "NONE" /\ slot[j].req \in Req \ {r}
          BY <2>1, <3>2, <3>9, <4>2, <1>owned
        <5>2. slot[j].req \notin gaveUp'
          BY <3>1, <3>3, <4>2, <5>1 DEF Inv3, Places, Open, OneHome
        <5> QED BY <2>1, <3>4, <5>1, <5>2 DEF Inv3, Places, Open
      <4> QED BY <4>1, <4>2
    <3> QED BY <2>1, <3>5, <3>6, <3>7, <3>8, <3>9 DEF Inv3, Places
  <2> QED BY <1>1, <2>2, <2>3 DEF Process
<1>2. CASE Watchdog
  <2> DEFINE S == Stale(slot)
  <2>1. S \in SUBSET Slot /\ \A i \in S : slot[i].state # "NONE"
    BY <1>typed DEF Stale, InState
  <2>2. /\ \A j \in S : slot'[j].state = "NONE"
        /\ \A j \in Slot \ S : slot'[j] = slot[j]
    BY <1>2, <2>1, <1>typed, ReleaseResult DEF Watchdog
  <2>3. /\ gaveUp' = gaveUp \cup {slot[i].req : i \in S}
        /\ UNCHANGED <<zb, fresh, answers>>
    BY <1>2 DEF Watchdog
  <2>4. OneHome' /\ AtMostOneAnswer'
    BY <2>1, <2>2, <2>3 DEF Inv3, OneHome, AtMostOneAnswer
  <2>5. NoAnswerAfterGivingUp'
    BY <2>1, <2>3 DEF Inv3, Places, Open, NoAnswerAfterGivingUp
  <2>6. \A q \in fresh' : Open(q)'
    BY <2>1, <2>3 DEF Inv3, Places, Open
  <2>7. zb'.pc = "report" => zb'.req \in Req /\ Open(zb.req)' /\ zb'.req \notin fresh'
    BY <2>1, <2>3 DEF Inv3, Places, Open, OneHome
  <2>8. ASSUME NEW j \in Slot, slot'[j].state # "NONE"
        PROVE  Open(slot[j].req)' /\ slot'[j].req \notin fresh'
    <3>1. j \in Slot \ S /\ slot'[j] = slot[j] /\ slot[j].state # "NONE"
      BY <2>1, <2>2, <2>8
    <3>2. \A i \in S : slot[i].req # slot[j].req
      BY <2>1, <3>1 DEF Inv3, OneHome
    <3> QED BY <2>3, <3>1, <3>2 DEF Inv3, Places, Open
  <2> QED BY <2>4, <2>5, <2>6, <2>7, <2>8 DEF Inv3, Places
<1>3. CASE Tick
  <2>1. \A i \in Slot : slot'[i].state = slot[i].state /\ slot'[i].req = slot[i].req
    BY <1>3, <1>typed DEF Tick, SlotRec
  <2> QED BY <1>3, <2>1, QuietStep DEF Tick
<1>4. ASSUME NEW b \in Buf, NEW i \in Slot, DoRequest(b, i)
      PROVE  Inv3'
  <2>1. zb.pc = "idle" /\ slot[i].state = "ALLOCATION" /\ UNCHANGED <<fresh, answers, gaveUp>>
    BY <1>4 DEF DoRequest, Inv1, TypeOK, ReservationPending
  <2>2. CASE SendAccepted(b, i)
    <3>1. slot' = slot /\ zb'.pc # "report"
      BY <2>2 DEF SendAccepted, Idle
    <3> QED BY <2>1, <3>1, QuietStep
  <2>3. CASE SendRejected(b, i)
    <3>1. slot' = Release(slot, {i}) /\ zb'.pc = "report" /\ zb'.req = slot[i].req
      BY <2>3 DEF SendRejected, Idle
    <3> QED BY <2>1, <3>1, TakeStep
  <2> QED BY <1>4, <2>2, <2>3 DEF DoRequest
<1>5. CASE Publish
  <2>1. slot[zb.idx].state = "ALLOCATION"
    BY <1>5, <1>typed DEF Publish, Inv1, TypeOK, ReservationPending
  <2>2. /\ slot'[zb.idx].req = slot[zb.idx].req
        /\ \A j \in Slot \ {zb.idx} : slot'[j] = slot[j]
    BY <1>5, <1>typed DEF Publish, SlotRec
  <2>3. zb'.pc # "report" /\ UNCHANGED <<fresh, answers, gaveUp>>
    BY <1>5 DEF Publish, Idle
  <2> QED BY <2>1, <2>2, <2>3, QuietStep
<1>6. ASSUME NEW b \in Buf, Confirm(b)
      PROVE  Inv3'
  <2>1. zb.pc = "idle" /\ UNCHANGED <<fresh, answers, gaveUp>>
    BY <1>6 DEF Confirm
  <2>2. CASE Matches(sent[b])
    <3> DEFINE i == sent[b].idx
    <3>1. i \in Slot /\ slot[i].state # "NONE"
      BY <2>2, <1>typed DEF Matches
    <3>2. slot' = Release(slot, {i}) /\ zb'.pc = "report" /\ zb'.req = slot[i].req
      BY <1>6, <2>2 DEF Confirm, Take, Idle
    <3> HIDE DEF i
    <3> QED BY <2>1, <3>1, <3>2, TakeStep
  <2>3. CASE ~Matches(sent[b])
    <3>1. UNCHANGED <<slot, zb>>
      BY <1>6, <2>3 DEF Confirm
    <3> QED BY <2>1, <3>1, QuietStep
  <2> QED BY <2>2, <2>3
<1>7. CASE Report
  <2>1. /\ zb.pc = "report" /\ UNCHANGED <<slot, fresh, gaveUp>>
        /\ zb.req \in Req /\ Open(zb.req) /\ zb.req \notin fresh /\ Answer(zb.req)
    BY <1>7 DEF Report, Inv3, Places
  <2>2. zb'.pc # "report"
    BY <1>7 DEF Report, Idle
  <2>3. /\ AtMostOneAnswer' /\ \A q \in gaveUp : answers'[q] = 0
        /\ \A q \in Req \ {zb.req} : answers'[q] = answers[q]
    BY <2>1, AnswerOnce
  <2>4. Places'
    BY <2>1, <2>2, <2>3, <1>typed, <1>owned DEF Inv3, Places, Open, OneHome
  <2>5. OneHome' /\ NoAnswerAfterGivingUp'
    BY <2>1, <2>2, <2>3 DEF Inv3, OneHome, NoAnswerAfterGivingUp
  <2> QED BY <2>3, <2>4, <2>5 DEF Inv3
<1>8. ASSUME NEW b \in Buf, LoseConfirm(b) \/ CopyBuffer(b)
      PROVE  Inv3'
  <2>1. UNCHANGED <<slot, zb, fresh, answers, gaveUp>>
    BY <1>8 DEF LoseConfirm, CopyBuffer
  <2> QED BY <2>1, QuietStep
<1>9. CASE UNCHANGED vars
  <2>1. UNCHANGED <<slot, zb, fresh, answers, gaveUp>>
    BY <1>9 DEF vars
  <2> QED BY <2>1, QuietStep
<1> QED BY <1>1, <1>2, <1>3, <1>4, <1>5, <1>6, <1>7, <1>8, <1>9 DEF Next

LEMMA Inv3Always == Spec => []Inv3
BY Inv1Always, Inv3Init, Inv3Next, PTL DEF Spec

\* The host gets at most one response per request, whatever is displaced, lost,
\* late or reclaimed, and however many slots, buffers and requests there are.
THEOREM AnsweredAtMostOnce == Spec => []AtMostOneAnswer
<1>1. Inv3 => AtMostOneAnswer
  BY DEF Inv3
<1> QED BY <1>1, Inv3Always, PTL

\* A displaced or reclaimed request is never answered afterwards.
THEOREM GivenUpStaySilent == Spec => []NoAnswerAfterGivingUp
<1>1. Inv3 => NoAnswerAfterGivingUp
  BY DEF Inv3
<1> QED BY <1>1, Inv3Always, PTL

\* A request is in one place: one slot, or the reply under way.
THEOREM RequestsHaveOneHome == Spec => []OneHome
<1>1. Inv3 => OneHome
  BY DEF Inv3
<1> QED BY <1>1, Inv3Always, PTL
==============================================================================
