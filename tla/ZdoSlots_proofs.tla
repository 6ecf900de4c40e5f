--------------------------- MODULE ZdoSlots_proofs ----------------------------
(***************************************************************************)
(* ZdoSlots for any number of slots, requests and transaction numbers: its *)
(* type invariant and its two safety invariants.                           *)
(*                                                                         *)
(* A reply finds its slot by a number that is used again and again.  That  *)
(* the newest transaction's answer finds the right one rests on three      *)
(* facts, each needing the others: a waiting slot's transaction is its     *)
(* own, still open and the newest under its number (Waiting), a slot's     *)
(* do_request has not been run twice (Reserved), and a request is in one   *)
(* place (OnePlace).                                                       *)
(***************************************************************************)
EXTENDS ZdoSlots, TLAPS

TsnRange == 0 .. Tsn - 1

\* A slot in use has an owner.
Owned == \A i \in Slot : slot[i].state # "NONE" => slot[i].req \in Req

\* A slot in ALLOCATION has one do_request coming, or in the middle.
Publishing(i) == zb.pc = "publish" /\ zb.idx = i

Reserved ==
  /\ \A i \in Slot :
       queued[i] = IF slot[i].state = "ALLOCATION" /\ ~Publishing(i) THEN 1 ELSE 0
  /\ \A i \in Slot : Publishing(i) => slot[i].state = "ALLOCATION"

\* The number a slot waits under, or is about to, is that of its own transaction,
\* which is open still and therefore the newest under it.
Waiting ==
  /\ \A i \in Slot : slot[i].state = "EXEC" => outstanding[slot[i].tsn] = slot[i].req
  /\ \A i \in Slot : Publishing(i) => outstanding[zb.tsn] = slot[i].req
  /\ \A t \in TsnRange : outstanding[t] # NoReq => newest[t] = outstanding[t]

\* A request is to come, or in one slot, or in the reply under way; and not yet answered.
OnePlace ==
  /\ \A r \in fresh : answers[r] = 0
  /\ \A i \in Slot : slot[i].state # "NONE" =>
       /\ slot[i].req \notin fresh /\ answers[slot[i].req] = 0
       /\ \A j \in Slot : slot[j].state # "NONE" /\ slot[j].req = slot[i].req => i = j
  /\ zb.pc = "report" =>
       /\ zb.req \in Req \ fresh /\ answers[zb.req] = 0
       /\ \A i \in Slot : slot[i].state # "NONE" => slot[i].req # zb.req

Inv == TypeOK /\ Owned /\ Reserved /\ Waiting /\ OnePlace /\ ReplyFidelity /\ AtMostOneAnswer
------------------------------------------------------------------------------
(* What the operations on the table return. *)

\* start_resolve picks a slot that is free or waits for an answer, never a reserved one.
LEMMA PickedNotReserved ==
  ASSUME NEW tab \in [Slot -> SlotRec], NEW i \in Picked(tab)
  PROVE  i \in Slot /\ tab[i].state \in {"NONE", "EXEC"}
BY DEF Picked, InState

\* Releasing slots changes their state alone.
LEMMA ReleaseResult ==
  ASSUME NEW tab \in [Slot -> SlotRec], NEW I \in SUBSET Slot
  PROVE  /\ Release(tab, I) \in [Slot -> SlotRec]
         /\ \A j \in I : Release(tab, I)[j].state = "NONE"
         /\ \A j \in Slot \ I : Release(tab, I)[j] = tab[j]
BY DEF Release, SlotRec, SlotState

\* Claiming a slot changes that slot alone.
LEMMA ClaimResult ==
  ASSUME NEW tab \in [Slot -> SlotRec], NEW i \in Slot, NEW r \in Req, NEW n \in Nat
  PROVE  /\ Claim(tab, i, r, n) \in [Slot -> SlotRec]
         /\ Claim(tab, i, r, n)[i].state = "ALLOCATION"
         /\ Claim(tab, i, r, n)[i].req = r
         /\ \A j \in Slot \ {i} : Claim(tab, i, r, n)[j] = tab[j]
<1> DEFINE s == [tab[i] EXCEPT !.state = "ALLOCATION", !.req = r, !.old = n]
<1>1. Claim(tab, i, r, n) = [tab EXCEPT ![i] = s]
  BY DEF Claim
<1>2. s \in SlotRec /\ s.state = "ALLOCATION" /\ s.req = r
  <2>1. tab[i] \in SlotRec
    OBVIOUS
  <2> QED BY <2>1 DEF SlotRec, SlotState
<1> HIDE DEF s
<1> QED BY <1>1, <1>2

\* What process leaves in the slot it claimed, and that it touches no other.
LEMMA AcceptResult ==
  ASSUME slot \in [Slot -> SlotRec], oldCntr \in Nat,
         NEW r \in Req, NEW i \in Slot, Accept(r, i)
  PROVE  /\ slot' \in [Slot -> SlotRec]
         /\ \A j \in Slot \ {i} : slot'[j] = slot[j]
         /\ \/ /\ slot'[i].state = "ALLOCATION" /\ slot'[i].req = r
               /\ queued' = [queued EXCEPT ![i] = @ + 1]
               /\ answers' = answers
            \/ /\ slot'[i].state = "NONE"
               /\ queued' = queued
               /\ Answer(r)
<1>1. /\ Claim(slot, i, r, oldCntr) \in [Slot -> SlotRec]
      /\ Claim(slot, i, r, oldCntr)[i].state = "ALLOCATION"
      /\ Claim(slot, i, r, oldCntr)[i].req = r
      /\ \A j \in Slot \ {i} : Claim(slot, i, r, oldCntr)[j] = slot[j]
  BY ClaimResult
<1>2. CASE slot' = Claim(slot, i, r, oldCntr)
           /\ queued' = [queued EXCEPT ![i] = @ + 1] /\ answers' = answers
  BY <1>1, <1>2
<1>3. CASE slot' = Release(Claim(slot, i, r, oldCntr), {i}) /\ queued' = queued /\ Answer(r)
  BY <1>1, <1>3, ReleaseResult
<1> QED BY <1>2, <1>3 DEF Accept

\* Answering a request that has not been answered.
LEMMA AnswerOnce ==
  ASSUME TypeOK, AtMostOneAnswer, NEW r \in Req, answers[r] = 0, Answer(r)
  PROVE  /\ answers' \in [Req -> Nat]
         /\ AtMostOneAnswer'
         /\ \A q \in Req \ {r} : answers'[q] = answers[q]
BY DEF TypeOK, AtMostOneAnswer, Answer

\* At most one slot waits under a number; resolve_take finds it.
LEMMA TakenIsTheOne ==
  ASSUME Inv, NEW t \in TsnRange
  PROVE  /\ Taken(t) \in SUBSET Slot
         /\ \A i \in Taken(t) : slot[i].state = "EXEC" /\ slot[i].tsn = t
         /\ \A i \in Slot : slot[i].state = "EXEC" /\ slot[i].tsn = t => Taken(t) = {i}
<1>1. slot \in [Slot -> SlotRec] /\ DOMAIN slot = Slot
  BY DEF Inv, TypeOK
<1>2. ASSUME NEW i \in Slot, NEW j \in Slot, slot[i].state = "EXEC", slot[j].state = "EXEC",
             slot[i].tsn = t, slot[j].tsn = t
      PROVE  i = j
  BY <1>2 DEF Inv, Waiting, OnePlace
<1>3. \A i \in Slot : i <= i
  BY SlotAssumption DEF Slot
<1> QED BY <1>1, <1>2, <1>3 DEF Taken, InState

------------------------------------------------------------------------------
LEMMA InvInit == Init => Inv
<1> SUFFICES ASSUME Init PROVE Inv
  OBVIOUS
<1>zero. 0 \in Slot /\ 0 \in TsnRange
  BY SlotAssumption, ZdoAssumption DEF Slot, TsnRange
<1>1. Idle \in ZbRec /\ Idle.pc = "idle"
  BY <1>zero DEF Idle, ZbRec, TsnRange
<1>2. slot \in [Slot -> SlotRec] /\ \A i \in Slot : slot[i].state = "NONE"
  BY <1>zero DEF Init, SlotRec, SlotState, TsnRange
<1>3. TypeOK
  BY <1>1, <1>2 DEF Init, TypeOK
<1>4. Owned /\ Reserved /\ Waiting
  BY <1>1, <1>2 DEF Init, Owned, Reserved, Publishing, Waiting, TsnRange
<1>5. OnePlace /\ ReplyFidelity /\ AtMostOneAnswer
  BY <1>1, <1>2 DEF Init, OnePlace, ReplyFidelity, AtMostOneAnswer
<1> QED BY <1>3, <1>4, <1>5 DEF Inv

\* A waiting slot goes and its request is in the reply under way.
LEMMA TakeStep ==
  ASSUME Inv, zb.pc = "idle", NEW i \in Slot, slot[i].state # "NONE",
         slot' = Release(slot, {i}),
         zb'.pc = "report", zb'.req = slot[i].req,
         UNCHANGED <<fresh, answers>>
  PROVE  Owned' /\ OnePlace' /\ AtMostOneAnswer'
<1>0. slot \in [Slot -> SlotRec] /\ {i} \in SUBSET Slot
  BY DEF Inv, TypeOK
<1>1. /\ slot'[i].state = "NONE" /\ \A j \in Slot \ {i} : slot'[j] = slot[j]
  BY <1>0, ReleaseResult
<1>2. Owned' /\ AtMostOneAnswer'
  BY <1>1 DEF Inv, Owned, AtMostOneAnswer
<1>3. slot[i].req \in Req \ fresh /\ answers[slot[i].req] = 0
  BY DEF Inv, Owned, OnePlace
<1>4. \A j \in Slot : slot'[j].state # "NONE" =>
        /\ j # i /\ slot'[j] = slot[j] /\ slot[j].state # "NONE"
        /\ slot[j].req \notin fresh /\ answers[slot[j].req] = 0 /\ slot[j].req # slot[i].req
  <2>1. SUFFICES ASSUME NEW j \in Slot, slot'[j].state # "NONE"
                 PROVE  /\ j # i /\ slot'[j] = slot[j] /\ slot[j].state # "NONE"
                        /\ slot[j].req \notin fresh /\ answers[slot[j].req] = 0
                        /\ slot[j].req # slot[i].req
    OBVIOUS
  <2>2. j # i /\ slot'[j] = slot[j] /\ slot[j].state # "NONE"
    BY <1>1, <2>1
  <2> QED BY <2>2 DEF Inv, OnePlace
<1>5. \A j, k \in Slot :
        slot'[j].state # "NONE" /\ slot'[k].state # "NONE" /\ slot'[k].req = slot'[j].req => j = k
  <2>1. \A j, k \in Slot :
          slot[j].state # "NONE" /\ slot[k].state # "NONE" /\ slot[k].req = slot[j].req => j = k
    BY DEF Inv, OnePlace
  <2> QED BY <1>4, <2>1
<1>6. OnePlace'
  <2>1. \A r \in fresh : answers[r] = 0
    BY DEF Inv, OnePlace
  <2> QED BY <1>3, <1>4, <1>5, <2>1 DEF OnePlace
<1> QED BY <1>2, <1>6

LEMMA InvNext == Inv /\ [Next]_vars => Inv'
<1> SUFFICES ASSUME Inv, [Next]_vars PROVE Inv'
  OBVIOUS
<1>zero. 0 \in Slot /\ 0 \in TsnRange /\ Tsn \in Nat \ {0}
  BY SlotAssumption, ZdoAssumption DEF Slot, TsnRange
<1>typed. /\ slot \in [Slot -> SlotRec] /\ oldCntr \in Nat /\ queued \in [Slot -> Nat]
          /\ outstanding \in [TsnRange -> Req \cup {NoReq}] /\ nextTsn \in TsnRange
          /\ newest \in [TsnRange -> Req \cup {NoReq}] /\ sentUnder \in [TsnRange -> SUBSET Req]
          /\ zb \in ZbRec /\ zb.idx \in Slot /\ zb.tsn \in TsnRange
          /\ \A i \in Slot : slot[i].req \in Req \cup {NoReq} /\ slot[i].old \in Nat
                             /\ slot[i].state \in SlotState /\ slot[i].tsn \in TsnRange
          /\ fresh \subseteq Req /\ gaveUp \subseteq Req /\ answers \in [Req -> Nat]
  BY DEF Inv, TypeOK, ZbRec, SlotRec, TsnRange
<1>owned. \A i \in Slot : slot[i].state # "NONE" => slot[i].req \in Req
  BY DEF Inv, Owned
<1>idle. Idle \in ZbRec /\ Idle.pc = "idle"
  BY <1>zero DEF Idle, ZbRec, TsnRange
<1>1. ASSUME NEW r \in Req, Process(r)
      PROVE  Inv'
  <2>1. /\ zb.pc = "idle" /\ zb' = zb /\ r \in fresh /\ fresh' = fresh \ {r}
        /\ answers[r] = 0 /\ \A i \in Slot : slot[i].state # "NONE" => slot[i].req # r
        /\ UNCHANGED <<nextTsn, outstanding, newest, sentUnder>>
    BY <1>1 DEF Process, history, Inv, OnePlace
  <2>2. ReplyFidelity'
    BY <2>1 DEF ReplyFidelity
  <2>3. CASE Refuse(r)
    <3>1. UNCHANGED <<slot, oldCntr, queued, gaveUp>> /\ Answer(r)
      BY <2>3 DEF Refuse
    <3>2. /\ answers' \in [Req -> Nat] /\ AtMostOneAnswer'
          /\ \A q \in Req \ {r} : answers'[q] = answers[q]
      BY <2>1, <3>1, AnswerOnce DEF Inv
    <3>3. TypeOK'
      BY <2>1, <3>1, <3>2 DEF Inv, TypeOK
    <3>4. Owned' /\ Reserved' /\ Waiting'
      BY <2>1, <3>1 DEF Inv, Owned, Reserved, Waiting, Publishing
    <3>5. OnePlace'
      BY <2>1, <3>1, <3>2, <1>typed, <1>owned DEF Inv, OnePlace
    <3> QED BY <2>2, <3>2, <3>3, <3>4, <3>5 DEF Inv
  <2>4. ASSUME NEW i \in Picked(slot), Accept(r, i)
        PROVE  Inv'
    <3>1. i \in Slot /\ slot[i].state \in {"NONE", "EXEC"}
      BY <1>typed, PickedNotReserved
    <3>2. /\ slot' \in [Slot -> SlotRec]
          /\ \A j \in Slot \ {i} : slot'[j] = slot[j]
          /\ \/ /\ slot'[i].state = "ALLOCATION" /\ slot'[i].req = r
                /\ queued' = [queued EXCEPT ![i] = @ + 1]
                /\ answers' = answers
             \/ /\ slot'[i].state = "NONE"
                /\ queued' = queued
                /\ Answer(r)
      BY <2>4, <3>1, <1>typed, AcceptResult
    <3>3. queued[i] = 0 /\ \A j \in Slot : ~Publishing(j)
      BY <2>1, <3>1, <1>typed DEF Inv, Reserved, Publishing
    <3>4. /\ answers' \in [Req -> Nat] /\ AtMostOneAnswer'
          /\ \A q \in Req \ {r} : answers'[q] = answers[q]
      BY <2>1, <3>2, <1>typed, AnswerOnce DEF Inv, AtMostOneAnswer
    <3>5. queued' \in [Slot -> Nat]
      BY <3>1, <3>2, <3>3, <1>typed
    <3>6. gaveUp' \subseteq Req /\ oldCntr' \in Nat
      BY <2>4, <3>1, <1>typed, <1>owned DEF Accept, Displaced
    <3>7. TypeOK'
      BY <2>1, <3>2, <3>4, <3>5, <3>6 DEF Inv, TypeOK
    <3>8. Owned' /\ Waiting'
      BY <2>1, <3>1, <3>2, <3>3 DEF Inv, Owned, Waiting, Publishing
    <3>9. Reserved'
      <4>1. \A j \in Slot : ~Publishing(j)'
        BY <2>1 DEF Publishing
      <4> SUFFICES ASSUME NEW j \in Slot
                   PROVE  queued'[j] = IF slot'[j].state = "ALLOCATION" THEN 1 ELSE 0
        BY <4>1 DEF Reserved
      <4>2. CASE j = i
        BY <4>2, <3>1, <3>2, <3>3, <1>typed
      <4>3. CASE j # i
        BY <4>3, <3>2, <3>3, <1>typed DEF Inv, Reserved
      <4> QED BY <4>2, <4>3
    <3>10. OnePlace'
      BY <2>1, <3>1, <3>2, <3>4, <1>typed, <1>owned DEF Inv, OnePlace
    <3> QED BY <2>2, <3>4, <3>7, <3>8, <3>9, <3>10 DEF Inv
  <2> QED BY <1>1, <2>3, <2>4 DEF Process
<1>2. ASSUME NEW i \in Slot, DoRequest(i)
      PROVE  Inv'
  <2>1. /\ zb.pc = "idle" /\ queued' = [queued EXCEPT ![i] = queued[i] - 1]
        /\ UNCHANGED <<oldCntr, fresh, answers, gaveUp>>
    BY <1>2 DEF DoRequest
  <2>2. queued[i] = 1 /\ slot[i].state = "ALLOCATION" /\ slot[i].req \in Req
        /\ \A j \in Slot : ~Publishing(j)
    BY <1>2, <2>1, <1>typed, <1>owned DEF DoRequest, Inv, Reserved, Publishing
  <2>3. queued' = [queued EXCEPT ![i] = 0] /\ queued' \in [Slot -> Nat]
    BY <2>1, <2>2, <1>typed
  <2>4. CASE RequestFails(i)
    <3>1. /\ slot' \in [Slot -> SlotRec] /\ slot' = Release(slot, {i})
          /\ slot'[i].state = "NONE" /\ \A j \in Slot \ {i} : slot'[j] = slot[j]
      BY <2>4, <1>typed, ReleaseResult DEF RequestFails
    <3>2. /\ zb' = [Idle EXCEPT !.pc = "report", !.req = slot[i].req, !.about = slot[i].req]
          /\ UNCHANGED <<nextTsn, outstanding, newest, sentUnder>>
      BY <2>4 DEF RequestFails, history
    <3>3. zb' \in ZbRec /\ zb'.pc = "report" /\ zb'.req = slot[i].req /\ zb'.about = slot[i].req
      BY <2>2, <3>2, <1>zero DEF Idle, ZbRec, TsnRange
    <3>4. TypeOK'
      BY <2>1, <2>3, <3>1, <3>2, <3>3 DEF Inv, TypeOK
    <3>5. Owned' /\ OnePlace' /\ AtMostOneAnswer'
      BY <2>1, <2>2, <3>1, <3>3, TakeStep
    <3>6. \A j \in Slot : ~Publishing(j)'
      BY <3>3 DEF Publishing
    <3>7. Reserved'
      BY <2>2, <2>3, <3>1, <3>6, <1>typed DEF Inv, Reserved
    <3>8. Waiting' /\ ReplyFidelity'
      BY <3>1, <3>2, <3>3, <3>6 DEF Inv, Waiting, ReplyFidelity
    <3> QED BY <3>4, <3>5, <3>7, <3>8 DEF Inv
  <2>5. CASE RequestStarts(i)
    <3>1. /\ outstanding[nextTsn] = NoReq /\ slot' = slot
          /\ outstanding' = [outstanding EXCEPT ![nextTsn] = slot[i].req]
          /\ zb' = [Idle EXCEPT !.pc = "publish", !.idx = i, !.tsn = nextTsn]
          /\ nextTsn' = (nextTsn + 1) % Tsn
          /\ sentUnder' = [sentUnder EXCEPT ![nextTsn] = @ \cup {slot[i].req}]
          /\ newest' = [newest EXCEPT ![nextTsn] = slot[i].req]
      BY <2>5 DEF RequestStarts
    <3>2. /\ zb' \in ZbRec /\ zb'.pc = "publish" /\ zb'.idx = i /\ zb'.tsn = nextTsn
      BY <3>1, <1>typed, <1>zero DEF Idle, ZbRec, TsnRange
    <3>3. nextTsn' \in TsnRange
      BY <3>1, <1>typed, <1>zero DEF TsnRange
    <3>4. TypeOK'
      BY <2>1, <2>2, <2>3, <3>1, <3>2, <3>3, <1>typed DEF Inv, TypeOK, TsnRange
    <3>5. \A j \in Slot : Publishing(j)' <=> j = i
      BY <3>2 DEF Publishing
    <3>6. Reserved'
      BY <2>2, <2>3, <3>1, <3>5, <1>typed DEF Inv, Reserved
    <3>7. Waiting'
      <4>1. outstanding'[nextTsn] = slot[i].req
        BY <3>1, <1>typed
      <4>2. ASSUME NEW j \in Slot, slot[j].state = "EXEC"
            PROVE  outstanding'[slot[j].tsn] = slot[j].req
        <5>1. outstanding[slot[j].tsn] = slot[j].req /\ slot[j].req \in Req
          BY <4>2, <1>owned DEF Inv, Waiting
        <5>2. slot[j].tsn # nextTsn
          BY <3>1, <5>1, SlotAssumption
        <5> QED BY <3>1, <5>1, <5>2, <1>typed
      <4>3. \A t \in TsnRange : outstanding'[t] # NoReq => newest'[t] = outstanding'[t]
        BY <3>1, <1>typed DEF Inv, Waiting
      <4> QED BY <3>1, <3>2, <3>5, <4>1, <4>2, <4>3 DEF Waiting
    <3>8. Owned' /\ OnePlace' /\ AtMostOneAnswer' /\ ReplyFidelity'
      BY <2>1, <3>1, <3>2 DEF Inv, Owned, OnePlace, AtMostOneAnswer, ReplyFidelity
    <3> QED BY <3>4, <3>6, <3>7, <3>8 DEF Inv
  <2> QED BY <1>2, <2>4, <2>5 DEF DoRequest
<1>3. CASE Publish
  <2>1. /\ zb.pc = "publish" /\ zb' = Idle
        /\ UNCHANGED <<oldCntr, queued, nextTsn, outstanding, fresh, answers, gaveUp, newest, sentUnder>>
    BY <1>3 DEF Publish, history
  <2>2. /\ Publishing(zb.idx) /\ slot[zb.idx].state = "ALLOCATION"
        /\ outstanding[zb.tsn] = slot[zb.idx].req
        /\ \A j \in Slot \ {zb.idx} : ~Publishing(j)
        /\ \A j \in Slot : ~Publishing(j)'
    BY <2>1, <1>typed, <1>idle DEF Publishing, Inv, Reserved, Waiting
  <2>3. /\ slot' \in [Slot -> SlotRec]
        /\ slot'[zb.idx].state = "EXEC" /\ slot'[zb.idx].req = slot[zb.idx].req
        /\ slot'[zb.idx].tsn = zb.tsn
        /\ \A j \in Slot \ {zb.idx} : slot'[j] = slot[j]
    <3> DEFINE k == zb.idx
    <3>1. k \in Slot /\ slot[k] \in SlotRec /\ zb.tsn \in TsnRange
      BY <1>typed
    <3>2. slot' = [slot EXCEPT ![k] = [slot[k] EXCEPT !.state = "EXEC", !.tsn = zb.tsn]]
      BY <1>3, <1>typed DEF Publish
    <3>3. [slot[k] EXCEPT !.state = "EXEC", !.tsn = zb.tsn] \in SlotRec
      BY <3>1 DEF SlotRec, SlotState, TsnRange
    <3> QED BY <3>1, <3>2, <3>3, <1>typed DEF SlotRec
  <2>4. TypeOK'
    <3>1. zb' \in ZbRec
      BY <2>1, <1>idle
    <3> QED BY <2>1, <2>3, <3>1, <1>typed DEF Inv, TypeOK, TsnRange
  <2>5. Owned' /\ Reserved' /\ Waiting'
    BY <2>1, <2>2, <2>3, <1>typed DEF Inv, Owned, Reserved, Waiting
  <2>6. OnePlace' /\ AtMostOneAnswer' /\ ReplyFidelity'
    BY <2>1, <2>2, <2>3, <1>typed, <1>idle DEF Inv, OnePlace, AtMostOneAnswer, ReplyFidelity
  <2> QED BY <2>4, <2>5, <2>6 DEF Inv
\* A frame under t, from the stack or off the air, whatever request it answers.
<1>4. ASSUME NEW t \in TsnRange, NEW r \in Bearing(t), zb.pc = "idle",
             TakeAndReport(Taken(t), t, r),
             \/ outstanding' = [outstanding EXCEPT ![t] = NoReq]
             \/ outstanding' = outstanding,
             UNCHANGED <<oldCntr, queued, nextTsn, fresh, answers, gaveUp, newest, sentUnder>>
      PROVE  Inv'
  <2>1. /\ Taken(t) \in SUBSET Slot
        /\ \A i \in Taken(t) : slot[i].state = "EXEC" /\ slot[i].tsn = t
        /\ \A i \in Slot : slot[i].state = "EXEC" /\ slot[i].tsn = t => Taken(t) = {i}
    BY TakenIsTheOne
  <2>2. outstanding' \in [TsnRange -> Req \cup {NoReq}]
    BY <1>4, <1>typed
  <2>3. \A u \in TsnRange \ {t} : outstanding'[u] = outstanding[u]
    BY <1>4, <1>typed
  <2>4. \A j \in Slot : ~Publishing(j) /\ (slot[j].state = "EXEC" => outstanding[slot[j].tsn] = slot[j].req)
    BY <1>4 DEF Publishing, Inv, Waiting
  <2>newest. /\ r \in Req \cup {NoReq}
             /\ \A u \in TsnRange : outstanding[u] # NoReq => newest[u] = outstanding[u]
             /\ \A u \in TsnRange : outstanding'[u] # NoReq => newest'[u] = outstanding'[u]
    BY <1>4, <1>typed DEF Inv, Waiting, Bearing
  <2>5. CASE Taken(t) = {}
    <3>1. zb' = zb /\ slot' = slot
      <4>1. slot' = Release(slot, {}) /\ zb' = zb
        BY <1>4, <2>5 DEF TakeAndReport
      <4>2. slot' \in [Slot -> SlotRec] /\ \A j \in Slot : slot'[j] = slot[j]
        BY <4>1, <1>typed, ReleaseResult
      <4> QED BY <4>1, <4>2, <1>typed
    <3>2. \A j \in Slot : slot[j].state = "EXEC" => slot[j].tsn \in TsnRange \ {t}
      BY <2>1, <2>5, <1>typed
    <3>3. Waiting'
      BY <2>3, <2>4, <2>newest, <3>1, <3>2 DEF Waiting, Publishing
    <3>4. TypeOK'
      BY <1>4, <2>2, <3>1 DEF Inv, TypeOK, TsnRange
    <3>5. Owned' /\ Reserved' /\ OnePlace' /\ ReplyFidelity' /\ AtMostOneAnswer'
      BY <1>4, <3>1 DEF Inv, Owned, Reserved, Publishing, OnePlace, ReplyFidelity, AtMostOneAnswer
    <3> QED BY <3>3, <3>4, <3>5 DEF Inv
  <2>6. ASSUME NEW i \in Taken(t)
        PROVE  Inv'
    <3>1. i \in Slot /\ slot[i].state = "EXEC" /\ slot[i].tsn = t /\ Taken(t) = {i}
          /\ slot[i].req \in Req /\ newest[t] = slot[i].req
      BY <2>1, <2>4, <2>newest, <1>owned, SlotAssumption
    <3>2. /\ slot' = Release(slot, {i})
          /\ zb' = [Idle EXCEPT !.pc = "report", !.tsn = t, !.about = r, !.req = slot[i].req]
      <4>1. (CHOOSE j \in {i} : TRUE) = i
        OBVIOUS
      <4> QED BY <1>4, <3>1, <4>1 DEF TakeAndReport
    <3>3. /\ slot' \in [Slot -> SlotRec]
          /\ slot'[i].state = "NONE" /\ \A j \in Slot \ {i} : slot'[j] = slot[j]
      BY <3>1, <3>2, <1>typed, ReleaseResult
    <3>4. zb' \in ZbRec /\ zb'.pc = "report" /\ zb'.req = slot[i].req
          /\ zb'.tsn = t /\ zb'.about = r
      BY <2>newest, <3>1, <3>2, <1>zero DEF Idle, ZbRec, TsnRange
    <3>5. TypeOK'
      BY <1>4, <2>2, <3>3, <3>4 DEF Inv, TypeOK, TsnRange
    <3>6. Owned' /\ OnePlace' /\ AtMostOneAnswer'
      BY <1>4, <3>1, <3>2, <3>4, TakeStep
    <3>7. \A j \in Slot : ~Publishing(j)'
      BY <3>4 DEF Publishing
    <3>8. Reserved'
      BY <1>4, <2>4, <3>1, <3>3, <3>7, <1>typed DEF Inv, Reserved
    <3>9. \A j \in Slot \ {i} : slot[j].state = "EXEC" => slot[j].tsn \in TsnRange \ {t}
      BY <2>1, <3>1, <1>typed
    <3>10. Waiting'
      BY <2>3, <2>4, <2>newest, <3>3, <3>7, <3>9 DEF Waiting
    \* t's newest request is the one in the slot.
    <3>11. ReplyFidelity'
      BY <1>4, <3>1, <3>4 DEF ReplyFidelity
    <3> QED BY <3>5, <3>6, <3>8, <3>10, <3>11 DEF Inv
  <2> QED BY <2>5, <2>6
<1>5. ASSUME NEW t \in TsnRange, Callback(t)
      PROVE  Inv'
  BY <1>4, <1>5 DEF Callback, history
<1>6. ASSUME NEW t \in TsnRange, Intercept(t)
      PROVE  Inv'
  BY <1>4, <1>6 DEF Intercept, history
<1>7. CASE Report
  <2>1. /\ zb.pc = "report" /\ Answer(zb.req) /\ zb' = Idle
        /\ zb.req \in Req \ fresh /\ answers[zb.req] = 0
        /\ \A i \in Slot : slot[i].state # "NONE" => slot[i].req # zb.req
        /\ UNCHANGED <<slot, oldCntr, queued, nextTsn, outstanding, fresh, gaveUp, newest, sentUnder>>
    BY <1>7 DEF Report, history, Inv, OnePlace
  <2>2. /\ answers' \in [Req -> Nat] /\ AtMostOneAnswer'
        /\ \A q \in Req \ {zb.req} : answers'[q] = answers[q]
    BY <2>1, AnswerOnce DEF Inv
  <2>3. TypeOK'
    BY <2>1, <2>2, <1>idle DEF Inv, TypeOK
  <2>4. Owned' /\ Reserved' /\ Waiting' /\ ReplyFidelity'
    BY <2>1, <1>idle DEF Inv, Owned, Reserved, Publishing, Waiting, ReplyFidelity
  <2>5. OnePlace'
    BY <2>1, <2>2, <1>idle, <1>typed, <1>owned DEF Inv, OnePlace
  <2> QED BY <2>2, <2>3, <2>4, <2>5 DEF Inv
<1>8. CASE UNCHANGED vars
  BY <1>8
  DEF vars, history, Inv, TypeOK, Owned, Reserved, Publishing, Waiting, OnePlace, ReplyFidelity, AtMostOneAnswer
<1> QED BY <1>1, <1>2, <1>3, <1>5, <1>6, <1>7, <1>8 DEF Next, TsnRange

LEMMA InvAlways == Spec => []Inv
BY InvInit, InvNext, PTL DEF Spec

\* Every variable keeps its type; in particular no do_request is counted below zero.
THEOREM TypeCorrect == Spec => []TypeOK
<1>1. Inv => TypeOK
  BY DEF Inv
<1> QED BY <1>1, InvAlways, PTL

\* An answer to the newest transaction under a number goes to that transaction's
\* request, though frames answering any earlier one, or none, may come at any time,
\* and the intercept takes whatever bears the number; for any number of numbers.
THEOREM RepliesFaithful == Spec => []ReplyFidelity
<1>1. Inv => ReplyFidelity
  BY DEF Inv
<1> QED BY <1>1, InvAlways, PTL

\* The host gets at most one response per request.
THEOREM AnsweredAtMostOnce == Spec => []AtMostOneAnswer
<1>1. Inv => AtMostOneAnswer
  BY DEF Inv
<1> QED BY <1>1, InvAlways, PTL
==============================================================================
