----------------------------- MODULE ApsdeSlots ------------------------------
(***************************************************************************)
(* cmd_handle<APSDE_DATA_REQ>: a host's APS data request from the frame    *)
(* the app task dispatches to the confirm the ZBOSS task delivers.         *)
(*                                                                         *)
(* Two tasks touch the slot table.  The app task runs Process inside the   *)
(* ZBOSS big lock (on_rx_data), so never in the middle of a ZBOSS          *)
(* callback, and the watchdog outside it, so at any point of a callback.   *)
(* The ZBOSS task runs do_request and the tx confirm callback; zb records  *)
(* how far it is in one, since it may block in a host send in between.     *)
(***************************************************************************)
EXTENDS SlotTable

CONSTANTS Buf,               \* ZBOSS buffer ids
          NoBuf,
          WATCHDOG_TIMEOUT,  \* ticks an S_EXEC slot may wait for its confirm
          LostBuffersReturn, \* ZBOSS gives back a buffer whose confirm it never delivers
          CopiesMade         \* ZBOSS copies sent buffers (binding-table sends)

ASSUME ApsdeAssumption ==
  /\ NoBuf \notin Buf
  /\ WATCHDOG_TIMEOUT \in Nat \ {0}
  /\ LostBuffersReturn \in BOOLEAN
  /\ CopiesMade \in BOOLEAN

VARIABLES
  slot,     \* storage(): [state, req, old, age] per slot
  oldCntr,  \* old_cntr(): the next allocation number
  queued,   \* delayed buffer requests ZBOSS has accepted, per slot index
  buf,      \* the ZBOSS buffer pool
  sent,     \* s_apsde_sent: the send record of each buffer
  zb,       \* the ZBOSS task's position inside a callback
  fresh,    \* requests the host has not sent yet
  answers,  \* RESPONSE frames sent to the host, per request
  sentFor,  \* history: the request a buffer was last handed to ZBOSS for
  gaveUp    \* history: requests displaced by start_resolve or reclaimed

vars == <<slot, oldCntr, queued, buf, sent, zb, fresh, answers, sentFor, gaveUp>>

SlotRec == [state : SlotState, req : Req \cup {NoReq}, old : Nat, age : 0 .. WATCHDOG_TIMEOUT]
SentRec == [valid : BOOLEAN, idx : Slot, old : Nat]

\* confirmed: the reply's status comes from a confirm, that of request `from`
\* (NoReq for the confirm of a copy ZBOSS made).
ZbRec == [pc : {"idle", "publish", "report"}, idx : Slot, buf : Buf \cup {NoBuf},
          req : Req \cup {NoReq}, confirmed : BOOLEAN, from : Req \cup {NoReq}]

Idle == [pc |-> "idle", idx |-> 0, buf |-> NoBuf, req |-> NoReq,
         confirmed |-> FALSE, from |-> NoReq]

Init ==
  /\ slot = [i \in Slot |-> [state |-> "NONE", req |-> NoReq, old |-> 0, age |-> 0]]
  /\ oldCntr = 0
  /\ queued = [i \in Slot |-> 0]
  /\ buf = [b \in Buf |-> "free"]
  /\ sent = [b \in Buf |-> [valid |-> FALSE, idx |-> 0, old |-> 0]]
  /\ zb = Idle
  /\ fresh = Req
  /\ answers = [r \in Req |-> 0]
  /\ sentFor = [b \in Buf |-> NoReq]
  /\ gaveUp = {}

Answer(r) == answers' = [answers EXCEPT ![r] = @ + 1]

------------------------------------------------------------------------------
(* The app task. *)

\* process, the refusals before a slot is taken: a malformed frame
\* (INVALID_PARAMETER), or a table full of S_ALLOCATION slots (OUT_OF_RANGE).
Refuse(r) ==
  /\ Answer(r)
  /\ UNCHANGED <<slot, oldCntr, queued, gaveUp>>

\* process with slot i claimed: ZBOSS queues the delayed buffer request, or
\* refuses it (NO_RESOURCES) and the slot is given back.
Accept(r, i) ==
  /\ oldCntr' = oldCntr + 1
  /\ gaveUp' = gaveUp \cup Displaced(slot, i)
  /\ \/ /\ slot' = Claim(slot, i, r, oldCntr)
        /\ queued' = [queued EXCEPT ![i] = @ + 1]
        /\ UNCHANGED answers
     \/ /\ slot' = Release(Claim(slot, i, r, oldCntr), {i})
        /\ UNCHANGED queued
        /\ Answer(r)

\* on_rx_data -> process, under the big lock: no ZBOSS callback is under way.
Process(r) ==
  /\ zb.pc = "idle"
  /\ r \in fresh
  /\ fresh' = fresh \ {r}
  /\ Refuse(r) \/ \E i \in Picked(slot) : Accept(r, i)
  /\ UNCHANGED <<buf, sent, zb, sentFor>>

\* Mutant of Stale: the watchdog finds nothing.
StaleNever(tab) == {}

Stale(tab) == {i \in InState(tab, "EXEC") : tab[i].age >= WATCHDOG_TIMEOUT}

\* request_watchdog_tick -> reclaim_stale: frees, and deliberately answers nobody.
Watchdog ==
  /\ Stale(slot) # {}
  /\ slot' = Release(slot, Stale(slot))
  /\ gaveUp' = gaveUp \cup {slot[i].req : i \in Stale(slot)}
  /\ UNCHANGED <<oldCntr, queued, buf, sent, zb, fresh, answers, sentFor>>

\* The tick count advances: every S_EXEC slot's age, up to the watchdog's limit.
Tick ==
  /\ slot' = [i \in Slot |->
       IF slot[i].state = "EXEC" /\ slot[i].age < WATCHDOG_TIMEOUT
       THEN [slot[i] EXCEPT !.age = @ + 1] ELSE slot[i]]
  /\ UNCHANGED <<oldCntr, queued, buf, sent, zb, fresh, answers, sentFor, gaveUp>>

------------------------------------------------------------------------------
(* The ZBOSS task. *)

\* Mutant of SendRecord: the record names the next slot.
SendRecordOffByOne(i) == [valid |-> TRUE, idx |-> i + 1, old |-> slot[i].old]

\* s_apsde_sent[buf]: which allocation of which slot a buffer carries.
SendRecord(i) == [valid |-> TRUE, idx |-> i, old |-> slot[i].old]

\* ZBOSS hands do_request a buffer out of the pool: from here it is the callback's.
Given(b) == [buf EXCEPT ![b] = "held"]

\* do_request: ZBOSS takes b, with slot i's request in it, for sending;
\* start_request leaves its record.
SendAccepted(b, i) ==
  /\ buf' = [Given(b) EXCEPT ![b] = "air"]
  /\ sent' = [sent EXCEPT ![b] = SendRecord(i)]
  /\ sentFor' = [sentFor EXCEPT ![b] = slot[i].req]
  /\ zb' = [Idle EXCEPT !.pc = "publish", !.idx = i]
  /\ UNCHANGED slot

\* Mutant of GiveBack: the buffer of a rejected send is kept.
GiveBackForgotten(b) == Given(b)

\* zb_buf_free of a buffer ZBOSS would not take.
GiveBack(b) == [Given(b) EXCEPT ![b] = "free"]

\* do_request: the send is rejected, so the buffer is still ours: free it, free
\* the slot, then report.
SendRejected(b, i) ==
  /\ buf' = GiveBack(b)
  /\ slot' = Release(slot, {i})
  /\ zb' = [Idle EXCEPT !.pc = "report", !.req = slot[i].req]
  /\ UNCHANGED <<sent, sentFor>>

DoRequest(b, i) ==
  /\ zb.pc = "idle"
  /\ queued[i] > 0
  /\ buf[b] = "free"
  /\ queued' = [queued EXCEPT ![i] = @ - 1]
  /\ SendAccepted(b, i) \/ SendRejected(b, i)
  /\ UNCHANGED <<oldCntr, fresh, answers, gaveUp>>

\* do_request, last part: t_exec and S_EXEC are published under the mutex.
Publish ==
  /\ zb.pc = "publish"
  /\ slot' = [slot EXCEPT ![zb.idx].state = "EXEC", ![zb.idx].age = 0]
  /\ zb' = Idle
  /\ UNCHANGED <<oldCntr, queued, buf, sent, fresh, answers, sentFor, gaveUp>>

\* Mutants of Matches: without the allocation number, and without the state.
MatchesAnyAllocation(rec) == rec.valid /\ slot[rec.idx].state = "EXEC"
MatchesFreed(rec) == rec.valid /\ slot[rec.idx].old = rec.old

\* resolve_take_at: the slot still carries the allocation the record names ...
Matches(rec) ==
  rec.valid /\ slot[rec.idx].state = "EXEC" /\ slot[rec.idx].old = rec.old

\* Mutant of Take: the slot is not freed with the take.
TakeKeepsSlot(rec) == UNCHANGED slot

\* ... and is freed in the same critical section (DISP-2).
Take(rec) == slot' = Release(slot, {rec.idx})

\* Mutant of Drop: the buffer of a confirm nobody waits for is kept.
DropLeaks(b) == buf' = [buf EXCEPT ![b] = "held"]

Drop(b) == buf' = [buf EXCEPT ![b] = "free"]

\* aps_user_payload_callback on buffer b: take the request, or drop the confirm.
Confirm(b) ==
  /\ zb.pc = "idle"
  /\ buf[b] \in {"air", "copy"}
  /\ sent' = [sent EXCEPT ![b].valid = FALSE]
  /\ IF Matches(sent[b])
     THEN /\ Take(sent[b])
          /\ buf' = [buf EXCEPT ![b] = "held"]
          /\ zb' = [Idle EXCEPT !.pc = "report", !.buf = b, !.req = slot[sent[b].idx].req,
                     !.confirmed = TRUE,
                     !.from = IF buf[b] = "air" THEN sentFor[b] ELSE NoReq]
     ELSE /\ Drop(b)
          /\ UNCHANGED <<slot, zb>>
  /\ UNCHANGED <<oldCntr, queued, fresh, answers, sentFor, gaveUp>>

\* Mutant of Report: a send that may have failed is tried again.
ReportRetries ==
  /\ zb.pc = "report"
  /\ Answer(zb.req)
  /\ zb' \in {zb, Idle}
  /\ UNCHANGED <<slot, oldCntr, queued, buf, sent, fresh, sentFor, gaveUp>>

\* handle_response / report_failed: the send to the host, then the buffer goes back.
Report ==
  /\ zb.pc = "report"
  /\ Answer(zb.req)
  /\ buf' = IF zb.buf = NoBuf THEN buf ELSE [buf EXCEPT ![zb.buf] = "free"]
  /\ zb' = Idle
  /\ UNCHANGED <<slot, oldCntr, queued, sent, fresh, sentFor, gaveUp>>

------------------------------------------------------------------------------
(* ZBOSS itself (external). *)

\* The confirm for b never comes; its buffer goes back to the pool or is lost.
LoseConfirm(b) ==
  /\ zb.pc = "idle"
  /\ buf[b] = "air"
  /\ buf' = [buf EXCEPT ![b] = IF LostBuffersReturn THEN "free" ELSE "lost"]
  /\ UNCHANGED <<slot, oldCntr, queued, sent, zb, fresh, answers, sentFor, gaveUp>>

\* ZBOSS copies a sent buffer into b; the copy inherits the flag that routes its
\* confirm to aps_user_payload_callback.
CopyBuffer(b) ==
  /\ CopiesMade
  /\ zb.pc = "idle"
  /\ buf[b] = "free"
  /\ \E a \in Buf : buf[a] = "air"
  /\ buf' = [buf EXCEPT ![b] = "copy"]
  /\ UNCHANGED <<slot, oldCntr, queued, sent, zb, fresh, answers, sentFor, gaveUp>>

Next ==
  \/ \E r \in Req : Process(r)
  \/ Watchdog
  \/ Tick
  \/ \E b \in Buf, i \in Slot : DoRequest(b, i)
  \/ Publish
  \/ \E b \in Buf : Confirm(b)
  \/ Report
  \/ \E b \in Buf : LoseConfirm(b)
  \/ \E b \in Buf : CopyBuffer(b)

Spec == Init /\ [][Next]_vars

(***************************************************************************)
(* The ZBOSS scheduler keeps running callbacks: a queued request gets a    *)
(* buffer when one is free, a buffer in flight is confirmed or given up.   *)
(* The app task's pump wakes at least every 2 s, so the watchdog runs.     *)
(***************************************************************************)
FairSpec ==
  /\ Spec
  /\ \A i \in Slot : WF_vars(\E b \in Buf : DoRequest(b, i))
  /\ \A b \in Buf : WF_vars(Confirm(b) \/ LoseConfirm(b))
  /\ WF_vars(Publish)
  /\ WF_vars(Report)
  /\ WF_vars(Tick)
  /\ WF_vars(Watchdog)

------------------------------------------------------------------------------
(* Properties. *)

\* Every variable has its type.
TypeOK ==
  /\ slot \in [Slot -> SlotRec]
  /\ oldCntr \in Nat
  /\ queued \in [Slot -> Nat]
  /\ buf \in [Buf -> {"free", "air", "copy", "held", "lost"}]
  /\ sent \in [Buf -> SentRec]
  /\ zb \in ZbRec
  /\ fresh \in SUBSET Req
  /\ answers \in [Req -> Nat]
  /\ sentFor \in [Buf -> Req \cup {NoReq}]
  /\ gaveUp \in SUBSET Req

\* do_request always finds the slot it was queued for still reserved
\* (S_ALLOCATION), and every reserved slot has exactly one do_request coming or
\* under way: no slot is stranded in a state neither scan matches.
ReservationPending ==
  \A i \in Slot :
    queued[i] + (IF zb.pc = "publish" /\ zb.idx = i THEN 1 ELSE 0)
      = IF slot[i].state = "ALLOCATION" THEN 1 ELSE 0

\* A confirm answers the request its buffer was sent for, never a request that
\* took over the slot later and never the confirm of a copied buffer (APS-SEC-2).
ConfirmFidelity ==
  zb.pc = "report" /\ zb.confirmed => zb.from = zb.req

\* The host gets at most one response per request, through refusals, overrides,
\* late confirms and the watchdog.
AtMostOneAnswer == \A r \in Req : answers[r] <= 1

\* A request displaced by start_resolve or reclaimed by the watchdog is never
\* answered: the host has given it up and may have reused its tsn.
NoAnswerAfterGivingUp == \A r \in gaveUp : answers[r] = 0

\* A request is in at most one slot, and never both in a slot and in the reply
\* the ZBOSS task is sending (the take is atomic with freeing the slot, DISP-2).
OneHome ==
  \A i, j \in Slot :
    slot[i].state # "NONE" =>
      /\ slot[j].state # "NONE" /\ slot[i].req = slot[j].req => i = j
      /\ zb.pc = "report" => zb.req # slot[i].req

\* A buffer out of the pool is in ZBOSS's hands or in the confirm callback that
\* will free it: no path through do_request or the callback leaks one.
NoBufferLeak == \A b \in Buf : buf[b] = "held" => zb.pc = "report" /\ zb.buf = b

\* No request keeps its slot for ever, even when its confirm never comes, unless
\* ZBOSS's buffer pool is dry for good.
NoSlotLeak ==
  \/ \A r \in Req : Holds(slot, r) ~> ~Holds(slot, r)
  \/ <>[](\A b \in Buf : buf[b] # "free")
==============================================================================
