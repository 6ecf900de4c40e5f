------------------------------ MODULE ZdoSlots -------------------------------
(***************************************************************************)
(* request_cmd_process<CmdId,...>: one ZDO command type's asynchronous     *)
(* requests.  ZBOSS names each transaction with an 8-bit tsn, and the      *)
(* callback (an answer off the air, or the stack's own timeout) finds its  *)
(* slot by that tsn.  A Simple_Desc_rsp is also taken straight off the air *)
(* by the data indication hook, ahead of the stack's callback: any such    *)
(* frame whose first byte is the tsn of a waiting slot, whoever sent it    *)
(* and however late.                                                       *)
(* There is no watchdog: a full table displaces its oldest request.        *)
(***************************************************************************)
EXTENDS SlotTable

CONSTANTS Tsn,          \* ZBOSS transaction numbers (0 .. 254; 0xFF means failure)
          Intercepting  \* this command type is ZDO_SIMPLE_DESC_REQ

ASSUME ZdoAssumption == Tsn \in Nat \ {0} /\ Intercepting \in BOOLEAN

VARIABLES
  slot,         \* storage(): [state, req, old, tsn] per slot
  oldCntr,      \* old_cntr(): the next allocation number
  queued,       \* delayed buffer requests ZBOSS has accepted, per slot index
  nextTsn,      \* the tsn ZBOSS assigns next
  outstanding,  \* ZBOSS's transaction table: the request behind each live tsn
  zb,           \* the ZBOSS task's position inside a callback
  fresh,        \* requests the host has not sent yet
  answers,      \* RESPONSE frames sent to the host, per request
  gaveUp,       \* history: requests displaced by start_resolve
  sentUnder,    \* history: the requests that went out under each tsn
  newest        \* history: the last of them

history == <<sentUnder, newest>>
vars == <<slot, oldCntr, queued, nextTsn, outstanding, zb, fresh, answers, gaveUp, history>>

SlotRec == [state : SlotState, req : Req \cup {NoReq}, old : Nat, tsn : 0 .. Tsn - 1]

\* about: the request the reply's content answers; NoReq: none of the table's.
ZbRec == [pc : {"idle", "publish", "report"}, idx : Slot, tsn : 0 .. Tsn - 1,
          req : Req \cup {NoReq}, about : Req \cup {NoReq}]

Idle == [pc |-> "idle", idx |-> 0, tsn |-> 0, req |-> NoReq, about |-> NoReq]

Init ==
  /\ slot = [i \in Slot |-> [state |-> "NONE", req |-> NoReq, old |-> 0, tsn |-> 0]]
  /\ oldCntr = 0
  /\ queued = [i \in Slot |-> 0]
  /\ nextTsn \in 0 .. Tsn - 1
  /\ outstanding = [t \in 0 .. Tsn - 1 |-> NoReq]
  /\ zb = Idle
  /\ fresh = Req
  /\ answers = [r \in Req |-> 0]
  /\ gaveUp = {}
  /\ sentUnder = [t \in 0 .. Tsn - 1 |-> {}]
  /\ newest = [t \in 0 .. Tsn - 1 |-> NoReq]

Answer(r) == answers' = [answers EXCEPT ![r] = @ + 1]

------------------------------------------------------------------------------
\* process, the refusals: check_arg_size fails, or start_resolve found no slot.
Refuse(r) ==
  /\ Answer(r)
  /\ UNCHANGED <<slot, oldCntr, queued, gaveUp>>

\* process with slot i claimed; ZBOSS may refuse the delayed buffer request.
Accept(r, i) ==
  /\ oldCntr' = oldCntr + 1
  /\ gaveUp' = gaveUp \cup Displaced(slot, i)
  /\ \/ /\ slot' = Claim(slot, i, r, oldCntr)
        /\ queued' = [queued EXCEPT ![i] = @ + 1]
        /\ UNCHANGED answers
     \/ /\ slot' = Release(Claim(slot, i, r, oldCntr), {i})
        /\ UNCHANGED queued
        /\ Answer(r)

\* on_rx_data -> process on the app task, inside the ZBOSS big lock.
Process(r) ==
  /\ zb.pc = "idle"
  /\ r \in fresh
  /\ fresh' = fresh \ {r}
  /\ Refuse(r) \/ \E i \in Picked(slot) : Accept(r, i)
  /\ UNCHANGED <<nextTsn, outstanding, zb, history>>

\* Mutant of RequestFails: 0xFF is taken for a tsn.
RequestFailsUnchecked(i) ==
  /\ zb' = [Idle EXCEPT !.pc = "publish", !.idx = i, !.tsn = 255]
  /\ UNCHANGED <<slot, nextTsn, outstanding, history>>

\* start_request returned 0xFF: the buffer is freed, the slot freed, then the report.
RequestFails(i) ==
  /\ slot' = Release(slot, {i})
  /\ zb' = [Idle EXCEPT !.pc = "report", !.req = slot[i].req, !.about = slot[i].req]
  /\ UNCHANGED <<nextTsn, outstanding, history>>

\* start_request returned a tsn: ZBOSS now owns a transaction under it.  ZBOSS
\* does not hand out a tsn whose transaction is still open (external).
RequestStarts(i) ==
  /\ outstanding[nextTsn] = NoReq
  /\ outstanding' = [outstanding EXCEPT ![nextTsn] = slot[i].req]
  /\ zb' = [Idle EXCEPT !.pc = "publish", !.idx = i, !.tsn = nextTsn]
  /\ nextTsn' = (nextTsn + 1) % Tsn
  /\ sentUnder' = [sentUnder EXCEPT ![nextTsn] = @ \cup {slot[i].req}]
  /\ newest' = [newest EXCEPT ![nextTsn] = slot[i].req]
  /\ UNCHANGED slot

\* do_request, up to the return of start_request.
DoRequest(i) ==
  /\ zb.pc = "idle"
  /\ queued[i] > 0
  /\ queued' = [queued EXCEPT ![i] = @ - 1]
  /\ RequestFails(i) \/ RequestStarts(i)
  /\ UNCHANGED <<oldCntr, fresh, answers, gaveUp>>

\* do_request, last part: tsn, t_exec and S_EXEC under the mutex.
Publish ==
  /\ zb.pc = "publish"
  /\ slot' = [slot EXCEPT ![zb.idx].state = "EXEC", ![zb.idx].tsn = zb.tsn]
  /\ zb' = Idle
  /\ UNCHANGED <<oldCntr, queued, nextTsn, outstanding, fresh, answers, gaveUp, history>>

\* Mutant of Taken: the state is not looked at.
TakenAnyState(t) ==
  LET C == {i \in Slot : slot[i].tsn = t}
  IN {i \in C : \A j \in C : i <= j}

\* resolve_take: the first S_EXEC slot that carries tsn t.
Taken(t) ==
  LET C == {i \in InState(slot, "EXEC") : slot[i].tsn = t}
  IN {i \in C : \A j \in C : i <= j}

\* What a frame with the number t may answer: any request that ever went out under
\* t, its own or one before it, since answers can be late and come twice; or none.
Bearing(t) == sentUnder[t] \cup {NoReq}

\* Mutants of TakeAndReport: the slot is not freed; nothing is reported.
TakeKeepsSlot(T, t, r) ==
  /\ UNCHANGED slot
  /\ zb' = IF T = {} THEN zb
           ELSE [Idle EXCEPT !.pc = "report", !.tsn = t, !.about = r,
                   !.req = slot[CHOOSE i \in T : TRUE].req]
TakeIsSilent(T, t, r) == slot' = Release(slot, T) /\ UNCHANGED zb

\* A frame under t that answers r: the slots T are freed and the reply says what
\* the frame does.
TakeAndReport(T, t, r) ==
  /\ slot' = Release(slot, T)
  /\ zb' = IF T = {} THEN zb
           ELSE [Idle EXCEPT !.pc = "report", !.tsn = t, !.about = r,
                   !.req = slot[CHOOSE i \in T : TRUE].req]

\* req_cb: the stack's one callback for the transaction open under t.  The stack
\* too knows an answer by its number (external).
Callback(t) ==
  /\ zb.pc = "idle"
  /\ outstanding[t] # NoReq
  /\ \E r \in Bearing(t) : TakeAndReport(Taken(t), t, r)
  /\ outstanding' = [outstanding EXCEPT ![t] = NoReq]
  /\ UNCHANGED <<oldCntr, queued, nextTsn, fresh, answers, gaveUp, history>>

\* try_intercept_simple_desc_rsp: a frame off the air, the stack's transaction
\* untouched.  Only the number is looked at; with no slot under it the stack goes on.
Intercept(t) ==
  /\ Intercepting
  /\ zb.pc = "idle"
  /\ Taken(t) # {}
  /\ \E r \in Bearing(t) : TakeAndReport(Taken(t), t, r)
  /\ UNCHANGED <<oldCntr, queued, nextTsn, outstanding, fresh, answers, gaveUp, history>>

\* handle_response / report_failed: the send to the host.
Report ==
  /\ zb.pc = "report"
  /\ Answer(zb.req)
  /\ zb' = Idle
  /\ UNCHANGED <<slot, oldCntr, queued, nextTsn, outstanding, fresh, gaveUp, history>>

Next ==
  \/ \E r \in Req : Process(r)
  \/ \E i \in Slot : DoRequest(i)
  \/ Publish
  \/ \E t \in 0 .. Tsn - 1 : Callback(t)
  \/ \E t \in 0 .. Tsn - 1 : Intercept(t)
  \/ Report

Spec == Init /\ [][Next]_vars

\* ZBOSS runs its queue and always calls back, with its own timeout if need be.
Fairness ==
  /\ \A i \in Slot : WF_vars(DoRequest(i))
  /\ \A t \in 0 .. Tsn - 1 : WF_vars(Callback(t))
  /\ WF_vars(Publish)
  /\ WF_vars(Report)

FairSpec == Spec /\ Fairness

------------------------------------------------------------------------------
\* Every variable has its type.
TypeOK ==
  /\ slot \in [Slot -> SlotRec]
  /\ oldCntr \in Nat
  /\ queued \in [Slot -> Nat]
  /\ nextTsn \in 0 .. Tsn - 1
  /\ outstanding \in [0 .. Tsn - 1 -> Req \cup {NoReq}]
  /\ zb \in ZbRec
  /\ fresh \in SUBSET Req
  /\ answers \in [Req -> Nat]
  /\ gaveUp \in SUBSET Req
  /\ sentUnder \in [0 .. Tsn - 1 -> SUBSET Req]
  /\ newest \in [0 .. Tsn - 1 -> Req \cup {NoReq}]

\* An answer to the newest transaction under a number goes to that transaction's
\* request and to no other, whenever it arrives and however often: also after the
\* slot was displaced and taken over, after the intercept answered ahead of the
\* stack, and when the numbers have come round.  An answer older than that is taken
\* for the newest: the code has nothing to tell them apart by.
ReplyFidelity == zb.pc = "report" /\ zb.about = newest[zb.tsn] => zb.req = zb.about

\* The host gets at most one response per request: after an intercept the
\* stack's own (timeout) callback finds nothing to answer.
AtMostOneAnswer == \A r \in Req : answers[r] <= 1

\* Every accepted request is answered or displaced by a later one.
EventuallySettled ==
  \A r \in Req : Holds(slot, r) ~> (answers[r] = 1 \/ r \in gaveUp)
==============================================================================
