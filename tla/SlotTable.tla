------------------------------ MODULE SlotTable ------------------------------
(***************************************************************************)
(* request_cmd_resolver<CmdId,Arg>: the fixed table of asynchronous        *)
(* requests one command type keeps, and the operations on it that run      *)
(* under request_resolver_mutex.  The operators are pure: each takes a     *)
(* table (a function from slot index to slot record) and returns the table *)
(* the critical section leaves.  ApsdeSlots and ZdoSlots build on them.    *)
(***************************************************************************)
EXTENDS Naturals

CONSTANTS MAX_PARALLEL_REQUESTS,  \* slots per command type (16 in zb_ncp.h)
          Req,                    \* the host's requests: one value per frame accepted
          NoReq                   \* "no request"

ASSUME SlotAssumption ==
  /\ MAX_PARALLEL_REQUESTS \in Nat \ {0}
  /\ NoReq \notin Req

Slot == 0 .. MAX_PARALLEL_REQUESTS - 1

\* request_t::state_t without its S_ prefix
SlotState == {"NONE", "ALLOCATION", "EXEC"}

InState(tab, st) == {i \in DOMAIN tab : tab[i].state = st}

\* Mutant of Picked: with no free slot the oldest of all is taken, reserved or not.
PickedAny(tab) ==
  IF InState(tab, "NONE") # {}
  THEN {i \in InState(tab, "NONE") : \A j \in InState(tab, "NONE") : i <= j}
  ELSE {i \in DOMAIN tab : \A j \in DOMAIN tab : tab[i].old <= tab[j].old}

(***************************************************************************)
(* start_resolve, the scan: the first free slot; with none free the        *)
(* S_EXEC slot holding the smallest allocation number; the empty set when  *)
(* every slot is S_ALLOCATION.                                             *)
(***************************************************************************)
Picked(tab) ==
  IF InState(tab, "NONE") # {}
  THEN {i \in InState(tab, "NONE") : \A j \in InState(tab, "NONE") : i <= j}
  ELSE {i \in InState(tab, "EXEC") :
          \A j \in InState(tab, "EXEC") : tab[i].old <= tab[j].old}

\* start_resolve, the claim: the slot now carries r under allocation number n.
Claim(tab, i, r, n) ==
  [tab EXCEPT ![i].state = "ALLOCATION", ![i].req = r, ![i].old = n]

\* Every path that gives a slot back writes S_NONE and leaves the rest stale.
Release(tab, I) ==
  [i \in DOMAIN tab |-> IF i \in I THEN [tab[i] EXCEPT !.state = "NONE"] ELSE tab[i]]

\* The requests a claim of slot i displaces: what an S_EXEC slot still carried.
Displaced(tab, i) == IF tab[i].state = "EXEC" THEN {tab[i].req} ELSE {}

\* r occupies a slot of the table.
Holds(tab, r) == \E i \in DOMAIN tab : tab[i].state # "NONE" /\ tab[i].req = r
==============================================================================
