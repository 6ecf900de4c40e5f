----------------------------- MODULE MCZdoSlots ------------------------------
(* Instances of ZdoSlots for TLC. *)
EXTENDS ZdoSlots

CONSTANTS r1, r2, r3, r4

MCReq4 == {r1, r2, r3, r4}

\* The numbers go round, so it does not matter which one ZBOSS begins with: the
\* run takes one beginning, the theorems every one.
MCInit == nextTsn = 0 /\ Init
MCFairSpec == MCInit /\ [][Next]_vars /\ Fairness
==============================================================================
