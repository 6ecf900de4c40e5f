---------------------------- MODULE MCApsdeSlots -----------------------------
(* Instances of ApsdeSlots for TLC, and the mutants of its definitions. *)
EXTENDS ApsdeSlots, TLC

CONSTANTS r1, r2, r3, b1, b2, b3

MCReq3 == {r1, r2, r3}
MCBuf2 == {b1, b2}
==============================================================================
