----------------------------- MODULE FrameStream ------------------------------
(***************************************************************************)
(* What the receive path promises the dispatcher, whatever the lines, the  *)
(* buffers and the two readers do: each frame it hands on is one that a    *)
(* host sent, unaltered, and no host's frames are repeated or reordered.   *)
(* Frames may be lost; the link layer's acknowledgements see to that.      *)
(* A host numbers its frames upwards, so that its order is that of Nat.    *)
(***************************************************************************)
EXTENDS Naturals, Sequences

CONSTANTS Frame,   \* frame numbers, those of all hosts
          Sender   \* the host that sends each

VARIABLE taken     \* the frames handed on so far

Init == taken = <<>>

Take(f) ==
  /\ \A k \in DOMAIN taken : Sender[taken[k]] = Sender[f] => taken[k] < f
  /\ taken' = Append(taken, f)

Next == \E f \in Frame : Take(f)

Spec == Init /\ [][Next]_taken
==============================================================================
