--------------------------- MODULE CommandDelivery ---------------------------
(***************************************************************************)
(* What the link layer promises the two ends: within one boot the firmware *)
(* executes the host's commands in order and none twice, and a command the *)
(* host sees acknowledged has been executed.                               *)
(***************************************************************************)
EXTENDS Naturals

VARIABLES executed,   \* the last command executed in this boot, 0 if none
          ever,       \* the commands executed in any boot
          confirmed   \* the commands the host has seen acknowledged

Init == executed = 0 /\ ever = {} /\ confirmed = {}

\* A later command than any of this boot.
Execute ==
  /\ executed' \in Nat
  /\ executed' > executed
  /\ ever' = ever \cup {executed'}
  /\ UNCHANGED confirmed

Confirm ==
  \E c \in ever :
    /\ confirmed' = confirmed \cup {c}
    /\ UNCHANGED <<executed, ever>>

Reboot == executed' = 0 /\ UNCHANGED <<ever, confirmed>>

Spec == Init /\ [][Execute \/ Confirm \/ Reboot]_<<executed, ever, confirmed>>
==============================================================================
