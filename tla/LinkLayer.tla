------------------------------ MODULE LinkLayer ------------------------------
(***************************************************************************)
(* The link between host and firmware: on_rx_packet's acknowledgement and  *)
(* duplicate drop (DUP-1), against a host that retransmits with a stable   *)
(* packet_seq and the RETRANSMIT flag (external: zigpy-zboss >= 2.0.0 and  *)
(* zigbee-herdsman, as test/dup_drop_check.py replays them).               *)
(*                                                                         *)
(* The serial line delivers in order but loses and corrupts frames; the    *)
(* firmware may reboot.  The host's own ACKs change nothing in             *)
(* on_rx_packet and are left out.                                          *)
(***************************************************************************)
EXTENDS Naturals, Sequences

CONSTANTS HostSeqs,      \* numbers the host's packet_seq cycles through, from 1
          MAX_TRIES,     \* transmissions before the host gives a command up
          MAX_COMMANDS,  \* bounds: commands, faults on the line, commands given
          MAX_FAULTS,    \*   up in a row, and reboots considered
          MAX_GIVEUPS,
          MAX_REBOOTS

ASSUME LinkAssumption ==
  /\ {HostSeqs, MAX_TRIES} \subseteq Nat \ {0}
  /\ {MAX_COMMANDS, MAX_FAULTS, MAX_GIVEUPS, MAX_REBOOTS} \subseteq Nat

VARIABLES
  cmd,        \* the host's command under way, 0 before the first
  waiting,    \* the host waits for cmd's ACK
  tries,      \* transmissions of cmd so far
  up,         \* line to the firmware: [cmd, seq, retransmit], oldest first
  down,       \* line to the host: [ack_seq, nack]
  lastSeq,    \* m_last_rx_seq
  lastValid,  \* m_last_rx_seq_valid
  executed,   \* history: last command dispatched in this boot
  ever,       \* history: commands dispatched
  confirmed,  \* history: commands the host saw acknowledged
  faults, reboots,
  giveUps     \* commands given up since one was confirmed

host == <<cmd, waiting, tries>>
ncp == <<lastSeq, lastValid>>
bounds == <<faults, giveUps, reboots>>
vars == <<host, up, down, ncp, executed, ever, confirmed, bounds>>

\* The number the host puts on command c.
PacketSeq(c) == 1 + ((c - 1) % HostSeqs)

Init ==
  /\ cmd = 0 /\ waiting = FALSE /\ tries = 0
  /\ up = <<>> /\ down = <<>>
  /\ lastSeq = 0 /\ lastValid = FALSE
  /\ executed = 0 /\ ever = {} /\ confirmed = {}
  /\ faults = 0 /\ giveUps = 0 /\ reboots = 0

------------------------------------------------------------------------------
(* The host (external). *)

Transmit(c, retransmit) ==
  up' = Append(up, [cmd |-> c, seq |-> PacketSeq(c), retransmit |-> retransmit])

HostSend ==
  /\ ~waiting
  /\ cmd < MAX_COMMANDS
  /\ cmd' = cmd + 1 /\ waiting' = TRUE /\ tries' = 1
  /\ Transmit(cmd + 1, FALSE)
  /\ UNCHANGED <<down, ncp, executed, ever, confirmed, bounds>>

\* The ACK timeout runs out, whether or not the ACK is on its way.
HostTimeout ==
  /\ waiting /\ tries < MAX_TRIES
  /\ tries' = tries + 1
  /\ Transmit(cmd, TRUE)
  /\ UNCHANGED <<cmd, waiting, down, ncp, executed, ever, confirmed, bounds>>

\* The last transmission has timed out too: the host gives the command up.
HostGivesUp ==
  /\ waiting /\ tries = MAX_TRIES /\ giveUps < MAX_GIVEUPS
  /\ giveUps' = giveUps + 1
  /\ waiting' = FALSE
  /\ UNCHANGED <<cmd, tries, up, down, ncp, executed, ever, confirmed, faults, reboots>>

\* An ACK for the frame under way ends the wait; a NACK leaves it to the timeout.
HostReceive ==
  /\ down # <<>>
  /\ down' = Tail(down)
  /\ IF waiting /\ ~Head(down).nack /\ Head(down).ack_seq = PacketSeq(cmd)
     THEN waiting' = FALSE /\ confirmed' = confirmed \cup {cmd} /\ giveUps' = 0
     ELSE UNCHANGED <<waiting, confirmed, giveUps>>
  /\ UNCHANGED <<cmd, tries, up, ncp, executed, ever, faults, reboots>>

------------------------------------------------------------------------------
(* The firmware. *)

SendAck(f) == down' = Append(down, [ack_seq |-> f.seq, nack |-> FALSE])
SendNack(f) == down' = Append(down, [ack_seq |-> f.seq, nack |-> TRUE])

\* Mutant of IsDuplicate: every flagged frame (before DUP-1).
IsDuplicateFlag(f) == f.retransmit

\* A flagged frame bearing the number of the last one accepted.
IsDuplicate(f) == f.retransmit /\ lastValid /\ f.seq = lastSeq

\* app::on_rx_data
Dispatch(f) == executed' = f.cmd /\ ever' = ever \cup {f.cmd}

\* Mutant of OnRxPacket: a duplicate is dropped without an ACK (before DUP-1).
OnRxPacketSilent(f) ==
  IF IsDuplicate(f)
  THEN UNCHANGED <<down, ncp, executed, ever>>
  ELSE SendAck(f) /\ lastSeq' = f.seq /\ lastValid' = TRUE /\ Dispatch(f)

\* on_rx_packet on a data frame that arrived whole.
OnRxPacket(f) ==
  /\ SendAck(f)
  /\ IF IsDuplicate(f)
     THEN UNCHANGED <<ncp, executed, ever>>
     ELSE /\ lastSeq' = f.seq /\ lastValid' = TRUE
          /\ Dispatch(f)

Receive ==
  /\ up # <<>>
  /\ up' = Tail(up)
  /\ OnRxPacket(Head(up))
  /\ UNCHANGED <<host, confirmed, bounds>>

\* on_rx_int, the data CRC fails: NACK, and the frame is skipped.
ReceiveCorrupted ==
  /\ up # <<>> /\ faults < MAX_FAULTS
  /\ up' = Tail(up)
  /\ SendNack(Head(up))
  /\ faults' = faults + 1
  /\ UNCHANGED <<host, ncp, executed, ever, confirmed, giveUps, reboots>>

\* The line loses a frame on its way to the firmware, or one to the host; a
\* corrupted header is a lost frame.
Lose ==
  /\ faults < MAX_FAULTS
  /\ faults' = faults + 1
  /\ \/ up # <<>> /\ up' = Tail(up) /\ UNCHANGED down
     \/ down # <<>> /\ down' = Tail(down) /\ UNCHANGED up
  /\ UNCHANGED <<host, ncp, executed, ever, confirmed, giveUps, reboots>>

\* The firmware restarts: init_int forgets the last number, what was on its way
\* is gone.  The host notices nothing and goes on retransmitting.
Reboot ==
  /\ reboots < MAX_REBOOTS
  /\ reboots' = reboots + 1
  /\ lastSeq' = 0 /\ lastValid' = FALSE
  /\ executed' = 0
  /\ up' = <<>> /\ down' = <<>>
  /\ UNCHANGED <<host, ever, confirmed, faults, giveUps>>

Next ==
  \/ HostSend \/ HostTimeout \/ HostGivesUp \/ HostReceive
  \/ Receive \/ ReceiveCorrupted \/ Lose \/ Reboot

Spec == Init /\ [][Next]_vars

\* The host's timer runs, and both ends read what has arrived.  Nothing makes the
\* host give up, so that giving up is no way for a command to come to its end.
FairSpec ==
  Spec /\ WF_vars(HostSend) /\ WF_vars(HostTimeout) /\ WF_vars(HostReceive) /\ WF_vars(Receive)

------------------------------------------------------------------------------

\* The link delivers as CommandDelivery promises: in order, at most once in a
\* boot, and acknowledged means executed -- through lost frames, lost ACKs,
\* NACKs, a timeout racing a late ACK, and reboots.
Delivers == INSTANCE CommandDelivery
              WITH executed <- executed, ever <- ever, confirmed <- confirmed
DeliveryHolds == Delivers!Spec

\* With more transmissions than faults and reboots the wait for an ACK ends, unless a
\* reboot takes what is on its way: a duplicate is acknowledged again each time, also
\* after a command given up or a reboot.
WaitsEnd ==
  \A c \in 1 .. MAX_COMMANDS, n \in 0 .. MAX_REBOOTS :
    (cmd = c /\ tries = 1 /\ waiting /\ reboots = n) ~> (cmd # c \/ ~waiting \/ reboots # n)
==============================================================================
