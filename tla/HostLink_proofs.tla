--------------------------- MODULE HostLink_proofs ----------------------------
(***************************************************************************)
(* The host link, its two layers one after the other.                      *)
(*                                                                         *)
(* LinkLayer implements CommandDelivery, for any number of commands,       *)
(* transmissions, faults and reboots, as long as the numbers the host      *)
(* cycles through outlast the commands it gives up in a row.               *)
(*                                                                         *)
(* Two numbers are compared in on_rx_packet and one in the host.  That a   *)
(* number always means one command rests on the window: every frame and    *)
(* every ACK on the line is about a command from the last one confirmed on *)
(* to the one under way, and those have different numbers.                 *)
(*                                                                         *)
(* RxPath implements FrameStream, for any lines, cut into reads in any way *)
(* and pumped through buffers of any size.  Bytes are only ever moved      *)
(* forward or dropped, by two readers and the app task between them: the   *)
(* CRCs that are on a line, in what a reader holds, in the stream and in   *)
(* m_rx_buffer stay in the order in which the host sent them.  That the    *)
(* bytes an event announces are there to be taken rests on what m_queue    *)
(* claims of the stream; where answers go, on who has spoken on its line.  *)
(***************************************************************************)
EXTENDS LinkLayer, RxPath, Integers, FiniteSetTheorems, FunctionTheorems, WellFoundedInduction, TLAPS

------------------------------------------------------------------------------
(* LinkLayer. *)

\* The host's numbers outlast what it gives up in a row.
NumbersOutlast == MAX_GIVEUPS + 2 <= HostSeqs

Acks == {k \in DOMAIN down : ~down[k].nack}

FrameRec == [cmd : Nat, seq : Nat, retransmit : BOOLEAN]
AckRec == [ack_seq : Nat, nack : BOOLEAN]

Types ==
  /\ cmd \in Nat /\ executed \in Nat /\ giveUps \in 0 .. MAX_GIVEUPS
  /\ up \in Seq(FrameRec) /\ down \in Seq(AckRec)

\* What the firmware remembers is the number of the last command it executed.
Remembers ==
  /\ lastValid => executed >= 1 /\ lastSeq = PacketSeq(executed)
  /\ ~lastValid => executed = 0
  /\ executed = 0 \/ executed \in ever

\* Frames arrive in the order of the commands; nothing of a command is ahead of its first.
InOrder ==
  /\ \A k \in DOMAIN up : up[k].seq = PacketSeq(up[k].cmd) /\ executed <= up[k].cmd
  /\ \A j, k \in DOMAIN up : j < k => up[j].cmd <= up[k].cmd
  /\ \A k \in DOMAIN up : ~up[k].retransmit =>
       executed < up[k].cmd /\ \A j \in DOMAIN up : j < k => up[j].cmd < up[k].cmd

\* Every command from l on is given up, but for the one under way ...
Since(l) ==
  /\ l \in Nat /\ l <= cmd
  /\ cmd - l <= giveUps + (IF waiting THEN 1 ELSE 0)
  /\ waiting => l < cmd

\* ... and nothing on the line or in the firmware is about a command before l.
Window(l) ==
  /\ Since(l)
  /\ executed = 0 \/ l <= executed
  /\ executed <= cmd
  /\ \A k \in DOMAIN up : l <= up[k].cmd /\ 1 <= up[k].cmd /\ up[k].cmd <= cmd
  /\ \A k \in Acks : \E c \in ever :
       c \in Nat /\ 1 <= c /\ l <= c /\ c <= executed /\ down[k].ack_seq = PacketSeq(c)

\* Behind an ACK of the command under way there are only others of it.
AcksInOrder ==
  waiting => \A j, k \in Acks :
    j < k /\ down[j].ack_seq = PacketSeq(cmd) => down[k].ack_seq = PacketSeq(cmd)

Inv == Types /\ Remembers /\ InOrder /\ AcksInOrder /\ \E l \in Nat : Window(l)
------------------------------------------------------------------------------
(* Packet numbers. *)

\* Two commands less than a cycle apart have different numbers.
LEMMA NumbersDiffer ==
  ASSUME NEW c \in Nat, NEW e \in Nat, 1 <= c, c <= e, e - c < HostSeqs,
         PacketSeq(c) = PacketSeq(e)
  PROVE  c = e
<1> DEFINE H == HostSeqs
           q(n) == (n - 1) \div H
<1>0. H \in Nat /\ H > 0
  BY LinkAssumption
<1>1. \A n \in Nat : n >= 1 => q(n) \in Int /\ n - 1 = H * q(n) + ((n - 1) % H)
  BY <1>0
<1>2. (c - 1) % H = (e - 1) % H
  BY <1>0 DEF PacketSeq
<1>3. q(c) \in Int /\ q(e) \in Int /\ e - c = H * q(e) - H * q(c)
  BY <1>1, <1>2, <1>0
<1> HIDE DEF q, H
<1>4. \A a, b \in Int : H * a - H * b = H * (a - b)
  BY <1>0
<1>5. \A k \in Int : (k >= 1 => H * k >= H) /\ (k <= 0 => H * k <= 0)
  BY <1>0
<1>6. e - c < H
  BY DEF H
<1> QED BY <1>0, <1>3, <1>4, <1>5, <1>6

\* So do two commands in a window.
LEMMA WindowNumbers ==
  ASSUME NumbersOutlast, Types, NEW l \in Nat, Since(l),
         NEW c \in Nat, NEW e \in Nat, 1 <= c, 1 <= e, l <= c, l <= e, c <= cmd, e <= cmd,
         PacketSeq(c) = PacketSeq(e)
  PROVE  c = e
<1>1. MAX_GIVEUPS \in Nat /\ HostSeqs \in Nat
  BY LinkAssumption
<1>2. cmd - l < HostSeqs
  BY <1>1 DEF NumbersOutlast, Types, Since
<1>3. CASE c <= e
  <2>1. e - c < HostSeqs
    BY <1>1, <1>2 DEF Types
  <2> QED BY <1>3, <2>1, NumbersDiffer
<1>4. CASE e <= c
  <2>1. c - e < HostSeqs
    BY <1>1, <1>2 DEF Types
  <2> QED BY <1>4, <2>1, NumbersDiffer
<1> QED BY <1>3, <1>4

------------------------------------------------------------------------------
(* What happens to the lines. *)

\* A line without its first frame.
LEMMA TailIs ==
  ASSUME NEW S, NEW s \in Seq(S), s # <<>>
  PROVE  /\ Tail(s) \in Seq(S) /\ Head(s) = s[1] /\ s[1] \in S /\ 1 \in DOMAIN s
         /\ \A k \in DOMAIN Tail(s) : Tail(s)[k] = s[k + 1] /\ k + 1 \in DOMAIN s /\ 1 < k + 1
         /\ \A j, k \in DOMAIN Tail(s) : j < k => j + 1 < k + 1
OBVIOUS

\* A line with one more frame.
LEMMA AppendIs ==
  ASSUME NEW S, NEW s \in Seq(S), NEW f \in S
  PROVE  /\ Append(s, f) \in Seq(S)
         /\ \A k \in DOMAIN Append(s, f) :
              \/ k \in DOMAIN s /\ Append(s, f)[k] = s[k]
              \/ Append(s, f)[k] = f /\ \A j \in DOMAIN Append(s, f) : j < k => j \in DOMAIN s
         /\ \A j, k \in DOMAIN Append(s, f) :
              j < k => j \in DOMAIN s /\ Append(s, f)[j] = s[j]
OBVIOUS

LEMMA NumberIsNat == \A c \in Nat : c >= 1 => PacketSeq(c) \in Nat
BY LinkAssumption DEF PacketSeq

LEMMA InvInit == Init => Inv
<1> SUFFICES ASSUME Init PROVE Inv
  OBVIOUS
<1>1. Types /\ Remembers /\ InOrder /\ AcksInOrder
  BY LinkAssumption DEF Init, Types, Remembers, InOrder, AcksInOrder, Acks
<1>2. Window(0)
  BY DEF Init, Window, Since, Acks
<1> QED BY <1>1, <1>2 DEF Inv

\* Frames going from the line to the firmware, ACKs from the line to the host.
LEMMA LinesShorten ==
  ASSUME Inv, NEW l \in Nat, Window(l),
         up' = up \/ (up # <<>> /\ up' = Tail(up)),
         down' = down \/ (down # <<>> /\ down' = Tail(down)),
         UNCHANGED <<cmd, waiting, giveUps, lastSeq, lastValid, executed, ever>>
  PROVE  Inv'
<1>0. up \in Seq(FrameRec) /\ down \in Seq(AckRec)
  BY DEF Inv, Types
<1>1. up' \in Seq(FrameRec) /\ down' \in Seq(AckRec)
  BY <1>0, TailIs
<1>2. PICK a \in {0, 1} : \A k \in DOMAIN up' : up'[k] = up[k + a] /\ k + a \in DOMAIN up /\ k \in Int
  <2>1. CASE up' = up
    BY <2>1, <1>0
  <2>2. CASE up # <<>> /\ up' = Tail(up)
    BY <2>2, <1>0, TailIs
  <2> QED BY <2>1, <2>2
<1>3. PICK b \in {0, 1} : \A k \in DOMAIN down' : down'[k] = down[k + b] /\ k + b \in DOMAIN down /\ k \in Int
  <2>1. CASE down' = down
    BY <2>1, <1>0
  <2>2. CASE down # <<>> /\ down' = Tail(down)
    BY <2>2, <1>0, TailIs
  <2> QED BY <2>1, <2>2
<1>4. Types' /\ Remembers'
  BY <1>1 DEF Inv, Types, Remembers
<1>5. InOrder'
  <2>1. \A k \in DOMAIN up' : up'[k].seq = PacketSeq(up'[k].cmd) /\ executed <= up'[k].cmd
    BY <1>2 DEF Inv, InOrder
  <2>2. \A j, k \in DOMAIN up' : j < k => j + a < k + a
    BY <1>2
  <2>3. \A j, k \in DOMAIN up' : j < k => up'[j].cmd <= up'[k].cmd
    BY <1>2, <2>2 DEF Inv, InOrder
  <2>4. \A k \in DOMAIN up' : ~up'[k].retransmit =>
          executed < up'[k].cmd /\ \A j \in DOMAIN up' : j < k => up'[j].cmd < up'[k].cmd
    BY <1>2, <2>2 DEF Inv, InOrder
  <2> QED BY <2>1, <2>3, <2>4 DEF InOrder
<1>6. \A k \in Acks' : k + b \in Acks
  BY <1>3 DEF Acks
<1>7. AcksInOrder'
  BY <1>3, <1>6 DEF Inv, AcksInOrder, Acks
<1>8. Window(l)'
  BY <1>2, <1>3, <1>6 DEF Window, Since, Acks
<1> QED BY <1>4, <1>5, <1>7, <1>8 DEF Inv

\* The ACK sent for a frame.
LEMMA SendAckIs ==
  ASSUME Types, NEW f \in FrameRec, SendAck(f)
  PROVE  /\ down' \in Seq(AckRec)
         /\ \A k \in Acks' : \/ k \in Acks /\ down'[k] = down[k]
                             \/ down'[k].ack_seq = f.seq
         /\ \A j, k \in Acks' : j < k => j \in Acks /\ down'[j] = down[j]
<1> DEFINE a == [ack_seq |-> f.seq, nack |-> FALSE]
<1>1. a \in AckRec /\ down \in Seq(AckRec) /\ down' = Append(down, a) /\ a.ack_seq = f.seq
  BY DEF AckRec, FrameRec, Types, SendAck
<1> HIDE DEF a
<1> QED BY <1>1, AppendIs DEF Acks

\* The host puts a frame of the command under way on the line.
LEMMA TransmitIs ==
  ASSUME NumbersOutlast, Inv, NEW l \in Nat, Window(l), NEW r \in BOOLEAN,
         cmd' \in Nat, cmd' >= 1, Transmit(cmd', r), waiting', giveUps' = giveUps,
         \/ r /\ cmd' = cmd /\ waiting
         \/ ~r /\ cmd' = cmd + 1 /\ ~waiting,
         UNCHANGED <<down, lastSeq, lastValid, executed, ever>>
  PROVE  Inv'
<1> DEFINE f == [cmd |-> cmd', seq |-> PacketSeq(cmd'), retransmit |-> r]
<1>0. /\ up \in Seq(FrameRec) /\ cmd \in Nat /\ executed \in Nat /\ cmd <= cmd' /\ executed <= cmd
      /\ giveUps \in Nat
  BY LinkAssumption DEF Inv, Types, Window
<1>1. /\ f \in FrameRec /\ up' = Append(up, f)
      /\ f.cmd = cmd' /\ f.seq = PacketSeq(cmd') /\ f.retransmit = r
  BY NumberIsNat DEF FrameRec, Transmit
<1> HIDE DEF f
<1>2. /\ up' \in Seq(FrameRec)
      /\ \A k \in DOMAIN up' : \/ k \in DOMAIN up /\ up'[k] = up[k]
                               \/ up'[k] = f /\ \A j \in DOMAIN up' : j < k => j \in DOMAIN up
      /\ \A j, k \in DOMAIN up' : j < k => j \in DOMAIN up /\ up'[j] = up[j]
  BY <1>0, <1>1, AppendIs
<1>3. \A k \in DOMAIN up : up[k].cmd \in Nat /\ up[k].cmd <= cmd
  <2>1. \A k \in DOMAIN up : up[k] \in FrameRec
    BY <1>0
  <2> QED BY <2>1 DEF Window, FrameRec
<1>4. Types' /\ Remembers'
  BY <1>2 DEF Inv, Types, Remembers
<1>5. InOrder'
  <2>1. \A k \in DOMAIN up' : up'[k].seq = PacketSeq(up'[k].cmd) /\ executed <= up'[k].cmd
    BY <1>0, <1>1, <1>2 DEF Inv, InOrder
  <2>2. \A j, k \in DOMAIN up' : j < k => up'[j].cmd <= up'[k].cmd
    BY <1>0, <1>1, <1>2, <1>3 DEF Inv, InOrder
  <2>3. ASSUME NEW k \in DOMAIN up', ~up'[k].retransmit
        PROVE  executed < up'[k].cmd /\ \A j \in DOMAIN up' : j < k => up'[j].cmd < up'[k].cmd
    <3>1. CASE k \in DOMAIN up /\ up'[k] = up[k]
      BY <1>2, <2>3, <3>1 DEF Inv, InOrder
    <3>2. CASE up'[k] = f
      <4>1. cmd' = cmd + 1
        BY <1>1, <2>3, <3>2
      <4> QED BY <1>0, <1>1, <1>2, <1>3, <3>2, <4>1
    <3> QED BY <1>2, <3>1, <3>2
  <2> QED BY <2>1, <2>2, <2>3 DEF InOrder
<1>6. Window(l)'
  <2>1. Since(l)'
    BY <1>0 DEF Window, Since
  <2>2. \A k \in DOMAIN up' : l <= up'[k].cmd /\ 1 <= up'[k].cmd /\ up'[k].cmd <= cmd'
    BY <1>0, <1>1, <1>2, <1>3, <2>1, SMTT(30) DEF Window, Since
  <2> QED BY <1>0, <2>1, <2>2 DEF Window, Acks
<1>7. AcksInOrder'
  <2>1. CASE cmd' = cmd /\ waiting
    BY <2>1 DEF Inv, AcksInOrder, Acks
  <2>2. CASE cmd' = cmd + 1
    <3>1. ASSUME NEW k \in Acks, down[k].ack_seq = PacketSeq(cmd')
          PROVE  FALSE
      <4>1. PICK c \in ever : c \in Nat /\ 1 <= c /\ l <= c /\ c <= executed /\ down[k].ack_seq = PacketSeq(c)
        BY DEF Window
      <4>2. /\ c \in Nat /\ 1 <= c /\ l <= c /\ c < cmd' /\ cmd' \in Nat
            /\ PacketSeq(c) = PacketSeq(cmd')
        BY <1>0, <2>2, <3>1, <4>1
      <4>3. cmd' - l <= giveUps + 1
        <5>1. Since(l)'
          BY <1>6 DEF Window
        <5> QED BY <5>1 DEF Since
      <4>4. giveUps + 1 < HostSeqs
        <5>1. giveUps \in 0 .. MAX_GIVEUPS
          BY DEF Inv, Types
        <5> QED BY <5>1, LinkAssumption DEF NumbersOutlast
      <4>5. cmd' - c < HostSeqs
        <5>1. HostSeqs \in Nat /\ giveUps \in Nat
          BY <1>0, LinkAssumption
        <5> QED BY <4>2, <4>3, <4>4, <5>1
      <4> QED BY <4>2, <4>5, NumbersDiffer
    <3> QED BY <3>1 DEF AcksInOrder, Acks
  <2> QED BY <2>1, <2>2
<1> QED BY <1>4, <1>5, <1>6, <1>7 DEF Inv

LEMMA InvNext ==
  ASSUME NumbersOutlast, Inv, [Next]_vars
  PROVE  Inv'
<1> PICK l \in Nat : Window(l)
  BY DEF Inv
<1>typed. /\ cmd \in Nat /\ executed \in Nat /\ giveUps \in 0 .. MAX_GIVEUPS
          /\ up \in Seq(FrameRec) /\ down \in Seq(AckRec)
          /\ MAX_GIVEUPS \in Nat /\ Since(l)
  BY LinkAssumption DEF Inv, Types, Window
<1>1. CASE HostSend
  <2>1. /\ cmd' = cmd + 1 /\ waiting' /\ ~waiting /\ Transmit(cmd', FALSE)
        /\ UNCHANGED <<down, lastSeq, lastValid, executed, ever, giveUps>>
    BY <1>1 DEF HostSend, ncp, bounds
  <2>2. cmd' \in Nat /\ cmd' >= 1
    BY <2>1, <1>typed
  <2> QED BY <2>1, <2>2, <1>typed, TransmitIs
<1>2. CASE HostTimeout
  <2>1. /\ cmd' = cmd /\ waiting' /\ waiting /\ Transmit(cmd', TRUE)
        /\ UNCHANGED <<down, lastSeq, lastValid, executed, ever, giveUps>>
    BY <1>2 DEF HostTimeout, ncp, bounds
  <2>2. cmd >= 1
    BY <2>1, <1>typed DEF Since
  <2> QED BY <2>1, <2>2, <1>typed, TransmitIs
<1>3. CASE HostGivesUp
  <2>1. /\ waiting /\ ~waiting' /\ giveUps' = giveUps + 1 /\ giveUps < MAX_GIVEUPS
        /\ UNCHANGED <<cmd, up, down, lastSeq, lastValid, executed, ever>>
    BY <1>3 DEF HostGivesUp, ncp
  <2>2. Types' /\ Remembers' /\ InOrder' /\ AcksInOrder'
    BY <2>1, <1>typed DEF Inv, Types, Remembers, InOrder, AcksInOrder
  <2>3. Window(l)'
    BY <2>1, <1>typed DEF Window, Since, Acks
  <2> QED BY <2>2, <2>3 DEF Inv
<1>4. CASE HostReceive
  <2>1. /\ down # <<>> /\ down' = Tail(down)
        /\ UNCHANGED <<cmd, up, lastSeq, lastValid, executed, ever>>
    BY <1>4 DEF HostReceive, ncp
  <2>2. CASE UNCHANGED <<waiting, confirmed, giveUps>>
    BY <2>1, <2>2, LinesShorten
  <2>3. CASE /\ waiting /\ ~Head(down).nack /\ Head(down).ack_seq = PacketSeq(cmd)
             /\ ~waiting' /\ giveUps' = 0
    <3>1. /\ down' \in Seq(AckRec) /\ 1 \in Acks /\ down[1].ack_seq = PacketSeq(cmd)
          /\ \A k \in Acks' : k + 1 \in Acks /\ down'[k] = down[k + 1] /\ 1 < k + 1
      BY <2>1, <2>3, <1>typed, TailIs DEF Acks
    <3>2. PICK c \in ever :
            c \in Nat /\ 1 <= c /\ l <= c /\ c <= executed /\ down[1].ack_seq = PacketSeq(c)
      BY <3>1 DEF Window
    <3>3. 1 <= cmd /\ l <= cmd /\ executed <= cmd
      BY <2>3, <1>typed DEF Window, Since
    <3>4. c = cmd /\ executed = cmd /\ cmd \in ever
      <4>1. c <= cmd /\ PacketSeq(c) = PacketSeq(cmd)
        BY <3>1, <3>2, <3>3, <1>typed
      <4>2. c = cmd
        BY <3>2, <3>3, <4>1, <1>typed, WindowNumbers DEF Inv
      <4> QED BY <3>2, <3>3, <4>2, <1>typed
    <3>5. \A k \in Acks' : down'[k].ack_seq = PacketSeq(cmd)
      BY <2>3, <3>1 DEF Inv, AcksInOrder
    <3>6. Types' /\ Remembers' /\ InOrder' /\ AcksInOrder'
      BY <2>1, <2>3, <3>1, <1>typed DEF Inv, Types, Remembers, InOrder, AcksInOrder
    <3>7. Window(cmd)'
      <4>1. Since(cmd)'
        BY <2>1, <2>3, <1>typed DEF Since
      <4>2. \A k \in DOMAIN up : cmd <= up[k].cmd /\ 1 <= up[k].cmd /\ up[k].cmd <= cmd
        BY <3>4 DEF Inv, InOrder, Window
      <4> QED BY <2>1, <3>3, <3>4, <3>5, <4>1, <4>2, <1>typed DEF Window
    <3> QED BY <2>1, <3>6, <3>7, <1>typed DEF Inv
  <2> QED BY <1>4, <2>2, <2>3 DEF HostReceive
<1>5. CASE Receive
  <2> DEFINE f == Head(up)
  <2>1. /\ up # <<>> /\ up' = Tail(up) /\ SendAck(f)
        /\ UNCHANGED <<cmd, waiting, giveUps>>
    BY <1>5 DEF Receive, OnRxPacket, host, bounds
  <2>2. /\ up' \in Seq(FrameRec) /\ f = up[1] /\ f \in FrameRec /\ 1 \in DOMAIN up
        /\ \A k \in DOMAIN up' : up'[k] = up[k + 1] /\ k + 1 \in DOMAIN up /\ 1 < k + 1 /\ k \in Int
        /\ \A k \in DOMAIN up' : up[k + 1] \in FrameRec
    BY <2>1, <1>typed, TailIs
  <2>3. /\ f.cmd \in Nat /\ f.seq = PacketSeq(f.cmd) /\ l <= f.cmd /\ 1 <= f.cmd /\ f.cmd <= cmd
        /\ executed <= f.cmd
        /\ ~f.retransmit => executed < f.cmd
    BY <2>2 DEF Inv, InOrder, Window, FrameRec
  <2> HIDE DEF f
  <2>4. /\ down' \in Seq(AckRec)
        /\ \A k \in Acks' : \/ k \in Acks /\ down'[k] = down[k]
                            \/ down'[k].ack_seq = f.seq
        /\ \A j, k \in Acks' : j < k => j \in Acks /\ down'[j] = down[j]
    BY <2>1, <2>2, <1>typed, SendAckIs DEF Inv
  \* Either way the firmware has now executed f.
  <2>5. /\ executed' = f.cmd /\ f.cmd \in ever'
        /\ ever \subseteq ever'
        /\ lastValid' /\ lastSeq' = PacketSeq(f.cmd)
    <3>1. CASE IsDuplicate(f)
      <4>1. /\ f.retransmit /\ lastValid /\ f.seq = lastSeq
            /\ UNCHANGED <<lastSeq, lastValid, executed, ever>>
        BY <1>5, <3>1 DEF Receive, OnRxPacket, IsDuplicate, ncp, f
      <4>2. 1 <= executed /\ lastSeq = PacketSeq(executed) /\ executed \in ever
            /\ l <= executed /\ executed <= cmd
        BY <4>1, <1>typed DEF Inv, Remembers, Window
      <4>3. executed = f.cmd
        BY <2>3, <4>1, <4>2, <1>typed, WindowNumbers DEF Inv
      <4> QED BY <4>1, <4>2, <4>3
    <3>2. CASE ~IsDuplicate(f)
      BY <1>5, <2>3, <3>2 DEF Receive, OnRxPacket, Dispatch, f
    <3> QED BY <3>1, <3>2
  <2>6. Types' /\ Remembers'
    BY <2>1, <2>2, <2>3, <2>4, <2>5, <1>typed DEF Types, Remembers
  <2>7. InOrder'
    <3>1. \A k \in DOMAIN up' : f.cmd <= up'[k].cmd /\ (~up'[k].retransmit => f.cmd < up'[k].cmd)
      BY <2>2 DEF Inv, InOrder
    <3>2. \A j, k \in DOMAIN up' : j < k => j + 1 < k + 1
      BY <2>2
    <3>3. \A j, k \in DOMAIN up' : j < k =>
            /\ up'[j].cmd <= up'[k].cmd
            /\ ~up'[k].retransmit => up'[j].cmd < up'[k].cmd
      BY <2>2, <3>2 DEF Inv, InOrder
    <3>4. \A k \in DOMAIN up' : up'[k].seq = PacketSeq(up'[k].cmd)
      BY <2>2 DEF Inv, InOrder
    <3> QED BY <2>5, <3>1, <3>3, <3>4 DEF InOrder
  <2>8. Window(l)'
    <3>1. \A k \in DOMAIN up' : l <= up'[k].cmd /\ 1 <= up'[k].cmd /\ up'[k].cmd <= cmd
      BY <2>2 DEF Window
    <3>2. ASSUME NEW k \in Acks'
          PROVE  \E c \in ever' : c \in Nat /\ 1 <= c /\ l <= c /\ c <= executed'
                                  /\ down'[k].ack_seq = PacketSeq(c)
      <4>1. CASE k \in Acks /\ down'[k] = down[k]
        <5>1. PICK c \in ever :
                c \in Nat /\ 1 <= c /\ l <= c /\ c <= executed /\ down[k].ack_seq = PacketSeq(c)
          BY <4>1 DEF Window
        <5>2. c \in ever' /\ c <= executed'
          BY <2>3, <2>5, <5>1, <1>typed
        <5> QED BY <4>1, <5>1, <5>2
      <4>2. CASE down'[k].ack_seq = f.seq
        BY <2>3, <2>5, <4>2
      <4> QED BY <2>4, <4>1, <4>2
    <3> QED BY <2>1, <2>3, <2>5, <3>1, <3>2, <1>typed DEF Window, Since
  <2>9. AcksInOrder'
    <3> SUFFICES ASSUME waiting, NEW j \in Acks', NEW k \in Acks', j < k,
                        down'[j].ack_seq = PacketSeq(cmd)
                 PROVE  down'[k].ack_seq = PacketSeq(cmd)
      BY <2>1 DEF AcksInOrder
    <3>1. j \in Acks /\ down'[j] = down[j]
      BY <2>4
    <3>2. CASE k \in Acks /\ down'[k] = down[k]
      BY <3>1, <3>2 DEF Inv, AcksInOrder
    <3>3. CASE down'[k].ack_seq = f.seq
      <4>1. PICK c \in ever :
              c \in Nat /\ 1 <= c /\ l <= c /\ c <= executed /\ down[j].ack_seq = PacketSeq(c)
        BY <3>1 DEF Window
      <4>2. 1 <= cmd /\ l <= cmd /\ c <= cmd /\ PacketSeq(c) = PacketSeq(cmd)
        BY <2>3, <3>1, <4>1, <1>typed DEF Since
      <4>3. c = cmd
        BY <4>1, <4>2, <1>typed, WindowNumbers DEF Inv
      <4>4. f.cmd = cmd
        BY <2>3, <4>1, <4>3, <1>typed
      <4> QED BY <2>3, <3>3, <4>4
    <3> QED BY <2>4, <3>2, <3>3
  <2> QED BY <2>6, <2>7, <2>8, <2>9 DEF Inv
<1>6. CASE ReceiveCorrupted
  <2> DEFINE a == [ack_seq |-> Head(up).seq, nack |-> TRUE]
  <2>1. /\ up # <<>> /\ up' = Tail(up) /\ down' = Append(down, a)
        /\ UNCHANGED <<cmd, waiting, giveUps, lastSeq, lastValid, executed, ever>>
    BY <1>6 DEF ReceiveCorrupted, SendNack, host, ncp
  <2>2. up' \in Seq(FrameRec) /\ Head(up) \in FrameRec
        /\ \A k \in DOMAIN up' : up'[k] = up[k + 1] /\ k + 1 \in DOMAIN up /\ k \in Int
    BY <2>1, <1>typed, TailIs
  <2>3. a \in AckRec /\ a.nack
    BY <2>2 DEF FrameRec, AckRec
  <2> HIDE DEF a
  <2>4. down' \in Seq(AckRec) /\ \A k \in Acks' : k \in Acks /\ down'[k] = down[k]
    BY <2>1, <2>3, <1>typed, AppendIs DEF Acks
  <2>5. Types' /\ Remembers' /\ AcksInOrder'
    BY <2>1, <2>2, <2>4, <1>typed DEF Inv, Types, Remembers, AcksInOrder
  <2>6. InOrder'
    <3>1. \A j, k \in DOMAIN up' : j < k => j + 1 < k + 1
      BY <2>2
    <3>2. \A k \in DOMAIN up' : up'[k].seq = PacketSeq(up'[k].cmd) /\ executed <= up'[k].cmd
      BY <2>2 DEF Inv, InOrder
    <3>3. \A j, k \in DOMAIN up' : j < k => up'[j].cmd <= up'[k].cmd
      BY <2>2, <3>1 DEF Inv, InOrder
    <3>4. \A k \in DOMAIN up' : ~up'[k].retransmit =>
            executed < up'[k].cmd /\ \A j \in DOMAIN up' : j < k => up'[j].cmd < up'[k].cmd
      BY <2>2, <3>1 DEF Inv, InOrder
    <3> QED BY <2>1, <3>2, <3>3, <3>4 DEF InOrder
  <2>7. Window(l)'
    BY <2>1, <2>2, <2>4, <1>typed DEF Window, Since
  <2> QED BY <2>5, <2>6, <2>7 DEF Inv
<1>7. CASE Lose
  BY <1>7, LinesShorten DEF Lose, host, ncp
<1>8. CASE Reboot
  <2>1. /\ up' = <<>> /\ down' = <<>> /\ executed' = 0 /\ ~lastValid'
        /\ UNCHANGED <<cmd, waiting, giveUps, ever>>
    BY <1>8 DEF Reboot, host
  <2>2. Types' /\ Remembers' /\ InOrder' /\ AcksInOrder'
    BY <2>1, <1>typed DEF Types, Remembers, InOrder, AcksInOrder, Acks
  <2>3. Window(l)'
    BY <2>1, <1>typed DEF Window, Since, Acks
  <2> QED BY <2>2, <2>3 DEF Inv
<1>9. CASE UNCHANGED vars
  BY <1>9, LinesShorten DEF vars, host, ncp, bounds
<1> QED BY <1>1, <1>2, <1>3, <1>4, <1>5, <1>6, <1>7, <1>8, <1>9 DEF Next

------------------------------------------------------------------------------
(* The refinement. *)

\* The link starts as CommandDelivery does, and every step of it is one of
\* CommandDelivery's or none.
LEMMA StepSimulated ==
  ASSUME NumbersOutlast, Inv, [Next]_vars
  PROVE  [Delivers!Execute \/ Delivers!Confirm \/ Delivers!Reboot]_<<executed, ever, confirmed>>
<1> PICK l \in Nat : Window(l)
  BY DEF Inv
<1>typed. /\ cmd \in Nat /\ executed \in Nat
          /\ up \in Seq(FrameRec) /\ down \in Seq(AckRec) /\ Since(l)
  BY DEF Inv, Types, Window
<1>1. CASE Receive
  <2> DEFINE f == Head(up)
  <2>1. confirmed' = confirmed
    BY <1>1 DEF Receive
  <2>2. CASE IsDuplicate(f)
    BY <1>1, <2>1, <2>2 DEF Receive, OnRxPacket
  <2>3. CASE ~IsDuplicate(f)
    <3>1. executed' = f.cmd /\ ever' = ever \cup {f.cmd}
      BY <1>1, <2>3 DEF Receive, OnRxPacket, Dispatch
    <3>2. f = up[1] /\ 1 \in DOMAIN up /\ f \in FrameRec
      BY <1>1, <1>typed, TailIs DEF Receive
    <3>3. /\ f.cmd \in Nat /\ 1 <= f.cmd /\ f.seq = PacketSeq(f.cmd) /\ executed <= f.cmd
          /\ ~f.retransmit => executed < f.cmd
      BY <3>2 DEF Inv, InOrder, Window, FrameRec
    <3>4. CASE ~f.retransmit
      BY <2>1, <3>1, <3>3, <3>4 DEF Delivers!Execute
    <3>5. CASE ~lastValid
      BY <2>1, <3>1, <3>3, <3>5 DEF Delivers!Execute, Inv, Remembers
    <3>6. CASE lastValid /\ f.seq # lastSeq
      <4>1. executed # f.cmd
        BY <3>3, <3>6 DEF Inv, Remembers
      <4> QED BY <2>1, <3>1, <3>3, <4>1, <1>typed DEF Delivers!Execute
    <3> QED BY <2>3, <3>4, <3>5, <3>6 DEF IsDuplicate
  <2> QED BY <2>2, <2>3
<1>2. CASE HostReceive
  <2>1. UNCHANGED <<executed, ever>> /\ down # <<>>
    BY <1>2 DEF HostReceive
  <2>2. CASE UNCHANGED confirmed
    BY <2>1, <2>2
  <2>3. CASE /\ waiting /\ ~Head(down).nack /\ Head(down).ack_seq = PacketSeq(cmd)
             /\ confirmed' = confirmed \cup {cmd}
    <3>1. 1 \in Acks /\ down[1].ack_seq = PacketSeq(cmd)
      BY <2>1, <2>3, <1>typed, TailIs DEF Acks
    <3>2. PICK c \in ever :
            c \in Nat /\ 1 <= c /\ l <= c /\ c <= executed /\ down[1].ack_seq = PacketSeq(c)
      BY <3>1 DEF Window
    <3>3. 1 <= cmd /\ l <= cmd /\ c <= cmd /\ PacketSeq(c) = PacketSeq(cmd)
      BY <2>3, <3>1, <3>2, <1>typed DEF Window, Since
    <3>4. c = cmd
      BY <3>2, <3>3, <1>typed, WindowNumbers DEF Inv
    <3> QED BY <2>1, <2>3, <3>2, <3>4 DEF Delivers!Confirm
  <2> QED BY <1>2, <2>2, <2>3 DEF HostReceive
<1>3. CASE Reboot
  BY <1>3 DEF Reboot, Delivers!Reboot
<1>4. CASE HostSend \/ HostTimeout \/ HostGivesUp \/ ReceiveCorrupted \/ Lose \/ UNCHANGED vars
  BY <1>4 DEF HostSend, HostTimeout, HostGivesUp, ReceiveCorrupted, Lose, vars
<1> QED BY <1>1, <1>2, <1>3, <1>4 DEF Next

\* In order, at most once in a boot, and acknowledged means executed: through any number
\* of lost and corrupted frames, lost and late ACKs, retransmissions and reboots, while the
\* host never gives up more commands in a row than its numbers can tell apart (with the
\* 2-bit packet_seq one).
THEOREM LinkDelivers ==
  ASSUME NumbersOutlast
  PROVE  Spec => DeliveryHolds
<1>1. Init => Delivers!Init
  BY DEF Init, Delivers!Init
<1> QED BY <1>1, InvInit, InvNext, StepSimulated, PTL DEF Spec, DeliveryHolds, Delivers!Spec

------------------------------------------------------------------------------
(* RxPath: the inductive invariant. *)

\* Who is between taking m_output_sem and giving it back holds it, and has something to pump.
Reading == [pc : {"read", "flip", "lock", "send", "post"}, todo : Seq(Seq(Byte)), size : Nat, tries : Nat]

RxTypes ==
  /\ line \in Lines /\ at \in [Iface -> Nat]
  /\ pendingDe \in [Iface -> BOOLEAN] /\ active \in Iface \cup {"NONE"}
  /\ reader \in [Iface -> Reading] /\ owner \in Iface \cup {"none"}
  /\ stream \in Seq(Byte) /\ rx \in Seq(Byte) /\ queue \in Seq(Nat)
  /\ dispatched \in Seq(Seq(Byte))

Pumping ==
  /\ \A i \in Iface : reader[i].pc \in {"send", "post"} => owner = i
  /\ \A i \in Iface : reader[i].pc # "read" => reader[i].todo # <<>>

\* n bytes of the stream are spoken for, all of them unless an entry was lost.
Spoken(n) == n <= Len(stream) /\ (n = Len(stream) \/ "event lost" \in mishaps)

Backed ==
  /\ IsFiniteSet(Claims(queue))
  /\ (\A i \in Iface : reader[i].pc # "post") => Spoken(Cardinality(Claims(queue)))
  /\ \A i \in Iface : reader[i].pc = "post" => Spoken(Cardinality(Claims(queue)) + reader[i].size)

\* Whose line has a DE AD.
Speaks(i) == <<DE, AD>> \in Neighbours(line[i])

Routed ==
  /\ \A i \in Iface : at[i] <= Len(line[i])
  /\ \A i \in Iface : pendingDe[i] /\ reader[i].pc # "flip" => at[i] >= 1 /\ Last(line[i][at[i]]) = DE
  /\ \A i \in Iface : reader[i].pc = "flip" \/ active = i => Speaks(i)
  /\ offered = {} \/ offered = Iface \/ \E i \in Iface : i \in offered /\ Speaks(i)

\* Frames on their way: dispatched, read and not yet pumped, not yet read.
Done == {f \in Frame : \E k \in DOMAIN dispatched : dispatched[k] = Body(f)}
Ahead(reads, n) == UNION {Crcs(reads[k]) : k \in n + 1 .. Len(reads)}
Todo(i) == Ahead(reader[i].todo, 0)
Unread(i) == Ahead(line[i], at[i])

Flowing ==
  /\ \A k \in DOMAIN dispatched : \E f \in Frame : dispatched[k] = Body(f)
  /\ CrcsInOrder(rx) /\ CrcsInOrder(stream)
  /\ Before(Done, Crcs(rx)) /\ Before(Done, Crcs(stream)) /\ Before(Crcs(rx), Crcs(stream))
  /\ \A i \in Iface :
       /\ SentInOrder(i, reader[i].todo) /\ SentInOrder(i, line[i])
       /\ Before(Done, Todo(i) \cup Unread(i))
       /\ Before(Crcs(rx), Todo(i) \cup Unread(i))
       /\ Before(Crcs(stream), Todo(i) \cup Unread(i))
       /\ Before(Todo(i), Unread(i))

RxInv == RxTypes /\ Pumping /\ Backed /\ Routed /\ Flowing
------------------------------------------------------------------------------
(* Places in sequences. *)

LEMMA MinIs ==
  ASSUME NEW S, S \subseteq Nat, S # {}
  PROVE  Min(S) \in S
<1>1. PICK x \in S : \A y \in S : ~(<<y, x>> \in OpToRel(<, Nat))
  BY WFMin, NatLessThanWellFounded
<1>2. \A y \in S : ~(y < x)
  BY <1>1 DEF OpToRel
<1>3. \A y \in S : x <= y
  BY <1>2
<1> QED BY <1>3 DEF Min

LEMMA ReadSignatureIs ==
  ASSUME NEW c \in Seq(Byte), Len(c) >= 1, Signature(c) # 0
  PROVE  /\ \E k \in 1 .. Len(c) - 1 : c[k] = DE /\ c[k + 1] = AD
         /\ Signature(c) \in 1 .. Len(c)
<1> DEFINE pairs == [k \in 1 .. Len(c) - 1 |-> <<c[k], c[k + 1]>>]
           I == {i \in 1 .. Len(pairs) : pairs[i] = <<DE, AD>>}
<1>1. Signature(c) = IF I # {} THEN Min(I) ELSE 0
  BY DEF Signature, SelectInSeq
<1>2. Len(pairs) = Len(c) - 1
  OBVIOUS
<1>3. I # {} /\ Signature(c) = Min(I)
  BY <1>1
<1>4. I \subseteq 1 .. Len(c) - 1 /\ \A k \in I : c[k] = DE /\ c[k + 1] = AD
  BY <1>2
<1>5. I \subseteq Nat
  BY <1>4
<1> HIDE DEF I, pairs
<1>6. Min(I) \in I
  BY <1>3, <1>5, MinIs
<1>7. Signature(c) \in 1 .. Len(c) - 1
  BY <1>3, <1>4, <1>6
<1> QED BY <1>4, <1>7, <1>3, <1>6

LEMMA SignatureInIs ==
  ASSUME NEW c \in Seq(Byte), SignatureIn(c) # 0
  PROVE  SignatureIn(c) \in 1 .. Len(c)
<1> DEFINE pairs == [k \in DOMAIN c |-> <<c[k], IF k = Len(c) THEN AD ELSE c[k + 1]>>]
           I == {i \in 1 .. Len(pairs) : pairs[i] = <<DE, AD>>}
<1>1. SignatureIn(c) = IF I # {} THEN Min(I) ELSE 0
  BY DEF SignatureIn, SelectInSeq
<1>2. Len(pairs) = Len(c)
  OBVIOUS
<1>3. I # {} /\ I \subseteq 1 .. Len(c) /\ SignatureIn(c) = Min(I)
  BY <1>1, <1>2
<1>4. I \subseteq Nat
  BY <1>3
<1> HIDE DEF I, pairs
<1>5. Min(I) \in I
  BY <1>3, <1>4, MinIs
<1> QED BY <1>3, <1>5

LEMMA Slice ==
  ASSUME NEW S, NEW s \in Seq(S), NEW a \in Nat \ {0}, NEW b \in Nat, b <= Len(s)
  PROVE  /\ SubSeq(s, a, b) \in Seq(S)
         /\ Len(SubSeq(s, a, b)) = IF a <= b THEN b - a + 1 ELSE 0
         /\ \A k \in 1 .. Len(SubSeq(s, a, b)) :
              SubSeq(s, a, b)[k] = s[k + a - 1] /\ k + a - 1 \in 1 .. Len(s) /\ k + a - 1 <= b
<1>1. /\ SubSeq(s, a, b) \in Seq(S)
      /\ Len(SubSeq(s, a, b)) = IF a <= b THEN b - a + 1 ELSE 0
  OBVIOUS
<1>2. ASSUME NEW k \in 1 .. Len(SubSeq(s, a, b))
      PROVE  SubSeq(s, a, b)[k] = s[k + a - 1] /\ k + a - 1 \in 1 .. Len(s) /\ k + a - 1 <= b
  <2>1. a <= b /\ k \in 1 .. b - a + 1
    BY <1>1
  <2> QED BY <2>1
<1> QED BY <1>1, <1>2

LEMMA Concat ==
  ASSUME NEW S, NEW s \in Seq(S), NEW t \in Seq(S)
  PROVE  /\ s \o t \in Seq(S) /\ Len(s \o t) = Len(s) + Len(t)
         /\ \A k \in 1 .. Len(s \o t) :
              (s \o t)[k] = IF k <= Len(s) THEN s[k] ELSE t[k - Len(s)]
OBVIOUS
------------------------------------------------------------------------------
(* CRCs in a run of bytes. *)

LEMMA CrcIn ==
  ASSUME NEW s \in Seq(Byte), NEW f \in Frame
  PROVE  f \in Crcs(s) <=> \E k \in 1 .. Len(s) : s[k] = <<"crc", f>>
<1>1. DOMAIN s = 1 .. Len(s)
  OBVIOUS
<1>2. f \in Crcs(s) <=> \E k \in DOMAIN s : s[k] = <<"crc", f>>
  BY DEF Crcs, ToSet
<1> QED BY <1>1, <1>2

LEMMA InOrderIs ==
  ASSUME NEW s \in Seq(Byte)
  PROVE  CrcsInOrder(s) <=>
           \A k, m \in 1 .. Len(s) : \A f, g \in Frame :
             k < m /\ s[k] = <<"crc", f>> /\ s[m] = <<"crc", g>> /\ Sender[f] = Sender[g] => f < g
<1>1. DOMAIN s = 1 .. Len(s)
  OBVIOUS
<1> QED BY <1>1 DEF CrcsInOrder

LEMMA SliceCrcs ==
  ASSUME NEW s \in Seq(Byte), NEW a \in Nat \ {0}, NEW b \in Nat, b <= Len(s)
  PROVE  /\ Crcs(SubSeq(s, a, b)) \subseteq Crcs(s)
         /\ CrcsInOrder(s) => CrcsInOrder(SubSeq(s, a, b))
<1> DEFINE c == SubSeq(s, a, b)
<1>1. /\ c \in Seq(Byte) /\ Len(c) \in Nat
      /\ \A k \in 1 .. Len(c) : c[k] = s[k + a - 1] /\ k + a - 1 \in 1 .. Len(s)
  BY Slice
<1> HIDE DEF c
<1>2. Crcs(c) \subseteq Crcs(s)
  <2> SUFFICES ASSUME NEW f \in Frame, f \in Crcs(c) PROVE f \in Crcs(s)
    BY DEF Crcs
  <2>1. PICK k \in 1 .. Len(c) : c[k] = <<"crc", f>>
    BY <1>1, CrcIn
  <2>2. k + a - 1 \in 1 .. Len(s) /\ s[k + a - 1] = <<"crc", f>>
    BY <1>1, <2>1
  <2> QED BY <2>2, CrcIn
<1>3. ASSUME CrcsInOrder(s) PROVE CrcsInOrder(c)
  <2> SUFFICES ASSUME NEW k \in 1 .. Len(c), NEW m \in 1 .. Len(c), NEW f \in Frame, NEW g \in Frame, k < m,
                      c[k] = <<"crc", f>>, c[m] = <<"crc", g>>, Sender[f] = Sender[g]
               PROVE  f < g
    BY <1>1, InOrderIs
  <2>1. s[k + a - 1] = <<"crc", f>> /\ s[m + a - 1] = <<"crc", g>> /\ k + a - 1 < m + a - 1
        /\ k + a - 1 \in 1 .. Len(s) /\ m + a - 1 \in 1 .. Len(s)
    <3>1. s[k + a - 1] = <<"crc", f>> /\ k + a - 1 \in 1 .. Len(s)
      BY <1>1
    <3>2. s[m + a - 1] = <<"crc", g>> /\ m + a - 1 \in 1 .. Len(s)
      BY <1>1
    <3>3. k + a - 1 < m + a - 1
      BY <1>1
    <3> QED BY <3>1, <3>2, <3>3
  <2>2. \A x, y \in 1 .. Len(s) :
          x < y /\ s[x] = <<"crc", f>> /\ s[y] = <<"crc", g>> /\ Sender[f] = Sender[g] => f < g
    BY <1>3, InOrderIs
  <2> QED BY <2>1, <2>2
<1> QED BY <1>2, <1>3 DEF c

LEMMA ConcatCrcs ==
  ASSUME NEW s \in Seq(Byte), NEW t \in Seq(Byte)
  PROVE  /\ Crcs(s \o t) = Crcs(s) \cup Crcs(t)
         /\ CrcsInOrder(s) /\ CrcsInOrder(t) /\ Before(Crcs(s), Crcs(t)) => CrcsInOrder(s \o t)
<1> DEFINE c == s \o t
<1>1. /\ c \in Seq(Byte) /\ Len(c) = Len(s) + Len(t) /\ Len(s) \in Nat /\ Len(t) \in Nat
      /\ \A k \in 1 .. Len(c) : c[k] = IF k <= Len(s) THEN s[k] ELSE t[k - Len(s)]
  BY Concat
<1> HIDE DEF c
<1>2. \A k \in 1 .. Len(c) : k > Len(s) => k - Len(s) \in 1 .. Len(t)
  BY <1>1
<1>3. \A k \in 1 .. Len(c) : k <= Len(s) => k \in 1 .. Len(s)
  BY <1>1
<1>4. Crcs(c) = Crcs(s) \cup Crcs(t)
  <2>1. ASSUME NEW f \in Frame, f \in Crcs(c) PROVE f \in Crcs(s) \cup Crcs(t)
    <3>1. PICK k \in 1 .. Len(c) : c[k] = <<"crc", f>>
      BY <1>1, <2>1, CrcIn
    <3>2. CASE k <= Len(s)
      BY <1>1, <1>3, <3>1, <3>2, CrcIn
    <3>3. CASE k > Len(s)
      <4>1. k - Len(s) \in 1 .. Len(t) /\ t[k - Len(s)] = <<"crc", f>>
        BY <1>1, <1>2, <3>1, <3>3
      <4> QED BY <4>1, CrcIn
    <3> QED BY <1>1, <3>2, <3>3
  <2>2. ASSUME NEW f \in Frame, f \in Crcs(s) PROVE f \in Crcs(c)
    <3>1. PICK k \in 1 .. Len(s) : s[k] = <<"crc", f>>
      BY <2>2, CrcIn
    <3>2. k \in 1 .. Len(c) /\ c[k] = <<"crc", f>>
      BY <1>1, <3>1
    <3> QED BY <1>1, <3>2, CrcIn
  <2>3. ASSUME NEW f \in Frame, f \in Crcs(t) PROVE f \in Crcs(c)
    <3>1. PICK k \in 1 .. Len(t) : t[k] = <<"crc", f>>
      BY <2>3, CrcIn
    <3>2. k + Len(s) \in 1 .. Len(c) /\ c[k + Len(s)] = <<"crc", f>>
      <4>1. k + Len(s) \in 1 .. Len(c) /\ k + Len(s) > Len(s) /\ k + Len(s) - Len(s) = k
        BY <1>1
      <4> QED BY <1>1, <3>1, <4>1
    <3> QED BY <1>1, <3>2, CrcIn
  <2> QED BY <2>1, <2>2, <2>3 DEF Crcs
<1>5. ASSUME CrcsInOrder(s), CrcsInOrder(t), Before(Crcs(s), Crcs(t)) PROVE CrcsInOrder(c)
  <2> SUFFICES ASSUME NEW k \in 1 .. Len(c), NEW m \in 1 .. Len(c), NEW f \in Frame, NEW g \in Frame, k < m,
                      c[k] = <<"crc", f>>, c[m] = <<"crc", g>>, Sender[f] = Sender[g]
               PROVE  f < g
    BY <1>1, InOrderIs
  <2>1. CASE m <= Len(s)
    <3>1. k \in 1 .. Len(s) /\ m \in 1 .. Len(s) /\ s[k] = <<"crc", f>> /\ s[m] = <<"crc", g>>
      BY <1>1, <2>1
    <3>2. \A x, y \in 1 .. Len(s) :
            x < y /\ s[x] = <<"crc", f>> /\ s[y] = <<"crc", g>> /\ Sender[f] = Sender[g] => f < g
      BY <1>5, InOrderIs
    <3> QED BY <3>1, <3>2
  <2>2. CASE k > Len(s)
    <3>1. /\ k - Len(s) \in 1 .. Len(t) /\ m - Len(s) \in 1 .. Len(t) /\ k - Len(s) < m - Len(s)
          /\ t[k - Len(s)] = <<"crc", f>> /\ t[m - Len(s)] = <<"crc", g>>
      BY <1>1, <2>2
    <3>2. \A x, y \in 1 .. Len(t) :
            x < y /\ t[x] = <<"crc", f>> /\ t[y] = <<"crc", g>> /\ Sender[f] = Sender[g] => f < g
      BY <1>5, InOrderIs
    <3> QED BY <3>1, <3>2
  <2>3. CASE k <= Len(s) /\ m > Len(s)
    <3>1. /\ k \in 1 .. Len(s) /\ m - Len(s) \in 1 .. Len(t)
          /\ s[k] = <<"crc", f>> /\ t[m - Len(s)] = <<"crc", g>>
      BY <1>1, <2>3
    <3>2. f \in Crcs(s) /\ g \in Crcs(t)
      BY <3>1, CrcIn
    <3> QED BY <1>5, <3>2 DEF Before
  <2> QED BY <1>1, <2>1, <2>2, <2>3
<1> QED BY <1>4, <1>5 DEF c

\* What comes first in a run is before what comes behind it.
LEMMA SplitCrcs ==
  ASSUME NEW s \in Seq(Byte), CrcsInOrder(s), NEW a \in Nat, NEW b \in Nat \ {0}, a < b, a <= Len(s)
  PROVE  Before(Crcs(SubSeq(s, 1, a)), Crcs(SubSeq(s, b, Len(s))))
<1> DEFINE c == SubSeq(s, 1, a)
           d == SubSeq(s, b, Len(s))
<1>1. /\ c \in Seq(Byte) /\ Len(s) \in Nat
      /\ \A k \in 1 .. Len(c) : c[k] = s[k + 1 - 1] /\ k + 1 - 1 \in 1 .. Len(s) /\ k + 1 - 1 <= a
  BY Slice
<1>2. /\ d \in Seq(Byte)
      /\ \A k \in 1 .. Len(d) : d[k] = s[k + b - 1] /\ k + b - 1 \in 1 .. Len(s)
  BY <1>1, Slice
<1> HIDE DEF c, d
<1> SUFFICES ASSUME NEW f \in Crcs(c), NEW g \in Crcs(d), Sender[f] = Sender[g] PROVE f < g
  BY DEF Before, c, d
<1>3. f \in Frame /\ g \in Frame
  BY DEF Crcs
<1>4. PICK k \in 1 .. Len(c) : c[k] = <<"crc", f>>
  BY <1>1, <1>3, CrcIn
<1>5. PICK m \in 1 .. Len(d) : d[m] = <<"crc", g>>
  BY <1>2, <1>3, CrcIn
<1>6. Len(c) \in Nat /\ Len(d) \in Nat
  BY <1>1, <1>2
<1>7. /\ k + 1 - 1 \in 1 .. Len(s) /\ m + b - 1 \in 1 .. Len(s) /\ k + 1 - 1 < m + b - 1
      /\ s[k + 1 - 1] = <<"crc", f>> /\ s[m + b - 1] = <<"crc", g>>
  <2>1. k + 1 - 1 <= a /\ k + 1 - 1 \in 1 .. Len(s) /\ m + b - 1 \in 1 .. Len(s)
    BY <1>1, <1>2
  <2>2. m >= 1
    BY <1>6
  <2>3. k + 1 - 1 < m + b - 1
    BY <2>1, <2>2, <1>6
  <2> QED BY <1>1, <1>2, <1>4, <1>5, <2>1, <2>3
<1> QED BY <1>3, <1>7, InOrderIs

------------------------------------------------------------------------------
(* What the entries of a queue claim. *)

LEMMA ClaimIs ==
  ASSUME NEW q \in Seq(Nat)
  PROVE  /\ \A k \in 1 .. Len(q) : \A b \in 1 .. q[k] : <<k, b>> \in Claims(q)
         /\ \A x \in Claims(q) : x[1] \in 1 .. Len(q) /\ x[2] \in 1 .. q[x[1]] /\ x = <<x[1], x[2]>>
<1>1. DOMAIN q = 1 .. Len(q)
  OBVIOUS
<1>2. ASSUME NEW k \in 1 .. Len(q), NEW b \in 1 .. q[k] PROVE <<k, b>> \in Claims(q)
  <2>1. <<k, b>> \in {k} \X (1 .. q[k])
    OBVIOUS
  <2> QED BY <1>1, <2>1 DEF Claims
<1>3. ASSUME NEW x \in Claims(q)
      PROVE  x[1] \in 1 .. Len(q) /\ x[2] \in 1 .. q[x[1]] /\ x = <<x[1], x[2]>>
  <2>1. PICK k \in 1 .. Len(q) : x \in {k} \X (1 .. q[k])
    BY <1>1 DEF Claims
  <2> QED BY <2>1
<1> QED BY <1>2, <1>3

LEMMA ClaimOfOne ==
  ASSUME NEW k, NEW n \in Nat
  PROVE  IsFiniteSet({k} \X (1 .. n)) /\ Cardinality({k} \X (1 .. n)) = n
<1>1. IsFiniteSet({k}) /\ Cardinality({k}) = 1
  BY FS_Singleton
<1>2. IsFiniteSet(1 .. n) /\ Cardinality(1 .. n) = n
  BY FS_Interval
<1>3. IsFiniteSet({k} \X (1 .. n)) /\ Cardinality({k} \X (1 .. n)) = Cardinality({k}) * Cardinality(1 .. n)
  BY <1>1, <1>2, FS_Product
<1> QED BY <1>1, <1>2, <1>3

LEMMA ClaimsAppend ==
  ASSUME NEW q \in Seq(Nat), IsFiniteSet(Claims(q)), NEW n \in Nat
  PROVE  /\ IsFiniteSet(Claims(Append(q, n)))
         /\ Cardinality(Claims(Append(q, n))) = Cardinality(Claims(q)) + n
<1> DEFINE new == {Len(q) + 1} \X (1 .. n)
           r == Append(q, n)
<1>1. /\ r \in Seq(Nat) /\ Len(r) = Len(q) + 1 /\ Len(q) \in Nat /\ r[Len(q) + 1] = n
      /\ \A k \in 1 .. Len(q) : r[k] = q[k]
  OBVIOUS
<1> HIDE DEF r
<1>2. Claims(r) = Claims(q) \cup new
  <2>1. ASSUME NEW x \in Claims(r) PROVE x \in Claims(q) \cup new
    <3>1. x[1] \in 1 .. Len(r) /\ x[2] \in 1 .. r[x[1]] /\ x = <<x[1], x[2]>>
      BY <1>1, ClaimIs
    <3>2. CASE x[1] = Len(q) + 1
      BY <1>1, <3>1, <3>2
    <3>3. CASE x[1] # Len(q) + 1
      <4>1. x[1] \in 1 .. Len(q)
        BY <1>1, <3>1, <3>3
      <4>2. x[2] \in 1 .. q[x[1]]
        BY <1>1, <3>1, <4>1
      <4>3. <<x[1], x[2]>> \in Claims(q)
        BY <4>1, <4>2, ClaimIs
      <4> QED BY <3>1, <4>3
    <3> QED BY <3>2, <3>3
  <2>2. ASSUME NEW x \in Claims(q) PROVE x \in Claims(r)
    <3>1. x[1] \in 1 .. Len(q) /\ x[2] \in 1 .. q[x[1]] /\ x = <<x[1], x[2]>>
      BY ClaimIs
    <3>2. x[1] \in 1 .. Len(r) /\ x[2] \in 1 .. r[x[1]]
      BY <1>1, <3>1
    <3> QED BY <1>1, <3>1, <3>2, ClaimIs
  <2>3. ASSUME NEW b \in 1 .. n PROVE <<Len(q) + 1, b>> \in Claims(r)
    <3>1. Len(q) + 1 \in 1 .. Len(r) /\ b \in 1 .. r[Len(q) + 1]
      BY <1>1
    <3> QED BY <1>1, <3>1, ClaimIs
  <2> QED BY <2>1, <2>2, <2>3
<1>3. Claims(q) \cap new = {}
  <2> SUFFICES ASSUME NEW x \in Claims(q), x \in new PROVE FALSE
    OBVIOUS
  <2>1. x[1] \in 1 .. Len(q) /\ x[1] = Len(q) + 1
    BY ClaimIs
  <2> QED BY <1>1, <2>1
<1>4. IsFiniteSet(new) /\ Cardinality(new) = n
  BY ClaimOfOne
<1> HIDE DEF new
<1>5. /\ IsFiniteSet(Claims(q) \cup new)
      /\ Cardinality(Claims(q) \cup new) = Cardinality(Claims(q)) + Cardinality(new) - Cardinality({})
  BY <1>3, <1>4, FS_Union
<1>6. Cardinality({}) = 0 /\ Cardinality(Claims(q)) \in Nat
  BY FS_EmptySet, FS_CardinalityType
<1> QED BY <1>2, <1>4, <1>5, <1>6 DEF r

LEMMA ClaimsTail ==
  ASSUME NEW q \in Seq(Nat), q # <<>>, IsFiniteSet(Claims(q))
  PROVE  /\ IsFiniteSet(Claims(Tail(q)))
         /\ Cardinality(Claims(q)) = Head(q) + Cardinality(Claims(Tail(q)))
         /\ Cardinality(Claims(Tail(q))) \in Nat
<1> DEFINE first == {1} \X (1 .. Head(q))
           rest == Claims(q) \ first
           r == Tail(q)
           g == [x \in rest |-> <<x[1] - 1, x[2]>>]
<1>1. /\ r \in Seq(Nat) /\ Len(r) = Len(q) - 1 /\ Len(q) \in Nat /\ Len(q) >= 1 /\ Head(q) = q[1]
      /\ Head(q) \in Nat /\ \A k \in 1 .. Len(q) - 1 : r[k] = q[k + 1]
  OBVIOUS
<1> HIDE DEF r
<1>2. first \subseteq Claims(q)
  <2>1. \A b \in 1 .. q[1] : <<1, b>> \in Claims(q)
    <3>1. 1 \in 1 .. Len(q)
      BY <1>1
    <3> QED BY <3>1, ClaimIs
  <2> QED BY <1>1, <2>1
<1>3. IsFiniteSet(first) /\ Cardinality(first) = Head(q)
  BY <1>1, ClaimOfOne
<1>4. \A x \in rest : x[1] - 1 \in 1 .. Len(r) /\ x[2] \in 1 .. r[x[1] - 1] /\ x = <<x[1], x[2]>> /\ x[1] \in Nat
  <2> SUFFICES ASSUME NEW x \in Claims(q), x \notin first
               PROVE  x[1] - 1 \in 1 .. Len(r) /\ x[2] \in 1 .. r[x[1] - 1] /\ x = <<x[1], x[2]>> /\ x[1] \in Nat
    OBVIOUS
  <2>1. x[1] \in 1 .. Len(q) /\ x[2] \in 1 .. q[x[1]] /\ x = <<x[1], x[2]>>
    BY ClaimIs
  <2>2. ASSUME x[1] = 1 PROVE FALSE
    <3>1. x = <<1, x[2]>> /\ x[2] \in 1 .. Head(q)
      BY <1>1, <2>1, <2>2
    <3> QED BY <3>1
  <2>3. x[1] - 1 \in 1 .. Len(q) - 1 /\ x[1] - 1 + 1 = x[1] /\ x[1] \in Nat
    <3>1. x[1] \in 1 .. Len(q) /\ x[1] # 1 /\ Len(q) \in Nat
      BY <1>1, <2>1, <2>2
    <3> QED BY <3>1
  <2>4. r[x[1] - 1] = q[x[1]]
    BY <1>1, <2>3
  <2> QED BY <1>1, <2>1, <2>3, <2>4
<1>5. \A y \in Claims(r) : <<y[1] + 1, y[2]>> \in rest /\ y = <<y[1], y[2]>> /\ y[1] \in Nat
  <2> SUFFICES ASSUME NEW y \in Claims(r)
               PROVE  <<y[1] + 1, y[2]>> \in rest /\ y = <<y[1], y[2]>> /\ y[1] \in Nat
    OBVIOUS
  <2>1. y[1] \in 1 .. Len(r) /\ y[2] \in 1 .. r[y[1]] /\ y = <<y[1], y[2]>>
    BY <1>1, ClaimIs
  <2>2. y[1] \in Nat /\ y[1] + 1 \in 1 .. Len(q) /\ r[y[1]] = q[y[1] + 1] /\ y[1] + 1 # 1
    <3>1. y[1] \in Nat /\ y[1] \in 1 .. Len(q) - 1
      BY <1>1, <2>1
    <3>2. y[1] + 1 \in 1 .. Len(q) /\ y[1] + 1 # 1
      <4>1. Len(q) \in Nat
        BY <1>1
      <4> QED BY <3>1, <4>1
    <3>3. r[y[1]] = q[y[1] + 1]
      BY <1>1, <3>1
    <3> QED BY <3>1, <3>2, <3>3
  <2>3. <<y[1] + 1, y[2]>> \in Claims(q)
    BY <2>1, <2>2, ClaimIs
  <2> QED BY <2>1, <2>2, <2>3
<1>6. \A x \in rest : <<x[1] - 1, x[2]>> \in Claims(r)
  BY <1>1, <1>4, ClaimIs
<1>7. g \in Bijection(rest, Claims(r))
  <2>1. g \in [rest -> Claims(r)]
    BY <1>6
  <2>2. ASSUME NEW x \in rest, NEW y \in rest, g[x] = g[y] PROVE x = y
    <3>1. x[1] - 1 = y[1] - 1 /\ x[2] = y[2]
      BY <2>2
    <3>2. x[1] = y[1]
      BY <1>4, <3>1
    <3> QED BY <1>4, <3>1, <3>2
  <2>3. ASSUME NEW y \in Claims(r) PROVE \E x \in rest : g[x] = y
    <3> DEFINE x == <<y[1] + 1, y[2]>>
    <3>1. x \in rest /\ y = <<y[1], y[2]>> /\ y[1] \in Nat
      BY <1>5
    <3>2. x[1] - 1 = y[1] /\ x[2] = y[2]
      BY <3>1
    <3>3. g[x] = <<x[1] - 1, x[2]>>
      BY <3>1
    <3> QED BY <3>1, <3>2, <3>3
  <2> HIDE DEF g, rest
  <2> QED BY <2>1, <2>2, <2>3, Fun_IsBij
<1>8. /\ IsFiniteSet(rest)
      /\ Cardinality(rest) = Cardinality(Claims(q)) - Cardinality(Claims(q) \cap first)
  BY <1>3, FS_Difference
<1>9. Claims(q) \cap first = first
  BY <1>2
<1>10. IsFiniteSet(Claims(r)) /\ Cardinality(Claims(r)) = Cardinality(rest)
  <2>1. ExistsBijection(rest, Claims(r))
    BY <1>7 DEF ExistsBijection
  <2> HIDE DEF rest
  <2> QED BY <1>8, <2>1, FS_Bijection
<1>11. Cardinality(Claims(q)) \in Nat /\ Cardinality(Claims(r)) \in Nat
  BY <1>10, FS_CardinalityType
<1> HIDE DEF first, rest
<1>12. Cardinality(rest) = Cardinality(Claims(q)) - Cardinality(first)
  BY <1>8, <1>9
<1>13. Cardinality(Claims(q)) = Head(q) + Cardinality(Claims(r))
  BY <1>1, <1>3, <1>10, <1>11, <1>12
<1> QED BY <1>10, <1>11, <1>13 DEF r

------------------------------------------------------------------------------
(* What each step does to a reader and the buffers. *)

LEMMA RxLimits == {RX_BUFFER_SIZE, OUTPUT_BUF, EVENT_QUEUE_LEN, RETRIES} \subseteq Nat /\ EVENT_QUEUE_LEN >= 1
BY RxAssumption

LEMMA Bytes == DE \in Byte /\ AD \in Byte
BY DEF DE, AD, Byte

LEMMA LineTyped ==
  ASSUME RxTypes, NEW i \in Iface
  PROVE  /\ line[i] \in Seq(Seq(Byte)) /\ Len(line[i]) \in Nat
         /\ \A k \in 1 .. Len(line[i]) : line[i][k] \in Seq(Byte) /\ Len(line[i][k]) \in Nat /\ Len(line[i][k]) >= 1
<1>1. line[i] \in Seq(Seq(Byte)) /\ \A k \in DOMAIN line[i] : Len(line[i][k]) \in 1 .. RX_BUFFER_SIZE
  <2>1. line \in Lines
    BY DEF RxTypes
  <2>2. line \in [Iface -> Seq(Seq(Byte))]
    BY <2>1, RxAssumption
  <2>3. \A k \in DOMAIN line[i] : Len(line[i][k]) \in 1 .. RX_BUFFER_SIZE
    BY <2>1, RxAssumption
  <2> QED BY <2>2, <2>3
<1>2. DOMAIN line[i] = 1 .. Len(line[i]) /\ Len(line[i]) \in Nat
  BY <1>1
<1>3. ASSUME NEW k \in 1 .. Len(line[i]) PROVE line[i][k] \in Seq(Byte) /\ Len(line[i][k]) >= 1
  <2>1. line[i][k] \in Seq(Byte)
    BY <1>1
  <2>2. Len(line[i][k]) \in 1 .. RX_BUFFER_SIZE /\ RX_BUFFER_SIZE \in Nat
    BY <1>1, <1>2, RxLimits
  <2> QED BY <2>1, <2>2
<1> QED BY <1>1, <1>2, <1>3

\* i's reader becomes r.
Becomes(i, r) ==
  /\ reader' \in [Iface -> Reading]
  /\ reader'[i] = r
  /\ \A j \in Iface \ {i} : reader'[j] = reader[j]

LEMMA ReaderTyped ==
  ASSUME RxTypes, NEW i \in Iface
  PROVE  /\ reader[i] \in Reading /\ reader[i].todo \in Seq(Seq(Byte)) /\ reader[i].size \in Nat /\ reader[i].tries \in Nat
         /\ reader[i] = [pc |-> reader[i].pc, todo |-> reader[i].todo, size |-> reader[i].size, tries |-> reader[i].tries]
<1>1. reader[i] \in Reading
  BY DEF RxTypes
<1> QED BY <1>1 DEF Reading

LEMMA BecomesIs ==
  ASSUME RxTypes, NEW i \in Iface, NEW r \in Reading, reader' = [reader EXCEPT ![i] = r]
  PROVE  Becomes(i, r)
BY DEF Becomes, RxTypes

LEMMA GotoIs ==
  ASSUME RxTypes, NEW i \in Iface, NEW pc \in {"lock", "send", "post"}, Goto(i, pc)
  PROVE  Becomes(i, [reader[i] EXCEPT !.pc = pc])
<1>1. [reader[i] EXCEPT !.pc = pc] \in Reading
  BY ReaderTyped DEF Reading
<1>2. reader' = [reader EXCEPT ![i] = [reader[i] EXCEPT !.pc = pc]]
  BY DEF Goto, RxTypes
<1> QED BY <1>1, <1>2, BecomesIs

LEMMA ReadIs ==
  ASSUME RxTypes, NEW i \in Iface, Read(i)
  PROVE  /\ reader[i].pc = "read"
         /\ at[i] \in Nat /\ at[i] + 1 \in 1 .. Len(line[i]) /\ at' = [at EXCEPT ![i] = at[i] + 1]
         /\ Chunk(i) = line[i][at[i] + 1] /\ Chunk(i) \in Seq(Byte)
         /\ Len(Chunk(i)) \in Nat /\ Len(Chunk(i)) >= 1
<1>1. reader[i].pc = "read" /\ at[i] < Len(line[i]) /\ at' = [at EXCEPT ![i] = at[i] + 1] /\ at[i] \in Nat
  BY DEF Read, At, RxTypes
<1>2. at[i] + 1 \in 1 .. Len(line[i])
  BY <1>1, LineTyped
<1> QED BY <1>1, <1>2, LineTyped DEF Chunk

LEMMA ReadActiveIs ==
  ASSUME RxTypes, NEW i \in Iface, ReadActive(i)
  PROVE  Becomes(i, [reader[i] EXCEPT !.pc = "lock", !.todo = <<Chunk(i)>>])
<1>1. Chunk(i) \in Seq(Byte)
  BY ReadIs DEF ReadActive
<1>2. [reader[i] EXCEPT !.pc = "lock", !.todo = <<Chunk(i)>>] \in Reading
  <2>1. <<Chunk(i)>> \in Seq(Seq(Byte))
    BY <1>1
  <2> QED BY <2>1, ReaderTyped DEF Reading
<1>3. reader' = [reader EXCEPT ![i] = [reader[i] EXCEPT !.pc = "lock", !.todo = <<Chunk(i)>>]]
  BY DEF ReadActive, RxTypes
<1> QED BY <1>2, <1>3, BecomesIs

\* What a reader that found a signature has to pump.
Found(i) ==
  IF pendingDe[i] /\ Chunk(i)[1] = AD THEN <<<<DE>>, Chunk(i)>>
  ELSE <<SubSeq(Chunk(i), Signature(Chunk(i)), Len(Chunk(i)))>>

LEMMA ReadSignatureDoes ==
  ASSUME RxTypes, NEW i \in Iface, ReadSignature(i)
  PROVE  /\ Found(i) \in Seq(Seq(Byte)) /\ Found(i) # <<>>
         /\ (pendingDe[i] /\ Chunk(i)[1] = AD) \/ Signature(Chunk(i)) # 0
         /\ Becomes(i, [reader[i] EXCEPT !.pc = "flip", !.todo = Found(i)])
<1>1. Chunk(i) \in Seq(Byte) /\ Len(Chunk(i)) \in Nat /\ Len(Chunk(i)) >= 1
  BY ReadIs DEF ReadSignature
<1>2. /\ (pendingDe[i] /\ Chunk(i)[1] = AD) \/ Signature(Chunk(i)) # 0
      /\ reader' = [reader EXCEPT ![i].pc = "flip", ![i].todo = Found(i)]
  BY DEF ReadSignature, Found
<1>3. Found(i) \in Seq(Seq(Byte)) /\ Found(i) # <<>>
  <2>1. CASE pendingDe[i] /\ Chunk(i)[1] = AD
    BY <1>1, <2>1, Bytes DEF Found
  <2>2. CASE ~(pendingDe[i] /\ Chunk(i)[1] = AD)
    <3>1. Signature(Chunk(i)) \in 1 .. Len(Chunk(i))
      BY <1>1, <1>2, <2>2, ReadSignatureIs
    <3>2. SubSeq(Chunk(i), Signature(Chunk(i)), Len(Chunk(i))) \in Seq(Byte)
      BY <1>1, <3>1, Slice
    <3> QED BY <2>2, <3>2 DEF Found
  <2> QED BY <2>1, <2>2
<1>4. [reader[i] EXCEPT !.pc = "flip", !.todo = Found(i)] \in Reading
  BY <1>3, ReaderTyped DEF Reading
<1>5. reader' = [reader EXCEPT ![i] = [reader[i] EXCEPT !.pc = "flip", !.todo = Found(i)]]
  BY <1>2 DEF RxTypes
<1> QED BY <1>2, <1>3, <1>4, <1>5, BecomesIs

LEMMA PumpedTyped ==
  ASSUME RxTypes, NEW i \in Iface, reader[i].todo # <<>>
  PROVE  /\ Pumped(i) \in Seq(Byte) /\ Len(Pumped(i)) \in Nat /\ Pumped(i) = reader[i].todo[1]
         /\ Tail(reader[i].todo) \in Seq(Seq(Byte)) /\ Len(Tail(reader[i].todo)) = Len(reader[i].todo) - 1
         /\ Len(reader[i].todo) \in Nat /\ Len(reader[i].todo) >= 1
         /\ \A k \in 1 .. Len(reader[i].todo) - 1 : Tail(reader[i].todo)[k] = reader[i].todo[k + 1]
<1>1. reader[i].todo \in Seq(Seq(Byte))
  BY ReaderTyped
<1> QED BY <1>1 DEF Pumped

\* n bytes of a pump go into the stream.
LEMMA SendIs ==
  ASSUME RxTypes, Pumping, NEW i \in Iface, Send(i)
  PROVE  /\ reader[i].pc = "send" /\ reader[i].todo # <<>>
         /\ \E n \in Nat : \E todo \in Seq(Seq(Byte)) :
              /\ n <= Len(Pumped(i))
              /\ stream' = stream \o SubSeq(Pumped(i), 1, n)
              /\ Len(todo) = Len(reader[i].todo)
              /\ todo[1] = SubSeq(Pumped(i), n + 1, Len(Pumped(i)))
              /\ \A k \in 2 .. Len(todo) : todo[k] = reader[i].todo[k]
              /\ Becomes(i, [pc |-> "post", todo |-> todo, size |-> n, tries |-> RETRIES])
<1>1. reader[i].pc = "send" /\ reader[i].todo # <<>>
  BY DEF Send, At, Pumping
<1>2. /\ Pumped(i) \in Seq(Byte) /\ Len(Pumped(i)) \in Nat /\ Pumped(i) = reader[i].todo[1]
      /\ Len(reader[i].todo) \in Nat /\ Len(reader[i].todo) >= 1
  BY <1>1, PumpedTyped
<1>3. Fits(i) \in Nat /\ Fits(i) <= Len(Pumped(i))
  <2>1. Room \in Int /\ Room > 0
    BY RxLimits DEF Send, Room, RxTypes
  <2> QED BY <1>2, <2>1 DEF Fits
<1> DEFINE n == Fits(i)
           rest == SubSeq(Pumped(i), n + 1, Len(Pumped(i)))
           todo == <<rest>> \o Tail(reader[i].todo)
           r == [pc |-> "post", todo |-> todo, size |-> n, tries |-> RETRIES]
<1>4. stream' = stream \o SubSeq(Pumped(i), 1, n)
  BY DEF Send
<1>5. rest \in Seq(Byte)
  BY <1>2, <1>3, Slice
<1>8. reader' = [reader EXCEPT ![i] = r]
  BY DEF Send, Sent, RxTypes
<1>7. /\ Tail(reader[i].todo) \in Seq(Seq(Byte)) /\ Len(Tail(reader[i].todo)) = Len(reader[i].todo) - 1
      /\ \A k \in 1 .. Len(reader[i].todo) - 1 : Tail(reader[i].todo)[k] = reader[i].todo[k + 1]
  BY <1>1, PumpedTyped
<1> HIDE DEF rest
<1>9. /\ todo \in Seq(Seq(Byte)) /\ Len(todo) = Len(reader[i].todo) /\ todo[1] = rest
      /\ \A k \in 2 .. Len(todo) : todo[k] = reader[i].todo[k]
  <2>1. <<rest>> \in Seq(Seq(Byte)) /\ Len(<<rest>>) = 1 /\ <<rest>>[1] = rest
    BY <1>5
  <2>2. /\ todo \in Seq(Seq(Byte)) /\ Len(todo) = 1 + (Len(reader[i].todo) - 1)
        /\ \A k \in 1 .. Len(todo) : todo[k] = IF k <= 1 THEN <<rest>>[k] ELSE Tail(reader[i].todo)[k - 1]
    BY <1>7, <2>1, Concat
  <2> HIDE DEF todo
  <2>3. todo[1] = rest /\ Len(todo) = Len(reader[i].todo)
    BY <1>2, <2>1, <2>2
  <2>4. ASSUME NEW k \in 2 .. Len(todo) PROVE todo[k] = reader[i].todo[k]
    <3>1. k \in 1 .. Len(todo) /\ ~(k <= 1) /\ k - 1 \in 1 .. Len(reader[i].todo) - 1 /\ k - 1 + 1 = k
      BY <1>2, <2>3
    <3>2. Tail(reader[i].todo)[k - 1] = reader[i].todo[k - 1 + 1]
      BY <1>7, <3>1
    <3> QED BY <2>2, <3>1, <3>2
  <2> QED BY <2>2, <2>3, <2>4
<1> HIDE DEF n, todo
<1>10. r \in Reading
  BY <1>3, <1>9, RxLimits DEF Reading, n
<1>11. Becomes(i, r)
  BY <1>8, <1>10, BecomesIs
<1> QED BY <1>1, <1>3, <1>4, <1>9, <1>11 DEF rest, n

\* A pump ends ...
LEMMA LeaveIs ==
  ASSUME RxTypes, NEW i \in Iface, reader[i].todo # <<>>, Leave(i)
  PROVE  /\ owner' = "none"
         /\ \E pc \in {"read", "lock"} :
              /\ pc # "read" => Tail(reader[i].todo) # <<>>
              /\ Becomes(i, [reader[i] EXCEPT !.pc = pc, !.todo = Tail(reader[i].todo)])
<1> DEFINE rest == Tail(reader[i].todo)
           pc == IF rest = <<>> THEN "read" ELSE "lock"
<1>1. owner' = "none" /\ reader' = [reader EXCEPT ![i].pc = pc, ![i].todo = rest]
  BY DEF Leave
<1>2. rest \in Seq(Seq(Byte)) /\ pc \in {"read", "lock"} /\ (pc # "read" => rest # <<>>)
  BY PumpedTyped
<1> HIDE DEF rest, pc
<1>3. [reader[i] EXCEPT !.pc = pc, !.todo = rest] \in Reading
  BY <1>2, ReaderTyped DEF Reading
<1>4. reader' = [reader EXCEPT ![i] = [reader[i] EXCEPT !.pc = pc, !.todo = rest]]
  BY <1>1 DEF RxTypes
<1>5. Becomes(i, [reader[i] EXCEPT !.pc = pc, !.todo = rest])
  BY <1>3, <1>4, BecomesIs
<1> QED BY <1>1, <1>2, <1>5 DEF rest

\* ... or goes on.
LEMMA AdvanceIs ==
  ASSUME RxTypes, NEW i \in Iface, reader[i].todo # <<>>, Advance(i)
  PROVE  \/ Leave(i)
         \/ owner' = owner /\ Becomes(i, [reader[i] EXCEPT !.pc = "send"])
BY GotoIs DEF Advance

LEMMA RetryIs ==
  ASSUME RxTypes, NEW i \in Iface, Retry(i)
  PROVE  Becomes(i, [reader[i] EXCEPT !.tries = reader[i].tries - 1])
<1>1. reader' = [reader EXCEPT ![i] = [reader[i] EXCEPT !.tries = reader[i].tries - 1]] /\ reader[i].tries > 0
  BY DEF Retry, RxTypes
<1>2. reader[i].tries - 1 \in Nat
  <2>1. reader[i].tries \in Nat
    BY ReaderTyped
  <2> QED BY <1>1, <2>1
<1>3. [reader[i] EXCEPT !.tries = reader[i].tries - 1] \in Reading
  BY <1>2, ReaderTyped DEF Reading
<1> QED BY <1>1, <1>3, BecomesIs

------------------------------------------------------------------------------
(* The invariant starts to hold ... *)

LEMMA EmptyCrcs == Crcs(<<>>) = {} /\ CrcsInOrder(<<>>)
<1>1. <<>> \in Seq(Byte) /\ Len(<<>>) = 0
  OBVIOUS
<1>2. 1 .. 0 = {}
  OBVIOUS
<1>3. Crcs(<<>>) = {}
  BY <1>1, <1>2, CrcIn DEF Crcs
<1> QED BY <1>1, <1>2, <1>3, InOrderIs

LEMMA RxInitInv == RxInit => RxInv
<1> SUFFICES ASSUME RxInit PROVE RxInv
  OBVIOUS
<1> USE DEF RxInit
<1>1. RxTypes
  <2>1. reader \in [Iface -> Reading]
    <3>1. [pc |-> "read", todo |-> <<>>, size |-> 0, tries |-> 0] \in Reading
      BY DEF Reading
    <3> QED BY <3>1
  <2>2. stream \in Seq(Byte) /\ rx \in Seq(Byte) /\ dispatched \in Seq(Seq(Byte))
    OBVIOUS
  <2>3. queue \in Seq(Nat)
    OBVIOUS
  <2> QED BY <2>1, <2>2, <2>3 DEF RxTypes
<1>2. \A i \in Iface : reader[i] = [pc |-> "read", todo |-> <<>>, size |-> 0, tries |-> 0]
  OBVIOUS
<1>3. Pumping
  BY <1>2 DEF Pumping
<1>4. Backed
  <2>1. Claims(<<>>) = {}
    BY DEF Claims
  <2>2. IsFiniteSet(Claims(<<>>)) /\ Cardinality(Claims(<<>>)) = 0
    BY <2>1, FS_EmptySet
  <2> DEFINE q == <<>>
  <2>3. q \in Seq(Nat) /\ queue = Append(q, 0) /\ IsFiniteSet(Claims(q)) /\ Cardinality(Claims(q)) = 0
    BY <2>2
  <2>4. IsFiniteSet(Claims(queue)) /\ Cardinality(Claims(queue)) = 0
    <3> HIDE DEF RxInit, q
    <3>1. IsFiniteSet(Claims(Append(q, 0))) /\ Cardinality(Claims(Append(q, 0))) = Cardinality(Claims(q)) + 0
      BY <2>3, ClaimsAppend
    <3> QED BY <2>3, <3>1
  <2>5. Len(stream) = 0
    OBVIOUS
  <2> QED BY <1>2, <2>4, <2>5 DEF Backed, Spoken
<1>5. Routed
  <2>1. \A i \in Iface : at[i] <= Len(line[i])
    BY <1>1, LineTyped
  <2> QED BY <1>2, <2>1 DEF Routed, Iface
<1>6. Flowing
  <2>1. /\ \A k \in DOMAIN dispatched : \E f \in Frame : dispatched[k] = Body(f)
        /\ Done = {}
    BY DEF Done
  <2>2. CrcsInOrder(rx) /\ CrcsInOrder(stream) /\ Crcs(rx) = {} /\ Crcs(stream) = {}
    BY EmptyCrcs
  <2>3. ASSUME NEW i \in Iface
        PROVE  Todo(i) = {} /\ SentInOrder(i, reader[i].todo) /\ SentInOrder(i, line[i])
    <3>1. reader[i].todo = <<>>
      BY <1>2
    <3>2. Todo(i) = {} /\ SentInOrder(i, reader[i].todo)
      BY <3>1 DEF Todo, Ahead, SentInOrder
    <3> QED BY <3>2, LineAssumption
  <2> QED BY <2>1, <2>2, <2>3 DEF Flowing, Before
<1> QED BY <1>1, <1>3, <1>4, <1>5, <1>6 DEF RxInv
------------------------------------------------------------------------------
(* ... and what keeps its parts. *)

\* Only what the parts are about can break them.
LEMMA RxStutter == RxInv /\ UNCHANGED rxVars => RxInv'
BY DEF RxInv, RxTypes, Pumping, Backed, Spoken, Routed, Speaks, Flowing, Done, Todo, Unread, rxVars, lines, route, app

\* What the parser looks at is the end of its buffer.
LEMMA FromSignatureIs ==
  ASSUME RxTypes, SignatureIn(rx) # 0
  PROVE  /\ FromSignature \in Seq(Byte) /\ Len(FromSignature) \in Nat
         /\ SignatureIn(rx) \in 1 .. Len(rx) /\ Len(FromSignature) = Len(rx) - SignatureIn(rx) + 1
         /\ \A k \in 1 .. Len(FromSignature) : FromSignature[k] = rx[k + SignatureIn(rx) - 1]
         /\ Crcs(FromSignature) \subseteq Crcs(rx)
         /\ CrcsInOrder(rx) => CrcsInOrder(FromSignature)
<1>1. rx \in Seq(Byte) /\ SignatureIn(rx) \in 1 .. Len(rx) /\ Len(rx) \in Nat
  BY SignatureInIs DEF RxTypes
<1>2. SignatureIn(rx) \in Nat \ {0} /\ SignatureIn(rx) <= Len(rx)
  BY <1>1
<1>3. /\ SubSeq(rx, SignatureIn(rx), Len(rx)) \in Seq(Byte)
      /\ Len(SubSeq(rx, SignatureIn(rx), Len(rx))) = Len(rx) - SignatureIn(rx) + 1
      /\ \A k \in 1 .. Len(SubSeq(rx, SignatureIn(rx), Len(rx))) :
           SubSeq(rx, SignatureIn(rx), Len(rx))[k] = rx[k + SignatureIn(rx) - 1]
  BY <1>1, <1>2, Slice
<1>4. /\ Crcs(SubSeq(rx, SignatureIn(rx), Len(rx))) \subseteq Crcs(rx)
      /\ CrcsInOrder(rx) => CrcsInOrder(SubSeq(rx, SignatureIn(rx), Len(rx)))
  BY <1>1, <1>2, SliceCrcs
<1> QED BY <1>1, <1>3, <1>4 DEF FromSignature

LEMMA AtHeaderIs ==
  ASSUME RxTypes, AtHeader
  PROVE  SignatureIn(rx) # 0 /\ Len(FromSignature) >= 3 /\ PacketLen \in Nat
<1>1. SignatureIn(rx) # 0 /\ Len(FromSignature) >= 3
  BY DEF AtHeader, Enough, SIGNATURE, HEADER
<1>2. FromSignature[3] \in Byte
  BY <1>1, FromSignatureIs
<1> QED BY <1>1, <1>2 DEF PacketLen, Byte

LEMMA SkipIs ==
  ASSUME RxTypes, AtHeader, NEW n \in Nat, Skip(n)
  PROVE  /\ rx' \in Seq(Byte)
         /\ Crcs(rx') \subseteq Crcs(rx) /\ (CrcsInOrder(rx) => CrcsInOrder(rx'))
<1> DEFINE s == FromSignature
<1>1. /\ s \in Seq(Byte) /\ Len(s) \in Nat /\ Crcs(s) \subseteq Crcs(rx)
      /\ CrcsInOrder(rx) => CrcsInOrder(s)
  BY AtHeaderIs, FromSignatureIs
<1>2. rx' = SubSeq(s, n + 1, Len(s)) /\ n + 1 \in Nat \ {0}
  BY DEF Skip
<1> HIDE DEF s
<1>3. rx' \in Seq(Byte)
  BY <1>1, <1>2, Slice
<1>4. Crcs(rx') \subseteq Crcs(s) /\ (CrcsInOrder(s) => CrcsInOrder(rx'))
  BY <1>1, <1>2, SliceCrcs
<1> QED BY <1>1, <1>3, <1>4

LEMMA NeedMoreIs ==
  ASSUME RxTypes, NeedMore
  PROVE  /\ rx' \in Seq(Byte)
         /\ Crcs(rx') \subseteq Crcs(rx) /\ (CrcsInOrder(rx) => CrcsInOrder(rx'))
BY FromSignatureIs DEF NeedMore, RxTypes

LEMMA OverflowIs ==
  ASSUME RxTypes, NEW size \in Nat
  PROVE  Overflow(size) \in Nat
<1>1. Len(rx) \in Nat /\ RX_BUFFER_SIZE \in Nat
  BY RxLimits DEF RxTypes
<1> QED BY <1>1 DEF Overflow

\* The entry at the head of the queue claims no more than there is.
LEMMA HeadFits ==
  ASSUME RxTypes, Backed, queue # <<>>
  PROVE  /\ Head(queue) \in Nat /\ Tail(queue) \in Seq(Nat) /\ Head(queue) <= Len(stream) /\ Len(stream) \in Nat
<1>1. queue \in Seq(Nat) /\ IsFiniteSet(Claims(queue))
  BY DEF RxTypes, Backed
<1>2. Cardinality(Claims(queue)) = Head(queue) + Cardinality(Claims(Tail(queue))) /\ Cardinality(Claims(Tail(queue))) \in Nat
  BY <1>1, ClaimsTail
<1>3. Head(queue) \in Nat /\ Tail(queue) \in Seq(Nat)
  BY <1>1
<1>4. \A i \in Iface : reader[i].size \in Nat
  BY ReaderTyped
<1>5. Cardinality(Claims(queue)) <= Len(stream)
  <2>1. CASE \A i \in Iface : reader[i].pc # "post"
    BY <2>1 DEF Backed, Spoken
  <2>2. CASE \E i \in Iface : reader[i].pc = "post"
    <3>1. PICK i \in Iface : reader[i].pc = "post"
      BY <2>2
    <3>2. Cardinality(Claims(queue)) + reader[i].size <= Len(stream)
      BY <3>1 DEF Backed, Spoken
    <3>3. Cardinality(Claims(queue)) \in Nat /\ Len(stream) \in Nat
      BY <1>2, <1>3 DEF RxTypes
    <3> QED BY <1>4, <3>2, <3>3
  <2> QED BY <2>1, <2>2
<1>6. Len(stream) \in Nat
  BY DEF RxTypes
<1> QED BY <1>2, <1>3, <1>5, <1>6

\* EVENT_OUTPUT's bytes go from the stream to m_rx_buffer.
LEMMA PumpOutputIs ==
  ASSUME RxTypes, Backed, PumpOutput
  PROVE  LET size == Head(queue)
             kept == SubSeq(rx, Overflow(size) + 1, Len(rx))
             come == SubSeq(stream, 1, size)
         IN /\ size \in Nat /\ size <= Len(stream) /\ Len(stream) \in Nat
            /\ kept \in Seq(Byte) /\ come \in Seq(Byte) /\ rx' = kept \o come /\ rx' \in Seq(Byte)
            /\ stream' = SubSeq(stream, size + 1, Len(stream)) /\ stream' \in Seq(Byte)
            /\ Len(stream') = Len(stream) - size
<1> DEFINE size == Head(queue)
           kept == SubSeq(rx, Overflow(size) + 1, Len(rx))
           come == SubSeq(stream, 1, size)
<1>1. size \in Nat /\ size <= Len(stream) /\ Len(stream) \in Nat
  BY HeadFits DEF PumpOutput
<1>2. rx \in Seq(Byte) /\ stream \in Seq(Byte) /\ Len(rx) \in Nat
  BY DEF RxTypes
<1>3. rx' = kept \o come /\ stream' = SubSeq(stream, size + 1, Len(stream))
  BY DEF PumpOutput
<1> HIDE DEF size
<1>4. Overflow(size) + 1 \in Nat \ {0}
  <2>1. Overflow(size) \in Nat
    BY <1>1, OverflowIs
  <2> QED BY <2>1
<1>5. kept \in Seq(Byte)
  BY <1>2, <1>4, Slice
<1>6. come \in Seq(Byte)
  BY <1>1, <1>2, Slice
<1>7. /\ SubSeq(stream, size + 1, Len(stream)) \in Seq(Byte)
      /\ Len(SubSeq(stream, size + 1, Len(stream))) = IF size + 1 <= Len(stream) THEN Len(stream) - (size + 1) + 1 ELSE 0
  BY <1>1, <1>2, Slice
<1>8. Len(stream') = Len(stream) - size
  BY <1>1, <1>3, <1>7
<1> HIDE DEF kept, come
<1>9. rx' \in Seq(Byte)
  BY <1>3, <1>5, <1>6
<1> QED BY <1>1, <1>3, <1>5, <1>6, <1>7, <1>8, <1>9 DEF size, kept, come

LEMMA RxTypesStep ==
  ASSUME RxInv, RxNext
  PROVE  RxTypes'
<1> USE DEF RxInv
<1> RxTypes
  OBVIOUS
<1>0. \A i \in Iface : \A r : Becomes(i, r) => reader' \in [Iface -> Reading]
  BY DEF Becomes
<1>a. ASSUME NEW i \in Iface, Read(i) PROVE at' \in [Iface -> Nat]
  <2>1. at[i] \in Nat /\ at' = [at EXCEPT ![i] = at[i] + 1]
    BY <1>a, ReadIs
  <2> QED BY <2>1 DEF RxTypes
<1>1. ASSUME NEW i \in Iface, ReadActive(i) PROVE RxTypes'
  <2>1. at' \in [Iface -> Nat] /\ reader' \in [Iface -> Reading]
    BY <1>a, <1>0, <1>1, ReadActiveIs DEF ReadActive
  <2>2. pendingDe' \in [Iface -> BOOLEAN]
    BY <1>1 DEF ReadActive, RxTypes, Pending, EndsInDe
  <2> QED BY <1>1, <2>1, <2>2 DEF ReadActive, RxTypes, app
<1>2. ASSUME NEW i \in Iface, ReadGarbage(i) PROVE RxTypes'
  <2>1. at' \in [Iface -> Nat]
    BY <1>a, <1>2 DEF ReadGarbage
  <2>2. pendingDe' \in [Iface -> BOOLEAN]
    BY <1>2 DEF ReadGarbage, RxTypes, Pending, EndsInDe
  <2> QED BY <1>2, <2>1, <2>2 DEF ReadGarbage, RxTypes, app
<1>3. ASSUME NEW i \in Iface, ReadSignature(i) PROVE RxTypes'
  <2>1. at' \in [Iface -> Nat] /\ reader' \in [Iface -> Reading]
    BY <1>a, <1>0, <1>3, ReadSignatureDoes DEF ReadSignature
  <2> QED BY <1>3, <2>1 DEF ReadSignature, RxTypes, app, route
<1>4. ASSUME NEW i \in Iface, Flip(i) PROVE RxTypes'
  <2>1. reader' \in [Iface -> Reading]
    BY <1>0, <1>4, GotoIs DEF Flip
  <2> QED BY <1>4, <2>1 DEF Flip, RxTypes, app, lines
<1>5. ASSUME NEW i \in Iface, Lock(i) PROVE RxTypes'
  <2>1. reader' \in [Iface -> Reading]
    BY <1>0, <1>5, GotoIs DEF Lock
  <2> QED BY <1>5, <2>1 DEF Lock, RxTypes, app, lines, route
<1>6. ASSUME NEW i \in Iface, Send(i) PROVE RxTypes'
  <2>1. PICK n \in Nat, todo \in Seq(Seq(Byte)) :
           /\ n <= Len(Pumped(i))
           /\ stream' = stream \o SubSeq(Pumped(i), 1, n)
           /\ Becomes(i, [pc |-> "post", todo |-> todo, size |-> n, tries |-> RETRIES])
    BY <1>6, SendIs
  <2>2. reader' \in [Iface -> Reading]
    BY <1>0, <2>1
  <2>3. Pumped(i) \in Seq(Byte) /\ Len(Pumped(i)) \in Nat
    BY <1>6, SendIs, PumpedTyped
  <2>4. SubSeq(Pumped(i), 1, n) \in Seq(Byte)
    BY <2>1, <2>3, Slice
  <2>5. stream' \in Seq(Byte)
    BY <2>1, <2>4 DEF RxTypes
  <2> QED BY <1>6, <2>2, <2>5 DEF Send, RxTypes, app, lines, route
<1>7. ASSUME NEW i \in Iface, reader[i].pc # "read", Leave(i)
      PROVE  reader' \in [Iface -> Reading] /\ owner' \in Iface \cup {"none"}
  BY <1>0, <1>7, LeaveIs DEF Pumping
<1>8. ASSUME NEW i \in Iface, reader[i].pc # "read", Advance(i)
      PROVE  reader' \in [Iface -> Reading] /\ owner' \in Iface \cup {"none"}
  BY <1>0, <1>7, <1>8, AdvanceIs DEF Pumping, RxTypes
<1>9. ASSUME NEW i \in Iface, DropRest(i) PROVE RxTypes'
  <2>1. reader' \in [Iface -> Reading] /\ owner' \in Iface \cup {"none"}
    BY <1>7, <1>9 DEF DropRest, At
  <2> QED BY <1>9, <2>1 DEF DropRest, RxTypes, app, lines, route
<1>10. ASSUME NEW i \in Iface, Post(i) PROVE RxTypes'
  <2>1. reader' \in [Iface -> Reading] /\ owner' \in Iface \cup {"none"}
    BY <1>8, <1>10 DEF Post, At
  <2>2. queue' \in Seq(Nat)
    BY <1>10, ReaderTyped DEF Post, RxTypes
  <2> QED BY <1>10, <2>1, <2>2 DEF Post, RxTypes, app, lines, route
<1>11. ASSUME NEW i \in Iface, Retry(i) PROVE RxTypes'
  <2>1. reader' \in [Iface -> Reading]
    BY <1>0, <1>11, RetryIs
  <2> QED BY <1>11, <2>1 DEF Retry, RxTypes, app, lines, route
<1>12. ASSUME NEW i \in Iface, LoseEvent(i) PROVE RxTypes'
  <2>1. reader' \in [Iface -> Reading] /\ owner' \in Iface \cup {"none"}
    BY <1>8, <1>12 DEF LoseEvent, At
  <2> QED BY <1>12, <2>1 DEF LoseEvent, RxTypes, app, lines, route
<1>13. CASE PumpOutput
  <2>1. rx' \in Seq(Byte) /\ stream' \in Seq(Byte)
    BY <1>13, PumpOutputIs
  <2>2. queue' \in Seq(Nat)
    BY <1>13, HeadFits DEF PumpOutput
  <2> QED BY <1>13, <2>1, <2>2 DEF PumpOutput, RxTypes, lines, route
<1>14. CASE PumpInput
  <2>1. queue' \in Seq(Nat)
    BY <1>14, HeadFits DEF PumpInput
  <2> QED BY <1>14, <2>1 DEF PumpInput, RxTypes, lines, route
<1>15. CASE NeedMore
  BY <1>15, NeedMoreIs DEF NeedMore, RxTypes, lines, route
<1>16. CASE Resync
  <2>1. rx' \in Seq(Byte)
    BY <1>16, SkipIs DEF Resync, SIGNATURE
  <2> QED BY <1>16, <2>1 DEF Resync, RxTypes, lines, route
<1>17. CASE EmptyPacket
  <2>1. rx' \in Seq(Byte)
    BY <1>17, SkipIs DEF EmptyPacket, SIGNATURE, HEADER
  <2> QED BY <1>17, <2>1 DEF EmptyPacket, RxTypes, lines, route
<1>18. CASE DataPacket
  <2>1. SIGNATURE + PacketLen \in Nat /\ AtHeader /\ Arrived /\ PacketLen \in Nat
    BY <1>18, AtHeaderIs DEF DataPacket, SIGNATURE
  <2>2. rx' \in Seq(Byte)
    BY <1>18, <2>1, SkipIs DEF DataPacket
  <2>3. queue' \in Seq(Nat)
    BY <1>18 DEF DataPacket, Answered, RxTypes
  <2>4. SubSeq(FromSignature, SIGNATURE + HEADER + 1, SIGNATURE + PacketLen) \in Seq(Byte)
    <3>1. FromSignature \in Seq(Byte) /\ Len(FromSignature) \in Nat /\ SIGNATURE + PacketLen <= Len(FromSignature)
      BY <2>1, AtHeaderIs, FromSignatureIs DEF Arrived, SIGNATURE
    <3>2. SIGNATURE + HEADER + 1 \in Nat \ {0}
      BY DEF SIGNATURE, HEADER
    <3> QED BY <2>1, <3>1, <3>2, Slice
  <2>5. dispatched' \in Seq(Seq(Byte))
    BY <1>18, <2>4 DEF DataPacket, RxTypes
  <2> QED BY <1>18, <2>2, <2>3, <2>5 DEF DataPacket, RxTypes, lines, route
<1> QED BY <1>1, <1>2, <1>3, <1>4, <1>5, <1>6, <1>9, <1>10, <1>11, <1>12, <1>13, <1>14, <1>15, <1>16, <1>17, <1>18
        DEF RxNext, Reader, Pump, AppTask

------------------------------------------------------------------------------
(* m_output_sem, and what its holder pumps. *)

LEMMA PumpingKept ==
  ASSUME Pumping, NEW i \in Iface, NEW r, Becomes(i, r),
         r.pc # "read" => r.todo # <<>>,
         r.pc \in {"send", "post"} => owner' = i,
         \A j \in Iface \ {i} : reader[j].pc \in {"send", "post"} => owner' = j
  PROVE  Pumping'
BY DEF Pumping, Becomes

LEMMA PumpingStep ==
  ASSUME RxInv, RxNext
  PROVE  Pumping'
<1>0. RxTypes /\ Pumping
  BY DEF RxInv
<1>a. \A i, j \in Iface : reader[i].pc \in {"send", "post"} /\ reader[j].pc \in {"send", "post"} => i = j
  BY <1>0 DEF Pumping
<1>b. \A j \in Iface : owner' = owner /\ reader[j].pc \in {"send", "post"} => owner' = j
  BY <1>0 DEF Pumping
<1>c. \A i \in Iface : reader[i].pc # "read" => reader[i].todo # <<>>
  BY <1>0 DEF Pumping
<1>d. owner = "none" => \A j \in Iface : reader[j].pc \notin {"send", "post"}
  BY <1>0 DEF Pumping, Iface
<1>1. ASSUME NEW i \in Iface, ReadActive(i) PROVE Pumping'
  <2> DEFINE r == [reader[i] EXCEPT !.pc = "lock", !.todo = <<Chunk(i)>>]
  <2>1. Becomes(i, r)
    BY <1>0, <1>1, ReadActiveIs
  <2>2. r.pc = "lock" /\ r.todo # <<>>
    BY <1>0, ReaderTyped DEF Reading
  <2>3. owner' = owner
    BY <1>1 DEF ReadActive
  <2> HIDE DEF r
  <2> QED BY <1>0, <1>b, <2>1, <2>2, <2>3, PumpingKept
<1>2. ASSUME NEW i \in Iface, ReadSignature(i) PROVE Pumping'
  <2> DEFINE r == [reader[i] EXCEPT !.pc = "flip", !.todo = Found(i)]
  <2>1. Becomes(i, r) /\ Found(i) # <<>>
    BY <1>0, <1>2, ReadSignatureDoes
  <2>2. r.pc = "flip" /\ r.todo # <<>>
    BY <1>0, <2>1, ReaderTyped DEF Reading
  <2>3. owner' = owner
    BY <1>2 DEF ReadSignature
  <2> HIDE DEF r
  <2> QED BY <1>0, <1>b, <2>1, <2>2, <2>3, PumpingKept
<1>3. ASSUME NEW i \in Iface, Flip(i) PROVE Pumping'
  <2> DEFINE r == [reader[i] EXCEPT !.pc = "lock"]
  <2>1. Becomes(i, r)
    BY <1>0, <1>3, GotoIs DEF Flip
  <2>2. r.pc = "lock" /\ r.todo = reader[i].todo /\ reader[i].pc = "flip"
    BY <1>0, <1>3, ReaderTyped DEF Reading, Flip, At
  <2>3. owner' = owner
    BY <1>3 DEF Flip
  <2> HIDE DEF r
  <2> QED BY <1>0, <1>b, <1>c, <2>1, <2>2, <2>3, PumpingKept
<1>4. ASSUME NEW i \in Iface, Lock(i) PROVE Pumping'
  <2> DEFINE r == [reader[i] EXCEPT !.pc = "send"]
  <2>1. Becomes(i, r)
    BY <1>0, <1>4, GotoIs DEF Lock
  <2>2. r.pc = "send" /\ r.todo = reader[i].todo /\ reader[i].pc = "lock"
    BY <1>0, <1>4, ReaderTyped DEF Reading, Lock, At
  <2>3. owner = "none" /\ owner' = i
    BY <1>4 DEF Lock
  <2> HIDE DEF r
  <2> QED BY <1>0, <1>c, <1>d, <2>1, <2>2, <2>3, PumpingKept
<1>5. ASSUME NEW i \in Iface, Send(i) PROVE Pumping'
  <2>1. reader[i].pc = "send" /\ reader[i].todo # <<>>
    BY <1>0, <1>5, SendIs
  <2>2. PICK n \in Nat, todo \in Seq(Seq(Byte)) :
           /\ Len(todo) = Len(reader[i].todo)
           /\ Becomes(i, [pc |-> "post", todo |-> todo, size |-> n, tries |-> RETRIES])
    BY <1>0, <1>5, SendIs
  <2>3. todo # <<>>
    BY <1>0, <2>1, <2>2, PumpedTyped
  <2> DEFINE r == [pc |-> "post", todo |-> todo, size |-> n, tries |-> RETRIES]
  <2>4. Becomes(i, r) /\ r.pc = "post" /\ r.todo # <<>>
    BY <2>2, <2>3
  <2>5. owner' = owner
    BY <1>5 DEF Send
  <2>6. owner' = i
    BY <1>b, <2>1, <2>5
  <2> HIDE DEF r
  <2> QED BY <1>0, <1>b, <2>4, <2>5, <2>6, PumpingKept
<1>6. ASSUME NEW i \in Iface, reader[i].pc \in {"send", "post"}, Leave(i) PROVE Pumping'
  <2>1. reader[i].todo # <<>>
    BY <1>c, <1>6
  <2>2. PICK pc \in {"read", "lock"} :
          /\ pc # "read" => Tail(reader[i].todo) # <<>>
          /\ Becomes(i, [reader[i] EXCEPT !.pc = pc, !.todo = Tail(reader[i].todo)])
    BY <1>0, <1>6, <2>1, LeaveIs
  <2> DEFINE r == [reader[i] EXCEPT !.pc = pc, !.todo = Tail(reader[i].todo)]
  <2>3. r.pc = pc /\ r.todo = Tail(reader[i].todo)
    BY <1>0, ReaderTyped DEF Reading
  <2>4. \A j \in Iface \ {i} : reader[j].pc \notin {"send", "post"}
    BY <1>a, <1>6
  <2> HIDE DEF r
  <2>5. Becomes(i, r)
    BY <2>2 DEF r
  <2> QED BY <1>0, <2>2, <2>3, <2>4, <2>5, PumpingKept
<1>7. ASSUME NEW i \in Iface, reader[i].pc = "post", Advance(i) PROVE Pumping'
  <2>1. CASE Leave(i)
    BY <1>6, <1>7, <2>1
  <2>2. CASE owner' = owner /\ Becomes(i, [reader[i] EXCEPT !.pc = "send"])
    <3> DEFINE r == [reader[i] EXCEPT !.pc = "send"]
    <3>1. r.pc = "send" /\ r.todo = reader[i].todo
      BY <1>0, ReaderTyped DEF Reading
    <3>2. Becomes(i, r) /\ owner' = owner /\ owner' = i
      BY <1>b, <1>7, <2>2
    <3> HIDE DEF r
    <3> QED BY <1>0, <1>b, <1>c, <1>7, <3>1, <3>2, PumpingKept
  <2> QED BY <1>0, <1>c, <1>7, <2>1, <2>2, AdvanceIs
<1>8. ASSUME NEW i \in Iface, Retry(i) PROVE Pumping'
  <2> DEFINE r == [reader[i] EXCEPT !.tries = reader[i].tries - 1]
  <2>1. Becomes(i, r)
    BY <1>0, <1>8, RetryIs
  <2>2. r.pc = reader[i].pc /\ r.todo = reader[i].todo
    BY <1>0, ReaderTyped DEF Reading
  <2>3. owner' = owner
    BY <1>8 DEF Retry
  <2> HIDE DEF r
  <2> QED BY <1>0, <1>b, <1>c, <2>1, <2>2, <2>3, PumpingKept
<1>9. ASSUME UNCHANGED <<reader, owner>> PROVE Pumping'
  BY <1>0, <1>9 DEF Pumping
<1>10. ASSUME NEW i \in Iface, Pump(i) PROVE Pumping'
  BY <1>4, <1>5, <1>6, <1>7, <1>8, <1>10 DEF Pump, DropRest, Post, LoseEvent, At
<1>11. ASSUME NEW i \in Iface, ReadGarbage(i) PROVE Pumping'
  BY <1>9, <1>11 DEF ReadGarbage
<1>12. CASE AppTask
  BY <1>9, <1>12 DEF AppTask, PumpOutput, PumpInput, NeedMore, Resync, EmptyPacket, DataPacket
<1> QED BY <1>1, <1>2, <1>3, <1>10, <1>11, <1>12 DEF RxNext, Reader

------------------------------------------------------------------------------
(* What the queue says is in the stream. *)

\* A step of a reader that has nothing to post, before and after ...
LEMMA BackedIdle ==
  ASSUME Backed, NEW i \in Iface, reader[i].pc # "post", reader'[i].pc # "post",
         \A j \in Iface \ {i} : reader'[j] = reader[j],
         UNCHANGED <<queue, stream>>, mishaps \subseteq mishaps'
  PROVE  Backed'
<1>1. \A n : Spoken(n) => Spoken(n)'
  BY DEF Spoken
<1>2. \A j \in Iface : reader'[j].pc = "post" => reader[j].pc = "post" /\ reader'[j].size = reader[j].size
  OBVIOUS
<1>3. (\A j \in Iface : reader'[j].pc # "post") => (\A j \in Iface : reader[j].pc # "post")
  OBVIOUS
<1>4. UNCHANGED Claims(queue)
  OBVIOUS
<1> QED BY <1>1, <1>2, <1>3, <1>4 DEF Backed

\* ... and one of the app task, which takes d bytes from the stream and from what is claimed.
LEMMA BackedApp ==
  ASSUME RxTypes, Backed, NEW d \in Nat, UNCHANGED reader, mishaps \subseteq mishaps',
         IsFiniteSet(Claims(queue')), Cardinality(Claims(queue)) = Cardinality(Claims(queue')) + d,
         Len(stream') = Len(stream) - d
  PROVE  Backed'
<1>1. /\ Cardinality(Claims(queue)) \in Nat /\ Cardinality(Claims(queue')) \in Nat /\ Len(stream) \in Nat
  BY FS_CardinalityType DEF Backed, RxTypes
<1>2. \A j \in Iface : reader[j].size \in Nat
  BY ReaderTyped
<1>3. ASSUME NEW n \in Nat, NEW m \in Nat, m = n + d, Spoken(m) PROVE Spoken(n)'
  <2>1. m <= Len(stream) /\ (m = Len(stream) \/ "event lost" \in mishaps)
    BY <1>3 DEF Spoken
  <2>2. m = n + d /\ n \in Nat /\ m \in Nat
    BY <1>3
  <2>3. Len(stream) \in Nat /\ m <= Len(stream)
    BY <1>1, <2>1
  <2>4. n <= Len(stream') /\ (m = Len(stream) => n = Len(stream'))
    BY <2>2, <2>3
  <2> QED BY <2>1, <2>4 DEF Spoken
<1>4. Spoken(Cardinality(Claims(queue))) => Spoken(Cardinality(Claims(queue)))'
  BY <1>1, <1>3
<1>5. ASSUME NEW j \in Iface
      PROVE  Spoken(Cardinality(Claims(queue)) + reader[j].size) => Spoken(Cardinality(Claims(queue)) + reader[j].size)'
  <2>1. reader[j].size \in Nat /\ Cardinality(Claims(queue)) \in Nat /\ Cardinality(Claims(queue')) \in Nat
    BY <1>1, <1>2
  <2>2. Cardinality(Claims(queue)) + reader[j].size = Cardinality(Claims(queue')) + reader[j].size + d
    BY <2>1
  <2>3. Cardinality(Claims(queue)) + reader[j].size \in Nat /\ Cardinality(Claims(queue')) + reader[j].size \in Nat
    BY <2>1
  <2> QED BY <1>3, <2>2, <2>3
<1> QED BY <1>4, <1>5 DEF Backed

LEMMA BackedStep ==
  ASSUME RxInv, RxNext
  PROVE  Backed'
<1>0. RxTypes /\ Pumping /\ Backed /\ queue \in Seq(Nat) /\ IsFiniteSet(Claims(queue))
      /\ Len(stream) \in Nat
  BY DEF RxInv, Backed, RxTypes
<1>a. \A i, j \in Iface : reader[i].pc \in {"send", "post"} /\ reader[j].pc \in {"send", "post"} => i = j
  BY <1>0 DEF Pumping
<1>c. \A i \in Iface : reader[i].pc # "read" => reader[i].todo # <<>>
  BY <1>0 DEF Pumping
<1>d. Cardinality(Claims(queue)) \in Nat
  BY <1>0, FS_CardinalityType
<1>1. ASSUME NEW i \in Iface, NEW r, Becomes(i, r), reader[i].pc # "post", r.pc # "post",
             UNCHANGED <<queue, stream>>, mishaps \subseteq mishaps'
      PROVE  Backed'
  BY <1>0, <1>1, BackedIdle DEF Becomes
<1>2. ASSUME NEW i \in Iface, ReadActive(i) PROVE Backed'
  <2> DEFINE r == [reader[i] EXCEPT !.pc = "lock", !.todo = <<Chunk(i)>>]
  <2>1. Becomes(i, r)
    BY <1>0, <1>2, ReadActiveIs
  <2>2. r.pc = "lock" /\ reader[i].pc = "read"
    BY <1>0, <1>2, ReaderTyped DEF Reading, ReadActive, Read, At
  <2>3. UNCHANGED <<queue, stream, mishaps>>
    BY <1>2 DEF ReadActive
  <2> HIDE DEF r
  <2> QED BY <1>1, <2>1, <2>2, <2>3
<1>3. ASSUME NEW i \in Iface, ReadSignature(i) PROVE Backed'
  <2> DEFINE r == [reader[i] EXCEPT !.pc = "flip", !.todo = Found(i)]
  <2>1. Becomes(i, r)
    BY <1>0, <1>3, ReadSignatureDoes
  <2>2. r.pc = "flip" /\ reader[i].pc = "read"
    BY <1>0, <1>3, ReaderTyped DEF Reading, ReadSignature, Read, At
  <2>3. UNCHANGED <<queue, stream, mishaps>>
    BY <1>3 DEF ReadSignature
  <2> HIDE DEF r
  <2> QED BY <1>1, <2>1, <2>2, <2>3
<1>4. ASSUME NEW i \in Iface, Flip(i) \/ Lock(i) PROVE Backed'
  <2>1. PICK pc \in {"lock", "send"} : Becomes(i, [reader[i] EXCEPT !.pc = pc])
    BY <1>0, <1>4, GotoIs DEF Flip, Lock
  <2> DEFINE r == [reader[i] EXCEPT !.pc = pc]
  <2>2. Becomes(i, r) /\ r.pc # "post" /\ reader[i].pc # "post"
    BY <1>0, <1>4, <2>1, ReaderTyped DEF Reading, Flip, Lock, At
  <2>3. UNCHANGED <<queue, stream, mishaps>>
    BY <1>4 DEF Flip, Lock
  <2> HIDE DEF r
  <2> QED BY <1>1, <2>2, <2>3
<1>5. ASSUME NEW i \in Iface, Send(i) PROVE Backed'
  <2>1. reader[i].pc = "send" /\ reader[i].todo # <<>>
    BY <1>0, <1>5, SendIs
  <2>2. PICK n \in Nat, todo \in Seq(Seq(Byte)) :
           /\ n <= Len(Pumped(i))
           /\ stream' = stream \o SubSeq(Pumped(i), 1, n)
           /\ Becomes(i, [pc |-> "post", todo |-> todo, size |-> n, tries |-> RETRIES])
    BY <1>0, <1>5, SendIs
  <2>3. reader'[i].pc = "post" /\ reader'[i].size = n /\ \A j \in Iface \ {i} : reader'[j] = reader[j]
    BY <2>2 DEF Becomes
  <2>4. \A j \in Iface : reader[j].pc # "post"
    BY <1>a, <2>1
  <2>5. Len(stream') = Len(stream) + n
    <3>1. Pumped(i) \in Seq(Byte) /\ Len(Pumped(i)) \in Nat
      BY <1>0, <2>1, PumpedTyped
    <3>2. SubSeq(Pumped(i), 1, n) \in Seq(Byte) /\ Len(SubSeq(Pumped(i), 1, n)) = IF 1 <= n THEN n - 1 + 1 ELSE 0
      BY <2>2, <3>1, Slice
    <3>3. Len(SubSeq(Pumped(i), 1, n)) = n
      BY <3>2
    <3> QED BY <1>0, <2>2, <3>2, <3>3, Concat DEF RxTypes
  <2>6. UNCHANGED <<queue, mishaps>>
    BY <1>5 DEF Send
  <2>7. Spoken(Cardinality(Claims(queue)))
    BY <1>0, <2>4 DEF Backed
  <2>8. \A j \in Iface : reader'[j].pc = "post" => reader'[j].size = n
    BY <2>3, <2>4
  <2>9. Cardinality(Claims(queue))' = Cardinality(Claims(queue)) /\ IsFiniteSet(Claims(queue))'
    BY <1>0, <2>6
  <2>10. \A m : m = Cardinality(Claims(queue)) + n => m <= Len(stream') /\ (m = Len(stream') \/ "event lost" \in mishaps')
    <3>1. /\ Cardinality(Claims(queue)) <= Len(stream)
          /\ Cardinality(Claims(queue)) = Len(stream) \/ "event lost" \in mishaps
      BY <2>7 DEF Spoken
    <3>3. Cardinality(Claims(queue)) <= Len(stream) /\ Len(stream) \in Nat /\ Cardinality(Claims(queue)) \in Nat /\ n \in Nat
      BY <1>0, <1>d, <2>2, <3>1
    <3>2. Cardinality(Claims(queue)) + n <= Len(stream) + n
      BY <3>3
    <3>4. Cardinality(Claims(queue)) = Len(stream) => Cardinality(Claims(queue)) + n = Len(stream) + n
      OBVIOUS
    <3> QED BY <2>5, <2>6, <3>1, <3>2, <3>4
  <2> QED BY <2>3, <2>8, <2>9, <2>10 DEF Backed, Spoken
<1>6. ASSUME NEW i \in Iface, NEW r, Becomes(i, r), reader[i].pc = "post", r.pc # "post",
             UNCHANGED stream, IsFiniteSet(Claims(queue')),
             Spoken(Cardinality(Claims(queue)) + reader[i].size) => Spoken(Cardinality(Claims(queue)))'
      PROVE  Backed'
  <2>1. \A j \in Iface : reader'[j].pc # "post"
    BY <1>a, <1>6 DEF Becomes
  <2>2. Spoken(Cardinality(Claims(queue)) + reader[i].size)
    BY <1>0, <1>6 DEF Backed
  <2> QED BY <1>6, <2>1, <2>2 DEF Backed
<1>7. ASSUME NEW i \in Iface, reader[i].pc \in {"send", "post"}, Leave(i)
      PROVE  \E r : Becomes(i, r) /\ r.pc # "post"
  <2>1. PICK pc \in {"read", "lock"} : Becomes(i, [reader[i] EXCEPT !.pc = pc, !.todo = Tail(reader[i].todo)])
    BY <1>0, <1>c, <1>7, LeaveIs
  <2>2. [reader[i] EXCEPT !.pc = pc, !.todo = Tail(reader[i].todo)].pc # "post"
    BY <1>0, ReaderTyped DEF Reading
  <2> QED BY <2>1, <2>2
<1>8. ASSUME NEW i \in Iface, reader[i].pc = "post", Advance(i)
      PROVE  \E r : Becomes(i, r) /\ r.pc # "post"
  <2>1. [reader[i] EXCEPT !.pc = "send"].pc # "post"
    BY <1>0, ReaderTyped DEF Reading
  <2>2. Leave(i) \/ Becomes(i, [reader[i] EXCEPT !.pc = "send"])
    BY <1>0, <1>c, <1>8, AdvanceIs
  <2> QED BY <1>7, <1>8, <2>1, <2>2
<1>9. ASSUME NEW i \in Iface, DropRest(i) PROVE Backed'
  <2>1. reader[i].pc = "send" /\ Leave(i) /\ UNCHANGED <<queue, stream>> /\ mishaps \subseteq mishaps'
    BY <1>9 DEF DropRest, At
  <2> QED BY <1>1, <1>7, <2>1
<1>10. ASSUME NEW i \in Iface, Post(i) PROVE Backed'
  <2>1. reader[i].pc = "post" /\ Advance(i) /\ UNCHANGED <<stream, mishaps>> /\ queue' = Append(queue, reader[i].size)
    BY <1>10 DEF Post, At
  <2>2. PICK r : Becomes(i, r) /\ r.pc # "post"
    BY <1>8, <2>1
  <2>3. reader[i].size \in Nat
    BY <1>0, ReaderTyped
  <2>4. /\ IsFiniteSet(Claims(Append(queue, reader[i].size)))
        /\ Cardinality(Claims(Append(queue, reader[i].size))) = Cardinality(Claims(queue)) + reader[i].size
    BY <1>0, <2>3, ClaimsAppend
  <2>5. IsFiniteSet(Claims(queue')) /\ Cardinality(Claims(queue')) = Cardinality(Claims(queue)) + reader[i].size
    BY <2>1, <2>4
  <2>6. Spoken(Cardinality(Claims(queue)) + reader[i].size) => Spoken(Cardinality(Claims(queue)))'
    BY <2>1, <2>5 DEF Spoken
  <2> QED BY <1>6, <2>1, <2>2, <2>5, <2>6
<1>11. ASSUME NEW i \in Iface, Retry(i) PROVE Backed'
  <2>1. Becomes(i, [reader[i] EXCEPT !.tries = reader[i].tries - 1])
    BY <1>0, <1>11, RetryIs
  <2>2. reader'[i].pc = reader[i].pc /\ reader'[i].size = reader[i].size
    BY <1>0, <2>1, ReaderTyped DEF Becomes, Reading
  <2>3. \A j \in Iface : reader'[j].pc = reader[j].pc /\ reader'[j].size = reader[j].size
    BY <2>1, <2>2 DEF Becomes
  <2>4. UNCHANGED <<queue, stream, mishaps>>
    BY <1>11 DEF Retry
  <2>5. \A n : Spoken(n)' = Spoken(n)
    BY <2>4 DEF Spoken
  <2>6. UNCHANGED Claims(queue)
    BY <2>4
  <2> QED BY <1>0, <2>3, <2>5, <2>6 DEF Backed
<1>12. ASSUME NEW i \in Iface, LoseEvent(i) PROVE Backed'
  <2>1. reader[i].pc = "post" /\ Advance(i) /\ UNCHANGED <<stream, queue>> /\ "event lost" \in mishaps'
    BY <1>12 DEF LoseEvent, At
  <2>2. PICK r : Becomes(i, r) /\ r.pc # "post"
    BY <1>8, <2>1
  <2>3. reader[i].size \in Nat
    BY <1>0, ReaderTyped
  <2>4. Cardinality(Claims(queue))' = Cardinality(Claims(queue)) /\ IsFiniteSet(Claims(queue'))
    BY <1>0, <2>1
  <2>5. Spoken(Cardinality(Claims(queue)) + reader[i].size) => Spoken(Cardinality(Claims(queue)))'
    <3>1. ASSUME Cardinality(Claims(queue)) + reader[i].size <= Len(stream)
          PROVE  Cardinality(Claims(queue)) <= Len(stream)
      BY <1>0, <1>d, <2>3, <3>1
    <3> QED BY <2>1, <2>4, <3>1 DEF Spoken
  <2> QED BY <1>6, <2>1, <2>2, <2>4, <2>5
<1>13. CASE PumpOutput
  <2>1. queue # <<>> /\ queue' = Tail(queue) /\ UNCHANGED reader /\ mishaps \subseteq mishaps'
    BY <1>13 DEF PumpOutput
  <2>2. /\ IsFiniteSet(Claims(Tail(queue)))
        /\ Cardinality(Claims(queue)) = Head(queue) + Cardinality(Claims(Tail(queue)))
        /\ Cardinality(Claims(Tail(queue))) \in Nat
    BY <1>0, <2>1, ClaimsTail
  <2>3. Head(queue) \in Nat /\ Len(stream') = Len(stream) - Head(queue)
    BY <1>0, <1>13, PumpOutputIs
  <2>4. IsFiniteSet(Claims(queue')) /\ Cardinality(Claims(queue)) = Cardinality(Claims(queue')) + Head(queue)
    BY <2>1, <2>2, <2>3
  <2> QED BY <1>0, <2>1, <2>3, <2>4, BackedApp
<1>14. CASE PumpInput
  <2>1. queue # <<>> /\ queue' = Tail(queue) /\ Head(queue) = 0 /\ UNCHANGED <<reader, stream, mishaps>>
    BY <1>14 DEF PumpInput
  <2>2. /\ IsFiniteSet(Claims(Tail(queue)))
        /\ Cardinality(Claims(queue)) = Head(queue) + Cardinality(Claims(Tail(queue)))
        /\ Cardinality(Claims(Tail(queue))) \in Nat
    BY <1>0, <2>1, ClaimsTail
  <2>3. IsFiniteSet(Claims(queue')) /\ Cardinality(Claims(queue)) = Cardinality(Claims(queue')) + 0 /\ Len(stream') = Len(stream) - 0
    BY <1>0, <2>1, <2>2
  <2>4. UNCHANGED reader /\ mishaps \subseteq mishaps' /\ 0 \in Nat
    BY <2>1
  <2> QED BY <1>0, <2>3, <2>4, BackedApp
<1>15. ASSUME UNCHANGED <<reader, queue, stream, mishaps>> PROVE Backed'
  BY <1>0, <1>15 DEF Backed, Spoken
<1>16. CASE DataPacket
  <2>1. UNCHANGED <<reader, stream, mishaps>> /\ (queue' = queue \/ queue' = Append(queue, 0))
    BY <1>16 DEF DataPacket, Answered
  <2>2. CASE queue' = queue
    BY <1>15, <2>1, <2>2
  <2>3. CASE queue' = Append(queue, 0)
    <3>1. /\ IsFiniteSet(Claims(Append(queue, 0)))
          /\ Cardinality(Claims(Append(queue, 0))) = Cardinality(Claims(queue)) + 0
      BY <1>0, ClaimsAppend
    <3>2. IsFiniteSet(Claims(queue')) /\ Cardinality(Claims(queue)) = Cardinality(Claims(queue')) + 0 /\ Len(stream') = Len(stream) - 0
      BY <1>0, <1>d, <2>1, <2>3, <3>1
    <3> QED BY <1>0, <2>1, <3>2, BackedApp
  <2> QED BY <2>1, <2>2, <2>3
<1>17. ASSUME NEW i \in Iface, ReadGarbage(i) PROVE Backed'
  BY <1>15, <1>17 DEF ReadGarbage
<1>18. CASE NeedMore \/ Resync \/ EmptyPacket
  BY <1>15, <1>18 DEF NeedMore, Resync, EmptyPacket
<1> QED BY <1>2, <1>3, <1>4, <1>5, <1>9, <1>10, <1>11, <1>12, <1>13, <1>14, <1>16, <1>17, <1>18
        DEF RxNext, Reader, Pump, AppTask

------------------------------------------------------------------------------
(* The route is only taken by who speaks. *)

\* The bytes next to each other on i's line: in a read, and the last of one before the first
\* of the next.
LEMMA Adjacent ==
  ASSUME RxTypes, NEW i \in Iface
  PROVE  /\ \A k \in 1 .. Len(line[i]) : \A m \in 1 .. Len(line[i][k]) - 1 :
              line[i][k][m] = DE /\ line[i][k][m + 1] = AD => Speaks(i)
         /\ \A k \in 1 .. Len(line[i]) - 1 :
              Last(line[i][k]) = DE /\ line[i][k + 1][1] = AD => Speaks(i)
<1>1. DOMAIN line[i] = 1 .. Len(line[i])
  BY LineTyped
<1>2. ASSUME NEW k \in 1 .. Len(line[i]), NEW m \in 1 .. Len(line[i][k]) - 1,
             line[i][k][m] = DE, line[i][k][m + 1] = AD
      PROVE  Speaks(i)
  <2>1. <<DE, AD>> \in Pairs(line[i][k])
    BY <1>2 DEF Pairs
  <2> QED BY <1>1, <2>1 DEF Speaks, Neighbours
<1>3. ASSUME NEW k \in 1 .. Len(line[i]) - 1, Last(line[i][k]) = DE, line[i][k + 1][1] = AD
      PROVE  Speaks(i)
  <2>1. Head(line[i][k + 1]) = line[i][k + 1][1]
    <3>1. k + 1 \in 1 .. Len(line[i])
      BY LineTyped
    <3>2. line[i][k + 1] \in Seq(Byte) /\ Len(line[i][k + 1]) >= 1
      BY <3>1, LineTyped
    <3> HIDE <3>1
    <3> QED BY <3>2
  <2>2. <<DE, AD>> = <<Last(line[i][k]), Head(line[i][k + 1])>>
    BY <1>3, <2>1
  <2>3. <<DE, AD>> \in Edges(line[i])
    BY <1>3, <2>2 DEF Edges
  <2> QED BY <2>3 DEF Speaks, Neighbours
<1> QED BY <1>2, <1>3

LEMMA SignatureSpeaks ==
  ASSUME RxTypes, Routed, NEW i \in Iface, ReadSignature(i)
  PROVE  Speaks(i)
<1>1. /\ at[i] \in Nat /\ at[i] + 1 \in 1 .. Len(line[i]) /\ Len(line[i]) \in Nat /\ reader[i].pc = "read"
      /\ Chunk(i) = line[i][at[i] + 1] /\ Chunk(i) \in Seq(Byte) /\ Len(Chunk(i)) >= 1
  BY ReadIs, LineTyped DEF ReadSignature
<1>2. CASE pendingDe[i] /\ Chunk(i)[1] = AD
  <2>1. at[i] >= 1 /\ Last(line[i][at[i]]) = DE
    BY <1>1, <1>2 DEF Routed
  <2>2. at[i] \in 1 .. Len(line[i]) - 1
    BY <1>1, <2>1
  <2> QED BY <1>1, <1>2, <2>1, <2>2, Adjacent
<1>3. CASE Signature(Chunk(i)) # 0
  <2>1. PICK k \in 1 .. Len(Chunk(i)) - 1 : Chunk(i)[k] = DE /\ Chunk(i)[k + 1] = AD
    BY <1>1, <1>3, ReadSignatureIs
  <2> QED BY <1>1, <2>1, Adjacent
<1> QED BY <1>2, <1>3, ReadSignatureDoes

\* A step away from reads and flips.
LEMMA RoutedKept ==
  ASSUME Routed, UNCHANGED <<line, at, pendingDe, active, offered>>,
         \A j \in Iface : reader'[j].pc = "flip" <=> reader[j].pc = "flip"
  PROVE  Routed'
BY DEF Routed, Speaks

LEMMA RoutedStep ==
  ASSUME RxInv, RxNext
  PROVE  Routed'
<1>0. RxTypes /\ Pumping /\ Routed
  BY DEF RxInv
<1>a. ASSUME NEW i \in Iface, NEW r, Becomes(i, r), r.pc # "flip", reader[i].pc # "flip"
      PROVE  \A j \in Iface : reader'[j].pc = "flip" <=> reader[j].pc = "flip"
  BY <1>a DEF Becomes
<1>b. ASSUME NEW i \in Iface, Read(i)
      PROVE  /\ at'[i] = at[i] + 1 /\ at'[i] <= Len(line[i]) /\ at'[i] >= 1
             /\ \A j \in Iface \ {i} : at'[j] = at[j]
             /\ EndsInDe(Chunk(i)) => Last(line[i][at'[i]]) = DE
             /\ reader[i].pc = "read"
  <2>1. /\ at[i] \in Nat /\ at[i] + 1 \in 1 .. Len(line[i]) /\ at' = [at EXCEPT ![i] = at[i] + 1]
        /\ Chunk(i) = line[i][at[i] + 1] /\ reader[i].pc = "read"
    BY <1>0, <1>b, ReadIs
  <2>2. at'[i] = at[i] + 1 /\ \A j \in Iface \ {i} : at'[j] = at[j]
    BY <1>0, <2>1 DEF RxTypes
  <2>3. at'[i] <= Len(line[i]) /\ at'[i] >= 1
    BY <1>0, <2>1, <2>2, LineTyped
  <2> QED BY <2>1, <2>2, <2>3 DEF EndsInDe
<1>1. ASSUME NEW i \in Iface, ReadActive(i) \/ ReadGarbage(i) PROVE Routed'
  <2>1. /\ Read(i) /\ pendingDe' = [pendingDe EXCEPT ![i] = Pending(i, Chunk(i))]
        /\ UNCHANGED <<line, active, offered>>
    BY <1>1 DEF ReadActive, ReadGarbage, app
  <2>2. \A j \in Iface : reader'[j].pc = "flip" <=> reader[j].pc = "flip"
    <3>1. CASE ReadActive(i)
      <4>1. Becomes(i, [reader[i] EXCEPT !.pc = "lock", !.todo = <<Chunk(i)>>])
        BY <1>0, <3>1, ReadActiveIs
      <4>2. [reader[i] EXCEPT !.pc = "lock", !.todo = <<Chunk(i)>>].pc # "flip"
        BY <1>0, ReaderTyped DEF Reading
      <4>3. reader[i].pc # "flip"
        BY <2>1 DEF Read, At
      <4> QED BY <1>a, <4>1, <4>2, <4>3
    <3>2. CASE ReadGarbage(i)
      BY <3>2 DEF ReadGarbage
    <3> QED BY <1>1, <3>1, <3>2
  <2>3. /\ pendingDe'[i] = EndsInDe(Chunk(i))
        /\ \A j \in Iface \ {i} : pendingDe'[j] = pendingDe[j]
    BY <1>0, <2>1 DEF RxTypes, Pending
  <2>4. \A j \in Iface : Speaks(j)' = Speaks(j)
    BY <2>1 DEF Speaks
  <2>5. \A j \in Iface : at'[j] <= Len(line'[j])
    BY <1>0, <1>b, <2>1 DEF Routed
  <2>6. ASSUME NEW j \in Iface, pendingDe'[j], reader'[j].pc # "flip"
        PROVE  at'[j] >= 1 /\ Last(line'[j][at'[j]]) = DE
    <3>1. CASE j = i
      BY <1>b, <2>1, <2>3, <2>6, <3>1
    <3>2. CASE j # i
      BY <1>0, <1>b, <2>1, <2>2, <2>3, <2>6, <3>2 DEF Routed
    <3> QED BY <3>1, <3>2
  <2>7. /\ \A j \in Iface : reader'[j].pc = "flip" \/ active' = j => Speaks(j)'
        /\ offered' = {} \/ offered' = Iface \/ \E j \in Iface : j \in offered' /\ Speaks(j)'
    <3>1. \A j \in Iface : reader[j].pc = "flip" \/ active = j => Speaks(j)
      BY <1>0 DEF Routed
    <3>2. offered = {} \/ offered = Iface \/ \E j \in Iface : j \in offered /\ Speaks(j)
      BY <1>0 DEF Routed
    <3>3. \A j : Speaks(j)' = Speaks(j)
      BY <2>1 DEF Speaks
    <3>4. offered' = offered /\ active' = active
      BY <2>1
    <3> QED BY <2>2, <3>1, <3>2, <3>3, <3>4
  <2> QED BY <2>5, <2>6, <2>7 DEF Routed
<1>2. ASSUME NEW i \in Iface, ReadSignature(i) PROVE Routed'
  <2>1. Read(i) /\ UNCHANGED <<line, pendingDe, active, offered>>
    BY <1>2 DEF ReadSignature, app, route
  <2>2. Becomes(i, [reader[i] EXCEPT !.pc = "flip", !.todo = Found(i)])
    BY <1>0, <1>2, ReadSignatureDoes
  <2>3. reader'[i].pc = "flip" /\ \A j \in Iface \ {i} : reader'[j] = reader[j]
    BY <1>0, <2>2, ReaderTyped DEF Becomes, Reading
  <2>4. \A j : Speaks(j)' = Speaks(j)
    BY <2>1 DEF Speaks
  <2>5. Speaks(i)
    BY <1>0, <1>2, SignatureSpeaks
  <2>6. \A j \in Iface : at'[j] <= Len(line'[j])
    BY <1>0, <1>b, <2>1 DEF Routed
  <2>7. \A j \in Iface : pendingDe'[j] /\ reader'[j].pc # "flip" => at'[j] >= 1 /\ Last(line'[j][at'[j]]) = DE
    BY <1>0, <1>b, <2>1, <2>3 DEF Routed
  <2>8. \A j \in Iface : reader'[j].pc = "flip" \/ active' = j => Speaks(j)'
    BY <1>0, <2>1, <2>3, <2>4, <2>5 DEF Routed
  <2>9. offered' = {} \/ offered' = Iface \/ \E j \in Iface : j \in offered' /\ Speaks(j)'
    BY <1>0, <2>1, <2>4 DEF Routed
  <2> QED BY <2>6, <2>7, <2>8, <2>9 DEF Routed
<1>3. ASSUME NEW i \in Iface, Flip(i) PROVE Routed'
  <2>1. /\ reader[i].pc = "flip" /\ active' = i /\ pendingDe' = [pendingDe EXCEPT ![i] = FALSE]
        /\ Goto(i, "lock") /\ UNCHANGED <<line, at, offered>>
    BY <1>3 DEF Flip, app, lines, At
  <2>2. Becomes(i, [reader[i] EXCEPT !.pc = "lock"])
    BY <1>0, <2>1, GotoIs
  <2>3. reader'[i].pc = "lock" /\ \A j \in Iface \ {i} : reader'[j] = reader[j]
    BY <1>0, <2>2, ReaderTyped DEF Becomes, Reading
  <2>4. ~pendingDe'[i] /\ \A j \in Iface \ {i} : pendingDe'[j] = pendingDe[j]
    BY <1>0, <2>1 DEF RxTypes
  <2>5. \A j : Speaks(j)' = Speaks(j)
    BY <2>1 DEF Speaks
  <2>6. Speaks(i)
    BY <1>0, <2>1 DEF Routed
  <2>7. \A j \in Iface : at'[j] <= Len(line'[j])
    BY <1>0, <2>1 DEF Routed
  <2>8. \A j \in Iface : pendingDe'[j] /\ reader'[j].pc # "flip" => at'[j] >= 1 /\ Last(line'[j][at'[j]]) = DE
    BY <1>0, <2>1, <2>3, <2>4 DEF Routed
  <2>9. \A j \in Iface : reader'[j].pc = "flip" \/ active' = j => Speaks(j)'
    BY <1>0, <2>1, <2>3, <2>5, <2>6 DEF Routed
  <2>10. offered' = {} \/ offered' = Iface \/ \E j \in Iface : j \in offered' /\ Speaks(j)'
    BY <1>0, <2>1, <2>5 DEF Routed
  <2> QED BY <2>7, <2>8, <2>9, <2>10 DEF Routed
<1>4. ASSUME NEW i \in Iface, Pump(i) PROVE \A j \in Iface : reader'[j].pc = "flip" <=> reader[j].pc = "flip"
  <2>1. ASSUME reader[i].pc \in {"send", "post"}, Leave(i)
        PROVE  \E r : Becomes(i, r) /\ r.pc # "flip"
    <3>1. PICK pc \in {"read", "lock"} : Becomes(i, [reader[i] EXCEPT !.pc = pc, !.todo = Tail(reader[i].todo)])
      BY <1>0, <2>1, LeaveIs DEF Pumping
    <3>2. [reader[i] EXCEPT !.pc = pc, !.todo = Tail(reader[i].todo)].pc # "flip"
      BY <1>0, ReaderTyped DEF Reading
    <3> QED BY <3>1, <3>2
  <2>2. [reader[i] EXCEPT !.pc = "send"].pc # "flip"
    BY <1>0, ReaderTyped DEF Reading
  <2>3. ASSUME reader[i].pc = "post", Advance(i)
        PROVE  \E r : Becomes(i, r) /\ r.pc # "flip"
    <3>1. reader[i].todo # <<>>
      BY <1>0, <2>3 DEF Pumping
    <3>2. Leave(i) \/ Becomes(i, [reader[i] EXCEPT !.pc = "send"])
      BY <1>0, <2>3, <3>1, AdvanceIs
    <3> QED BY <2>1, <2>2, <2>3, <3>2
  <2>4. CASE Lock(i)
    <3>1. Becomes(i, [reader[i] EXCEPT !.pc = "send"]) /\ reader[i].pc # "flip"
      BY <1>0, <2>4, GotoIs DEF Lock, At
    <3> QED BY <1>a, <2>2, <3>1
  <2>5. CASE Send(i)
    <3>1. PICK n \in Nat, todo \in Seq(Seq(Byte)) :
             Becomes(i, [pc |-> "post", todo |-> todo, size |-> n, tries |-> RETRIES])
      BY <1>0, <2>5, SendIs
    <3>2. reader[i].pc # "flip"
      BY <1>0, <2>5, SendIs
    <3> QED BY <1>a, <3>1, <3>2
  <2>6. CASE DropRest(i)
    BY <1>a, <2>1, <2>6 DEF DropRest, At
  <2>7. CASE Post(i) \/ LoseEvent(i)
    BY <1>a, <2>3, <2>7 DEF Post, LoseEvent, At
  <2>8. CASE Retry(i)
    <3>1. Becomes(i, [reader[i] EXCEPT !.tries = reader[i].tries - 1]) /\ reader[i].pc # "flip"
      BY <1>0, <2>8, RetryIs DEF Retry, At
    <3>2. [reader[i] EXCEPT !.tries = reader[i].tries - 1].pc = reader[i].pc
      BY <1>0, ReaderTyped DEF Reading
    <3> QED BY <1>a, <3>1, <3>2
  <2> QED BY <1>4, <2>4, <2>5, <2>6, <2>7, <2>8 DEF Pump
<1>5. ASSUME NEW i \in Iface, Pump(i) PROVE Routed'
  <2>1. UNCHANGED <<line, at, pendingDe, active, offered>>
    BY <1>5 DEF Pump, Lock, Send, DropRest, Post, Retry, LoseEvent, lines, route, app
  <2> QED BY <1>0, <1>4, <1>5, <2>1, RoutedKept
<1>6. CASE PumpInput
  <2>1. UNCHANGED <<line, at, pendingDe, active, reader>> /\ offered' = IF active = "NONE" THEN Iface ELSE {active}
    BY <1>6 DEF PumpInput, lines, route, Targets
  <2>2. \A j : Speaks(j)' = Speaks(j)
    BY <2>1 DEF Speaks
  <2>3. offered' = Iface \/ \E j \in Iface : j \in offered' /\ Speaks(j)'
    <3>1. active = "NONE" \/ (active \in Iface /\ Speaks(active))
      <4>1. active \in Iface \/ active = "NONE"
        BY <1>0 DEF RxTypes
      <4>2. ASSUME active \in Iface PROVE Speaks(active)
        <5>1. \A j \in Iface : active = j => <<DE, AD>> \in Neighbours(line[j])
          BY <1>0 DEF Routed, Speaks
        <5> QED BY <4>2, <5>1 DEF Speaks
      <4> QED BY <4>1, <4>2
    <3> QED BY <2>1, <2>2, <3>1
  <2>4. /\ \A j \in Iface : at'[j] <= Len(line'[j])
        /\ \A j \in Iface : pendingDe'[j] /\ reader'[j].pc # "flip" => at'[j] >= 1 /\ Last(line'[j][at'[j]]) = DE
        /\ \A j \in Iface : reader'[j].pc = "flip" \/ active' = j => Speaks(j)'
    BY <1>0, <2>1, <2>2 DEF Routed
  <2> QED BY <2>3, <2>4 DEF Routed
<1>7. CASE PumpOutput \/ NeedMore \/ Resync \/ EmptyPacket \/ DataPacket
  <2>1. UNCHANGED <<line, at, pendingDe, active, offered, reader>>
    BY <1>7 DEF PumpOutput, NeedMore, Resync, EmptyPacket, DataPacket, lines, route
  <2> QED BY <1>0, <2>1, RoutedKept
<1> QED BY <1>1, <1>2, <1>3, <1>5, <1>6, <1>7 DEF RxNext, Reader, AppTask

------------------------------------------------------------------------------
(* The frames in what is still to be pumped or read. *)

LEMMA AheadIs ==
  ASSUME NEW reads, NEW n
  PROVE  \A f : f \in Ahead(reads, n) <=> \E k \in n + 1 .. Len(reads) : f \in Crcs(reads[k])
BY DEF Ahead

LEMMA SentIs ==
  ASSUME NEW i, NEW reads \in Seq(Seq(Byte))
  PROVE  SentInOrder(i, reads) <=>
           /\ \A k \in 1 .. Len(reads) : CrcsInOrder(reads[k]) /\ \A f \in Crcs(reads[k]) : Sender[f] = i
           /\ \A k, m \in 1 .. Len(reads) : k < m => Before(Crcs(reads[k]), Crcs(reads[m]))
<1>1. DOMAIN reads = 1 .. Len(reads)
  OBVIOUS
<1> QED BY <1>1 DEF SentInOrder

LEMMA AheadNext ==
  ASSUME NEW i, NEW reads \in Seq(Seq(Byte)), SentInOrder(i, reads), NEW n \in Nat, n < Len(reads)
  PROVE  /\ Ahead(reads, n) = Crcs(reads[n + 1]) \cup Ahead(reads, n + 1)
         /\ Before(Crcs(reads[n + 1]), Ahead(reads, n + 1))
         /\ \A f \in Ahead(reads, n) : Sender[f] = i
<1>0. Len(reads) \in Nat
  OBVIOUS
<1>1. n + 1 .. Len(reads) = {n + 1} \cup (n + 1 + 1 .. Len(reads)) /\ n + 1 \in 1 .. Len(reads)
  BY <1>0
<1>2. Ahead(reads, n) = Crcs(reads[n + 1]) \cup Ahead(reads, n + 1)
  <2>1. ASSUME NEW f PROVE f \in Ahead(reads, n) <=> f \in Crcs(reads[n + 1]) \/ f \in Ahead(reads, n + 1)
    <3>1. f \in Ahead(reads, n) <=> \E k \in n + 1 .. Len(reads) : f \in Crcs(reads[k])
      BY AheadIs
    <3>2. f \in Ahead(reads, n + 1) <=> \E k \in n + 1 + 1 .. Len(reads) : f \in Crcs(reads[k])
      BY AheadIs
    <3> QED BY <1>1, <3>1, <3>2
  <2> QED BY <2>1
<1>3. ASSUME NEW f \in Crcs(reads[n + 1]), NEW g \in Ahead(reads, n + 1), Sender[f] = Sender[g] PROVE f < g
  <2>1. PICK k \in n + 1 + 1 .. Len(reads) : g \in Crcs(reads[k])
    BY AheadIs
  <2>2. k \in 1 .. Len(reads) /\ n + 1 < k
    BY <1>0
  <2>3. Before(Crcs(reads[n + 1]), Crcs(reads[k]))
    BY <1>1, <2>2, SentIs
  <2> QED BY <1>3, <2>1, <2>3 DEF Before
<1>4. ASSUME NEW f \in Ahead(reads, n) PROVE Sender[f] = i
  <2>1. PICK k \in n + 1 .. Len(reads) : f \in Crcs(reads[k])
    BY AheadIs
  <2>2. k \in 1 .. Len(reads)
    BY <1>0
  <2> QED BY <2>1, <2>2, SentIs
<1> QED BY <1>2, <1>3, <1>4 DEF Before

LEMMA AheadFrom ==
  ASSUME NEW i, NEW reads \in Seq(Seq(Byte)), SentInOrder(i, reads), NEW n \in Nat
  PROVE  \A f \in Ahead(reads, n) : Sender[f] = i
<1> SUFFICES ASSUME NEW f \in Ahead(reads, n) PROVE Sender[f] = i
  OBVIOUS
<1>1. PICK k \in n + 1 .. Len(reads) : f \in Crcs(reads[k])
  BY AheadIs
<1>2. k \in 1 .. Len(reads)
  OBVIOUS
<1> QED BY <1>1, <1>2, SentIs

LEMMA AheadTail ==
  ASSUME NEW i, NEW reads \in Seq(Seq(Byte)), SentInOrder(i, reads), reads # <<>>
  PROVE  Ahead(Tail(reads), 0) = Ahead(reads, 1) /\ SentInOrder(i, Tail(reads))
<1> DEFINE t == Tail(reads)
<1>1. /\ t \in Seq(Seq(Byte)) /\ Len(t) = Len(reads) - 1 /\ Len(reads) \in Nat /\ Len(reads) >= 1
      /\ \A k \in 1 .. Len(t) : t[k] = reads[k + 1]
  OBVIOUS
<1> HIDE DEF t
<1>2. Ahead(t, 0) = Ahead(reads, 1)
  <2>1. ASSUME NEW f, f \in Ahead(t, 0) PROVE f \in Ahead(reads, 1)
    <3>1. PICK k \in 0 + 1 .. Len(t) : f \in Crcs(t[k])
      BY <2>1, AheadIs
    <3>2. k + 1 \in 1 + 1 .. Len(reads) /\ k \in 1 .. Len(t)
      BY <1>1
    <3>3. f \in Crcs(reads[k + 1])
      BY <1>1, <3>1, <3>2
    <3> QED BY <3>2, <3>3, AheadIs
  <2>2. ASSUME NEW f, f \in Ahead(reads, 1) PROVE f \in Ahead(t, 0)
    <3>1. PICK k \in 1 + 1 .. Len(reads) : f \in Crcs(reads[k])
      BY <2>2, AheadIs
    <3>2. k - 1 \in 0 + 1 .. Len(t) /\ k - 1 \in 1 .. Len(t) /\ k - 1 + 1 = k
      BY <1>1
    <3>3. f \in Crcs(t[k - 1])
      BY <1>1, <3>1, <3>2
    <3> QED BY <3>2, <3>3, AheadIs
  <2> QED BY <2>1, <2>2
<1>3. SentInOrder(i, t)
  <2>1. \A k \in 1 .. Len(t) : k + 1 \in 1 .. Len(reads)
    BY <1>1
  <2>2. ASSUME NEW k \in 1 .. Len(t) PROVE CrcsInOrder(t[k]) /\ \A f \in Crcs(t[k]) : Sender[f] = i
    <3>1. t[k] = reads[k + 1] /\ k + 1 \in 1 .. Len(reads)
      BY <1>1, <2>1
    <3>2. CrcsInOrder(reads[k + 1]) /\ \A f \in Crcs(reads[k + 1]) : Sender[f] = i
      BY <3>1, SentIs
    <3> QED BY <3>1, <3>2
  <2>3. ASSUME NEW k \in 1 .. Len(t), NEW m \in 1 .. Len(t), k < m PROVE Before(Crcs(t[k]), Crcs(t[m]))
    <3>1. k + 1 < m + 1
      BY <1>1, <2>3
    <3>2. Before(Crcs(reads[k + 1]), Crcs(reads[m + 1]))
      BY <2>1, <3>1, SentIs
    <3> QED BY <1>1, <3>2
  <2> QED BY <1>1, <2>2, <2>3, SentIs
<1> QED BY <1>2, <1>3 DEF t

\* A single run of bytes, as it is or with a DE in front.
LEMMA AheadOne ==
  ASSUME NEW i, NEW c \in Seq(Byte), CrcsInOrder(c), \A f \in Crcs(c) : Sender[f] = i
  PROVE  Ahead(<<c>>, 0) = Crcs(c) /\ SentInOrder(i, <<c>>)
<1>1. <<c>> \in Seq(Seq(Byte)) /\ Len(<<c>>) = 1 /\ <<c>>[1] = c /\ 0 + 1 .. 1 = {1} /\ 1 .. 1 = {1} /\ ~(1 < 1)
  OBVIOUS
<1>2. Ahead(<<c>>, 0) = Crcs(c)
  BY <1>1 DEF Ahead
<1> DEFINE t == <<c>>
<1>3. t \in Seq(Seq(Byte)) /\ (\A k \in 1 .. Len(t) : t[k] = c) /\ \A k, m \in 1 .. Len(t) : ~(k < m)
  BY <1>1
<1> HIDE DEF t
<1>4. SentInOrder(i, t)
  BY <1>3, SentIs
<1> QED BY <1>2, <1>4 DEF t

LEMMA AheadTwo ==
  ASSUME NEW i, NEW c \in Seq(Byte), CrcsInOrder(c), \A f \in Crcs(c) : Sender[f] = i
  PROVE  Ahead(<<<<DE>>, c>>, 0) = Crcs(c) /\ SentInOrder(i, <<<<DE>>, c>>)
<1> DEFINE d == <<DE>>
           t == <<d, c>>
<1>1. d \in Seq(Byte) /\ Len(d) = 1 /\ d[1] = DE
  BY Bytes
<1>2. \A f \in Frame : DE # <<"crc", f>>
  BY DEF DE
<1>3. \A k \in 1 .. Len(d) : d[k] = DE
  BY <1>1
<1> HIDE DEF d
<1>4. Crcs(d) = {} /\ CrcsInOrder(d)
  <2>1. Crcs(d) = {}
    <3> SUFFICES ASSUME NEW f \in Frame, f \in Crcs(d) PROVE FALSE
      BY DEF Crcs
    <3> QED BY <1>1, <1>2, <1>3, CrcIn
  <2>2. CrcsInOrder(d)
    BY <1>1, <1>2, <1>3, InOrderIs
  <2> QED BY <2>1, <2>2
<1>5. t \in Seq(Seq(Byte)) /\ Len(t) = 2 /\ t[1] = d /\ t[2] = c
  BY <1>1
<1>6. 0 + 1 .. 2 = {1, 2} /\ 1 .. 2 = {1, 2}
  OBVIOUS
<1> HIDE DEF t
<1>7. Ahead(t, 0) = Crcs(c)
  <2>1. Ahead(t, 0) = UNION {Crcs(t[k]) : k \in {1, 2}}
    BY <1>5, <1>6 DEF Ahead
  <2>2. Crcs(t[1]) = {} /\ Crcs(t[2]) = Crcs(c)
    BY <1>4, <1>5
  <2> QED BY <2>1, <2>2
<1>8. SentInOrder(i, t)
  <2>1. \A k \in 1 .. Len(t) : CrcsInOrder(t[k]) /\ \A f \in Crcs(t[k]) : Sender[f] = i
    BY <1>4, <1>5, <1>6
  <2>2. \A k, m \in 1 .. Len(t) : k < m => k = 1
    BY <1>5
  <2>3. \A k, m \in 1 .. Len(t) : k < m => Before(Crcs(t[k]), Crcs(t[m]))
    BY <1>4, <1>5, <2>2 DEF Before
  <2> QED BY <1>5, <2>1, <2>3, SentIs
<1> QED BY <1>7, <1>8 DEF t, d

\* What a reader found is from the chunk it read.
LEMMA FoundAhead ==
  ASSUME RxTypes, NEW i \in Iface, ReadSignature(i),
         CrcsInOrder(Chunk(i)), \A f \in Crcs(Chunk(i)) : Sender[f] = i
  PROVE  Ahead(Found(i), 0) \subseteq Crcs(Chunk(i)) /\ SentInOrder(i, Found(i))
<1> DEFINE c == Chunk(i)
<1>1. c \in Seq(Byte) /\ Len(c) \in Nat /\ Len(c) >= 1
  BY ReadIs DEF ReadSignature
<1>2. CASE pendingDe[i] /\ c[1] = AD
  <2>1. Found(i) = <<<<DE>>, c>>
    BY <1>2 DEF Found
  <2> HIDE DEF c
  <2>2. Ahead(<<<<DE>>, c>>, 0) = Crcs(c) /\ SentInOrder(i, <<<<DE>>, c>>)
    <3>1. CrcsInOrder(c) /\ \A f \in Crcs(c) : Sender[f] = i
      BY DEF c
    <3> QED BY <1>1, <3>1, AheadTwo
  <2> QED BY <2>1, <2>2 DEF c
<1>3. CASE ~(pendingDe[i] /\ c[1] = AD)
  <2> DEFINE d == SubSeq(c, Signature(c), Len(c))
  <2>1. Signature(c) # 0
    BY <1>3, ReadSignatureDoes
  <2>2. Signature(c) \in 1 .. Len(c)
    BY <1>1, <2>1, ReadSignatureIs
  <2>3. Signature(c) \in Nat \ {0}
    BY <2>2
  <2>4. d \in Seq(Byte)
    BY <1>1, <2>3, Slice
  <2>5. Crcs(d) \subseteq Crcs(c) /\ (CrcsInOrder(c) => CrcsInOrder(d))
    BY <1>1, <2>3, SliceCrcs
  <2>6. Found(i) = <<d>>
    BY <1>3 DEF Found
  <2> HIDE DEF d
  <2>7. CrcsInOrder(d) /\ \A f \in Crcs(d) : Sender[f] = i
    BY <2>5
  <2>8. Ahead(<<d>>, 0) = Crcs(d) /\ SentInOrder(i, <<d>>)
    BY <2>4, <2>7, AheadOne
  <2> QED BY <2>5, <2>6, <2>8
<1> QED BY <1>2, <1>3

------------------------------------------------------------------------------
(* Frames flow from the lines to on_rx_packet in their order. *)

LEMMA BodyIs ==
  /\ \A f \in Frame : Body(f) \in Seq(Byte) /\ Len(Body(f)) >= 1 /\ Body(f)[1] = <<"crc", f>>
  /\ \A f, g \in Frame : Body(f) = Body(g) => f = g
<1>1. ASSUME NEW f \in Frame PROVE Body(f) \in Seq(Byte) /\ Len(Body(f)) >= 1 /\ Body(f)[1] = <<"crc", f>>
  <2> DEFINE h == <<<<"crc", f>>>>
             p == Payload[f]
  <2>1. h \in Seq(Byte) /\ Len(h) = 1 /\ h[1] = <<"crc", f>>
    <3>1. <<"crc", f>> \in Byte
      BY RxAssumption DEF Byte
    <3> QED BY <3>1
  <2>2. p \in Seq(Byte)
    BY RxAssumption
  <2>3. Body(f) = h \o p
    BY DEF Body
  <2> HIDE DEF h, p
  <2>4. /\ h \o p \in Seq(Byte) /\ Len(h \o p) = Len(h) + Len(p)
        /\ \A k \in 1 .. Len(h \o p) : (h \o p)[k] = IF k <= Len(h) THEN h[k] ELSE p[k - Len(h)]
    BY <2>1, <2>2, Concat
  <2>5. Len(p) \in Nat
    BY <2>2
  <2>6. Len(h \o p) >= 1 /\ 1 \in 1 .. Len(h \o p)
    BY <2>1, <2>4, <2>5
  <2>7. (h \o p)[1] = h[1]
    BY <2>1, <2>4, <2>6
  <2> QED BY <2>1, <2>3, <2>4, <2>6, <2>7
<1>2. ASSUME NEW f \in Frame, NEW g \in Frame, Body(f) = Body(g) PROVE f = g
  <2>1. <<"crc", f>> = <<"crc", g>>
    BY <1>1, <1>2
  <2> QED BY <2>1
<1> QED BY <1>1, <1>2

LEMMA FlowReader ==
  ASSUME Flowing, NEW i \in Iface, UNCHANGED <<dispatched, rx, stream, line>>,
         \A j \in Iface \ {i} : reader'[j].todo = reader[j].todo /\ at'[j] = at[j],
         SentInOrder(i, reader'[i].todo),
         Ahead(reader'[i].todo, 0) \subseteq Todo(i) \cup Unread(i), Ahead(line[i], at'[i]) \subseteq Unread(i),
         Before(Ahead(reader'[i].todo, 0), Ahead(line[i], at'[i]))
  PROVE  Flowing'
<1>1. Done' = Done
  BY DEF Done
<1>2. /\ \A k \in DOMAIN dispatched' : \E f \in Frame : dispatched'[k] = Body(f)
      /\ CrcsInOrder(rx') /\ CrcsInOrder(stream')
      /\ Before(Done, Crcs(rx')) /\ Before(Done, Crcs(stream')) /\ Before(Crcs(rx'), Crcs(stream'))
  BY DEF Flowing
<1>3. \A X, Y, Z : Before(X, Y) /\ Z \subseteq Y => Before(X, Z)
  BY DEF Before
<1>4. ASSUME NEW j \in Iface
      PROVE  /\ SentInOrder(j, reader'[j].todo) /\ SentInOrder(j, line'[j])
             /\ Before(Done, Ahead(reader'[j].todo, 0) \cup Ahead(line'[j], at'[j]))
             /\ Before(Crcs(rx'), Ahead(reader'[j].todo, 0) \cup Ahead(line'[j], at'[j]))
             /\ Before(Crcs(stream'), Ahead(reader'[j].todo, 0) \cup Ahead(line'[j], at'[j]))
             /\ Before(Ahead(reader'[j].todo, 0), Ahead(line'[j], at'[j]))
  <2>1. /\ SentInOrder(j, reader[j].todo) /\ SentInOrder(j, line[j])
        /\ Before(Done, Todo(j) \cup Unread(j)) /\ Before(Crcs(rx), Todo(j) \cup Unread(j))
        /\ Before(Crcs(stream), Todo(j) \cup Unread(j)) /\ Before(Todo(j), Unread(j))
    BY DEF Flowing
  <2>2. CASE j = i
    <3>1. Ahead(reader'[i].todo, 0) \cup Ahead(line[i], at'[i]) \subseteq Todo(i) \cup Unread(i)
      OBVIOUS
    <3> QED BY <1>3, <2>1, <2>2, <3>1
  <2>3. CASE j # i
    BY <2>1, <2>3 DEF Todo, Unread
  <2> QED BY <2>2, <2>3
<1> QED BY <1>1, <1>2, <1>4 DEF Flowing, Todo, Unread

LEMMA FlowApp ==
  ASSUME Flowing, UNCHANGED <<reader, line, at>>,
         \A k \in DOMAIN dispatched' : \E f \in Frame : dispatched'[k] = Body(f),
         CrcsInOrder(rx'), CrcsInOrder(stream'),
         Before(Done', Crcs(rx')), Before(Done', Crcs(stream')), Before(Crcs(rx'), Crcs(stream')),
         Crcs(rx') \subseteq Crcs(rx) \cup Crcs(stream), Crcs(stream') \subseteq Crcs(stream),
         Done' \subseteq Done \cup Crcs(rx)
  PROVE  Flowing'
<1>1. ASSUME NEW j \in Iface
      PROVE  /\ SentInOrder(j, reader'[j].todo) /\ SentInOrder(j, line'[j])
             /\ Before(Done', Ahead(reader'[j].todo, 0) \cup Ahead(line'[j], at'[j]))
             /\ Before(Crcs(rx'), Ahead(reader'[j].todo, 0) \cup Ahead(line'[j], at'[j]))
             /\ Before(Crcs(stream'), Ahead(reader'[j].todo, 0) \cup Ahead(line'[j], at'[j]))
             /\ Before(Ahead(reader'[j].todo, 0), Ahead(line'[j], at'[j]))
  <2>1. /\ SentInOrder(j, reader[j].todo) /\ SentInOrder(j, line[j])
        /\ Before(Done, Todo(j) \cup Unread(j)) /\ Before(Crcs(rx), Todo(j) \cup Unread(j))
        /\ Before(Crcs(stream), Todo(j) \cup Unread(j)) /\ Before(Todo(j), Unread(j))
    BY DEF Flowing
  <2>2. Ahead(reader'[j].todo, 0) = Todo(j) /\ Ahead(line'[j], at'[j]) = Unread(j)
    BY DEF Todo, Unread
  <2>3. \A X, Y, Z, W : Before(X, Y) /\ Before(Z, Y) /\ W \subseteq X \cup Z => Before(W, Y)
    BY DEF Before
  <2>4. Before(Done', Todo(j) \cup Unread(j)) /\ Before(Crcs(rx'), Todo(j) \cup Unread(j))
        /\ Before(Crcs(stream'), Todo(j) \cup Unread(j))
    BY <2>1, <2>3
  <2> QED BY <2>1, <2>2, <2>4
<1> QED BY <1>1 DEF Flowing, Todo, Unread

LEMMA FlowSend ==
  ASSUME RxTypes, Pumping, Flowing, NEW i \in Iface, Send(i)
  PROVE  Flowing'
<1>1. reader[i].pc = "send" /\ reader[i].todo # <<>>
  BY SendIs
<1> DEFINE P == Pumped(i)
<1>2. PICK n \in Nat, todo \in Seq(Seq(Byte)) :
         /\ n <= Len(P)
         /\ stream' = stream \o SubSeq(P, 1, n)
         /\ Len(todo) = Len(reader[i].todo)
         /\ todo[1] = SubSeq(P, n + 1, Len(P))
         /\ \A k \in 2 .. Len(todo) : todo[k] = reader[i].todo[k]
         /\ Becomes(i, [pc |-> "post", todo |-> todo, size |-> n, tries |-> RETRIES])
  BY SendIs
<1> DEFINE h == SubSeq(P, 1, n)
           rest == SubSeq(P, n + 1, Len(P))
           old == reader[i].todo
<1>3. /\ P \in Seq(Byte) /\ Len(P) \in Nat /\ P = old[1] /\ old \in Seq(Seq(Byte))
      /\ Len(old) \in Nat /\ Len(old) >= 1
  BY <1>1, PumpedTyped, ReaderTyped
<1>4. /\ SentInOrder(i, old) /\ SentInOrder(i, line[i])
      /\ Before(Done, Todo(i) \cup Unread(i)) /\ Before(Crcs(rx), Todo(i) \cup Unread(i))
      /\ Before(Crcs(stream), Todo(i) \cup Unread(i)) /\ Before(Todo(i), Unread(i))
  BY DEF Flowing
<1>5. UNCHANGED <<dispatched, rx, line, at>>
  BY DEF Send, app, lines
<1>6. reader'[i].todo = todo /\ \A j \in Iface \ {i} : reader'[j] = reader[j]
  BY <1>2 DEF Becomes
<1>7. n \in Nat /\ n <= Len(P) /\ n + 1 \in Nat \ {0} /\ 1 \in Nat \ {0}
  <2>1. n \in Nat /\ n <= Len(P)
    BY <1>2
  <2> QED BY <2>1
<1>8. todo \in Seq(Seq(Byte)) /\ Len(todo) = Len(old) /\ todo[1] = rest
      /\ \A k \in 2 .. Len(todo) : todo[k] = old[k]
  BY <1>2
<1>9. stream \in Seq(Byte)
  BY DEF RxTypes
<1> HIDE DEF P, old
<1>10. CrcsInOrder(P) /\ \A f \in Crcs(P) : Sender[f] = i
  <2>1. 1 \in 1 .. Len(old)
    BY <1>3
  <2> QED BY <1>3, <1>4, <2>1, SentIs
<1>11. /\ h \in Seq(Byte) /\ rest \in Seq(Byte)
  BY <1>3, <1>7, Slice
<1>12. /\ Crcs(h) \subseteq Crcs(P) /\ Crcs(rest) \subseteq Crcs(P) /\ CrcsInOrder(h) /\ CrcsInOrder(rest)
  BY <1>3, <1>7, <1>10, SliceCrcs
<1>13. Before(Crcs(h), Crcs(rest))
  <2>1. CASE n + 1 <= Len(P) \/ n = Len(P)
    BY <1>3, <1>7, <1>10, SplitCrcs
  <2> QED BY <1>3, <1>7, <2>1
<1>14. stream' = stream \o h
  BY <1>2
<1> HIDE DEF h, rest
<1>15. /\ Todo(i) = Crcs(P) \cup Ahead(old, 1) /\ Before(Crcs(P), Ahead(old, 1))
       /\ \A f \in Todo(i) : Sender[f] = i
  <2>1. 0 \in Nat /\ 0 < Len(old) /\ 0 + 1 = 1
    BY <1>3
  <2>2. Ahead(old, 0) = Crcs(old[1]) \cup Ahead(old, 1) /\ Before(Crcs(old[1]), Ahead(old, 1))
        /\ \A f \in Ahead(old, 0) : Sender[f] = i
    BY <1>3, <1>4, <2>1, AheadNext
  <2> QED BY <1>3, <2>2 DEF Todo, old
<1>16. Ahead(todo, 0) = Crcs(rest) \cup Ahead(old, 1)
  <2>1. 0 + 1 .. Len(old) = {1} \cup (1 + 1 .. Len(old))
    BY <1>3
  <2>2. 1 + 1 .. Len(old) = 2 .. Len(todo)
    BY <1>3, <1>8
  <2>3. ASSUME NEW f PROVE f \in Ahead(todo, 0) <=> f \in Crcs(rest) \/ f \in Ahead(old, 1)
    <3>1. f \in Ahead(todo, 0) <=> \E k \in 0 + 1 .. Len(todo) : f \in Crcs(todo[k])
      BY AheadIs
    <3>2. f \in Ahead(old, 1) <=> \E k \in 1 + 1 .. Len(old) : f \in Crcs(old[k])
      BY AheadIs
    <3>3. (\E k \in 1 + 1 .. Len(old) : f \in Crcs(old[k])) <=> (\E k \in 1 + 1 .. Len(old) : f \in Crcs(todo[k]))
      BY <1>8, <2>2
    <3>4. (\E k \in 0 + 1 .. Len(todo) : f \in Crcs(todo[k]))
            <=> f \in Crcs(todo[1]) \/ (\E k \in 1 + 1 .. Len(old) : f \in Crcs(todo[k]))
      <4>1. 0 + 1 .. Len(todo) = {1} \cup (1 + 1 .. Len(old))
        BY <1>8, <2>1
      <4> QED BY <4>1
    <3> QED BY <1>8, <3>1, <3>2, <3>3, <3>4
  <2> QED BY <2>3
<1>17. SentInOrder(i, todo)
  <2>1. ASSUME NEW k \in 1 .. Len(todo) PROVE CrcsInOrder(todo[k]) /\ \A f \in Crcs(todo[k]) : Sender[f] = i
    <3>1. CASE k = 1
      BY <1>8, <1>10, <1>12, <3>1
    <3>2. CASE k # 1
      <4>1. k \in 2 .. Len(todo) /\ k \in 1 .. Len(old)
        BY <1>3, <1>8, <3>2
      <4>2. CrcsInOrder(old[k]) /\ \A f \in Crcs(old[k]) : Sender[f] = i
        BY <1>3, <1>4, <4>1, SentIs
      <4> QED BY <1>8, <4>1, <4>2
    <3> QED BY <3>1, <3>2
  <2>2. ASSUME NEW k \in 1 .. Len(todo), NEW m \in 1 .. Len(todo), k < m PROVE Before(Crcs(todo[k]), Crcs(todo[m]))
    <3>1. m \in 2 .. Len(todo) /\ m \in 1 .. Len(old) /\ k \in 1 .. Len(old)
      BY <1>3, <1>8, <2>2
    <3>2. Before(Crcs(old[k]), Crcs(old[m])) /\ todo[m] = old[m]
      BY <1>3, <1>4, <1>8, <2>2, <3>1, SentIs
    <3>3. Crcs(todo[k]) \subseteq Crcs(old[k])
      <4>1. CASE k = 1
        BY <1>3, <1>8, <1>12, <4>1
      <4>2. CASE k # 1
        <5>1. k \in 2 .. Len(todo)
          BY <1>3, <1>8, <4>2
        <5> QED BY <1>8, <5>1
      <4> QED BY <4>1, <4>2
    <3> QED BY <3>2, <3>3 DEF Before
  <2> QED BY <1>8, <2>1, <2>2, SentIs
<1>18. Crcs(stream') = Crcs(stream) \cup Crcs(h)
  BY <1>9, <1>11, <1>14, ConcatCrcs
<1>19. Crcs(h) \subseteq Todo(i) /\ Ahead(todo, 0) \subseteq Todo(i)
  BY <1>12, <1>15, <1>16
<1>20. Before(Crcs(h), Ahead(todo, 0)) /\ Before(Crcs(h), Unread(i))
  BY <1>4, <1>12, <1>13, <1>15, <1>16, <1>19 DEF Before
<1>21. CrcsInOrder(rx) /\ CrcsInOrder(stream) /\ Before(Done, Crcs(rx)) /\ Before(Done, Crcs(stream))
       /\ Before(Crcs(rx), Crcs(stream)) /\ \A k \in DOMAIN dispatched : \E f \in Frame : dispatched[k] = Body(f)
  BY DEF Flowing
<1>22. CrcsInOrder(stream')
  <2>1. Before(Crcs(stream), Crcs(h))
    BY <1>4, <1>19 DEF Before
  <2> QED BY <1>9, <1>11, <1>12, <1>14, <1>21, <2>1, ConcatCrcs
<1>23. Before(Done, Crcs(stream')) /\ Before(Crcs(rx), Crcs(stream'))
  BY <1>4, <1>18, <1>19, <1>21 DEF Before
<1>24. ASSUME NEW j \in Iface
       PROVE  /\ SentInOrder(j, reader'[j].todo) /\ SentInOrder(j, line'[j])
              /\ Before(Done, Ahead(reader'[j].todo, 0) \cup Ahead(line'[j], at'[j]))
              /\ Before(Crcs(rx'), Ahead(reader'[j].todo, 0) \cup Ahead(line'[j], at'[j]))
              /\ Before(Crcs(stream'), Ahead(reader'[j].todo, 0) \cup Ahead(line'[j], at'[j]))
              /\ Before(Ahead(reader'[j].todo, 0), Ahead(line'[j], at'[j]))
  <2>0. Ahead(line'[j], at'[j]) = Unread(j) /\ rx' = rx /\ line' = line
    BY <1>5 DEF Unread
  <2>1. CASE j = i
    <3>1. Before(Done, Ahead(todo, 0) \cup Unread(i)) /\ Before(Crcs(rx), Ahead(todo, 0) \cup Unread(i))
          /\ Before(Ahead(todo, 0), Unread(i))
      BY <1>4, <1>19 DEF Before
    <3>2. Before(Crcs(stream'), Ahead(todo, 0) \cup Unread(i))
      BY <1>4, <1>18, <1>19, <1>20 DEF Before
    <3> QED BY <1>4, <1>6, <1>17, <2>0, <2>1, <3>1, <3>2
  <2>2. CASE j # i
    <3>1. /\ SentInOrder(j, reader[j].todo) /\ SentInOrder(j, line[j])
          /\ Before(Done, Todo(j) \cup Unread(j)) /\ Before(Crcs(rx), Todo(j) \cup Unread(j))
          /\ Before(Crcs(stream), Todo(j) \cup Unread(j)) /\ Before(Todo(j), Unread(j))
      BY DEF Flowing
    <3>2. \A f \in Todo(j) \cup Unread(j) : Sender[f] = j
      <4>1. reader[j].todo \in Seq(Seq(Byte)) /\ line[j] \in Seq(Seq(Byte))
        BY ReaderTyped, LineTyped
      <4>2. \A f \in Todo(j) : Sender[f] = j
        BY <3>1, <4>1, AheadFrom DEF Todo
      <4>3. \A f \in Unread(j) : Sender[f] = j
        <5>1. at[j] \in Nat
          BY DEF RxTypes
        <5> QED BY <3>1, <4>1, <5>1, AheadFrom DEF Unread
      <4> QED BY <4>2, <4>3
    <3>3. Before(Crcs(h), Todo(j) \cup Unread(j))
      BY <1>15, <1>19, <2>2, <3>2 DEF Before
    <3>4. Before(Crcs(stream'), Todo(j) \cup Unread(j))
      BY <1>18, <3>1, <3>3 DEF Before
    <3>5. Ahead(reader'[j].todo, 0) = Todo(j) /\ reader'[j] = reader[j]
      BY <1>6, <2>2 DEF Todo
    <3> QED BY <2>0, <3>1, <3>4, <3>5
  <2> QED BY <2>1, <2>2
<1>25. Done' = Done
  BY <1>5 DEF Done
<1>26. /\ \A k \in DOMAIN dispatched' : \E f \in Frame : dispatched'[k] = Body(f)
       /\ CrcsInOrder(rx') /\ Before(Done, Crcs(rx')) /\ Before(Crcs(rx'), Crcs(stream'))
  BY <1>5, <1>21, <1>23
<1> QED BY <1>22, <1>23, <1>24, <1>25, <1>26 DEF Flowing, Todo, Unread

\* The next read of a line, and the rest of it.
LEMMA ReadFlows ==
  ASSUME RxTypes, Flowing, NEW i \in Iface, Read(i)
  PROVE  /\ Unread(i) = Crcs(Chunk(i)) \cup Ahead(line[i], at'[i])
         /\ Before(Crcs(Chunk(i)), Ahead(line[i], at'[i]))
         /\ CrcsInOrder(Chunk(i)) /\ \A f \in Crcs(Chunk(i)) : Sender[f] = i
         /\ \A j \in Iface \ {i} : at'[j] = at[j]
<1>1. /\ at[i] \in Nat /\ at[i] + 1 \in 1 .. Len(line[i]) /\ at' = [at EXCEPT ![i] = at[i] + 1]
      /\ Chunk(i) = line[i][at[i] + 1] /\ line[i] \in Seq(Seq(Byte)) /\ Len(line[i]) \in Nat
  BY ReadIs, LineTyped
<1>2. at'[i] = at[i] + 1 /\ \A j \in Iface \ {i} : at'[j] = at[j]
  BY <1>1 DEF RxTypes
<1>3. SentInOrder(i, line[i])
  BY DEF Flowing
<1>4. at[i] < Len(line[i])
  BY <1>1
<1>5. /\ Ahead(line[i], at[i]) = Crcs(line[i][at[i] + 1]) \cup Ahead(line[i], at[i] + 1)
      /\ Before(Crcs(line[i][at[i] + 1]), Ahead(line[i], at[i] + 1))
  BY <1>1, <1>3, <1>4, AheadNext
<1>6. CrcsInOrder(line[i][at[i] + 1]) /\ \A f \in Crcs(line[i][at[i] + 1]) : Sender[f] = i
  BY <1>1, <1>3, SentIs
<1> QED BY <1>1, <1>2, <1>5, <1>6 DEF Unread

LEMMA FlowLeave ==
  ASSUME RxTypes, Flowing, NEW i \in Iface, reader[i].todo # <<>>, Leave(i),
         UNCHANGED <<dispatched, rx, stream, line, at>>
  PROVE  Flowing'
<1>1. PICK pc \in {"read", "lock"} : Becomes(i, [reader[i] EXCEPT !.pc = pc, !.todo = Tail(reader[i].todo)])
  BY LeaveIs
<1>2. reader'[i].todo = Tail(reader[i].todo) /\ \A j \in Iface \ {i} : reader'[j].todo = reader[j].todo
  BY <1>1, ReaderTyped DEF Becomes, Reading
<1>3. reader[i].todo \in Seq(Seq(Byte)) /\ SentInOrder(i, reader[i].todo) /\ Before(Todo(i), Unread(i))
  BY ReaderTyped DEF Flowing
<1>4. Ahead(Tail(reader[i].todo), 0) = Ahead(reader[i].todo, 1) /\ SentInOrder(i, Tail(reader[i].todo))
  BY <1>3, AheadTail
<1>5. Ahead(reader[i].todo, 1) \subseteq Todo(i)
  <2>1. Len(reader[i].todo) \in Nat /\ 0 \in Nat /\ 0 < Len(reader[i].todo) /\ 0 + 1 = 1
    BY <1>3
  <2> QED BY <1>3, <2>1, AheadNext DEF Todo
<1>6. Ahead(line[i], at'[i]) = Unread(i)
  BY DEF Unread
<1>7. Before(Ahead(reader'[i].todo, 0), Ahead(line[i], at'[i]))
  BY <1>2, <1>3, <1>4, <1>5, <1>6 DEF Before
<1> QED BY <1>2, <1>4, <1>5, <1>6, <1>7, FlowReader

LEMMA FlowSame ==
  ASSUME Flowing, \A j \in Iface : reader'[j].todo = reader[j].todo,
         UNCHANGED <<dispatched, rx, stream, line, at>>
  PROVE  Flowing'
<1>1. Done' = Done
  BY DEF Done
<1>2. \A j \in Iface : Ahead(reader'[j].todo, 0) = Ahead(reader[j].todo, 0)
  OBVIOUS
<1>3. ASSUME NEW j \in Iface
      PROVE  /\ SentInOrder(j, reader'[j].todo) /\ SentInOrder(j, line'[j])
             /\ Before(Done, Ahead(reader'[j].todo, 0) \cup Ahead(line'[j], at'[j]))
             /\ Before(Crcs(rx'), Ahead(reader'[j].todo, 0) \cup Ahead(line'[j], at'[j]))
             /\ Before(Crcs(stream'), Ahead(reader'[j].todo, 0) \cup Ahead(line'[j], at'[j]))
             /\ Before(Ahead(reader'[j].todo, 0), Ahead(line'[j], at'[j]))
  BY <1>2 DEF Flowing, Todo, Unread
<1> QED BY <1>1, <1>3 DEF Flowing, Todo, Unread

LEMMA FlowPump ==
  ASSUME RxTypes, Pumping, Flowing, NEW i \in Iface, Pump(i)
  PROVE  Flowing'
<1>1. ASSUME NEW r, Becomes(i, r), r.todo = reader[i].todo PROVE \A j \in Iface : reader'[j].todo = reader[j].todo
  BY <1>1 DEF Becomes
<1>2. \A pc : [reader[i] EXCEPT !.pc = pc].todo = reader[i].todo
  BY ReaderTyped DEF Reading
<1>3. CASE Lock(i)
  <2>1. Becomes(i, [reader[i] EXCEPT !.pc = "send"])
    BY <1>3, GotoIs DEF Lock
  <2>2. UNCHANGED <<dispatched, rx, stream, line, at>>
    BY <1>3 DEF Lock, lines, app
  <2>3. \A j \in Iface : reader'[j].todo = reader[j].todo
    BY <1>1, <1>2, <2>1
  <2> QED BY <2>2, <2>3, FlowSame
<1>4. CASE DropRest(i)
  <2>1. Leave(i) /\ reader[i].todo # <<>> /\ UNCHANGED <<dispatched, rx, stream, line, at>>
    BY <1>4 DEF DropRest, At, Pumping, lines, app
  <2> QED BY <2>1, FlowLeave
<1>5. CASE Post(i) \/ LoseEvent(i)
  <2>1. Advance(i) /\ reader[i].todo # <<>> /\ UNCHANGED <<dispatched, rx, stream, line, at>>
    BY <1>5 DEF Post, LoseEvent, At, Pumping, lines, app
  <2>2. CASE Leave(i)
    BY <2>1, <2>2, FlowLeave
  <2>3. CASE Becomes(i, [reader[i] EXCEPT !.pc = "send"])
    <3>1. \A j \in Iface : reader'[j].todo = reader[j].todo
      BY <1>1, <1>2, <2>3
    <3> QED BY <2>1, <3>1, FlowSame
  <2> QED BY <2>1, <2>2, <2>3, AdvanceIs
<1>6. CASE Retry(i)
  <2>1. Becomes(i, [reader[i] EXCEPT !.tries = reader[i].tries - 1])
    BY <1>6, RetryIs
  <2>2. [reader[i] EXCEPT !.tries = reader[i].tries - 1].todo = reader[i].todo
    BY ReaderTyped DEF Reading
  <2>3. UNCHANGED <<dispatched, rx, stream, line, at>>
    BY <1>6 DEF Retry, lines, app
  <2>4. \A j \in Iface : reader'[j].todo = reader[j].todo
    BY <1>1, <2>1, <2>2
  <2> QED BY <2>3, <2>4, FlowSame
<1> QED BY <1>3, <1>4, <1>5, <1>6, FlowSend DEF Pump

\* The parser drops bytes in front of what it keeps.
LEMMA FlowParser ==
  ASSUME RxTypes, Flowing, UNCHANGED <<reader, line, at, stream, dispatched>>,
         Crcs(rx') \subseteq Crcs(rx), CrcsInOrder(rx) => CrcsInOrder(rx')
  PROVE  Flowing'
<1>1. Done' = Done
  BY DEF Done
<1>2. /\ \A k \in DOMAIN dispatched' : \E f \in Frame : dispatched'[k] = Body(f)
      /\ CrcsInOrder(rx') /\ CrcsInOrder(stream')
  BY DEF Flowing
<1>3. Before(Done, Crcs(rx)) /\ Before(Done, Crcs(stream)) /\ Before(Crcs(rx), Crcs(stream))
  BY DEF Flowing
<1>4. Before(Done', Crcs(rx')) /\ Before(Done', Crcs(stream')) /\ Before(Crcs(rx'), Crcs(stream'))
  BY <1>1, <1>3 DEF Before
<1>5. Crcs(rx') \subseteq Crcs(rx) \cup Crcs(stream) /\ Crcs(stream') \subseteq Crcs(stream)
      /\ Done' \subseteq Done \cup Crcs(rx)
  BY <1>1
<1> QED BY <1>2, <1>4, <1>5, FlowApp

LEMMA FlowOutput ==
  ASSUME RxTypes, Backed, Flowing, PumpOutput
  PROVE  Flowing'
<1> DEFINE size == Head(queue)
           kept == SubSeq(rx, Overflow(size) + 1, Len(rx))
           come == SubSeq(stream, 1, size)
           rest == SubSeq(stream, size + 1, Len(stream))
<1>1. /\ size \in Nat /\ size <= Len(stream) /\ Len(stream) \in Nat
      /\ kept \in Seq(Byte) /\ come \in Seq(Byte) /\ rx' = kept \o come /\ stream' = rest
  BY PumpOutputIs
<1>2. UNCHANGED <<reader, line, at, dispatched>>
  BY DEF PumpOutput, lines
<1>3. rx \in Seq(Byte) /\ stream \in Seq(Byte) /\ Len(rx) \in Nat
  BY DEF RxTypes
<1>4. Overflow(size) + 1 \in Nat \ {0}
  <2>1. Overflow(size) \in Nat
    BY <1>1, OverflowIs
  <2> QED BY <2>1
<1>5. CrcsInOrder(rx) /\ CrcsInOrder(stream) /\ Before(Done, Crcs(rx)) /\ Before(Done, Crcs(stream))
      /\ Before(Crcs(rx), Crcs(stream)) /\ \A k \in DOMAIN dispatched : \E f \in Frame : dispatched[k] = Body(f)
  BY DEF Flowing
<1> HIDE DEF size
<1>6. Crcs(kept) \subseteq Crcs(rx) /\ CrcsInOrder(kept)
  BY <1>3, <1>4, <1>5, SliceCrcs
<1>7. Crcs(come) \subseteq Crcs(stream) /\ CrcsInOrder(come)
  <2>1. 1 \in Nat \ {0}
    OBVIOUS
  <2> QED BY <1>1, <1>3, <1>5, <2>1, SliceCrcs
<1>8. Crcs(rest) \subseteq Crcs(stream) /\ CrcsInOrder(rest)
  <2>1. size + 1 \in Nat \ {0}
    BY <1>1
  <2> QED BY <1>1, <1>3, <1>5, <2>1, SliceCrcs
<1>9. Before(Crcs(come), Crcs(rest))
  <2>1. size + 1 \in Nat \ {0} /\ size < size + 1
    BY <1>1
  <2> QED BY <1>1, <1>3, <1>5, <2>1, SplitCrcs
<1> HIDE DEF kept, come, rest
<1>10. Crcs(rx') = Crcs(kept) \cup Crcs(come)
  BY <1>1, ConcatCrcs
<1>11. CrcsInOrder(rx')
  <2>1. Before(Crcs(kept), Crcs(come))
    BY <1>5, <1>6, <1>7 DEF Before
  <2> QED BY <1>1, <1>6, <1>7, <2>1, ConcatCrcs
<1>12. Done' = Done
  BY <1>2 DEF Done
<1>13. Before(Done', Crcs(rx')) /\ Before(Done', Crcs(stream')) /\ Before(Crcs(rx'), Crcs(stream'))
  BY <1>1, <1>5, <1>6, <1>7, <1>8, <1>9, <1>10, <1>12 DEF Before
<1>14. Crcs(rx') \subseteq Crcs(rx) \cup Crcs(stream) /\ Crcs(stream') \subseteq Crcs(stream)
       /\ Done' \subseteq Done \cup Crcs(rx)
  BY <1>1, <1>6, <1>7, <1>8, <1>10, <1>12
<1>15. CrcsInOrder(stream') /\ \A k \in DOMAIN dispatched' : \E f \in Frame : dispatched'[k] = Body(f)
  BY <1>1, <1>2, <1>5, <1>8
<1> QED BY <1>2, <1>11, <1>13, <1>14, <1>15, FlowApp

\* A packet whose CRC is right carries a frame whose CRC is in front of what is left.
LEMMA PacketIs ==
  ASSUME RxTypes, Flowing, DataPacket, NEW f \in Frame,
         SubSeq(FromSignature, SIGNATURE + HEADER + 1, SIGNATURE + PacketLen) = Body(f)
  PROVE  f \in Crcs(rx) /\ Before({f}, Crcs(rx'))
<1> DEFINE s == FromSignature
           n == SIGNATURE + PacketLen
           body == SubSeq(s, 4, n)
           head == SubSeq(s, 1, 4)
           rest == SubSeq(s, n + 1, Len(s))
<1>1. AtHeader /\ Arrived /\ PacketLen > HEADER /\ Skip(n)
  BY DEF DataPacket
<1>2. SignatureIn(rx) # 0 /\ PacketLen \in Nat
  BY <1>1, AtHeaderIs
<1>3. s \in Seq(Byte) /\ Len(s) \in Nat /\ Crcs(s) \subseteq Crcs(rx) /\ (CrcsInOrder(rx) => CrcsInOrder(s))
  BY <1>2, FromSignatureIs
<1>4. n \in Nat /\ n >= 4 /\ n <= Len(s)
  <2>1. SIGNATURE = 2 /\ HEADER = 1 /\ Len(s) >= PacketLen + SIGNATURE
    BY <1>1 DEF SIGNATURE, HEADER, Arrived
  <2> QED BY <1>1, <1>2, <1>3, <2>1
<1>5. CrcsInOrder(s)
  BY <1>3 DEF Flowing
<1>6. rx' = rest
  BY <1>1 DEF Skip
<1>7. body = Body(f)
  <2>1. SIGNATURE + HEADER + 1 = 4
    BY DEF SIGNATURE, HEADER
  <2> QED BY <2>1
<1> HIDE DEF s, n
<1>8. /\ Len(body) = n - 4 + 1 /\ body \in Seq(Byte)
      /\ \A k \in 1 .. Len(body) : body[k] = s[k + 4 - 1]
  <2>1. 4 \in Nat \ {0}
    OBVIOUS
  <2> QED BY <1>3, <1>4, <2>1, Slice
<1>9. 4 \in Nat /\ 4 <= Len(s) /\ 1 \in Nat \ {0} /\ n + 1 \in Nat \ {0} /\ 4 < n + 1
  BY <1>3, <1>4
<1>10. /\ Len(head) = 4 /\ head \in Seq(Byte)
       /\ \A k \in 1 .. Len(head) : head[k] = s[k + 1 - 1]
  <2>1. /\ Len(head) = IF 1 <= 4 THEN 4 - 1 + 1 ELSE 0
        /\ head \in Seq(Byte) /\ \A k \in 1 .. Len(head) : head[k] = s[k + 1 - 1]
    BY <1>3, <1>9, Slice
  <2> QED BY <2>1
<1>11. Before(Crcs(head), Crcs(rest))
  BY <1>3, <1>5, <1>9, SplitCrcs
<1>12. Crcs(head) \subseteq Crcs(s)
  BY <1>3, <1>9, SliceCrcs
<1> HIDE DEF body, head, rest
<1>13. s[4] = <<"crc", f>>
  <2>1. body[1] = <<"crc", f>> /\ 1 \in 1 .. Len(body)
    <3>1. Len(Body(f)) >= 1 /\ Body(f)[1] = <<"crc", f>>
      BY BodyIs
    <3>2. Len(body) \in Nat
      BY <1>8
    <3> QED BY <1>7, <3>1, <3>2
  <2>2. body[1] = s[1 + 4 - 1]
    BY <1>8, <2>1
  <2> QED BY <2>1, <2>2
<1>14. f \in Crcs(head)
  <2>1. 4 \in 1 .. Len(head) /\ head[4] = s[4]
    <3>1. 4 \in 1 .. Len(head)
      BY <1>10
    <3>2. head[4] = s[4 + 1 - 1]
      BY <1>10, <3>1
    <3> QED BY <3>1, <3>2
  <2> QED BY <1>10, <1>13, <2>1, CrcIn
<1> QED BY <1>3, <1>6, <1>11, <1>12, <1>14 DEF Before

\* What on_rx_packet is handed.
LEMMA DataPacketIs ==
  ASSUME RxTypes, DataPacket
  PROVE  \/ dispatched' = dispatched
         \/ \E f \in Frame :
              /\ SubSeq(FromSignature, SIGNATURE + HEADER + 1, SIGNATURE + PacketLen) = Body(f)
              /\ dispatched' = Append(dispatched, Body(f))
BY DEF DataPacket, DataCrcOk

LEMMA FlowData ==
  ASSUME RxTypes, Flowing, DataPacket
  PROVE  Flowing'
<1>1. UNCHANGED <<reader, line, at, stream>> /\ AtHeader /\ Skip(SIGNATURE + PacketLen)
  BY DEF DataPacket, lines
<1>2. Crcs(rx') \subseteq Crcs(rx) /\ (CrcsInOrder(rx) => CrcsInOrder(rx'))
  <2>1. SIGNATURE + PacketLen \in Nat
    BY <1>1, AtHeaderIs DEF SIGNATURE
  <2> QED BY <1>1, <2>1, SkipIs
<1>3. CASE dispatched' = dispatched
  BY <1>1, <1>2, <1>3, FlowParser
<1>4. ASSUME NEW f \in Frame, dispatched' = Append(dispatched, Body(f)),
             SubSeq(FromSignature, SIGNATURE + HEADER + 1, SIGNATURE + PacketLen) = Body(f)
      PROVE  Flowing'
  <2>1. f \in Crcs(rx) /\ Before({f}, Crcs(rx'))
    BY <1>4, PacketIs
  <2>2. dispatched \in Seq(Seq(Byte)) /\ Body(f) \in Seq(Byte)
    BY BodyIs DEF RxTypes
  <2>3. /\ DOMAIN dispatched' = 1 .. Len(dispatched) + 1 /\ DOMAIN dispatched = 1 .. Len(dispatched)
        /\ dispatched'[Len(dispatched) + 1] = Body(f) /\ Len(dispatched) \in Nat
        /\ \A k \in 1 .. Len(dispatched) : dispatched'[k] = dispatched[k]
    BY <1>4, <2>2
  <2>4. \A k \in DOMAIN dispatched' : k \in DOMAIN dispatched \/ k = Len(dispatched) + 1
    BY <2>3
  <2>5. \A k \in DOMAIN dispatched' : \E g \in Frame : dispatched'[k] = Body(g)
    <3>1. \A k \in DOMAIN dispatched : \E g \in Frame : dispatched[k] = Body(g)
      BY DEF Flowing
    <3> QED BY <2>3, <2>4, <3>1
  <2>6. Done' \subseteq Done \cup {f}
    <3> SUFFICES ASSUME NEW g \in Frame, NEW k \in DOMAIN dispatched', dispatched'[k] = Body(g)
                 PROVE  g \in Done \cup {f}
      BY DEF Done
    <3>1. CASE k \in DOMAIN dispatched
      BY <2>3, <3>1 DEF Done
    <3>2. CASE k = Len(dispatched) + 1
      BY <2>3, <3>2, BodyIs
    <3> QED BY <2>4, <3>1, <3>2
  <2>7. CrcsInOrder(rx) /\ CrcsInOrder(stream) /\ Before(Done, Crcs(rx)) /\ Before(Done, Crcs(stream)) /\ Before(Crcs(rx), Crcs(stream))
    BY DEF Flowing
  <2>8. Before(Done', Crcs(rx')) /\ Before(Done', Crcs(stream')) /\ Before(Crcs(rx'), Crcs(stream'))
    BY <1>1, <1>2, <2>1, <2>6, <2>7 DEF Before
  <2>9. CrcsInOrder(rx') /\ CrcsInOrder(stream') /\ Crcs(rx') \subseteq Crcs(rx) \cup Crcs(stream) /\ Crcs(stream') \subseteq Crcs(stream)
        /\ Done' \subseteq Done \cup Crcs(rx)
    BY <1>1, <1>2, <2>1, <2>6, <2>7
  <2> QED BY <1>1, <2>5, <2>8, <2>9, FlowApp
<1> QED BY <1>3, <1>4, DataPacketIs

LEMMA FlowingStep ==
  ASSUME RxInv, RxNext
  PROVE  Flowing'
<1>0. RxTypes /\ Pumping /\ Backed /\ Flowing
  BY DEF RxInv
<1>a. \A i \in Iface : Before(Todo(i), Unread(i))
  BY <1>0 DEF Flowing
<1>1. ASSUME NEW i \in Iface, ReadActive(i) PROVE Flowing'
  <2>1. Read(i) /\ UNCHANGED <<dispatched, rx, stream, line>>
    BY <1>1 DEF ReadActive, app
  <2>2. /\ Unread(i) = Crcs(Chunk(i)) \cup Ahead(line[i], at'[i])
        /\ Before(Crcs(Chunk(i)), Ahead(line[i], at'[i]))
        /\ CrcsInOrder(Chunk(i)) /\ \A f \in Crcs(Chunk(i)) : Sender[f] = i
        /\ \A j \in Iface \ {i} : at'[j] = at[j]
    BY <1>0, <2>1, ReadFlows
  <2>3. Becomes(i, [reader[i] EXCEPT !.pc = "lock", !.todo = <<Chunk(i)>>])
    BY <1>0, <1>1, ReadActiveIs
  <2>4. reader'[i].todo = <<Chunk(i)>> /\ \A j \in Iface \ {i} : reader'[j].todo = reader[j].todo
    BY <1>0, <2>3, ReaderTyped DEF Becomes, Reading
  <2>5. Chunk(i) \in Seq(Byte)
    BY <1>0, <2>1, ReadIs
  <2>6. Ahead(<<Chunk(i)>>, 0) = Crcs(Chunk(i)) /\ SentInOrder(i, <<Chunk(i)>>)
    BY <2>2, <2>5, AheadOne
  <2> QED BY <1>0, <2>1, <2>2, <2>4, <2>6, FlowReader
<1>2. ASSUME NEW i \in Iface, ReadSignature(i) PROVE Flowing'
  <2>1. Read(i) /\ UNCHANGED <<dispatched, rx, stream, line>>
    BY <1>2 DEF ReadSignature, app
  <2>2. /\ Unread(i) = Crcs(Chunk(i)) \cup Ahead(line[i], at'[i])
        /\ Before(Crcs(Chunk(i)), Ahead(line[i], at'[i]))
        /\ CrcsInOrder(Chunk(i)) /\ \A f \in Crcs(Chunk(i)) : Sender[f] = i
        /\ \A j \in Iface \ {i} : at'[j] = at[j]
    BY <1>0, <2>1, ReadFlows
  <2>3. Becomes(i, [reader[i] EXCEPT !.pc = "flip", !.todo = Found(i)])
    BY <1>0, <1>2, ReadSignatureDoes
  <2>4. reader'[i].todo = Found(i) /\ \A j \in Iface \ {i} : reader'[j].todo = reader[j].todo
    BY <1>0, <2>3, ReaderTyped DEF Becomes, Reading
  <2>5. Ahead(Found(i), 0) \subseteq Crcs(Chunk(i)) /\ SentInOrder(i, Found(i))
    BY <1>0, <1>2, <2>2, FoundAhead
  <2>6. Before(Ahead(reader'[i].todo, 0), Ahead(line[i], at'[i]))
    BY <2>2, <2>4, <2>5 DEF Before
  <2>7. Ahead(reader'[i].todo, 0) \subseteq Todo(i) \cup Unread(i) /\ Ahead(line[i], at'[i]) \subseteq Unread(i)
    BY <2>2, <2>4, <2>5
  <2> QED BY <1>0, <2>1, <2>2, <2>4, <2>5, <2>6, <2>7, FlowReader
<1>3. ASSUME NEW i \in Iface, ReadGarbage(i) PROVE Flowing'
  <2>1. Read(i) /\ UNCHANGED <<dispatched, rx, stream, line, reader>>
    BY <1>3 DEF ReadGarbage, app
  <2>2. Unread(i) = Crcs(Chunk(i)) \cup Ahead(line[i], at'[i]) /\ \A j \in Iface \ {i} : at'[j] = at[j]
    BY <1>0, <2>1, ReadFlows
  <2>3. Ahead(reader'[i].todo, 0) = Todo(i) /\ SentInOrder(i, reader'[i].todo)
    BY <1>0, <2>1 DEF Todo, Flowing
  <2>4. Before(Ahead(reader'[i].todo, 0), Ahead(line[i], at'[i]))
    BY <1>a, <2>2, <2>3 DEF Before
  <2>5. Ahead(reader'[i].todo, 0) \subseteq Todo(i) \cup Unread(i) /\ Ahead(line[i], at'[i]) \subseteq Unread(i)
        /\ \A j \in Iface \ {i} : reader'[j].todo = reader[j].todo
    BY <2>1, <2>2, <2>3
  <2> QED BY <1>0, <2>1, <2>2, <2>3, <2>4, <2>5, FlowReader
<1>4. ASSUME NEW i \in Iface, Flip(i) PROVE Flowing'
  <2>1. Becomes(i, [reader[i] EXCEPT !.pc = "lock"]) /\ UNCHANGED <<dispatched, rx, stream, line, at>>
    BY <1>0, <1>4, GotoIs DEF Flip, lines, app
  <2>2. \A j \in Iface : reader'[j].todo = reader[j].todo
    <3>1. [reader[i] EXCEPT !.pc = "lock"].todo = reader[i].todo
      BY <1>0, ReaderTyped DEF Reading
    <3> QED BY <2>1, <3>1 DEF Becomes
  <2> QED BY <1>0, <2>1, <2>2, FlowSame
<1>5. CASE PumpInput
  <2>1. UNCHANGED <<dispatched, rx, stream, line, at, reader>>
    BY <1>5 DEF PumpInput, lines
  <2> QED BY <1>0, <2>1, FlowSame
<1>6. CASE NeedMore
  <2>1. UNCHANGED <<dispatched, stream, line, at, reader>>
    BY <1>6 DEF NeedMore, lines
  <2>2. Crcs(rx') \subseteq Crcs(rx) /\ (CrcsInOrder(rx) => CrcsInOrder(rx'))
    BY <1>0, <1>6, NeedMoreIs
  <2> QED BY <1>0, <2>1, <2>2, FlowParser
<1>7. CASE Resync \/ EmptyPacket
  <2>1. UNCHANGED <<dispatched, stream, line, at, reader>>
    BY <1>7 DEF Resync, EmptyPacket, lines
  <2>2. PICK n \in Nat : AtHeader /\ Skip(n)
    BY <1>7 DEF Resync, EmptyPacket, SIGNATURE, HEADER
  <2>3. Crcs(rx') \subseteq Crcs(rx) /\ (CrcsInOrder(rx) => CrcsInOrder(rx'))
    BY <1>0, <2>2, SkipIs
  <2> QED BY <1>0, <2>1, <2>3, FlowParser
<1> QED BY <1>0, <1>1, <1>2, <1>3, <1>4, <1>5, <1>6, <1>7, FlowPump, FlowOutput, FlowData
        DEF RxNext, Reader, AppTask

LEMMA RxInvStep == RxInv /\ [RxNext]_rxVars => RxInv'
<1>1. ASSUME RxInv, RxNext PROVE RxInv'
  BY <1>1, RxTypesStep, PumpingStep, BackedStep, RoutedStep, FlowingStep DEF RxInv
<1> QED BY <1>1, RxStutter

LEMMA RxInvHolds == RxSpec => []RxInv
BY RxInitInv, RxInvStep, PTL DEF RxSpec

------------------------------------------------------------------------------
(* What follows from the invariant. *)

\* What the entries of m_queue and the one about to be posted claim is in m_output_buf, and
\* nothing else is unless an entry was lost: for lines, chunks and buffers of any length.
THEOREM EventsAreBacked == RxSpec => []EventsBacked
<1>1. ASSUME RxInv PROVE EventsBacked
  <2> DEFINE posting == {i \in Iface : At(i, "post")}
             claimed == Cardinality(Claims(queue))
                          + IF posting = {} THEN 0 ELSE reader[CHOOSE i \in posting : TRUE].size
  <2>0. RxTypes /\ Pumping /\ Backed
    BY <1>1 DEF RxInv
  <2>1. Cardinality(Claims(queue)) \in Nat
    BY <2>0, FS_CardinalityType DEF Backed
  <2>2. Spoken(claimed)
    <3>1. CASE posting = {}
      <4>1. \A i \in Iface : reader[i].pc # "post"
        BY <3>1 DEF At
      <4>2. claimed = Cardinality(Claims(queue))
        BY <2>1, <3>1
      <4> HIDE DEF claimed
      <4> QED BY <2>0, <4>1, <4>2 DEF Backed
    <3>2. CASE posting # {}
      <4> DEFINE i == CHOOSE i \in posting : TRUE
      <4>1. i \in posting
        BY <3>2
      <4>2. claimed = Cardinality(Claims(queue)) + reader[i].size
        BY <3>2
      <4> HIDE DEF claimed, i
      <4>3. i \in Iface /\ reader[i].pc = "post"
        BY <4>1 DEF At
      <4> QED BY <2>0, <4>2, <4>3 DEF Backed
    <3> QED BY <3>1, <3>2
  <2>3. claimed <= Len(stream) /\ (claimed = Len(stream) \/ "event lost" \in mishaps)
    <3> HIDE DEF claimed
    <3> QED BY <2>2 DEF Spoken
  <2> QED BY <2>3 DEF EventsBacked
<1> QED BY <1>1, RxInvHolds, PTL

\* With one host on the two lines, however they are cut into reads, what the firmware sends
\* is offered to it.
THEOREM HostKeepsRoute == RxSpec => []HostIsAnswered
<1>1. ASSUME RxInv PROVE HostIsAnswered
  <2>1. RxTypes /\ Routed
    BY <1>1 DEF RxInv
  <2>2. \A j \in Iface : j \in Hosts[line] <=> Speaks(j)
    <3>1. line \in Lines
      BY <2>1 DEF RxTypes
    <3>2. Hosts[line] = {j \in Iface : <<DE, AD>> \in Neighbours(line[j])}
      BY <3>1 DEF Hosts
    <3> QED BY <3>2 DEF Speaks
  <2>3. ASSUME NEW i \in Iface, Hosts[line] = {i} PROVE offered = {} \/ i \in offered
    <3>1. \A j \in Iface : Speaks(j) => j = i
      BY <2>2, <2>3
    <3>2. offered = {} \/ offered = Iface \/ \E j \in Iface : j \in offered /\ Speaks(j)
      BY <2>1 DEF Routed
    <3> QED BY <3>1, <3>2
  <2> QED BY <2>3 DEF HostIsAnswered
<1> QED BY <1>1, RxInvHolds, PTL

LEMMA FrameOfIs ==
  ASSUME NEW f \in Frame
  PROVE  FrameOf(Body(f)) = f
<1>1. {g \in Frame : Body(f) = Body(g)} = {f}
  BY BodyIs
<1> QED BY <1>1 DEF FrameOf

\* The receive path implements FrameStream: each step of it takes the next frame or none.
THEOREM StreamIsFrames == RxSpec => StreamHolds
<1> DEFINE taken == [k \in DOMAIN dispatched |-> FrameOf(dispatched[k])]
<1>1. RxInit => FS!Init
  BY DEF RxInit, FS!Init
<1>2. ASSUME RxInv, [RxNext]_rxVars PROVE FS!Next \/ UNCHANGED taken
  <2>0. RxTypes /\ Flowing
    BY <1>2 DEF RxInv
  <2>1. CASE dispatched' = dispatched
    BY <2>1
  <2>2. CASE DataPacket
    <3>1. ASSUME NEW f \in Frame, dispatched' = Append(dispatched, Body(f)),
                 SubSeq(FromSignature, SIGNATURE + HEADER + 1, SIGNATURE + PacketLen) = Body(f)
          PROVE  FS!Take(f)
      <4>1. dispatched \in Seq(Seq(Byte)) /\ Body(f) \in Seq(Byte)
        BY <2>0, BodyIs DEF RxTypes
      <4>2. taken' = Append(taken, f)
        <5> DEFINE new == [k \in DOMAIN dispatched' |-> FrameOf(dispatched'[k])]
                   F == {FrameOf(dispatched[k]) : k \in DOMAIN dispatched} \cup {f}
        <5>1. /\ DOMAIN dispatched' = 1 .. Len(dispatched) + 1 /\ DOMAIN dispatched = 1 .. Len(dispatched)
              /\ dispatched'[Len(dispatched) + 1] = Body(f) /\ Len(dispatched) \in Nat
              /\ \A k \in 1 .. Len(dispatched) : dispatched'[k] = dispatched[k]
          BY <3>1, <4>1
        <5>2. /\ Len(taken) = Len(dispatched) /\ taken \in Seq(F) /\ f \in F
              /\ \A k \in 1 .. Len(dispatched) : taken[k] = FrameOf(dispatched[k])
          BY <5>1
        <5>3. \A k \in 1 .. Len(dispatched) + 1 : k \in 1 .. Len(dispatched) \/ k = Len(dispatched) + 1
          BY <5>1
        <5>4. \A k \in 1 .. Len(dispatched) : new[k] = FrameOf(dispatched[k])
          BY <5>1
        <5>5. new[Len(dispatched) + 1] = f
          <6>1. Len(dispatched) + 1 \in DOMAIN dispatched'
            BY <5>1
          <6> QED BY <5>1, <6>1, FrameOfIs
        <5>6. new \in Seq(F) /\ Len(new) = Len(dispatched) + 1
          <6>1. \A k \in 1 .. Len(dispatched) + 1 : new[k] \in F
            BY <5>1, <5>3, <5>4, <5>5
          <6>2. new = [k \in 1 .. Len(dispatched) + 1 |-> new[k]] /\ Len(dispatched) + 1 \in Nat
            BY <5>1
          <6> HIDE DEF new, F
          <6> QED BY <6>1, <6>2
        <5> HIDE DEF new, taken, F
        <5>7. /\ Append(taken, f) \in Seq(F) /\ Len(Append(taken, f)) = Len(dispatched) + 1
              /\ Append(taken, f)[Len(dispatched) + 1] = f
              /\ \A k \in 1 .. Len(dispatched) : Append(taken, f)[k] = taken[k]
          BY <5>2
        <5>8. new = Append(taken, f)
          <6> DEFINE a == Append(taken, f)
          <6>1. \A k \in 1 .. Len(dispatched) + 1 : new[k] = a[k]
            BY <5>2, <5>3, <5>4, <5>5, <5>7
          <6>2. a \in Seq(F) /\ Len(a) = Len(dispatched) + 1
            BY <5>7
          <6> HIDE DEF a
          <6>3. new = a
            BY <5>6, <6>1, <6>2
          <6> QED BY <6>3 DEF a
        <5> QED BY <5>8 DEF new, taken
      <4>3. ASSUME NEW k \in DOMAIN taken, Sender[taken[k]] = Sender[f] PROVE taken[k] < f
        <5>1. PICK g \in Frame : dispatched[k] = Body(g)
          BY <2>0 DEF Flowing
        <5>2. taken[k] = g
          BY <5>1, FrameOfIs
        <5>3. g \in Done
          BY <5>1 DEF Done
        <5>4. f \in Crcs(rx) /\ Before(Done, Crcs(rx))
          BY <2>0, <2>2, <3>1, PacketIs DEF Flowing
        <5> QED BY <4>3, <5>2, <5>3, <5>4 DEF Before
      <4> QED BY <4>2, <4>3 DEF FS!Take
    <3> QED BY <2>0, <2>1, <2>2, <3>1, DataPacketIs DEF FS!Next
  <2> QED BY <1>2, <2>1, <2>2
      DEF RxNext, Reader, AppTask, Pump, ReadActive, ReadGarbage, ReadSignature, Flip, Lock, Send, DropRest, Post,
          Retry, LoseEvent, PumpOutput, PumpInput, NeedMore, Resync, EmptyPacket, rxVars, app
<1> QED BY <1>1, <1>2, RxInvHolds, PTL DEF RxSpec, StreamHolds, FS!Spec
==============================================================================
