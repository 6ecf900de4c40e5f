-------------------------------- MODULE RxPath --------------------------------
(***************************************************************************)
(* The host-to-firmware path: the USB and UART reader tasks                *)
(* (transport::rx_qualified_pump, rx_pump), the byte stream m_output_buf   *)
(* with its EVENT_OUTPUT entries, and the framing parser on the app task   *)
(* (protocol::on_rx_int); and, since it depends on the same m_active, the  *)
(* choice of interface for what goes back (transport::write_int).          *)
(*                                                                         *)
(* A byte is a pair.  The five header bytes after the signature are one    *)
(* <<"hdr", packet_len>> (a header whose CRC is wrong is noise), the two   *)
(* bytes of the data CRC one <<"crc", frame>>.                             *)
(***************************************************************************)
EXTENDS Naturals, Sequences, SequencesExt

CONSTANTS Frame,            \* frames the hosts send; each host numbers its own upwards
          Sender,           \* the interface each comes in on
          Payload,          \* its payload bytes
          Lines,            \* what the lines may carry: on each Iface what its reads return
          RX_BUFFER_SIZE,   \* bytes m_rx_buffer holds
          OUTPUT_BUF,       \* bytes m_output_buf holds (RINGBUF_SIZE)
          EVENT_QUEUE_LEN,  \* entries in m_queue
          RETRIES           \* RINGBUF_TIMEOUT_MS / 10

Iface == {"USB", "UART"}

\* A byte: which, and the number it carries.
Byte == {"DE", "AD", "hdr", "crc", "x"} \X Nat

ASSUME RxAssumption ==
  /\ Frame \subseteq Nat \ {0}
  /\ Sender \in [Frame -> Iface]
  /\ Payload \in [Frame -> Seq(Byte)]
  /\ \A l \in Lines : l \in [Iface -> Seq(Seq(Byte))]
  /\ \A l \in Lines : \A i \in Iface : \A k \in DOMAIN l[i] : Len(l[i][k]) \in 1 .. RX_BUFFER_SIZE
  /\ {RX_BUFFER_SIZE, OUTPUT_BUF, EVENT_QUEUE_LEN} \subseteq Nat \ {0}
  /\ RETRIES \in Nat

VARIABLES
  line,        \* what the reads of the two lines return, in this behaviour
  at,          \* how many of them each reader has done
  pendingDe,   \* m_usb_pending_de, m_uart_pending_de
  active,      \* m_active
  reader,      \* each RX task: where it is and what it has still to pump
  owner,       \* holder of m_output_sem
  stream,      \* m_output_buf
  queue,       \* m_queue: sizes of EVENT_OUTPUTs, 0 for an EVENT_INPUT
  parsing,     \* the app task is in on_rx_int's loop
  rx,          \* m_rx_buffer; during the loop, from rx_data on
  offered,     \* the interfaces write_int last offered a frame to
  dispatched,  \* history: the data handed to on_rx_packet
  mishaps      \* history: what has been thrown away, and where

lines == <<line, at>>
route == <<pendingDe, active>>
app == <<parsing, rx, offered, dispatched>>
rxVars == <<lines, route, reader, owner, stream, queue, app, mishaps>>

------------------------------------------------------------------------------
(* Bytes and frames. *)

DE == <<"DE", 0>>
AD == <<"AD", 0>>
SIGNATURE == 2
HEADER == 1

Body(f) == <<<<"crc", f>>>> \o Payload[f]
Encoded(f) == <<DE, AD, <<"hdr", HEADER + Len(Body(f))>>>> \o Body(f)

\* Mutant of DataCrcOk: the data CRC is not looked at.
DataCrcUnchecked(body) == TRUE

\* utils::crc16 over the data agrees with the bytes before it.
DataCrcOk(body) == \E f \in Frame : body = Body(f)

\* The frames whose CRC is among the bytes.
Crcs(bytes) == {f \in Frame : <<"crc", f>> \in ToSet(bytes)}

\* Each host's frames in A are before those in B ...
Before(A, B) == \A f \in A, g \in B : Sender[f] = Sender[g] => f < g

\* ... and those in the bytes in their order.
CrcsInOrder(bytes) ==
  \A k, m \in DOMAIN bytes : \A f, g \in Frame :
    k < m /\ bytes[k] = <<"crc", f>> /\ bytes[m] = <<"crc", g>> /\ Sender[f] = Sender[g] => f < g

\* The reads of i's line carry only frames of its own host, in the order it numbers them; a
\* transmission repeated is a frame of its own.
SentInOrder(i, reads) ==
  /\ \A k \in DOMAIN reads : CrcsInOrder(reads[k]) /\ \A f \in Crcs(reads[k]) : Sender[f] = i
  /\ \A k, m \in DOMAIN reads : k < m => Before(Crcs(reads[k]), Crcs(reads[m]))

ASSUME LineAssumption == \A l \in Lines : \A i \in Iface : SentInOrder(i, l[i])

------------------------------------------------------------------------------
RxInit ==
  /\ line \in Lines
  /\ at = [i \in Iface |-> 0]
  /\ pendingDe = [i \in Iface |-> FALSE]
  /\ active = "NONE"
  /\ reader = [i \in Iface |-> [pc |-> "read", todo |-> <<>>, size |-> 0, tries |-> 0]]
  /\ owner = "none"
  /\ stream = <<>>
  /\ queue = <<0>>   \* the frame that announces the boot
  /\ parsing = FALSE /\ rx = <<>>
  /\ offered = {}
  /\ dispatched = <<>>
  /\ mishaps = {}

At(i, pc) == reader[i].pc = pc
Goto(i, pc) == reader' = [reader EXCEPT ![i].pc = pc]

------------------------------------------------------------------------------
(* The reader task of interface i. *)

\* The first DE AD in a chunk, 0 if there is none.
Signature(chunk) ==
  SelectInSeq([k \in 1 .. Len(chunk) - 1 |-> <<chunk[k], chunk[k + 1]>>],
              LAMBDA pair : pair = <<DE, AD>>)

EndsInDe(chunk) == Last(chunk) = DE

\* Mutant of Pending: a chunk without a DE at its end does not clear it.
PendingKept(i, chunk) == pendingDe[i] \/ EndsInDe(chunk)

\* pending_de after a chunk that was not the start of a session.
Pending(i, chunk) == EndsInDe(chunk)

\* usb_serial_jtag_read_bytes, uart_read_bytes: the bytes that came while it waited.
Read(i) ==
  /\ At(i, "read")
  /\ at[i] < Len(line[i])
  /\ at' = [at EXCEPT ![i] = @ + 1]

Chunk(i) == line[i][at[i] + 1]

\* The route is i's: everything is pumped.
ReadActive(i) ==
  /\ Read(i)
  /\ active = i
  /\ pendingDe' = [pendingDe EXCEPT ![i] = Pending(i, Chunk(i))]
  /\ reader' = [reader EXCEPT ![i].pc = "lock", ![i].todo = <<Chunk(i)>>]
  /\ UNCHANGED <<line, active, owner, stream, queue, app, mishaps>>

\* It is not, and no signature shows: the chunk is dropped.
ReadGarbage(i) ==
  /\ Read(i)
  /\ active # i
  /\ ~(pendingDe[i] /\ Chunk(i)[1] = AD)
  /\ Signature(Chunk(i)) = 0
  /\ pendingDe' = [pendingDe EXCEPT ![i] = Pending(i, Chunk(i))]
  /\ UNCHANGED <<line, active, reader, owner, stream, queue, app, mishaps>>

\* A signature, inside the chunk or across its edge: from there on it is pumped.
\* A DE that went with the chunk before is put back by a pump of its own.
ReadSignature(i) ==
  /\ Read(i)
  /\ active # i
  /\ LET chunk == Chunk(i)
         spans == pendingDe[i] /\ chunk[1] = AD
         sig == Signature(chunk)
     IN /\ spans \/ sig # 0
        /\ reader' = [reader EXCEPT ![i].pc = "flip",
             ![i].todo = IF spans THEN <<<<DE>>, chunk>> ELSE <<SubSeq(chunk, sig, Len(chunk))>>]
  /\ UNCHANGED <<line, route, owner, stream, queue, app, mishaps>>

\* The route was tested and is stored in two steps.
Flip(i) ==
  /\ At(i, "flip")
  /\ active' = i
  /\ pendingDe' = [pendingDe EXCEPT ![i] = FALSE]
  /\ Goto(i, "lock")
  /\ UNCHANGED <<lines, owner, stream, queue, app, mishaps>>

\* rx_pump takes m_output_sem over all bytes and events of one pump.
Lock(i) ==
  /\ At(i, "lock")
  /\ owner = "none"
  /\ owner' = i
  /\ Goto(i, "send")
  /\ UNCHANGED <<lines, route, stream, queue, app, mishaps>>

Room == OUTPUT_BUF - Len(stream)
Pumped(i) == Head(reader[i].todo)

\* How much of it the stream takes.
Fits(i) == IF Room < Len(Pumped(i)) THEN Room ELSE Len(Pumped(i))

\* Mutant of Sent: what was read, not what the stream took (before TRNPT-2).
SentAll(i) == Len(Pumped(i))

\* xStreamBufferSend's result; fewer than asked for when its wait has run out.
Sent(i) == Fits(i)

Send(i) ==
  /\ At(i, "send")
  /\ Room > 0
  /\ stream' = stream \o SubSeq(Pumped(i), 1, Fits(i))
  /\ LET rest == SubSeq(Pumped(i), Sent(i) + 1, Len(Pumped(i)))
     IN reader' = [reader EXCEPT ![i] =
          [pc |-> "post", todo |-> <<rest>> \o Tail(@.todo), size |-> Sent(i), tries |-> RETRIES]]
  /\ UNCHANGED <<lines, route, owner, queue, app, mishaps>>

\* The pump is over; the next one, if any, takes the lock again.
Leave(i) ==
  /\ owner' = "none"
  /\ LET rest == Tail(reader[i].todo)
     IN reader' = [reader EXCEPT ![i].pc = IF rest = <<>> THEN "read" ELSE "lock",
                                 ![i].todo = rest]

\* The wait ran out with the stream full: the remainder is dropped.
DropRest(i) ==
  /\ At(i, "send")
  /\ Room = 0
  /\ Leave(i)
  /\ mishaps' = mishaps \cup {"stream full"}
  /\ UNCHANGED <<lines, route, stream, queue, app>>

\* off += sent: on with the remainder, or out.
Advance(i) ==
  IF Pumped(i) = <<>> THEN Leave(i) ELSE Goto(i, "send") /\ UNCHANGED owner

Post(i) ==
  /\ At(i, "post")
  /\ Len(queue) < EVENT_QUEUE_LEN
  /\ queue' = Append(queue, reader[i].size)
  /\ Advance(i)
  /\ UNCHANGED <<lines, route, stream, app, mishaps>>

Retry(i) ==
  /\ At(i, "post")
  /\ Len(queue) = EVENT_QUEUE_LEN
  /\ reader[i].tries > 0
  /\ reader' = [reader EXCEPT ![i].tries = @ - 1]
  /\ UNCHANGED <<lines, route, owner, stream, queue, app, mishaps>>

LoseEvent(i) ==
  /\ At(i, "post")
  /\ Len(queue) = EVENT_QUEUE_LEN
  /\ reader[i].tries = 0
  /\ Advance(i)
  /\ mishaps' = mishaps \cup {"event lost"}
  /\ UNCHANGED <<lines, route, stream, queue, app>>

Pump(i) == Lock(i) \/ Send(i) \/ DropRest(i) \/ Post(i) \/ Retry(i) \/ LoseEvent(i)

Reader(i) ==
  \/ ReadActive(i) \/ ReadGarbage(i) \/ ReadSignature(i)
  \/ Flip(i)
  \/ Pump(i)

------------------------------------------------------------------------------
(* The app task. *)

\* on_rx_int makes room by dropping the oldest bytes of m_rx_buffer.
Overflow(size) ==
  IF Len(rx) + size > RX_BUFFER_SIZE THEN Len(rx) + size - RX_BUFFER_SIZE ELSE 0

\* EVENT_OUTPUT: that many bytes of the stream go to the parser.
PumpOutput ==
  /\ ~parsing
  /\ queue # <<>> /\ Head(queue) > 0
  /\ LET size == Head(queue)
     IN /\ rx' = SubSeq(rx, Overflow(size) + 1, Len(rx)) \o SubSeq(stream, 1, size)
        /\ stream' = SubSeq(stream, size + 1, Len(stream))
        /\ mishaps' = IF Overflow(size) > 0 THEN mishaps \cup {"overflow"} ELSE mishaps
  /\ queue' = Tail(queue)
  /\ parsing' = TRUE
  /\ UNCHANGED <<lines, route, reader, owner, offered, dispatched>>

\* write_int: a host that has shown itself gets it alone, before that it is offered to both.
Targets == IF active = "NONE" THEN Iface ELSE {active}

\* EVENT_INPUT.
PumpInput ==
  /\ ~parsing
  /\ queue # <<>> /\ Head(queue) = 0
  /\ offered' = Targets
  /\ queue' = Tail(queue)
  /\ UNCHANGED <<lines, route, reader, owner, stream, parsing, rx, dispatched, mishaps>>

------------------------------------------------------------------------------
(* One iteration of on_rx_int's loop. *)

\* Mutant of SignatureIn: a false DE ends the search (before PROTO-2).
SignatureInFirst(bytes) ==
  LET k == SelectInSeq(bytes, LAMBDA b : b = DE)
  IN IF k = 0 \/ k = Len(bytes) THEN k ELSE IF bytes[k + 1] = AD THEN k ELSE 0

\* find_signature: DE AD, or a DE that ends the buffer; 0 if there is none.
SignatureIn(bytes) ==
  SelectInSeq([k \in DOMAIN bytes |-> <<bytes[k], IF k = Len(bytes) THEN AD ELSE bytes[k + 1]>>],
              LAMBDA s : s = <<DE, AD>>)

\* The buffer from the signature on.
FromSignature == SubSeq(rx, SignatureIn(rx), Len(rx))

Enough(bytes) == Len(bytes) >= SIGNATURE + HEADER

\* The loop goes on with a signature and a header in front of it.
AtHeader ==
  /\ parsing
  /\ Enough(rx)
  /\ SignatureIn(rx) # 0
  /\ Enough(FromSignature)

HeaderOk == FromSignature[3][1] = "hdr"
PacketLen == FromSignature[3][2]
Arrived == Len(FromSignature) >= PacketLen + SIGNATURE

\* rx_data += n.
Skip(n) == rx' = SubSeq(FromSignature, n + 1, Len(FromSignature))

\* The loop ends: too little left, no signature, or not yet all of a packet.  Bytes
\* before a signature are gone, those without one are kept.
NeedMore ==
  /\ parsing
  /\ AtHeader => HeaderOk /\ ~Arrived
  /\ rx' = IF Enough(rx) /\ SignatureIn(rx) # 0 THEN FromSignature ELSE rx
  /\ parsing' = FALSE
  /\ UNCHANGED <<lines, route, reader, owner, stream, queue, offered, dispatched, mishaps>>

\* A header with a wrong CRC, or one too short to carry data (C2).
Resync ==
  /\ AtHeader
  /\ ~HeaderOk \/ (Arrived /\ PacketLen < HEADER)
  /\ Skip(SIGNATURE)
  /\ UNCHANGED <<lines, route, reader, owner, stream, queue, parsing, offered, dispatched, mishaps>>

\* An empty packet, the host's ACK: on_rx_packet has nothing to do.
EmptyPacket ==
  /\ AtHeader /\ HeaderOk /\ Arrived
  /\ PacketLen = HEADER
  /\ Skip(SIGNATURE + HEADER)
  /\ UNCHANGED <<lines, route, reader, owner, stream, queue, parsing, offered, dispatched, mishaps>>

\* send_ack or send_nack: an EVENT_INPUT, which is dropped when the queue is full.
Answered == queue' = IF Len(queue) < EVENT_QUEUE_LEN THEN Append(queue, 0) ELSE queue

\* A packet with data: dispatched if its CRC is right, else only NACKed.
DataPacket ==
  /\ AtHeader /\ HeaderOk /\ Arrived
  /\ PacketLen > HEADER
  /\ LET body == SubSeq(FromSignature, SIGNATURE + HEADER + 1, SIGNATURE + PacketLen)
     IN dispatched' = IF DataCrcOk(body) THEN Append(dispatched, body) ELSE dispatched
  /\ Skip(SIGNATURE + PacketLen)
  /\ Answered
  /\ UNCHANGED <<lines, route, reader, owner, stream, parsing, offered, mishaps>>

AppTask == PumpOutput \/ PumpInput \/ NeedMore \/ Resync \/ EmptyPacket \/ DataPacket

RxNext == (\E i \in Iface : Reader(i)) \/ AppTask

RxSpec == RxInit /\ [][RxNext]_rxVars

\* FreeRTOS runs every ready task; what is on a line is read.
RxFairSpec == RxSpec /\ WF_rxVars(AppTask) /\ \A i \in Iface : WF_rxVars(Reader(i))

------------------------------------------------------------------------------
(* Properties. *)

\* The frame a packet's data is, 0 if it is none.
FrameOf(body) ==
  LET same == {f \in Frame : body = Body(f)}
  IN IF same = {} THEN 0 ELSE CHOOSE f \in same : TRUE

FS == INSTANCE FrameStream WITH
        taken <- [k \in DOMAIN dispatched |-> FrameOf(dispatched[k])],
        Frame <- Frame, Sender <- Sender

\* Whatever the lines carry, however it is cut into reads, dropped on the way and mixed
\* with what the other interface says, on_rx_packet is given frames as a host sent them,
\* none twice and each host's in their order: on_rx_int with rx_pump implement FrameStream.
StreamHolds == FS!Spec

\* The bytes that the entries of a queue claim, those of each counted.
Claims(q) == UNION {{k} \X (1 .. q[k]) : k \in DOMAIN q}

\* What the entries of m_queue, and the one about to be posted, say is in m_output_buf is
\* there (TRNPT-2: an entry made out for bytes the stream did not take shifts every later
\* one), and nothing else is unless an entry was lost.
EventsBacked ==
  LET posting == {i \in Iface : At(i, "post")}
      claimed == Cardinality(Claims(queue))
                   + IF posting = {} THEN 0 ELSE reader[CHOOSE i \in posting : TRUE].size
  IN /\ claimed <= Len(stream)
     /\ claimed = Len(stream) \/ "event lost" \in mishaps

\* The bytes next to each other in a read, and on a line also across the edge of two.
Pairs(bytes) == {<<bytes[m], bytes[m + 1]>> : m \in 1 .. Len(bytes) - 1}
Edges(reads) == {<<Last(reads[k]), Head(reads[k + 1])>> : k \in 1 .. Len(reads) - 1}
Neighbours(reads) == Edges(reads) \cup UNION {Pairs(reads[k]) : k \in DOMAIN reads}

\* The interfaces with something on their line that looks like the start of a session.
Hosts == [l \in Lines |-> {i \in Iface : <<DE, AD>> \in Neighbours(l[i])}]

\* With one host there is, no frame of the firmware is kept from it: what a port prober
\* sends on the other interface, wherever it is cut, does not take the route away
\* (rx_qualified_pump), and before the host has spoken both interfaces are served.
HostIsAnswered == \A i \in Iface : Hosts[line] = {i} => offered = {} \/ i \in offered

\* packet_len of a header at place k of the bytes, 0 if there is none.
Declared(bytes, k) ==
  IF /\ k + SIGNATURE <= Len(bytes)
     /\ SubSeq(bytes, k, k + 1) = <<DE, AD>>
     /\ bytes[k + 2][1] = "hdr"
  THEN bytes[k + 2][2] ELSE 0

\* Where a parser with all of the bytes in view finds packets: headers that no packet before
\* reaches over.
Packets(bytes) ==
  FoldLeft(LAMBDA found, k :
             IF k > found.end /\ Declared(bytes, k) >= HEADER
             THEN [end |-> k + 1 + Declared(bytes, k), at |-> found.at \cup {k}] ELSE found,
           [end |-> 0, at |-> {}], [k \in DOMAIN bytes |-> k]).at

\* What has to come through: with one host, the frames among its packets.
FramesIn(bytes) ==
  {f \in Frame : \E p \in Packets(bytes) : IsPrefix(Encoded(f), SubSeq(bytes, p, Len(bytes)))}

Framed ==
  [l \in Lines |-> UNION {FramesIn(FlattenSeq(l[i])) : i \in {j \in Iface : Hosts[l] = {j}}}]

\* With one host, and nothing thrown away for want of room, every frame that framing
\* reaches is dispatched in the end: garbage, damaged frames and headers before it, a read
\* that ends inside its signature, an interface that was not the active one do not cost it.
SessionDelivered ==
  <>(mishaps # {} \/ \A f \in Framed[line] : Body(f) \in ToSet(dispatched))

\* Every frame a host sends whole is dispatched, whatever its length, unless the stream or
\* the queue loses some of it.
EveryFrameDelivered ==
  <>(mishaps \ {"overflow"} # {} \/ \A f \in Frame : Body(f) \in ToSet(dispatched))
==============================================================================
