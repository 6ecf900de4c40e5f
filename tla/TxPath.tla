------------------------------- MODULE TxPath --------------------------------
(***************************************************************************)
(* The firmware-to-host path: protocol::send_ack/send_nack/send_data_int,  *)
(* transport::send_int, the event queue, app::process_event and            *)
(* transport::process_input_int.                                           *)
(*                                                                         *)
(* Two tasks send.  The app task acknowledges and answers host frames, and *)
(* is the only one that drains the event queue and the byte buffer; the    *)
(* ZBOSS task sends indications, and at start-up the boot-ready frame,     *)
(* which goes to the transport directly, without m_tx_sem.                 *)
(* A send takes m_tx_sem, stamps and advances m_tx_seq, takes m_input_sem, *)
(* waits a bounded time for room, commits its bytes, releases m_input_sem, *)
(* posts EVENT_INPUT without blocking, and releases m_tx_sem.              *)
(***************************************************************************)
EXTENDS Naturals, Sequences

CONSTANTS EVENT_QUEUE_LEN,  \* entries in m_queue (60)
          INPUT_BUF,        \* units m_input_buf holds (RINGBUF_SIZE)
          WAIT_STEPS,       \* RINGBUF_TIMEOUT_MS / 10
          Sizes,            \* sizes of the frames the ZBOSS task and the handlers send
          AtBoot,           \* the boot-ready frame is still to be sent
          MAX_SENDS,        \* bound: sends considered
          MAX_HOST_FRAMES   \* bound: host frames considered

ASSUME TxAssumption ==
  /\ {EVENT_QUEUE_LEN, INPUT_BUF} \subseteq Nat \ {0}
  /\ Sizes \subseteq 1 .. INPUT_BUF
  /\ AtBoot \in BOOLEAN
  /\ WAIT_STEPS \in Nat \ {0}
  /\ {MAX_SENDS, MAX_HOST_FRAMES} \subseteq Nat

Task == {"app", "zboss"}

VARIABLES
  txOwner,   \* holder of m_tx_sem
  inOwner,   \* holder of m_input_sem
  txSeq,     \* m_tx_seq
  call,      \* each task's send: where it is and what it sends
  todo,      \* what the app task has still to send for the host frame it dispatches
  ready,     \* the ZBOSS task has still to send the boot-ready frame
  fifo,      \* m_input_buf: units <<frame, unit, size>>, oldest first
  queue,     \* m_queue
  batch,     \* what process_input last took from m_input_buf, for write_int
  sends,     \* history: sends begun
  received,  \* history: host frames received
  stamps,    \* history: packet numbers taken
  wire,      \* history: [k, seq] of each protocol frame committed: the k-th stamp
  astray     \* history: an event was dropped, or overtaken by the boot-ready frame's

locks == <<txOwner, inOwner>>
buffers == <<fifo, queue, batch>>
marks == <<stamps, wire, astray>>
vars == <<locks, txSeq, call, todo, ready, buffers, sends, received, marks>>

NextSeq(s) == <<1, 2, 3, 1>>[s + 1]

Rest == [pc |-> "idle", kind |-> "none", size |-> 1, n |-> 0, k |-> 0, seq |-> 0, left |-> 0]

\* start_int has queued the boot-time ACK (one unit) and started the ZBOSS task.
Init ==
  /\ txOwner = "none" /\ inOwner = "none"
  /\ txSeq = 1
  /\ call = [t \in Task |-> Rest]
  /\ todo = <<>>
  /\ ready = AtBoot
  /\ fifo = << <<0, 1, 1>> >>
  /\ queue = << [event |-> "INPUT", size |-> 1] >>
  /\ batch = <<>>
  /\ sends = 0 /\ received = 0 /\ stamps = 0
  /\ wire = <<>> /\ astray = FALSE

At(t, pc) == call[t].pc = pc
Goto(t, pc) == call' = [call EXCEPT ![t].pc = pc]

------------------------------------------------------------------------------
(* A send. *)

Begin(t, kind, size, pc) ==
  /\ sends < MAX_SENDS
  /\ sends' = sends + 1
  /\ call' = [call EXCEPT ![t] = [Rest EXCEPT !.pc = pc, !.kind = kind, !.size = size, !.n = sends + 1]]

\* The big lock: on_rx_data's handler and the ZBOSS task's callbacks exclude each
\* other.  Acknowledging happens outside it.
BigLockFree(t) ==
  IF t = "app" THEN At("zboss", "idle") ELSE ~(call["app"].kind = "response" /\ ~At("app", "idle"))

\* on_rx_packet, first the acknowledgement (one unit) ...
BeginAck ==
  /\ At("app", "idle") /\ todo # <<>> /\ Head(todo) = "ack"
  /\ Begin("app", "ack", 1, "lockTx")
  /\ todo' = Tail(todo)
  /\ UNCHANGED <<locks, txSeq, ready, buffers, received, marks>>

\* ... then the handler's response.
BeginResponse ==
  /\ At("app", "idle") /\ todo # <<>> /\ Head(todo) = "response"
  /\ BigLockFree("app")
  /\ \E s \in Sizes : Begin("app", "response", s, "lockTx")
  /\ todo' = Tail(todo)
  /\ UNCHANGED <<locks, txSeq, ready, buffers, received, marks>>

\* A ZBOSS callback: continue_zboss sends the boot-ready frame straight to the
\* transport; every later one goes through protocol::send_data.
BeginZboss ==
  /\ At("zboss", "idle")
  /\ BigLockFree("zboss")
  /\ \E s \in Sizes :
       IF ready THEN Begin("zboss", "raw", s, "lockInput")
                ELSE Begin("zboss", "indication", s, "lockTx")
  /\ ready' = FALSE
  /\ UNCHANGED <<locks, txSeq, todo, buffers, received, marks>>

\* Mutant of LockTx: m_tx_sem is not taken (before B2).
LockTxUnguarded(t) ==
  /\ At(t, "lockTx")
  /\ txOwner' = t
  /\ Goto(t, "stamp")
  /\ UNCHANGED <<inOwner, txSeq, todo, ready, buffers, sends, received, marks>>

\* send_ack / send_nack / send_data_int take m_tx_sem for the whole send.
LockTx(t) ==
  /\ At(t, "lockTx")
  /\ txOwner = "none"
  /\ txOwner' = t
  /\ Goto(t, "stamp")
  /\ UNCHANGED <<inOwner, txSeq, todo, ready, buffers, sends, received, marks>>

\* packet_seq = m_tx_seq
Stamp(t) ==
  /\ At(t, "stamp")
  /\ stamps' = stamps + 1
  /\ call' = [call EXCEPT ![t].pc = "advance", ![t].seq = txSeq, ![t].k = stamps + 1]
  /\ UNCHANGED <<locks, txSeq, todo, ready, buffers, sends, received, wire, astray>>

\* m_tx_seq = next_seq(m_tx_seq)
Advance(t) ==
  /\ At(t, "advance")
  /\ txSeq' = NextSeq(call[t].seq)
  /\ Goto(t, "lockInput")
  /\ UNCHANGED <<locks, todo, ready, buffers, sends, received, marks>>

\* Mutant of LockInput: m_input_sem is not taken (before H2).
LockInputUnguarded(t) ==
  /\ At(t, "lockInput")
  /\ inOwner' = t
  /\ call' = [call EXCEPT ![t].pc = "room", ![t].left = WAIT_STEPS]
  /\ UNCHANGED <<txOwner, txSeq, todo, ready, buffers, sends, received, marks>>

\* send_int takes m_input_sem over the wait for room and the commit (H2).
LockInput(t) ==
  /\ At(t, "lockInput")
  /\ inOwner = "none"
  /\ inOwner' = t
  /\ call' = [call EXCEPT ![t].pc = "room", ![t].left = WAIT_STEPS]
  /\ UNCHANGED <<txOwner, txSeq, todo, ready, buffers, sends, received, marks>>

Room(t) == INPUT_BUF - Len(fifo)

\* Mutant of WaitForRoom: it waits for ever.
WaitForRoomForever(t) ==
  /\ At(t, "room") /\ Room(t) < call[t].size
  /\ UNCHANGED vars

\* One 10 ms turn of the wait for room.
WaitForRoom(t) ==
  /\ At(t, "room") /\ Room(t) < call[t].size /\ call[t].left > 0
  /\ call' = [call EXCEPT ![t].left = @ - 1]
  /\ UNCHANGED <<locks, txSeq, todo, ready, buffers, sends, received, marks>>

RoomFound(t) ==
  /\ At(t, "room") /\ Room(t) >= call[t].size /\ call[t].left > 0
  /\ Goto(t, "commit")
  /\ UNCHANGED <<locks, txSeq, todo, ready, buffers, sends, received, marks>>

\* t's send returns its locks; a raw send never took m_tx_sem.
ReleaseTx(t) == txOwner' = IF call[t].kind = "raw" THEN txOwner ELSE "none"

\* The turns are used up: send_int fails, even if the last turn made room.
GiveUp(t) ==
  /\ At(t, "room") /\ call[t].left = 0
  /\ inOwner' = "none"
  /\ ReleaseTx(t)
  /\ call' = [call EXCEPT ![t] = Rest]
  /\ UNCHANGED <<txSeq, todo, ready, buffers, sends, received, marks>>

\* The boot-ready frame, sent without m_tx_sem, or a send beside it commits between
\* the other's commit and its event.
Overtaking(t) ==
  \E u \in Task \ {t} : At(u, "post") /\ "raw" \in {call[t].kind, call[u].kind}

\* xStreamBufferSend without waiting: as many units as fit; m_input_sem goes back.
Commit(t) ==
  /\ At(t, "commit")
  /\ LET fit == IF Room(t) < call[t].size THEN Room(t) ELSE call[t].size
     IN fifo' = fifo \o [u \in 1 .. fit |-> <<call[t].n, u, call[t].size>>]
  /\ inOwner' = "none"
  /\ IF Room(t) < call[t].size
     THEN /\ ReleaseTx(t)
          /\ call' = [call EXCEPT ![t] = Rest]
          /\ UNCHANGED wire
     ELSE /\ Goto(t, "post")
          /\ wire' = IF call[t].kind = "raw" THEN wire
                     ELSE Append(wire, [k |-> call[t].k, seq |-> call[t].seq])
          /\ UNCHANGED txOwner
  /\ astray' = (astray \/ Overtaking(t))
  /\ UNCHANGED <<txSeq, todo, ready, queue, batch, sends, received, stamps>>

\* app::send_event never blocks: with the queue full the event is dropped.
Post(t) ==
  /\ At(t, "post")
  /\ queue' = IF Len(queue) < EVENT_QUEUE_LEN
              THEN Append(queue, [event |-> "INPUT", size |-> call[t].size]) ELSE queue
  /\ astray' = (astray \/ Len(queue) = EVENT_QUEUE_LEN)
  /\ ReleaseTx(t)
  /\ call' = [call EXCEPT ![t] = Rest]
  /\ UNCHANGED <<inOwner, txSeq, todo, ready, fifo, batch, sends, received, stamps, wire>>

------------------------------------------------------------------------------
(* The event pump on the app task. *)

Pump(event) ==
  /\ At("app", "idle") /\ todo = <<>>
  /\ queue # <<>> /\ Head(queue).event = event
  /\ queue' = Tail(queue)

\* Mutant of Span: whatever the buffer holds.
SpanAll(e) == Len(fifo)

\* What one EVENT_INPUT lets process_input take.
Span(e) == e.size

\* process_input_int: exactly that many units, or what there is thrown away.
PumpInput ==
  /\ Pump("INPUT")
  /\ LET size == Span(Head(queue))
     IN /\ batch' = IF Len(fifo) >= size THEN SubSeq(fifo, 1, size) ELSE <<>>
        /\ fifo' = IF Len(fifo) >= size THEN SubSeq(fifo, size + 1, Len(fifo)) ELSE <<>>
  /\ UNCHANGED <<locks, txSeq, call, todo, ready, sends, received, marks>>

\* protocol::on_rx: a duplicate is only acknowledged, a new frame also answered.
PumpOutput ==
  /\ Pump("OUTPUT")
  /\ todo' \in {<<"ack">>, <<"ack", "response">>}
  /\ UNCHANGED <<locks, txSeq, call, ready, fifo, batch, sends, received, marks>>

\* rx_pump on a transport RX task: it retries while the queue is full, then
\* drops the event.
HostFrame ==
  /\ received < MAX_HOST_FRAMES
  /\ received' = received + 1
  /\ queue' = IF Len(queue) < EVENT_QUEUE_LEN
              THEN Append(queue, [event |-> "OUTPUT", size |-> 1]) ELSE queue
  /\ UNCHANGED <<locks, txSeq, call, todo, ready, fifo, batch, sends, marks>>

Send(t) ==
  \/ LockTx(t) \/ Stamp(t) \/ Advance(t) \/ LockInput(t)
  \/ WaitForRoom(t) \/ RoomFound(t) \/ GiveUp(t) \/ Commit(t) \/ Post(t)

AppTask == BeginAck \/ BeginResponse \/ Send("app") \/ PumpInput \/ PumpOutput

Next == AppTask \/ BeginZboss \/ Send("zboss") \/ HostFrame

Spec == Init /\ [][Next]_vars

\* FreeRTOS runs every ready task.
FairSpec == Spec /\ WF_vars(AppTask) /\ WF_vars(Send("zboss"))

------------------------------------------------------------------------------

\* Frames reach the byte stream in the order they were numbered, and the k-th
\* number is the k-th of the cycle 1, 2, 3: no update of m_tx_seq is lost and no
\* two frames get the same number (B2).
NumbersInOrder ==
  \A i \in 1 .. Len(wire) :
    /\ wire[i].seq = 1 + ((wire[i].k - 1) % 3)
    /\ \A j \in 1 .. i - 1 : wire[j].k < wire[i].k

\* The room a send found is still there when it commits: no frame is cut short
\* in the buffer by the other task's commit (H2).
RoomIsReserved ==
  \A t \in Task : At(t, "commit") => Room(t) >= call[t].size

\* process_input hands write_int whole frames, so that an all-or-nothing write
\* that fails loses a frame and never tears one.
WholeFrames ==
  batch # <<>> =>
    /\ batch[1][2] = 1 /\ Len(batch) = batch[1][3]
    /\ \A u \in DOMAIN batch : batch[u][1] = batch[1][1]

\* The host's bytes keep their frame boundaries as long as every event is queued in
\* the order of its bytes: sends that fail or wait for room disturb nothing.
WholeWhileInStep == ~astray => WholeFrames

\* Every send returns: the two locks, the wait for room and the drainer that
\* also sends never deadlock.
SendsReturn == \A t \in Task : ~At(t, "idle") ~> At(t, "idle")
==============================================================================
