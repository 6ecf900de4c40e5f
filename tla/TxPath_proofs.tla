---------------------------- MODULE TxPath_proofs -----------------------------
(***************************************************************************)
(* TxPath for queues and buffers of any length and frames of any size:     *)
(* numbers reach the stream in order, the room a send found is kept, and   *)
(* the host gets whole frames.                                             *)
(*                                                                         *)
(* m_tx_sem is held from the stamp to the event by every send but the      *)
(* boot-ready frame, so the number of a send on its way is the newest, and *)
(* newer than all those on the wire (Numbers); m_input_sem is held from    *)
(* the look at the room to the commit (Holds).  The events that wait cover *)
(* the bytes that wait, each one whole frame (InStep): only the send that  *)
(* has committed and not yet posted its event has bytes beyond them.       *)
(***************************************************************************)
EXTENDS TxPath, Integers, TLAPS

Owner == Task \cup {"none"}
Kind == {"none", "ack", "response", "raw", "indication"}
Place == {"idle", "lockTx", "stamp", "advance", "lockInput", "room", "commit", "post"}
Event == [event : {"INPUT", "OUTPUT"}, size : Nat]
Numbered == [k : Nat, seq : Nat]
Sending == [pc : Place, kind : Kind, size : Nat, n : Nat, k : Nat, seq : Nat, left : Nat]

Types ==
  /\ txOwner \in Owner /\ inOwner \in Owner
  /\ call \in [Task -> Sending]
  /\ fifo \in Seq(Nat \X Nat \X Nat)
  /\ queue \in Seq(Event)
  /\ wire \in Seq(Numbered)
  /\ sends \in Nat /\ stamps \in Nat

\* Who is where has which lock.
Holds ==
  \A t \in Task :
    /\ call[t].pc \in {"lockTx", "stamp", "advance"} => call[t].kind # "raw"
    /\ call[t].pc \in {"stamp", "advance"} => txOwner = t
    /\ call[t].pc \in {"lockInput", "room", "commit", "post"} /\ call[t].kind # "raw" => txOwner = t
    /\ call[t].pc \in {"room", "commit"} => inOwner = t

\* The n-th number of the cycle.
Cycle(n) == 1 + ((n - 1) % 3)

\* t has a number that is not on the wire yet.
Stamped(t) == call[t].pc \in {"advance", "lockInput", "room", "commit"} /\ call[t].kind # "raw"

Numbers ==
  /\ (\A t \in Task : call[t].pc # "advance") => txSeq = Cycle(stamps + 1)
  /\ \A t \in Task : Stamped(t) =>
       /\ call[t].k = stamps /\ call[t].seq = Cycle(stamps) /\ stamps >= 1
       /\ \A i \in 1 .. Len(wire) : wire[i].k < stamps
  /\ \A i \in 1 .. Len(wire) : wire[i].k <= stamps

Inv == Types /\ Holds /\ Numbers /\ NumbersInOrder /\ RoomIsReserved
------------------------------------------------------------------------------
LEMMA Limits ==
  /\ EVENT_QUEUE_LEN \in Nat /\ INPUT_BUF \in Nat /\ WAIT_STEPS \in Nat /\ Sizes \subseteq Nat
BY TxAssumption

LEMMA CycleNext ==
  ASSUME NEW n \in Nat, n >= 1
  PROVE  Cycle(n + 1) = NextSeq(Cycle(n))
<1>1. (n - 1) % 3 \in {0, 1, 2}
  OBVIOUS
<1>2. CASE (n - 1) % 3 = 0
  <2>1. n % 3 = 1
    BY <1>2
  <2> QED BY <1>2, <2>1 DEF Cycle, NextSeq
<1>3. CASE (n - 1) % 3 = 1
  <2>1. n % 3 = 2
    BY <1>3
  <2> QED BY <1>3, <2>1 DEF Cycle, NextSeq
<1>4. CASE (n - 1) % 3 = 2
  <2>1. n % 3 = 0
    BY <1>4
  <2> QED BY <1>4, <2>1 DEF Cycle, NextSeq
<1> QED BY <1>1, <1>2, <1>3, <1>4

LEMMA CycleInNat == \A n \in Nat : Cycle(n + 1) \in Nat
BY DEF Cycle

\* A suffix of a sequence.
LEMMA Suffix ==
  ASSUME NEW S, NEW s \in Seq(S), NEW n \in Nat, n <= Len(s)
  PROVE  SubSeq(s, n + 1, Len(s)) \in Seq(S) /\ Len(SubSeq(s, n + 1, Len(s))) <= Len(s)
OBVIOUS

LEMMA FunctionIsSeq ==
  ASSUME NEW S, NEW n \in Nat, NEW f \in [1 .. n -> S]
  PROVE  f \in Seq(S)
OBVIOUS

LEMMA RestIs == Rest \in Sending /\ Rest.pc = "idle" /\ Rest.kind = "none"
BY DEF Rest, Sending, Place, Kind

LEMMA WireTyped == Types => \A i \in 1 .. Len(wire) : wire[i].k \in Nat
<1> SUFFICES ASSUME Types, NEW i \in 1 .. Len(wire) PROVE wire[i].k \in Nat
  OBVIOUS
<1>1. wire[i] \in Numbered
  BY DEF Types
<1> QED BY <1>1 DEF Numbered

LEMMA Events ==
  /\ \A size \in Nat : [event |-> "INPUT", size |-> size] \in Event
  /\ [event |-> "OUTPUT", size |-> 1] \in Event
BY DEF Event

LEMMA InvInit == Init => Inv
<1> SUFFICES ASSUME Init PROVE Inv
  OBVIOUS
<1>1. /\ txOwner = "none" /\ inOwner = "none" /\ txSeq = 1 /\ stamps = 0 /\ wire = <<>> /\ sends = 0
      /\ call = [t \in Task |-> Rest] /\ fifo = << <<0, 1, 1>> >>
      /\ queue = << [event |-> "INPUT", size |-> 1] >>
  BY DEF Init
<1>2. \A t \in Task : call[t] = Rest
  BY <1>1
<1>3. Types
  BY <1>1, RestIs, Events DEF Types, Owner
<1>4. Holds /\ RoomIsReserved
  BY <1>2, RestIs DEF Holds, RoomIsReserved, At
<1>5. Cycle(1) = 1
  BY DEF Cycle
<1>6. Numbers /\ NumbersInOrder
  BY <1>1, <1>2, <1>5, RestIs DEF Numbers, NumbersInOrder, Stamped
<1> QED BY <1>3, <1>4, <1>6 DEF Inv
------------------------------------------------------------------------------
(* The steps of a send. *)

LEMMA BeginKeeps ==
  ASSUME Inv, NEW t \in Task, NEW kind \in Kind, NEW size \in Nat, NEW pc \in {"lockTx", "lockInput"},
         At(t, "idle"), Begin(t, kind, size, pc), pc = "lockInput" <=> kind = "raw",
         UNCHANGED <<locks, txSeq, fifo, queue, wire, stamps>>
  PROVE  Inv'
<1> DEFINE c == [Rest EXCEPT !.pc = pc, !.kind = kind, !.size = size, !.n = sends + 1]
<1>1. /\ sends \in Nat /\ sends' = sends + 1 /\ call' = [call EXCEPT ![t] = c] /\ call \in [Task -> Sending]
      /\ txOwner' = txOwner /\ inOwner' = inOwner
      /\ UNCHANGED <<txSeq, fifo, queue, wire, stamps>>
  BY DEF Begin, Inv, Types, locks
<1>2. c \in Sending /\ c.pc = pc /\ c.kind = kind
  <2>1. sends + 1 \in Nat /\ pc \in Place /\ Rest \in Sending
    BY <1>1, RestIs DEF Place
  <2> QED BY <2>1 DEF Sending
<1> HIDE DEF c
<1>3. /\ call' \in [Task -> Sending] /\ call'[t].pc = pc /\ call'[t].kind = kind
      /\ \A u \in Task \ {t} : call'[u] = call[u]
  BY <1>1, <1>2
<1>4. call[t].pc = "idle"
  BY DEF At
<1>5. Types'
  BY <1>1, <1>3 DEF Inv, Types
<1>6. Holds'
  BY <1>1, <1>3 DEF Inv, Holds
<1>7. Numbers'
  BY <1>1, <1>3, <1>4 DEF Inv, Numbers, Stamped
<1>8. RoomIsReserved'
  BY <1>1, <1>3 DEF Inv, RoomIsReserved, At, Room
<1>9. NumbersInOrder'
  BY <1>1 DEF Inv, NumbersInOrder
<1> QED BY <1>5, <1>6, <1>7, <1>8, <1>9 DEF Inv

LEMMA LockTxKeeps ==
  ASSUME Inv, NEW t \in Task, LockTx(t)
  PROVE  Inv'
<1>1. /\ call[t].pc = "lockTx" /\ txOwner = "none" /\ txOwner' = t
      /\ call' = [call EXCEPT ![t].pc = "stamp"] /\ call \in [Task -> Sending]
      /\ UNCHANGED <<inOwner, txSeq, fifo, queue, wire, stamps, sends>>
  BY DEF LockTx, At, Goto, buffers, marks, Inv, Types
<1>2. /\ call' \in [Task -> Sending] /\ call'[t].pc = "stamp" /\ call'[t].kind = call[t].kind
      /\ \A u \in Task \ {t} : call'[u] = call[u]
  BY <1>1 DEF Sending, Place
<1>3. "none" \notin Task
  BY DEF Task
<1>4. Types'
  BY <1>1, <1>2 DEF Inv, Types, Owner
<1>5. Holds'
  BY <1>1, <1>2, <1>3 DEF Inv, Holds
<1>6. Numbers'
  BY <1>1, <1>2 DEF Inv, Numbers, Stamped
<1>7. RoomIsReserved'
  BY <1>1, <1>2 DEF Inv, RoomIsReserved, At, Room
<1>8. NumbersInOrder'
  BY <1>1 DEF Inv, NumbersInOrder
<1> QED BY <1>4, <1>5, <1>6, <1>7, <1>8 DEF Inv

\* Nobody else is between stamp and event: the newest number is t's.
LEMMA StampKeeps ==
  ASSUME Inv, NEW t \in Task, Stamp(t)
  PROVE  Inv'
<1>1. /\ call[t].pc = "stamp" /\ stamps' = stamps + 1 /\ stamps \in Nat
      /\ call' = [call EXCEPT ![t].pc = "advance", ![t].seq = txSeq, ![t].k = stamps + 1]
      /\ call \in [Task -> Sending]
      /\ UNCHANGED <<txOwner, inOwner, txSeq, fifo, queue, wire, sends>>
  BY DEF Stamp, At, locks, buffers, Inv, Types
<1>2. txOwner = t /\ call[t].kind # "raw"
  BY <1>1 DEF Inv, Holds
<1>3. \A u \in Task \ {t} : ~Stamped(u) /\ call[u].pc # "advance"
  BY <1>2 DEF Inv, Holds, Stamped
<1>4. txSeq = Cycle(stamps + 1) /\ txSeq \in Nat
  BY <1>1, <1>3, CycleInNat DEF Inv, Numbers
<1>5. /\ call' \in [Task -> Sending] /\ call'[t].pc = "advance" /\ call'[t].kind = call[t].kind
      /\ call'[t].seq = txSeq /\ call'[t].k = stamps + 1
      /\ \A u \in Task \ {t} : call'[u] = call[u]
  <2> DEFINE c == [call[t] EXCEPT !.pc = "advance", !.seq = txSeq, !.k = stamps + 1]
  <2>1. call' = [call EXCEPT ![t] = c]
    BY <1>1
  <2>2. c \in Sending /\ c.pc = "advance" /\ c.kind = call[t].kind /\ c.seq = txSeq /\ c.k = stamps + 1
    <3>1. call[t] \in Sending /\ stamps + 1 \in Nat
      BY <1>1
    <3> QED BY <3>1, <1>4 DEF Sending, Place
  <2> HIDE DEF c
  <2>3. call \in [Task -> Sending]
    BY <1>1
  <2>4. call' \in [Task -> Sending] /\ call'[t] = c /\ \A u \in Task \ {t} : call'[u] = call[u]
    BY <2>1, <2>2, <2>3
  <2> QED BY <2>2, <2>4
<1>6. Types'
  BY <1>1, <1>5 DEF Inv, Types
<1>7. Holds'
  BY <1>1, <1>2, <1>5 DEF Inv, Holds
<1>8. \A i \in 1 .. Len(wire) : wire[i].k <= stamps /\ wire[i].k \in Nat
  BY WireTyped DEF Inv, Numbers
<1>9. \A i \in 1 .. Len(wire) : wire[i].k < stamps + 1 /\ wire[i].k <= stamps + 1
  BY <1>1, <1>8
<1>10. \A u \in Task : Stamped(u)' => u = t
  BY <1>3, <1>5 DEF Stamped
<1>11. Numbers'
  BY <1>1, <1>4, <1>5, <1>9, <1>10 DEF Numbers
<1>12. RoomIsReserved'
  BY <1>1, <1>5 DEF Inv, RoomIsReserved, At, Room
<1>13. NumbersInOrder'
  BY <1>1 DEF Inv, NumbersInOrder
<1> QED BY <1>6, <1>7, <1>11, <1>12, <1>13 DEF Inv

LEMMA AdvanceKeeps ==
  ASSUME Inv, NEW t \in Task, Advance(t)
  PROVE  Inv'
<1>1. /\ call[t].pc = "advance" /\ txSeq' = NextSeq(call[t].seq) /\ stamps \in Nat
      /\ call' = [call EXCEPT ![t].pc = "lockInput"] /\ call \in [Task -> Sending]
      /\ UNCHANGED <<txOwner, inOwner, fifo, queue, wire, sends, stamps>>
  BY DEF Advance, At, Goto, locks, buffers, marks, Inv, Types
<1>2. txOwner = t /\ call[t].kind # "raw"
  BY <1>1 DEF Inv, Holds
<1>3. /\ call' \in [Task -> Sending] /\ call'[t].pc = "lockInput" /\ call'[t].kind = call[t].kind
      /\ call'[t].seq = call[t].seq /\ call'[t].k = call[t].k
      /\ \A u \in Task \ {t} : call'[u] = call[u]
  BY <1>1 DEF Sending, Place
<1>4. call[t].seq = Cycle(stamps) /\ stamps >= 1
  BY <1>1, <1>2 DEF Inv, Numbers, Stamped
<1>5. txSeq' = Cycle(stamps + 1)
  BY <1>1, <1>4, CycleNext
<1>6. Types'
  BY <1>1, <1>3 DEF Inv, Types
<1>7. Holds'
  BY <1>1, <1>2, <1>3 DEF Inv, Holds
<1>8. \A u \in Task : (Stamped(u)' => Stamped(u)) /\ call'[u].k = call[u].k /\ call'[u].seq = call[u].seq
  BY <1>1, <1>3 DEF Stamped
<1>9. Numbers'
  BY <1>1, <1>5, <1>8 DEF Inv, Numbers
<1>10. RoomIsReserved'
  BY <1>1, <1>3 DEF Inv, RoomIsReserved, At, Room
<1>11. NumbersInOrder'
  BY <1>1 DEF Inv, NumbersInOrder
<1> QED BY <1>6, <1>7, <1>9, <1>10, <1>11 DEF Inv

LEMMA LockInputKeeps ==
  ASSUME Inv, NEW t \in Task, LockInput(t)
  PROVE  Inv'
<1>1. /\ call[t].pc = "lockInput" /\ inOwner = "none" /\ inOwner' = t
      /\ call' = [call EXCEPT ![t].pc = "room", ![t].left = WAIT_STEPS] /\ call \in [Task -> Sending]
      /\ UNCHANGED <<txOwner, txSeq, fifo, queue, wire, stamps, sends>>
  BY DEF LockInput, At, buffers, marks, Inv, Types
<1>2. /\ call' \in [Task -> Sending] /\ call'[t].pc = "room" /\ call'[t].kind = call[t].kind
      /\ call'[t].seq = call[t].seq /\ call'[t].k = call[t].k
      /\ \A u \in Task \ {t} : call'[u] = call[u]
  <2> DEFINE c == [call[t] EXCEPT !.pc = "room", !.left = WAIT_STEPS]
  <2>1. call' = [call EXCEPT ![t] = c]
    BY <1>1
  <2>2. c \in Sending /\ c.pc = "room" /\ c.kind = call[t].kind /\ c.seq = call[t].seq /\ c.k = call[t].k
    <3>1. call[t] \in Sending
      BY <1>1
    <3> QED BY <3>1, Limits DEF Sending, Place
  <2> HIDE DEF c
  <2>3. call \in [Task -> Sending]
    BY <1>1
  <2>4. call' \in [Task -> Sending] /\ call'[t] = c /\ \A u \in Task \ {t} : call'[u] = call[u]
    BY <2>1, <2>2, <2>3
  <2> QED BY <2>2, <2>4
<1>3. "none" \notin Task
  BY DEF Task
<1>4. Types'
  BY <1>1, <1>2 DEF Inv, Types, Owner
<1>5. Holds'
  BY <1>1, <1>2, <1>3 DEF Inv, Holds
<1>6. \A u \in Task : (Stamped(u)' => Stamped(u)) /\ call'[u].k = call[u].k /\ call'[u].seq = call[u].seq
                     /\ (call'[u].pc # "advance" => call[u].pc # "advance")
  BY <1>1, <1>2 DEF Stamped
<1>7. Numbers'
  BY <1>1, <1>6 DEF Inv, Numbers
<1>8. RoomIsReserved'
  BY <1>1, <1>2 DEF Inv, RoomIsReserved, At, Room
<1>9. NumbersInOrder'
  BY <1>1 DEF Inv, NumbersInOrder
<1> QED BY <1>4, <1>5, <1>7, <1>8, <1>9 DEF Inv

\* One more turn of the wait, or its end with room.
LEMMA WaitKeeps ==
  ASSUME Inv, NEW t \in Task, WaitForRoom(t) \/ RoomFound(t)
  PROVE  Inv'
<1>1. /\ call[t].pc = "room" /\ call \in [Task -> Sending]
      /\ UNCHANGED <<txOwner, inOwner, txSeq, fifo, queue, wire, stamps, sends>>
  BY DEF WaitForRoom, RoomFound, At, locks, buffers, marks, Inv, Types
<1>2. /\ call' \in [Task -> Sending] /\ call'[t].pc \in {"room", "commit"} /\ call'[t].kind = call[t].kind
      /\ call'[t].seq = call[t].seq /\ call'[t].k = call[t].k
      /\ (call'[t].pc = "commit" => Room(t) >= call'[t].size)
      /\ \A u \in Task \ {t} : call'[u] = call[u]
  <2>1. CASE WaitForRoom(t)
    <3>1. call' = [call EXCEPT ![t].left = @ - 1] /\ call[t].left > 0
      BY <2>1 DEF WaitForRoom
    <3> QED BY <1>1, <3>1 DEF Sending, Place
  <2>2. CASE RoomFound(t)
    <3>1. call' = [call EXCEPT ![t].pc = "commit"] /\ Room(t) >= call[t].size
      BY <2>2 DEF RoomFound, Goto
    <3> QED BY <1>1, <3>1 DEF Sending, Place
  <2> QED BY <2>1, <2>2
<1>3. Types'
  BY <1>1, <1>2 DEF Inv, Types
<1>4. Holds'
  BY <1>1, <1>2 DEF Inv, Holds
<1>5. \A u \in Task : (Stamped(u)' => Stamped(u)) /\ call'[u].k = call[u].k /\ call'[u].seq = call[u].seq
                     /\ (call'[u].pc # "advance" => call[u].pc # "advance")
  BY <1>1, <1>2 DEF Stamped
<1>6. Numbers'
  BY <1>1, <1>5 DEF Inv, Numbers
<1>7. RoomIsReserved'
  BY <1>1, <1>2 DEF Inv, RoomIsReserved, At, Room
<1>8. NumbersInOrder'
  BY <1>1 DEF Inv, NumbersInOrder
<1> QED BY <1>3, <1>4, <1>6, <1>7, <1>8 DEF Inv

\* A send that ends gives back what it holds.
LEMMA EndKeeps ==
  ASSUME Inv, NEW t \in Task, GiveUp(t) \/ Post(t)
  PROVE  Inv'
<1>1. /\ call[t].pc \in {"room", "post"} /\ call \in [Task -> Sending]
      /\ inOwner' = IF call[t].pc = "room" THEN "none" ELSE inOwner
      /\ ReleaseTx(t) /\ call' = [call EXCEPT ![t] = Rest]
      /\ UNCHANGED <<txSeq, fifo, wire, stamps, sends>>
  BY DEF GiveUp, Post, At, buffers, marks, Inv, Types
<1>2. queue' \in Seq(Event)
  <2>1. queue \in Seq(Event) /\ call[t].size \in Nat
    BY <1>1 DEF Inv, Types, Sending
  <2>2. queue' = queue \/ queue' = Append(queue, [event |-> "INPUT", size |-> call[t].size])
    BY DEF GiveUp, Post, buffers
  <2> QED BY <2>1, <2>2, Events
<1>3. /\ call' \in [Task -> Sending] /\ call'[t].pc = "idle"
      /\ \A u \in Task \ {t} : call'[u] = call[u]
  BY <1>1, RestIs
<1>4. txOwner' \in Owner /\ (call[t].kind = "raw" => txOwner' = txOwner)
      /\ (call[t].kind # "raw" => txOwner = t /\ txOwner' = "none")
  BY <1>1 DEF ReleaseTx, Inv, Types, Owner, Holds
<1>5. Types'
  BY <1>1, <1>2, <1>3, <1>4 DEF Inv, Types, Owner
<1>6. Holds'
  <2> SUFFICES ASSUME NEW u \in Task \ {t}
               PROVE  /\ call[u].pc \in {"lockTx", "stamp", "advance"} => call[u].kind # "raw"
                      /\ call[u].pc \in {"stamp", "advance"} => txOwner' = u
                      /\ call[u].pc \in {"lockInput", "room", "commit", "post"} /\ call[u].kind # "raw"
                           => txOwner' = u
                      /\ call[u].pc \in {"room", "commit"} => inOwner' = u
    BY <1>3 DEF Holds
  <2>1. call[t].pc = "room" => inOwner = t
    BY DEF Inv, Holds
  <2> QED BY <1>1, <1>4, <2>1 DEF Inv, Holds
<1>7. \A u \in Task : Stamped(u)' => Stamped(u) /\ call'[u] = call[u]
  BY <1>3 DEF Stamped
<1>11. (\A u \in Task : call'[u].pc # "advance") => (\A u \in Task : call[u].pc # "advance")
  BY <1>1, <1>3
<1>8. Numbers'
  <2>1. UNCHANGED <<txSeq, wire, stamps>>
    BY <1>1
  <2>2. (\A u \in Task : call'[u].pc # "advance") => txSeq = Cycle(stamps + 1)
    BY <1>11 DEF Inv, Numbers
  <2>3. ASSUME NEW u \in Task, Stamped(u)'
        PROVE  /\ call'[u].k = stamps /\ call'[u].seq = Cycle(stamps) /\ stamps >= 1
               /\ \A i \in 1 .. Len(wire) : wire[i].k < stamps
    BY <1>7, <2>3 DEF Inv, Numbers
  <2>4. \A i \in 1 .. Len(wire) : wire[i].k <= stamps
    BY DEF Inv, Numbers
  <2> QED BY <2>1, <2>2, <2>3, <2>4 DEF Numbers
<1>9. RoomIsReserved'
  BY <1>1, <1>3 DEF Inv, RoomIsReserved, At, Room
<1>10. NumbersInOrder'
  BY <1>1 DEF Inv, NumbersInOrder
<1> QED BY <1>5, <1>6, <1>8, <1>9, <1>10 DEF Inv

\* The whole frame fits, and its number is newer than those on the wire.
LEMMA CommitKeeps ==
  ASSUME Inv, NEW t \in Task, Commit(t)
  PROVE  Inv'
<1>1. /\ call[t].pc = "commit" /\ call \in [Task -> Sending] /\ call[t].size \in Nat
      /\ Room(t) >= call[t].size /\ inOwner = t /\ fifo \in Seq(Nat \X Nat \X Nat) /\ Room(t) \in Int
  BY Limits DEF Commit, At, Inv, RoomIsReserved, Types, Sending, Holds, Room
<1>2. ~(Room(t) < call[t].size)
  BY <1>1
<1>3. /\ inOwner' = "none" /\ txOwner' = txOwner /\ call' = [call EXCEPT ![t].pc = "post"]
      /\ fifo' = fifo \o [u \in 1 .. call[t].size |-> <<call[t].n, u, call[t].size>>]
      /\ wire' = (IF call[t].kind = "raw" THEN wire
                  ELSE Append(wire, [k |-> call[t].k, seq |-> call[t].seq]))
      /\ UNCHANGED <<txSeq, queue, sends, stamps>>
  BY <1>2 DEF Commit, Goto
<1>4. /\ call' \in [Task -> Sending] /\ call'[t].pc = "post" /\ call'[t].kind = call[t].kind
      /\ \A u \in Task \ {t} : call'[u] = call[u]
  <2> DEFINE c == [call[t] EXCEPT !.pc = "post"]
  <2>1. call' = [call EXCEPT ![t] = c] /\ call \in [Task -> Sending]
    BY <1>1, <1>3
  <2>2. c \in Sending /\ c.pc = "post" /\ c.kind = call[t].kind
    BY <2>1 DEF Sending, Place
  <2> HIDE DEF c
  <2> QED BY <2>1, <2>2
<1>5. fifo' \in Seq(Nat \X Nat \X Nat)
  <2>1. call[t].n \in Nat
    BY <1>1 DEF Sending
  <2>2. [u \in 1 .. call[t].size |-> <<call[t].n, u, call[t].size>>] \in Seq(Nat \X Nat \X Nat)
    <3> DEFINE units == [u \in 1 .. call[t].size |-> <<call[t].n, u, call[t].size>>]
    <3>1. units \in [1 .. call[t].size -> Nat \X Nat \X Nat]
      BY <1>1, <2>1
    <3> HIDE DEF units
    <3>2. units \in Seq(Nat \X Nat \X Nat)
      BY <1>1, <3>1, FunctionIsSeq
    <3> QED BY <3>2 DEF units
  <2> QED BY <1>1, <1>3, <2>2
<1>6. \A u \in Task \ {t} : call[u].pc \notin {"room", "commit"}
  BY <1>1 DEF Inv, Holds
<1>7. Holds'
  <2>1. call[t].kind # "raw" => txOwner = t
    BY <1>1 DEF Inv, Holds
  <2> QED BY <1>3, <1>4, <1>6, <2>1 DEF Inv, Holds
<1>8. RoomIsReserved'
  BY <1>4, <1>6 DEF RoomIsReserved, At
<1>9. \A u \in Task : call'[u].pc # "advance" => call[u].pc # "advance"
  BY <1>1, <1>4
<1>10. CASE call[t].kind = "raw"
  <2>1. wire' = wire
    BY <1>3, <1>10
  <2>2. \A u \in Task : Stamped(u)' => Stamped(u) /\ call'[u].k = call[u].k /\ call'[u].seq = call[u].seq
    BY <1>1, <1>4 DEF Stamped
  <2>3. Numbers'
    BY <1>3, <1>9, <2>1, <2>2 DEF Inv, Numbers
  <2>4. NumbersInOrder' /\ Types'
    BY <1>3, <1>4, <1>5, <2>1 DEF Inv, NumbersInOrder, Types, Owner
  <2> QED BY <1>7, <1>8, <2>3, <2>4 DEF Inv
<1>11. CASE call[t].kind # "raw"
  <2>1. txOwner = t /\ call[t].k = stamps /\ call[t].seq = Cycle(stamps) /\ stamps >= 1 /\ stamps \in Nat
    BY <1>1, <1>11 DEF Inv, Holds, Numbers, Stamped, Types
  <2>2. wire \in Seq(Numbered) /\ Cycle(stamps) \in Nat
    <3>1. call[t].seq \in Nat
      BY <1>1 DEF Sending
    <3> QED BY <2>1, <3>1 DEF Inv, Types
  <2>3. wire' = Append(wire, [k |-> stamps, seq |-> Cycle(stamps)])
    BY <1>3, <1>11, <2>1
  <2>4. /\ wire' \in Seq(Numbered) /\ Len(wire') = Len(wire) + 1
        /\ wire'[Len(wire) + 1].k = stamps /\ wire'[Len(wire) + 1].seq = Cycle(stamps)
        /\ \A i \in 1 .. Len(wire) : wire'[i] = wire[i]
    <3>1. [k |-> stamps, seq |-> Cycle(stamps)] \in Numbered
      BY <2>1, <2>2 DEF Numbered
    <3> QED BY <2>2, <2>3, <3>1
  <2>5. \A i \in 1 .. Len(wire) : wire[i].k < stamps /\ wire[i].k \in Nat
    BY <1>1, <1>11, WireTyped DEF Inv, Numbers, Stamped
  <2>6. \A u \in Task : ~Stamped(u)'
    BY <1>4, <2>1 DEF Inv, Holds, Stamped
  <2>7. \A i \in 1 .. Len(wire') : wire'[i].k <= stamps
    <3> SUFFICES ASSUME NEW i \in 1 .. Len(wire') PROVE wire'[i].k <= stamps
      OBVIOUS
    <3>1. i = Len(wire) + 1 \/ i \in 1 .. Len(wire)
      BY <2>2, <2>4
    <3>2. CASE i = Len(wire) + 1
      BY <2>1, <2>4, <3>2
    <3>3. CASE i \in 1 .. Len(wire)
      BY <2>1, <2>4, <2>5, <3>3
    <3> QED BY <3>1, <3>2, <3>3
  <2>8. Numbers'
    BY <1>3, <1>9, <2>6, <2>7 DEF Inv, Numbers
  <2>9. NumbersInOrder'
    <3> SUFFICES ASSUME NEW i \in 1 .. Len(wire')
                 PROVE  /\ wire'[i].seq = Cycle(wire'[i].k)
                        /\ \A j \in 1 .. i - 1 : wire'[j].k < wire'[i].k
      BY DEF NumbersInOrder, Cycle
    <3>1. CASE i = Len(wire) + 1
      <4>1. wire'[i].k = stamps /\ wire'[i].seq = Cycle(stamps)
        BY <2>4, <3>1
      <4>2. \A j \in 1 .. i - 1 : j \in 1 .. Len(wire)
        BY <2>2, <3>1
      <4>3. \A j \in 1 .. i - 1 : wire'[j].k < stamps
        BY <2>4, <2>5, <4>2
      <4> QED BY <4>1, <4>3
    <3>2. CASE i \in 1 .. Len(wire)
      <4>1. wire[i].seq = Cycle(wire[i].k) /\ \A j \in 1 .. i - 1 : wire[j].k < wire[i].k
        BY <3>2 DEF Inv, NumbersInOrder, Cycle
      <4>2. \A j \in 1 .. i - 1 : j \in 1 .. Len(wire)
        BY <2>2, <3>2
      <4> QED BY <2>4, <3>2, <4>1, <4>2
    <3> QED BY <2>2, <2>4, <3>1, <3>2
  <2>10. Types'
    BY <1>3, <1>4, <1>5, <2>4 DEF Inv, Types, Owner
  <2> QED BY <1>7, <1>8, <2>8, <2>9, <2>10 DEF Inv
<1> QED BY <1>10, <1>11
------------------------------------------------------------------------------
(* The pump, and the next-state relation. *)

\* Steps that only take from the byte buffer, and from or to the event queue.
LEMMA PumpKeeps ==
  ASSUME Inv, fifo' \in Seq(Nat \X Nat \X Nat), Len(fifo') <= Len(fifo),
         queue' \in Seq(Event),
         UNCHANGED <<locks, txSeq, call, wire, stamps, sends>>
  PROVE  Inv'
<1>1. UNCHANGED <<txOwner, inOwner, txSeq, call, wire, stamps, sends>>
  BY DEF locks
<1>2. Types'
  BY <1>1 DEF Inv, Types
<1>3. Holds' /\ NumbersInOrder'
  BY <1>1 DEF Inv, Holds, NumbersInOrder
<1>4. Numbers'
  BY <1>1 DEF Inv, Numbers, Stamped
<1>5. RoomIsReserved'
  <2> SUFFICES ASSUME NEW t \in Task, call[t].pc = "commit" PROVE INPUT_BUF - Len(fifo') >= call[t].size
    BY <1>1 DEF RoomIsReserved, At, Room
  <2>1. INPUT_BUF - Len(fifo) >= call[t].size
    BY DEF Inv, RoomIsReserved, At, Room
  <2>2. Len(fifo) \in Nat /\ Len(fifo') \in Nat /\ call[t].size \in Nat
    BY DEF Inv, Types, Sending
  <2> QED BY <2>1, <2>2, Limits
<1> QED BY <1>2, <1>3, <1>4, <1>5 DEF Inv

LEMMA InvNext == Inv /\ [Next]_vars => Inv'
<1> SUFFICES ASSUME Inv, [Next]_vars PROVE Inv'
  OBVIOUS
<1>typed. /\ fifo \in Seq(Nat \X Nat \X Nat) /\ Len(fifo) \in Nat
          /\ queue \in Seq(Event)
  BY DEF Inv, Types
<1>1. CASE BeginAck
  <2>1. At("app", "idle") /\ Begin("app", "ack", 1, "lockTx")
        /\ UNCHANGED <<locks, txSeq, fifo, queue, wire, stamps>>
    BY <1>1 DEF BeginAck, buffers, marks
  <2> QED BY <2>1, BeginKeeps DEF Task, Kind
<1>2. CASE BeginResponse
  <2>1. PICK s \in Sizes : Begin("app", "response", s, "lockTx")
    BY <1>2 DEF BeginResponse
  <2>2. At("app", "idle") /\ UNCHANGED <<locks, txSeq, fifo, queue, wire, stamps>> /\ s \in Nat
    BY <1>2, Limits DEF BeginResponse, buffers, marks
  <2> QED BY <2>1, <2>2, BeginKeeps DEF Task, Kind
<1>3. CASE BeginZboss
  <2>1. PICK s \in Sizes : Begin("zboss", "raw", s, "lockInput") \/ Begin("zboss", "indication", s, "lockTx")
    BY <1>3 DEF BeginZboss
  <2>2. At("zboss", "idle") /\ UNCHANGED <<locks, txSeq, fifo, queue, wire, stamps>> /\ s \in Nat
    BY <1>3, Limits DEF BeginZboss, buffers, marks
  <2>3. CASE Begin("zboss", "raw", s, "lockInput")
    BY <2>2, <2>3, BeginKeeps DEF Task, Kind
  <2>4. CASE Begin("zboss", "indication", s, "lockTx")
    BY <2>2, <2>4, BeginKeeps DEF Task, Kind
  <2> QED BY <2>1, <2>3, <2>4
<1>4. ASSUME NEW t \in Task, Send(t) PROVE Inv'
  BY <1>4, LockTxKeeps, StampKeeps, AdvanceKeeps, LockInputKeeps, WaitKeeps, EndKeeps, CommitKeeps DEF Send
<1>5. CASE PumpInput
  <2> DEFINE size == Span(Head(queue))
  <2>1. /\ queue # <<>> /\ queue' = Tail(queue)
        /\ fifo' = (IF Len(fifo) >= size THEN SubSeq(fifo, size + 1, Len(fifo)) ELSE <<>>)
        /\ UNCHANGED <<locks, txSeq, call, wire, stamps, sends>>
    BY <1>5 DEF PumpInput, Pump, marks
  <2>2. size \in Nat /\ queue' \in Seq(Event)
    <3>1. Head(queue) \in Event
      BY <1>typed, <2>1
    <3>2. Head(queue).size \in Nat
      BY <3>1 DEF Event
    <3> QED BY <1>typed, <2>1, <3>2 DEF Span
  <2> HIDE DEF size
  <2>3. CASE Len(fifo) >= size
    <3>1. size <= Len(fifo) /\ fifo' = SubSeq(fifo, size + 1, Len(fifo))
      BY <1>typed, <2>1, <2>2, <2>3
    <3>2. fifo' \in Seq(Nat \X Nat \X Nat) /\ Len(fifo') <= Len(fifo)
      BY <1>typed, <2>2, <3>1, Suffix
    <3> QED BY <2>1, <2>2, <3>2, PumpKeeps
  <2>4. CASE ~(Len(fifo) >= size)
    <3>1. fifo' = <<>>
      BY <2>1, <2>4
    <3>2. fifo' \in Seq(Nat \X Nat \X Nat) /\ Len(fifo') <= Len(fifo)
      BY <1>typed, <3>1
    <3> QED BY <2>1, <2>2, <3>2, PumpKeeps
  <2> QED BY <2>3, <2>4
<1>6. CASE PumpOutput \/ HostFrame
  <2>1. fifo' = fifo /\ UNCHANGED <<locks, txSeq, call, wire, stamps, sends>>
    BY <1>6 DEF PumpOutput, HostFrame, marks
  <2>2. \/ queue # <<>> /\ queue' = Tail(queue)
        \/ queue' = queue \/ queue' = Append(queue, [event |-> "OUTPUT", size |-> 1])
    BY <1>6 DEF PumpOutput, HostFrame, Pump
  <2>3. queue' \in Seq(Event)
    <3>1. CASE queue # <<>> /\ queue' = Tail(queue)
      BY <1>typed, <3>1
    <3>2. CASE queue' = queue \/ queue' = Append(queue, [event |-> "OUTPUT", size |-> 1])
      BY <1>typed, <3>2, Events
    <3> QED BY <2>2, <3>1, <3>2
  <2>4. fifo' \in Seq(Nat \X Nat \X Nat) /\ Len(fifo') <= Len(fifo)
    BY <1>typed, <2>1
  <2> QED BY <2>1, <2>3, <2>4, PumpKeeps
<1>7. CASE UNCHANGED vars
  <2>1. fifo' = fifo /\ queue' = queue /\ UNCHANGED <<locks, txSeq, call, wire, stamps, sends>>
    BY <1>7 DEF vars, buffers, marks
  <2>2. fifo' \in Seq(Nat \X Nat \X Nat) /\ Len(fifo') <= Len(fifo)
    BY <1>typed, <2>1
  <2> QED BY <1>typed, <2>1, <2>2, PumpKeeps
<1> QED BY <1>1, <1>2, <1>3, <1>4, <1>5, <1>6, <1>7 DEF Next, AppTask, Task

LEMMA InvAlways == Spec => []Inv
BY InvInit, InvNext, PTL DEF Spec
------------------------------------------------------------------------------
(* Events and bytes in step.  An event of nothing, an EVENT_OUTPUT, covers no bytes. *)

\* The units of `bytes` after the first `from`, up to the `to`-th, are one whole frame.
FrameAt(bytes, from, to) ==
  /\ from < to /\ to <= Len(bytes)
  /\ \E n \in Nat : \A u \in 1 .. to - from : bytes[from + u] = <<n, u, to - from>>

\* p[i] units lie before those of the i-th entry of q.
Covers(q, bytes, p) ==
  /\ p \in [1 .. Len(q) + 1 -> Nat]
  /\ p[1] = 0
  /\ \A i, j \in 1 .. Len(q) + 1 : i <= j => p[i] <= p[j]
  /\ \A i \in 1 .. Len(q) :
       IF q[i].event = "INPUT" THEN p[i + 1] = p[i] + q[i].size /\ FrameAt(bytes, p[i], p[i + 1])
                               ELSE p[i + 1] = p[i]

\* Past the entries there is the frame whose event is about to be posted, if any.
Ends(from) ==
  /\ (\A t \in Task : call[t].pc # "post") => from = Len(fifo)
  /\ \A t \in Task : call[t].pc = "post" =>
       from + call[t].size = Len(fifo) /\ FrameAt(fifo, from, Len(fifo))

InStep ==
  /\ Len(queue) <= EVENT_QUEUE_LEN
  /\ \A t \in Task : call[t].size >= 1
  /\ ~astray =>
       /\ WholeFrames
       /\ \A t, u \in Task : call[t].pc = "post" /\ call[u].pc = "post" => t = u
       /\ \E p : Covers(queue, fifo, p) /\ Ends(p[Len(queue) + 1])

LEMMA Joined ==
  ASSUME NEW S, NEW s \in Seq(S), NEW t \in Seq(S)
  PROVE  /\ s \o t \in Seq(S) /\ Len(s \o t) = Len(s) + Len(t)
         /\ \A u \in 1 .. Len(t) : (s \o t)[Len(s) + u] = t[u]
OBVIOUS

LEMMA Part ==
  ASSUME NEW S, NEW s \in Seq(S), NEW n \in Nat, n <= Len(s)
  PROVE  /\ Len(SubSeq(s, n + 1, Len(s))) = Len(s) - n
         /\ \A k \in 1 .. Len(s) - n : SubSeq(s, n + 1, Len(s))[k] = s[n + k]
<1>1. Len(SubSeq(s, n + 1, Len(s))) = Len(s) - n
  OBVIOUS
<1>2. ASSUME NEW k \in 1 .. Len(s) - n
      PROVE  SubSeq(s, n + 1, Len(s))[k] = s[n + k]
  OBVIOUS
<1> QED BY <1>1, <1>2

LEMMA Beginning ==
  ASSUME NEW S, NEW s \in Seq(S), NEW n \in Nat, n <= Len(s)
  PROVE  /\ Len(SubSeq(s, 1, n)) = n /\ DOMAIN SubSeq(s, 1, n) = 1 .. n
         /\ \A k \in 1 .. n : SubSeq(s, 1, n)[k] = s[k]
OBVIOUS

LEMMA Shift ==
  ASSUME NEW from \in Nat, NEW to \in Nat, NEW n \in Nat, NEW len \in Nat,
         n <= from, from < to, to <= len
  PROVE  /\ (to - n) - (from - n) = to - from /\ from - n < to - n /\ to - n <= len - n
         /\ \A u \in 1 .. to - from : from - n + u \in 1 .. len - n /\ n + (from - n + u) = from + u
OBVIOUS

\* The places of an entry of q lie among those of p.
LEMMA Places ==
  ASSUME NEW q \in Seq(Event), NEW b, NEW p, Covers(q, b, p)
  PROVE  /\ p[Len(q) + 1] \in Nat /\ Len(q) \in Nat
         /\ \A i \in 1 .. Len(q) : p[i] \in Nat /\ p[i + 1] \in Nat
<1>1. Len(q) \in Nat /\ p \in [1 .. Len(q) + 1 -> Nat]
  BY DEF Covers
<1>2. /\ Len(q) + 1 \in 1 .. Len(q) + 1
      /\ \A i \in 1 .. Len(q) : i \in 1 .. Len(q) + 1 /\ i + 1 \in 1 .. Len(q) + 1
  BY <1>1
<1> QED BY <1>1, <1>2

\* A frame when the first n units are taken.
LEMMA FrameShift ==
  ASSUME NEW b \in Seq(Nat \X Nat \X Nat), NEW n \in Nat, NEW from \in Nat, NEW to \in Nat,
         n <= from, FrameAt(b, from, to)
  PROVE  FrameAt(SubSeq(b, n + 1, Len(b)), from - n, to - n)
<1> DEFINE c == SubSeq(b, n + 1, Len(b))
<1>0. from < to /\ to <= Len(b)
  BY DEF FrameAt
<1>1. from < to /\ to <= Len(b) /\ Len(b) \in Nat /\ n <= Len(b)
  BY <1>0
<1>2. PICK f \in Nat : \A u \in 1 .. to - from : b[from + u] = <<f, u, to - from>>
  BY DEF FrameAt
<1>3. Len(c) = Len(b) - n /\ \A k \in 1 .. Len(b) - n : c[k] = b[n + k]
  BY <1>1, Part
<1> HIDE DEF c
<1>4. /\ (to - n) - (from - n) = to - from /\ from - n < to - n /\ to - n <= Len(b) - n
      /\ \A u \in 1 .. to - from : from - n + u \in 1 .. Len(b) - n /\ n + (from - n + u) = from + u
  BY <1>1, Shift
<1>5. ASSUME NEW u \in 1 .. to - from
      PROVE  c[from - n + u] = <<f, u, to - from>>
  <2>1. c[from - n + u] = b[n + (from - n + u)]
    BY <1>3, <1>4
  <2> QED BY <1>2, <1>4, <2>1
<1>6. FrameAt(c, from - n, to - n)
  BY <1>3, <1>4, <1>5 DEF FrameAt
<1> QED BY <1>6 DEF c

\* The frame at the end when the first n units are taken.
LEMMA EndShift ==
  ASSUME NEW b \in Seq(Nat \X Nat \X Nat), NEW n \in Nat, NEW from \in Nat, NEW size \in Nat,
         n <= from, FrameAt(b, from, Len(b)), from + size = Len(b)
  PROVE  LET c == SubSeq(b, n + 1, Len(b))
         IN  FrameAt(c, from - n, Len(c)) /\ from - n + size = Len(c)
<1> DEFINE c == SubSeq(b, n + 1, Len(b))
<1>1. from < Len(b) /\ Len(b) \in Nat
  <2>1. from < Len(b)
    BY DEF FrameAt
  <2> QED BY <2>1
<1>2. Len(c) = Len(b) - n
  BY <1>1, Part
<1>3. FrameAt(c, from - n, Len(b) - n)
  BY <1>1, FrameShift
<1> HIDE DEF c
<1>4. FrameAt(c, from - n, Len(c))
  BY <1>2, <1>3
<1>5. from - n + size = Len(c)
  BY <1>1, <1>2
<1> QED BY <1>4, <1>5 DEF c

\* Bytes that come behind leave the frames where they are.
LEMMA CoversMore ==
  ASSUME NEW q \in Seq(Event), NEW b \in Seq(Nat \X Nat \X Nat), NEW c \in Seq(Nat \X Nat \X Nat),
         NEW p, Covers(q, b, p)
  PROVE  Covers(q, b \o c, p)
<1>1. ASSUME NEW from \in Nat, NEW to \in Nat, FrameAt(b, from, to)
      PROVE  FrameAt(b \o c, from, to)
  <2>1. PICK n \in Nat : \A u \in 1 .. to - from : b[from + u] = <<n, u, to - from>>
    BY <1>1 DEF FrameAt
  <2>2. \A u \in 1 .. to - from : (b \o c)[from + u] = b[from + u]
    BY <1>1 DEF FrameAt
  <2>3. from < to /\ to <= Len(b \o c)
    BY <1>1 DEF FrameAt
  <2> QED BY <2>1, <2>2, <2>3 DEF FrameAt
<1>3. \A i \in 1 .. Len(q) : p[i] \in Nat /\ p[i + 1] \in Nat
  BY Places
<1> QED BY <1>1, <1>3 DEF Covers

\* An event for the frame at the end, or one for no bytes of ours.
LEMMA CoversAppend ==
  ASSUME NEW q \in Seq(Event), NEW b \in Seq(Nat \X Nat \X Nat), NEW p, Covers(q, b, p),
         NEW e \in Event, NEW to \in Nat,
         IF e.event = "INPUT" THEN to = p[Len(q) + 1] + e.size /\ FrameAt(b, p[Len(q) + 1], to)
                              ELSE to = p[Len(q) + 1]
  PROVE  \E r : Covers(Append(q, e), b, r) /\ r[Len(q) + 2] = to
<1> DEFINE r == [i \in 1 .. Len(q) + 2 |-> IF i = Len(q) + 2 THEN to ELSE p[i]]
<1>1. Len(Append(q, e)) = Len(q) + 1 /\ Len(q) \in Nat /\ Append(q, e)[Len(q) + 1] = e
      /\ \A i \in 1 .. Len(q) : Append(q, e)[i] = q[i]
  OBVIOUS
<1>p. p \in [1 .. Len(q) + 1 -> Nat] /\ p[1] = 0
  BY DEF Covers
<1>2. \A i \in 1 .. Len(q) + 1 : r[i] = p[i] /\ p[i] \in Nat
  <2> SUFFICES ASSUME NEW i \in 1 .. Len(q) + 1 PROVE r[i] = p[i] /\ p[i] \in Nat
    OBVIOUS
  <2>1. i \in 1 .. Len(q) + 2 /\ i # Len(q) + 2
    BY <1>1
  <2> QED BY <1>p, <2>1
<1>3. r[Len(q) + 2] = to
  <2>1. Len(q) + 2 \in 1 .. Len(q) + 2
    BY <1>1
  <2> QED BY <2>1
<1>4. p[Len(q) + 1] <= to
  <2>1. p[Len(q) + 1] \in Nat
    BY Places
  <2> QED BY <2>1 DEF FrameAt
<1>5. r \in [1 .. Len(q) + 1 + 1 -> Nat] /\ r[1] = 0
  <2>1. Len(q) + 1 + 1 = Len(q) + 2 /\ 1 \in 1 .. Len(q) + 1
    BY <1>1
  <2>2. r \in [1 .. Len(q) + 2 -> Nat]
    <3> SUFFICES ASSUME NEW i \in 1 .. Len(q) + 2, i # Len(q) + 2 PROVE p[i] \in Nat
      OBVIOUS
    <3>1. i \in 1 .. Len(q) + 1
      BY <1>1
    <3> QED BY <1>p, <3>1
  <2>3. r[1] = 0
    BY <1>2, <1>p, <2>1
  <2> QED BY <2>1, <2>2, <2>3
<1> HIDE DEF r
<1>6. \A i, j \in 1 .. Len(q) + 1 + 1 : i <= j => r[i] <= r[j]
  <2> SUFFICES ASSUME NEW i \in 1 .. Len(q) + 2, NEW j \in 1 .. Len(q) + 2, i <= j
               PROVE  r[i] <= r[j]
    BY <1>1
  <2>1. CASE j \in 1 .. Len(q) + 1
    <3>1. i \in 1 .. Len(q) + 1
      BY <1>1, <2>1
    <3> QED BY <1>2, <2>1, <3>1 DEF Covers
  <2>2. CASE j = Len(q) + 2 /\ i \in 1 .. Len(q) + 1
    <3>1. p[i] <= p[Len(q) + 1] /\ p[i] \in Nat /\ p[Len(q) + 1] \in Nat
      BY <1>1, <1>2, <2>2 DEF Covers
    <3> QED BY <1>2, <1>3, <1>4, <2>2, <3>1
  <2>3. CASE i = Len(q) + 2 /\ j = Len(q) + 2
    BY <1>3, <2>3
  <2> QED BY <1>1, <2>1, <2>2, <2>3
<1>7. ASSUME NEW i \in 1 .. Len(q) + 1
      PROVE  IF Append(q, e)[i].event = "INPUT"
             THEN r[i + 1] = r[i] + Append(q, e)[i].size /\ FrameAt(b, r[i], r[i + 1])
             ELSE r[i + 1] = r[i]
  <2>1. CASE i \in 1 .. Len(q)
    <3>1. i \in 1 .. Len(q) + 1 /\ i + 1 \in 1 .. Len(q) + 1
      BY <1>1, <2>1
    <3>2. r[i] = p[i] /\ r[i + 1] = p[i + 1] /\ Append(q, e)[i] = q[i]
      BY <1>1, <1>2, <2>1, <3>1
    <3> QED BY <2>1, <3>2 DEF Covers
  <2>2. CASE i = Len(q) + 1
    <3>1. Len(q) + 1 \in 1 .. Len(q) + 1 /\ Len(q) + 1 + 1 = Len(q) + 2
      BY <1>1
    <3>2. r[i] = p[Len(q) + 1] /\ r[i + 1] = to /\ Append(q, e)[i] = e
      BY <1>1, <1>2, <1>3, <2>2, <3>1
    <3> QED BY <3>2
  <2> QED BY <1>1, <2>1, <2>2
<1>8. Covers(Append(q, e), b, r)
  BY <1>1, <1>5, <1>6, <1>7 DEF Covers
<1> QED BY <1>3, <1>8

\* The first event gone, with its bytes.
LEMMA CoversTail ==
  ASSUME NEW q \in Seq(Event), q # <<>>, NEW b \in Seq(Nat \X Nat \X Nat), NEW p, Covers(q, b, p),
         NEW n \in Nat, n = p[2]
  PROVE  /\ n <= p[Len(q) + 1]
         /\ \E r : Covers(Tail(q), SubSeq(b, n + 1, Len(b)), r) /\ r[Len(q)] = p[Len(q) + 1] - n
<1> DEFINE r == [i \in 1 .. Len(q) |-> p[i + 1] - n]
           c == SubSeq(b, n + 1, Len(b))
<1>1. /\ Len(q) \in Nat /\ Len(q) >= 1 /\ Len(Tail(q)) = Len(q) - 1
      /\ \A i \in 1 .. Len(q) - 1 : Tail(q)[i] = q[i + 1]
  OBVIOUS
<1>2. \A i \in 1 .. Len(q) : p[i + 1] \in Nat /\ n <= p[i + 1]
  <2> SUFFICES ASSUME NEW i \in 1 .. Len(q) PROVE p[i + 1] \in Nat /\ n <= p[i + 1]
    OBVIOUS
  <2>1. i + 1 \in 1 .. Len(q) + 1 /\ 2 \in 1 .. Len(q) + 1 /\ 2 <= i + 1
    BY <1>1
  <2> QED BY <2>1 DEF Covers
<1>3. \A i \in 1 .. Len(q) : r[i] = p[i + 1] - n /\ r[i] \in Nat
  BY <1>2
<1>4. r \in [1 .. Len(Tail(q)) + 1 -> Nat] /\ r[1] = 0
  <2>1. Len(Tail(q)) + 1 = Len(q)
    BY <1>1
  <2>2. r[1] = p[2] - n
    BY <1>1
  <2>3. r \in [1 .. Len(q) -> Nat]
    BY <1>3
  <2> QED BY <2>1, <2>2, <2>3
<1> HIDE DEF r
<1>5. \A i, j \in 1 .. Len(q) : i <= j => r[i] <= r[j]
  <2> SUFFICES ASSUME NEW i \in 1 .. Len(q), NEW j \in 1 .. Len(q), i <= j PROVE r[i] <= r[j]
    OBVIOUS
  <2>1. i + 1 \in 1 .. Len(q) + 1 /\ j + 1 \in 1 .. Len(q) + 1 /\ i + 1 <= j + 1
    BY <1>1
  <2>2. p[i + 1] <= p[j + 1] /\ p[i + 1] \in Nat /\ p[j + 1] \in Nat
    BY <2>1 DEF Covers
  <2> QED BY <1>3, <2>2
<1>6. ASSUME NEW from \in Nat, NEW to \in Nat, n <= from, FrameAt(b, from, to)
      PROVE  FrameAt(c, from - n, to - n)
  BY <1>6, FrameShift
<1> HIDE DEF c
<1>7. ASSUME NEW i \in 1 .. Len(q) - 1
      PROVE  IF Tail(q)[i].event = "INPUT"
             THEN r[i + 1] = r[i] + Tail(q)[i].size /\ FrameAt(c, r[i], r[i + 1])
             ELSE r[i + 1] = r[i]
  <2>1. i + 1 \in 1 .. Len(q) /\ i \in 1 .. Len(q) /\ Tail(q)[i] = q[i + 1]
    BY <1>1
  <2>2. /\ r[i] = p[i + 1] - n /\ r[i + 1] = p[i + 1 + 1] - n
        /\ p[i + 1] \in Nat /\ p[i + 1 + 1] \in Nat /\ n <= p[i + 1]
    BY <1>2, <1>3, <2>1
  <2>3. IF q[i + 1].event = "INPUT"
        THEN p[i + 1 + 1] = p[i + 1] + q[i + 1].size /\ FrameAt(b, p[i + 1], p[i + 1 + 1])
        ELSE p[i + 1 + 1] = p[i + 1]
    BY <2>1 DEF Covers
  <2>4. q[i + 1].size \in Nat
    <3>1. q[i + 1] \in Event
      BY <2>1
    <3> QED BY <3>1 DEF Event
  <2>5. CASE q[i + 1].event = "INPUT"
    <3>1. FrameAt(c, r[i], r[i + 1])
      <4>1. FrameAt(b, p[i + 1], p[i + 1 + 1])
        BY <2>3, <2>5
      <4>2. FrameAt(c, p[i + 1] - n, p[i + 1 + 1] - n)
        BY <1>6, <2>2, <4>1
      <4> QED BY <2>2, <4>2
    <3>2. r[i + 1] = r[i] + q[i + 1].size
      BY <2>2, <2>3, <2>4, <2>5
    <3> QED BY <2>1, <2>5, <3>1, <3>2
  <2>6. CASE q[i + 1].event # "INPUT"
    BY <2>1, <2>2, <2>3, <2>6
  <2> QED BY <2>5, <2>6
<1>8. Covers(Tail(q), c, r)
  <2>1. Len(Tail(q)) + 1 = Len(q) /\ Len(Tail(q)) = Len(q) - 1
    BY <1>1
  <2> QED BY <2>1, <1>4, <1>5, <1>7 DEF Covers
<1>9. r[Len(q)] = p[Len(q) + 1] - n /\ n <= p[Len(q) + 1]
  BY <1>1, <1>2, <1>3
<1> QED BY <1>8, <1>9 DEF c

LEMMA InStepInit == Init => InStep
<1> SUFFICES ASSUME Init PROVE InStep
  OBVIOUS
<1>1. /\ queue = <<[event |-> "INPUT", size |-> 1]>> /\ fifo = << <<0, 1, 1>> >> /\ batch = <<>>
      /\ \A t \in Task : call[t].pc = "idle" /\ call[t].size = 1
  BY DEF Init, Rest
<1> DEFINE p == [i \in 1 .. 2 |-> i - 1]
<1>2. p \in [1 .. 2 -> Nat] /\ p[1] = 0 /\ p[2] = 1 /\ \A i, j \in 1 .. 2 : i <= j => p[i] <= p[j]
  OBVIOUS
<1> HIDE DEF p
<1>3. Len(queue) = 1 /\ queue[1].event = "INPUT" /\ queue[1].size = 1 /\ Len(fifo) = 1
      /\ fifo[1] = <<0, 1, 1>>
  BY <1>1
<1>4. FrameAt(fifo, 0, 1)
  BY <1>3 DEF FrameAt
<1>5. Covers(queue, fifo, p) /\ Ends(p[Len(queue) + 1])
  BY <1>1, <1>2, <1>3, <1>4 DEF Covers, Ends
<1>6. Len(queue) <= EVENT_QUEUE_LEN
  BY <1>3, TxAssumption
<1> QED BY <1>1, <1>5, <1>6 DEF InStep, WholeFrames

\* A step that leaves the buffers alone and nobody at an event that was not there before.
LEMMA QuietInStep ==
  ASSUME InStep, UNCHANGED <<fifo, queue, batch, astray>>,
         \A t \in Task : /\ call'[t].size >= 1
                         /\ call'[t].pc = "post" <=> call[t].pc = "post"
                         /\ call[t].pc = "post" => call'[t].size = call[t].size
  PROVE  InStep'
<1>1. \A from : Ends(from) => Ends(from)'
  BY DEF Ends
<1>2. ~astray => \E p : Covers(queue, fifo, p)' /\ Ends(p[Len(queue) + 1])'
  BY <1>1 DEF InStep
<1>3. ~astray => WholeFrames'
  BY DEF InStep, WholeFrames
<1> QED BY <1>2, <1>3 DEF InStep

LEMMA BeginInStep ==
  ASSUME Types, InStep, NEW t \in Task, call[t].pc = "idle", NEW kind, NEW size \in Nat, size >= 1,
         NEW pc \in {"lockTx", "lockInput"}, Begin(t, kind, size, pc),
         UNCHANGED <<fifo, queue, batch, astray>>
  PROVE  InStep'
<1>1. /\ call'[t].pc = pc /\ call'[t].size = size
      /\ \A u \in Task \ {t} : call'[u] = call[u]
  BY DEF Begin, Rest, Types
<1> QED BY <1>1, QuietInStep DEF InStep

\* With nobody between the locks but one, and no raw send, one at most is at its event.
LEMMA CommitInStep ==
  ASSUME Inv, InStep, NEW t \in Task, Commit(t)
  PROVE  InStep'
<1>1. /\ call[t].pc = "commit" /\ call[t] \in Sending /\ call \in [Task -> Sending]
      /\ fifo \in Seq(Nat \X Nat \X Nat) /\ queue \in Seq(Event)
  BY DEF Commit, At, Inv, Types
<1>2. Room(t) >= call[t].size /\ call[t].size \in Nat /\ Len(fifo) \in Nat /\ INPUT_BUF \in Nat
  <2>1. Room(t) >= call[t].size
    BY <1>1 DEF Inv, RoomIsReserved, At
  <2> QED BY <1>1, <2>1, Limits DEF Sending
<1> DEFINE size == call[t].size
           units == [u \in 1 .. size |-> <<call[t].n, u, size>>]
<1>3. ~(Room(t) < size)
  BY <1>2 DEF Room
<1>4. /\ fifo' = fifo \o units /\ call' = [call EXCEPT ![t].pc = "post"]
      /\ queue' = queue /\ batch' = batch /\ astray' = (astray \/ Overtaking(t))
  BY <1>3 DEF Commit, Goto
<1>5. /\ call'[t].pc = "post" /\ call'[t].size = size
      /\ \A u \in Task \ {t} : call'[u] = call[u]
  BY <1>1, <1>4
<1>6. size >= 1 /\ \A u \in Task : call'[u].size >= 1
  BY <1>5 DEF InStep
<1>len. Len(queue') <= EVENT_QUEUE_LEN
  BY <1>4 DEF InStep
<1>7. CASE astray'
  BY <1>6, <1>7, <1>len DEF InStep
<1>8. CASE ~astray'
  <2>1. ~astray /\ ~Overtaking(t)
    BY <1>4, <1>8
  <2>2. \A u \in Task : call[u].pc # "post"
    <3> SUFFICES ASSUME NEW u \in Task, call[u].pc = "post" PROVE FALSE
      OBVIOUS
    <3>1. u # t
      BY <1>1
    <3>2. call[t].kind # "raw" /\ call[u].kind # "raw"
      BY <2>1, <3>1 DEF Overtaking, At
    <3> QED BY <1>1, <3>1, <3>2 DEF Inv, Holds
  <2>3. PICK p : Covers(queue, fifo, p) /\ Ends(p[Len(queue) + 1])
    BY <2>1 DEF InStep
  <2>4. p[Len(queue) + 1] = Len(fifo)
    BY <2>2, <2>3 DEF Ends
  <2>5. /\ units \in Seq(Nat \X Nat \X Nat) /\ Len(units) = size
        /\ \A u \in 1 .. size : units[u] = <<call[t].n, u, size>>
    <3>1. call[t].n \in Nat
      BY <1>1 DEF Sending
    <3>2. units \in [1 .. size -> Nat \X Nat \X Nat]
      BY <1>2, <3>1
    <3>3. \A u \in 1 .. size : units[u] = <<call[t].n, u, size>>
      OBVIOUS
    <3> HIDE DEF units
    <3> QED BY <1>2, <3>2, <3>3, FunctionIsSeq
  <2> HIDE DEF units
  <2>6. Covers(queue', fifo', p)
    BY <1>1, <1>4, <2>3, <2>5, CoversMore
  <2>7. FrameAt(fifo', Len(fifo), Len(fifo) + size) /\ Len(fifo') = Len(fifo) + size
    <3>1. /\ Len(fifo') = Len(fifo) + size
          /\ \A u \in 1 .. size : fifo'[Len(fifo) + u] = units[u]
      <4>1. /\ Len(fifo \o units) = Len(fifo) + Len(units)
            /\ \A u \in 1 .. Len(units) : (fifo \o units)[Len(fifo) + u] = units[u]
        <5>1. fifo \in Seq(Nat \X Nat \X Nat) /\ units \in Seq(Nat \X Nat \X Nat)
          BY <1>1, <2>5
        <5> QED BY <5>1, Joined
      <4>2. fifo' = fifo \o units /\ Len(units) = size
        BY <1>4, <2>5
      <4> HIDE DEF size
      <4> QED BY <4>1, <4>2
    <3>2. size \in Nat /\ size >= 1
      BY <1>2, <1>6
    <3>3. Len(fifo) + size - Len(fifo) = size /\ Len(fifo) < Len(fifo) + size
          /\ Len(fifo) + size <= Len(fifo) + size
      BY <1>2, <3>2
    <3>4. call[t].n \in Nat
      BY <1>1 DEF Sending
    <3>5. \A u \in 1 .. size : fifo'[Len(fifo) + u] = <<call[t].n, u, size>>
      BY <2>5, <3>1
    <3>6. Len(fifo) \in Nat /\ Len(fifo') \in Nat /\ Len(fifo) + size \in Nat /\ Len(fifo) + size <= Len(fifo')
      BY <1>2, <3>1, <3>2
    <3>7. FrameAt(fifo', Len(fifo), Len(fifo) + size)
      <4> DEFINE from == Len(fifo)
                 to == from + size
      <4>1. to - from = size /\ from < to
        BY <3>2, <3>3, <3>6
      <4>to. to <= Len(fifo')
        <5>1. Len(fifo) + size <= Len(fifo')
          BY <3>6
        <5> QED BY <5>1 DEF to, from
      <4>2. \A u \in 1 .. size : fifo'[from + u] = <<call[t].n, u, size>>
        BY <3>5
      <4> HIDE DEF size, from, to
      <4>3. \A u \in 1 .. to - from : fifo'[from + u] = <<call[t].n, u, to - from>>
        BY <4>1, <4>2
      <4>4. FrameAt(fifo', from, to)
        BY <3>4, <4>1, <4>3, <4>to DEF FrameAt
      <4> QED BY <4>4 DEF from, to
    <3> QED BY <3>1, <3>7
  <2>8. Ends(p[Len(queue) + 1])'
    <3>1. \A u \in Task : call'[u].pc = "post" => u = t
      BY <1>5, <2>2
    <3>2. p[Len(queue) + 1] + size = Len(fifo') /\ FrameAt(fifo', p[Len(queue) + 1], Len(fifo'))
      BY <2>4, <2>7
    <3> QED BY <1>4, <1>5, <3>1, <3>2 DEF Ends
  <2>9. WholeFrames'
    BY <1>4, <2>1 DEF InStep, WholeFrames
  <2> QED BY <1>4, <1>5, <1>6, <2>2, <2>6, <2>8, <2>9 DEF InStep
<1> QED BY <1>7, <1>8

LEMMA PostInStep ==
  ASSUME Inv, InStep, NEW t \in Task, Post(t)
  PROVE  InStep'
<1>1. /\ call[t].pc = "post" /\ call[t] \in Sending /\ call \in [Task -> Sending]
      /\ fifo \in Seq(Nat \X Nat \X Nat) /\ queue \in Seq(Event)
  BY DEF Post, At, Inv, Types
<1>2. /\ call' = [call EXCEPT ![t] = Rest] /\ fifo' = fifo /\ batch' = batch
      /\ astray' = (astray \/ Len(queue) = EVENT_QUEUE_LEN)
  BY DEF Post
<1>3. /\ call'[t].pc = "idle" /\ call'[t].size = 1
      /\ \A u \in Task \ {t} : call'[u] = call[u]
  BY <1>1, <1>2 DEF Rest
<1>4. (\A u \in Task : call'[u].size >= 1) /\ Len(queue) <= EVENT_QUEUE_LEN
  BY <1>3 DEF InStep
<1> DEFINE e == [event |-> "INPUT", size |-> call[t].size]
<1>len. Len(queue') <= EVENT_QUEUE_LEN
  <2>1. queue' = IF Len(queue) < EVENT_QUEUE_LEN THEN Append(queue, e) ELSE queue
    BY DEF Post
  <2>2. Len(Append(queue, e)) = Len(queue) + 1 /\ Len(queue) \in Nat
    BY <1>1
  <2> QED BY <1>4, <2>1, <2>2, Limits
<1>5. CASE astray'
  BY <1>4, <1>5, <1>len DEF InStep
<1>6. CASE ~astray'
  <2>1. ~astray /\ Len(queue) # EVENT_QUEUE_LEN
    BY <1>2, <1>6
  <2>2. \A u \in Task : call[u].pc = "post" => u = t
    BY <1>1, <2>1 DEF InStep
  <2>3. PICK p : Covers(queue, fifo, p) /\ Ends(p[Len(queue) + 1])
    BY <2>1 DEF InStep
  <2>4. p[Len(queue) + 1] + call[t].size = Len(fifo) /\ FrameAt(fifo, p[Len(queue) + 1], Len(fifo))
    BY <1>1, <2>3 DEF Ends
  <2>5. e \in Event /\ e.event = "INPUT" /\ e.size = call[t].size
    BY <1>1 DEF Event, Sending
  <2>6. Len(queue) < EVENT_QUEUE_LEN => queue' = Append(queue, e)
    BY DEF Post
  <2> HIDE DEF e
  <2>7. \E r : Covers(Append(queue, e), fifo, r) /\ r[Len(queue) + 2] = Len(fifo)
    <3>1. Len(fifo) \in Nat /\ Len(fifo) = p[Len(queue) + 1] + e.size
      BY <1>1, <2>4, <2>5
    <3> QED BY <1>1, <2>3, <2>4, <2>5, <3>1, CoversAppend
  <2>8. CASE queue' = Append(queue, e)
    <3>1. Len(queue') + 1 = Len(queue) + 2
      BY <1>1, <2>8
    <3>2. \A u \in Task : call'[u].pc # "post"
      BY <1>3, <2>2
    <3>4. \E r : Covers(queue', fifo', r) /\ r[Len(queue') + 1] = Len(fifo)
      BY <1>2, <2>7, <2>8, <3>1
    <3>5. \E r : Covers(queue, fifo, r)' /\ Ends(r[Len(queue) + 1])'
      <4>1. PICK r : Covers(queue', fifo', r) /\ r[Len(queue') + 1] = Len(fifo)
        BY <3>4
      <4>2. Ends(r[Len(queue) + 1])'
        BY <1>2, <3>2, <4>1 DEF Ends
      <4>3. Covers(queue, fifo, r)'
        BY <4>1
      <4> QED BY <4>2, <4>3
    <3>6. WholeFrames'
      BY <1>2, <2>1 DEF InStep, WholeFrames
    <3> QED BY <1>4, <1>len, <3>2, <3>5, <3>6 DEF InStep
  <2>9. Len(queue) < EVENT_QUEUE_LEN
    BY <1>1, <1>4, <2>1, Limits
  <2> QED BY <2>6, <2>8, <2>9
<1> QED BY <1>5, <1>6
\* Taking the bytes of the event at the head, or an event of no bytes of ours.
LEMMA TakeInStep ==
  ASSUME Inv, InStep, queue # <<>>, queue' = Tail(queue), UNCHANGED <<call, astray>>,
         \/ Head(queue).event = "INPUT" /\ PumpInput
         \/ Head(queue).event = "OUTPUT" /\ UNCHANGED <<fifo, batch>>
  PROVE  InStep'
<1>1. /\ fifo \in Seq(Nat \X Nat \X Nat) /\ queue \in Seq(Event) /\ Head(queue) = queue[1]
      /\ Len(queue) \in Nat /\ Len(queue) >= 1 /\ queue[1] \in Event /\ Len(fifo) \in Nat
      /\ Len(Tail(queue)) = Len(queue) - 1
  BY DEF Inv, Types
<1>2. Len(queue') <= EVENT_QUEUE_LEN /\ \A t \in Task : call'[t].size >= 1
  BY <1>1, Limits DEF InStep
<1>3. CASE astray
  BY <1>2, <1>3 DEF InStep
<1>4. CASE ~astray
  <2>1. PICK p : Covers(queue, fifo, p) /\ Ends(p[Len(queue) + 1])
    BY <1>4 DEF InStep
  <2>2. PICK n : n = p[2]
    OBVIOUS
  <2>3. PICK a : a = p[Len(queue) + 1]
    OBVIOUS
  <2>4. n \in Nat /\ a \in Nat
    <3>1. 1 \in 1 .. Len(queue) /\ 1 + 1 = 2
      BY <1>1
    <3>2. p[1 + 1] \in Nat /\ p[Len(queue) + 1] \in Nat
      BY <1>1, <2>1, <3>1, Places
    <3> QED BY <2>2, <2>3, <3>1, <3>2
  <2>5. IF queue[1].event = "INPUT" THEN n = queue[1].size /\ FrameAt(fifo, 0, n) ELSE n = 0
    <3>1. p[1] = 0 /\ 1 \in 1 .. Len(queue) /\ 1 + 1 = 2
      BY <1>1, <2>1 DEF Covers
    <3>2. IF queue[1].event = "INPUT" THEN p[1 + 1] = p[1] + queue[1].size /\ FrameAt(fifo, p[1], p[1 + 1])
                                      ELSE p[1 + 1] = p[1]
      BY <2>1, <3>1 DEF Covers
    <3>3. 0 + queue[1].size = queue[1].size
      BY <1>1 DEF Event
    <3> QED BY <2>2, <3>1, <3>2, <3>3
  <2>6. n <= Len(fifo)
    <3>1. CASE queue[1].event = "INPUT"
      BY <2>5, <3>1 DEF FrameAt
    <3>2. CASE queue[1].event # "INPUT"
      BY <1>1, <2>5, <3>2
    <3> QED BY <3>1, <3>2
  <2>7. fifo' = SubSeq(fifo, n + 1, Len(fifo)) /\ WholeFrames'
    <3>1. CASE queue[1].event = "INPUT" /\ PumpInput
      <4>1. n = queue[1].size /\ FrameAt(fifo, 0, n)
        BY <2>5, <3>1
      <4>2. /\ batch' = SubSeq(fifo, 1, n) /\ fifo' = SubSeq(fifo, n + 1, Len(fifo))
        BY <1>1, <2>6, <3>1, <4>1 DEF PumpInput, Span
      <4>3. 0 < n /\ n - 0 = n /\ \A u \in 1 .. n : 0 + u = u
        <5>1. 0 < n
          BY <4>1 DEF FrameAt
        <5> QED BY <2>4, <5>1
      <4>4. PICK f \in Nat : \A u \in 1 .. n - 0 : fifo[0 + u] = <<f, u, n - 0>>
        BY <4>1 DEF FrameAt
      <4>5. \A u \in 1 .. n : fifo[u] = <<f, u, n>>
        BY <4>3, <4>4
      <4>6. Len(batch') = n /\ DOMAIN batch' = 1 .. n /\ \A u \in 1 .. n : batch'[u] = fifo[u]
        BY <1>1, <2>4, <2>6, <4>2, Beginning
      <4>7. batch'[1] = <<f, 1, n>> /\ \A u \in 1 .. n : batch'[u] = <<f, u, n>>
        <5>1. 1 \in 1 .. n
          BY <2>4, <4>3
        <5> QED BY <4>5, <4>6, <5>1
      <4>8. WholeFrames'
        BY <4>6, <4>7 DEF WholeFrames
      <4> QED BY <4>2, <4>8
    <3>2. CASE queue[1].event = "OUTPUT" /\ UNCHANGED <<fifo, batch>>
      <4>1. n = 0
        BY <2>5, <3>2
      <4>2. SubSeq(fifo, 0 + 1, Len(fifo)) = fifo
        BY <1>1
      <4>3. WholeFrames
        BY <1>4 DEF InStep
      <4> QED BY <3>2, <4>1, <4>2, <4>3 DEF WholeFrames
    <3> QED BY <1>1, <3>1, <3>2
  <2>8. /\ n <= a
        /\ \E r : Covers(queue', fifo', r) /\ r[Len(queue)] = a - n
    <3> DEFINE c == SubSeq(fifo, n + 1, Len(fifo))
    <3>1. fifo' = c
      BY <2>7
    <3>2. /\ n <= p[Len(queue) + 1]
          /\ \E r : Covers(Tail(queue), c, r) /\ r[Len(queue)] = p[Len(queue) + 1] - n
      <4>1. Covers(queue, fifo, p)
        BY <2>1
      <4> QED BY <1>1, <2>2, <2>4, <4>1, CoversTail
    <3> HIDE DEF c
    <3> QED BY <2>3, <3>1, <3>2
  <2>9. ASSUME NEW r, r[Len(queue')+ 1] = a - n
        PROVE  Ends(r[Len(queue) + 1])'
    <3>1. Len(fifo') = Len(fifo) - n
      BY <1>1, <2>4, <2>6, <2>7, Part
    <3>2. ASSUME NEW t \in Task, call[t].pc = "post"
          PROVE  a - n + call[t].size = Len(fifo') /\ FrameAt(fifo', a - n, Len(fifo'))
      <4>1. a + call[t].size = Len(fifo) /\ FrameAt(fifo, a, Len(fifo))
        BY <2>1, <2>3, <3>2 DEF Ends
      <4>2. call[t].size \in Nat
        <5>1. call[t] \in Sending
          BY DEF Inv, Types
        <5> QED BY <5>1 DEF Sending
      <4>3. LET c == SubSeq(fifo, n + 1, Len(fifo))
            IN  FrameAt(c, a - n, Len(c)) /\ a - n + call[t].size = Len(c)
        <5>1. n <= a /\ fifo \in Seq(Nat \X Nat \X Nat)
          BY <1>1, <2>8
        <5> QED BY <2>4, <4>1, <4>2, <5>1, EndShift
      <4> QED BY <2>7, <4>3
    <3>3. (\A t \in Task : call[t].pc # "post") => a - n = Len(fifo')
      BY <2>1, <2>3, <3>1 DEF Ends
    <3> QED BY <2>9, <3>2, <3>3 DEF Ends
  <2>10. \E r : Covers(queue, fifo, r)' /\ Ends(r[Len(queue) + 1])'
    <3>1. PICK r : Covers(queue', fifo', r) /\ r[Len(queue)] = a - n
      BY <2>8
    <3>2. Len(queue') + 1 = Len(queue)
      BY <1>1
    <3>3. Ends(r[Len(queue) + 1])'
      BY <2>9, <3>1, <3>2
    <3>4. Covers(queue, fifo, r)'
      BY <3>1
    <3> QED BY <3>3, <3>4
  <2> QED BY <1>2, <1>4, <2>7, <2>10 DEF InStep
<1> QED BY <1>3, <1>4

\* Events and bytes stay in step.
LEMMA InStepNext == Inv /\ InStep /\ [Next]_vars => InStep'
<1> SUFFICES ASSUME Inv, InStep, [Next]_vars PROVE InStep'
  OBVIOUS
<1>typed. Types /\ call \in [Task -> Sending] /\ queue \in Seq(Event) /\ Len(queue) \in Nat
  BY DEF Inv, Types
<1>sizes. \A s \in Sizes : s \in Nat /\ s >= 1
  BY TxAssumption
<1>1. CASE BeginAck
  BY <1>1, <1>typed, BeginInStep DEF BeginAck, At, buffers, marks, Task
<1>2. CASE BeginResponse
  <2>1. PICK s \in Sizes : Begin("app", "response", s, "lockTx")
    BY <1>2 DEF BeginResponse
  <2>2. call["app"].pc = "idle" /\ UNCHANGED <<fifo, queue, batch, astray>> /\ "app" \in Task
    BY <1>2 DEF BeginResponse, At, buffers, marks, Task
  <2> QED BY <1>typed, <1>sizes, <2>1, <2>2, BeginInStep
<1>3. CASE BeginZboss
  <2>1. PICK s \in Sizes : Begin("zboss", "raw", s, "lockInput") \/ Begin("zboss", "indication", s, "lockTx")
    BY <1>3 DEF BeginZboss
  <2>2. call["zboss"].pc = "idle" /\ UNCHANGED <<fifo, queue, batch, astray>> /\ "zboss" \in Task
    BY <1>3 DEF BeginZboss, At, buffers, marks, Task
  <2> QED BY <1>typed, <1>sizes, <2>1, <2>2, BeginInStep
<1>4. ASSUME NEW t \in Task, Send(t)
      PROVE  InStep'
  <2>1. CASE LockTx(t) \/ Stamp(t) \/ Advance(t) \/ LockInput(t) \/ WaitForRoom(t) \/ RoomFound(t)
    <3>1. UNCHANGED <<fifo, queue, batch, astray>>
      BY <2>1 DEF LockTx, Stamp, Advance, LockInput, WaitForRoom, RoomFound, buffers, marks
    <3>2. /\ call[t].pc # "post" /\ call'[t].pc # "post" /\ call'[t].size = call[t].size
          /\ \A u \in Task \ {t} : call'[u] = call[u]
      <4>1. CASE LockTx(t)
        BY <1>typed, <4>1 DEF LockTx, At, Goto, Sending
      <4>2. CASE Stamp(t)
        BY <1>typed, <4>2 DEF Stamp, At, Sending
      <4>3. CASE Advance(t)
        BY <1>typed, <4>3 DEF Advance, At, Goto, Sending
      <4>4. CASE LockInput(t)
        BY <1>typed, <4>4 DEF LockInput, At, Sending
      <4>5. CASE WaitForRoom(t)
        BY <1>typed, <4>5 DEF WaitForRoom, At, Sending
      <4>6. CASE RoomFound(t)
        BY <1>typed, <4>6 DEF RoomFound, At, Goto, Sending
      <4> QED BY <2>1, <4>1, <4>2, <4>3, <4>4, <4>5, <4>6
    <3> QED BY <3>1, <3>2, QuietInStep DEF InStep
  <2>2. CASE GiveUp(t)
    <3>1. UNCHANGED <<fifo, queue, batch, astray>>
      BY <2>2 DEF GiveUp, buffers, marks
    <3>2. /\ call[t].pc # "post" /\ call'[t].pc # "post" /\ call'[t].size = 1
          /\ \A u \in Task \ {t} : call'[u] = call[u]
      BY <2>2, <1>typed DEF GiveUp, At, Rest
    <3> QED BY <3>1, <3>2, QuietInStep DEF InStep
  <2>3. CASE Commit(t)
    BY <2>3, CommitInStep
  <2>4. CASE Post(t)
    BY <2>4, PostInStep
  <2> QED BY <1>4, <2>1, <2>2, <2>3, <2>4 DEF Send
<1>5. CASE PumpInput
  BY <1>5, TakeInStep DEF PumpInput, Pump, marks
<1>6. CASE PumpOutput
  BY <1>6, TakeInStep DEF PumpOutput, Pump, marks
<1>7. CASE HostFrame
  <2> DEFINE e == [event |-> "OUTPUT", size |-> 1]
  <2>1. /\ UNCHANGED <<fifo, batch, call, astray>>
        /\ queue' = IF Len(queue) < EVENT_QUEUE_LEN THEN Append(queue, e) ELSE queue
    BY <1>7 DEF HostFrame, marks
  <2>2. e \in Event /\ e.event # "INPUT" /\ Len(Append(queue, e)) = Len(queue) + 1
    BY <1>typed, Events
  <2> HIDE DEF e
  <2>3. Len(queue') <= EVENT_QUEUE_LEN
    BY <1>typed, <2>1, <2>2, Limits DEF InStep
  <2>4. ASSUME ~astray
        PROVE  \E r : Covers(queue, fifo, r)' /\ Ends(r[Len(queue) + 1])'
    <3>1. PICK p : Covers(queue, fifo, p) /\ Ends(p[Len(queue) + 1])
      BY <2>4 DEF InStep
    <3>2. \A from : Ends(from) => Ends(from)'
      BY <2>1 DEF Ends
    <3>3. CASE queue' = queue
      BY <2>1, <3>1, <3>2, <3>3
    <3>4. CASE queue' = Append(queue, e)
      <4>1. p[Len(queue) + 1] \in Nat
        BY <1>typed, <3>1 DEF Covers
      <4>2. fifo \in Seq(Nat \X Nat \X Nat)
        BY <1>typed DEF Types
      <4>3. PICK r : Covers(Append(queue, e), fifo, r) /\ r[Len(queue) + 2] = p[Len(queue) + 1]
        BY <1>typed, <2>2, <3>1, <4>1, <4>2, CoversAppend
      <4>4. Len(queue') + 1 = Len(queue) + 2
        BY <1>typed, <2>2, <3>4
      <4> QED BY <2>1, <3>1, <3>2, <3>4, <4>3, <4>4
    <3> QED BY <2>1, <3>3, <3>4
  <2>5. ~astray => WholeFrames'
    BY <2>1 DEF InStep, WholeFrames
  <2> QED BY <2>1, <2>3, <2>4, <2>5 DEF InStep
<1>8. CASE UNCHANGED vars
  <2>1. UNCHANGED <<fifo, queue, batch, astray, call>>
    BY <1>8 DEF vars, buffers, marks
  <2> QED BY <2>1, QuietInStep DEF InStep
<1> QED BY <1>1, <1>2, <1>3, <1>4, <1>5, <1>6, <1>7, <1>8 DEF Next, AppTask, Task
------------------------------------------------------------------------------
\* Protocol frames reach the byte stream in the order of their numbers, and no
\* number is lost or given twice, whichever task sends (protocol.cpp's send_ack,
\* send_nack and send_data_int under m_tx_sem).
THEOREM NumbersAreInOrder == Spec => []NumbersInOrder
<1>1. Inv => NumbersInOrder
  BY DEF Inv
<1> QED BY InvAlways, <1>1, PTL

\* The room transport::send_int found is still there when it commits.
THEOREM RoomIsKept == Spec => []RoomIsReserved
<1>1. Inv => RoomIsReserved
  BY DEF Inv
<1> QED BY InvAlways, <1>1, PTL

\* process_input hands write_int whole frames while no event has been dropped and none
\* overtaken by the boot-ready frame's, for buffers, queues and frames of any size.
THEOREM FramesStayWhole == Spec => []WholeWhileInStep
<1>1. Spec => []InStep
  <2>1. Inv /\ InStep /\ [Next]_vars => InStep'
    BY InStepNext
  <2> QED BY <2>1, InStepInit, InvAlways, PTL DEF Spec
<1>2. InStep => WholeWhileInStep
  BY DEF InStep, WholeWhileInStep
<1> QED BY <1>1, <1>2, PTL
==============================================================================
