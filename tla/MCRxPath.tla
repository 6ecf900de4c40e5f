------------------------------ MODULE MCRxPath -------------------------------
(***************************************************************************)
(* A UART session of two frames and the ACK between them, with garbage,    *)
(* damage or a loss in it; on USB a port prober, or a second host.         *)
(***************************************************************************)
EXTENDS RxPath

X == <<"x", 0>>
Hdr(n) == <<"hdr", n>>
Ack == <<DE, AD, Hdr(HEADER)>>

MCFrame == 1 .. 3
MCSender == <<"UART", "UART", "USB">>

\* The first frame holds what looks like the start of a long one.
MCPayload == <<<<DE, AD, Hdr(9)>>, <<X>>, <<X>>>>

Session == Encoded(1) \o Ack \o Encoded(2)

Lost(bytes, k) == RemoveAt(bytes, k)
Damaged(bytes, k) == [bytes EXCEPT ![k] = X]

UartLines ==
  { Encoded(1) \o <<DE, X, DE>> \o Encoded(2), <<DE, X, DE, AD, Hdr(0)>> \o Session,
    Damaged(Session, 3), Damaged(Session, 4), Lost(Session, 5) }

\* Two reads, cut at every place.
Cuts(bytes) ==
  { <<SubSeq(bytes, 1, k), SubSeq(bytes, k + 1, Len(bytes))>> : k \in 1 .. Len(bytes) - 1 }

Prober == <<<<DE>>, <<X>>, <<AD>>>>

MCLines ==
  { ("UART" :> u @@ "USB" :> Prober) : u \in UNION {Cuts(l) : l \in UartLines} }
    \cup { ("UART" :> u @@ "USB" :> <<Encoded(3)>>) : u \in Cuts(Encoded(2)) }

LongLines == { ("UART" :> u @@ "USB" :> <<>>) : u \in Cuts(Encoded(1)) }
LongFrame == {1}
LongSender == [f \in LongFrame |-> "UART"]
LongPayload == [f \in LongFrame |-> [k \in 1 .. 9 |-> X]]
==============================================================================
