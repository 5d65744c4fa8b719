-------------------------------- MODULE Delivery --------------------------------
(***************************************************************************)
(* Readings of providers on their way through the server and one TCP        *)
(* connection to the terminal of a subscriber.  The connection is a stream  *)
(* of bytes: handle_server_msg (src/subscriber.c) reads it with one recv()  *)
(* per message into a structure on the stack that is not initialised, and   *)
(* looks neither at the number of bytes it got nor at the end of the        *)
(* stream.                                                                  *)
(***************************************************************************)
EXTENDS Messages, FiniteSets

CONSTANTS
  Readings,  \* what providers publish
  Faults,    \* which unusual events happen, see below
  MaxSent,   \* bound: the readings published
  MaxOdd     \* bound: the short reads, and the reads at the end of the stream

ASSUME DeliveryAssumption ==
  /\ MaxSent \in Nat
  /\ MaxOdd \in Nat
  \* "segments": recv() may find a part of a message only.
  \* "crash": the server may end without a CLOSE_SRV_MSG.
  /\ Faults \subseteq {"segments", "crash"}

(* A provider fills the fields of udp_msg_t: a type it has, a topic and a    *)
(* value that fit.                                                          *)
ASSUME ReadingsAssumption ==
  \A r \in Readings : \E t \in INT_SRV_MSG..STRING_SRV_MSG : r \in ReadingsOf(t)

VARIABLES
  srv,     \* "up", "stopped" after CLOSE_SRV_MSG, "gone" without it
  stream,  \* the bytes the server sent and the subscriber has not read
  sub,     \* "running" or "exited"
  msg,     \* the srv_msg_t on the subscriber's stack
  sent,    \* history: the readings the server sent
  reads,   \* history: the subscriber's recv()s, from which byte, with which result
  shown    \* history: what the subscriber's terminal shows

vars == <<srv, stream, sub, msg, sent, reads, shown>>

-----------------------------------------------------------------------------
(* What an earlier call may have left where the structure is.               *)
Garbage == {Fill(b, MsgSize) : b \in {0, Base - 1}}

OddReads == Cardinality({k \in DOMAIN reads : reads[k].n # MsgSize})

(* The bytes the subscriber has read.                                       *)
Taken == IF reads = <<>> THEN 0
         ELSE LET last == reads[Len(reads)] IN last.at + last.n

(* The results recv() may have.                                             *)
Received ==
  LET most == IF Len(stream) < MsgSize THEN Len(stream) ELSE MsgSize IN
  {n \in 0..most :
     /\ n = 0 => srv # "up" /\ stream = <<>>
     /\ n # most => n > 0 /\ "segments" \in Faults
     /\ n # MsgSize => OddReads < MaxOdd}

(* handle_udp_msg, for a datagram this subscriber is subscribed to.         *)
ForwardReading(r) ==
  /\ srv = "up"
  /\ Len(sent) < MaxSent
  /\ stream' = stream \o srv_msg(r.addr, BigEndian(r.port, 2), Datagram(r))
  /\ sent' = Append(sent, r)
  /\ UNCHANGED <<srv, sub, msg, reads, shown>>

(* srv_closes_sub_connection.                                               *)
CloseConnection ==
  /\ srv = "up"
  /\ srv' = "stopped"
  /\ stream' = stream \o close_msg
  /\ UNCHANGED <<sub, msg, sent, reads, shown>>

(* The server ends by a DIE or a signal.                                    *)
ServerEnds ==
  /\ "crash" \in Faults
  /\ srv = "up"
  /\ srv' = "gone"
  /\ UNCHANGED <<stream, sub, msg, sent, reads, shown>>

(* Mutant: recv() takes all there is, only the first message is handled.    *)
BytesLeftNone(n) == <<>>

(* What is still in the stream after a recv() of n bytes.                   *)
BytesLeft(n) == SubSeq(stream, n + 1, Len(stream))

(* handle_server_msg.                                                       *)
HandleServerMsg ==
  /\ sub = "running"
  /\ \E n \in Received : \E stack \in {msg} \cup Garbage :
       /\ msg' = SubSeq(stream, 1, n) \o SubSeq(stack, n + 1, MsgSize)
       /\ stream' = BytesLeft(n)
       /\ reads' = Append(reads, [at |-> Taken, n |-> n])
  /\ IF type(msg') = CLOSE_SRV_MSG
     THEN sub' = "exited" /\ UNCHANGED shown
     ELSE shown' = Append(shown, Shown(msg')) /\ UNCHANGED sub
  /\ UNCHANGED <<srv, sent>>

Init ==
  /\ srv = "up"
  /\ stream = <<>>
  /\ sub = "running"
  /\ msg \in Garbage
  /\ sent = <<>>
  /\ reads = <<>>
  /\ shown = <<>>

Next ==
  \/ \E r \in Readings : ForwardReading(r)
  \/ CloseConnection
  \/ ServerEnds
  \/ HandleServerMsg

Spec == Init /\ [][Next]_vars

-----------------------------------------------------------------------------
(* The k-th read took one message of the server, and all of it.             *)
Aligned(k) == reads[k].n = MsgSize /\ reads[k].at % MsgSize = 0

(* What a terminal shows of a reading: the address reversed, since the      *)
(* server converts it and the subscriber does not convert it back; an INT   *)
(* as the int with the same last 32 bits.                                   *)
OnTerminal(r) ==
  [r EXCEPT !.addr  = Seqs!Reverse(@),
            !.value = IF r.type = INT_SRV_MSG
                      THEN <<ToInt(@[1] % Word), @[2]>> ELSE @]

(* A message that is read as it was sent is shown as its provider published *)
(* it: type, port, topic and value survive two programs and three byte      *)
(* orders, at full topic and payload size and at the ends of the ranges,    *)
(* whatever was on the stack and whatever was shown before                  *)
(* (handle_udp_msg lines 281-289, print_*_msg).                             *)
ShownAsPublished ==
  \A k \in DOMAIN shown : Aligned(k) =>
    LET n == (reads[k].at \div MsgSize) + 1 IN
    n <= Len(sent) /\ shown[k] = OnTerminal(sent[n])

NoShortRead == \A k \in DOMAIN reads : reads[k].n \in {0, MsgSize}

AtEnd == \E k \in DOMAIN reads : reads[k].n = 0

(* As long as no recv() was short, a subscriber that exits or has met the   *)
(* end of the stream has shown everything sent before, once and in order:   *)
(* the old messages it shows for ever at the end come after the real ones   *)
(* (handle_server_msg lines 213-235).                                       *)
NothingLost ==
  NoShortRead =>
    /\ AtEnd => Len(shown) >= Len(sent)
    /\ sub = "exited" /\ ~AtEnd => srv = "stopped" /\ Len(shown) = Len(sent)
=============================================================================
