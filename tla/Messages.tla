-------------------------------- MODULE Messages --------------------------------
(***************************************************************************)
(* The bytes of a message on its way from a provider to a terminal: the     *)
(* datagram (udp_msg_t), what the server makes of it (srv_msg_t, src/msg.h, *)
(* src/server.c handle_udp_msg) and what a subscriber reads in it           *)
(* (src/subscriber.c print_*_msg).  Both machines are little-endian, the    *)
(* structures are packed.  A byte has Base values, 256 in the program.      *)
(*                                                                         *)
(* A reading is what a provider publishes and what a terminal shows: type,  *)
(* address, port, topic and value.  A number is <<digits, p>>, its digits   *)
(* and the places behind the decimal point; a text is its characters.  The  *)
(* layout of the line printed and the rounding of a double are left out.    *)
(***************************************************************************)
EXTENDS Integers, Sequences

CONSTANTS
  Base,       \* the values of a byte
  TopicSize,  \* MAX_TOPIC_SIZE
  DataSize    \* MAX_DATA_SIZE

ASSUME MessagesAssumption ==
  /\ Base \in Nat /\ Base > 4 /\ Base % 2 = 0
  /\ TopicSize \in Nat \ {0}
  /\ DataSize \in Nat /\ DataSize >= 6

Seqs == INSTANCE SequencesExt

Byte == 0..(Base - 1)

Fill(b, n) == [k \in 1..n |-> b]

(* Types of messages.                                                       *)
INT_SRV_MSG        == 0
SHORT_REAL_SRV_MSG == 1
FLOAT_SRV_MSG      == 2
STRING_SRV_MSG     == 3
CLOSE_SRV_MSG      == 4

-----------------------------------------------------------------------------
(* Numbers in the memory of a little-endian machine.                        *)

Load(bytes) ==
  LET last == Len(bytes)
      from[k \in 1..(last + 1)] ==
        IF k = last + 1 THEN 0 ELSE bytes[k] + Base * from[k + 1]
  IN from[1]

(* n without its last bytes: none, one, two ...                             *)
Shifts(n, width) ==
  LET shift[k \in 1..width] == IF k = 1 THEN n ELSE shift[k - 1] \div Base
  IN shift

Store(n, width) ==
  LET shift == Shifts(n, width) IN [k \in 1..width |-> shift[k] % Base]

(* ntohl and ntohs: the bytes of the number in the opposite order.          *)
ntoh(n, width) == Load(Seqs!Reverse(Store(n, width)))

(* The values of an uint16_t and of an uint32_t.                            *)
Short == Base * Base
Word  == Short * Short

(* The conversion of an uint32_t to int, and the negation of an int.        *)
ToInt(n) == IF n < Word \div 2 THEN n ELSE n - Word

Negated(n) == ToInt((-n) % Word)

-----------------------------------------------------------------------------
(* What a provider sends for a reading, as src/server.c and                 *)
(* src/subscriber.c take it: the topic without a terminator when it has     *)
(* full size, numbers as a sign byte and big-endian digits.                 *)

BigEndian(n, width) == Seqs!Reverse(Store(n, width))

Magnitude(n) == IF n < 0 THEN -n ELSE n

SignByte(n) == IF n < 0 THEN 1 ELSE 0

Payload(r) ==
  CASE r.type = INT_SRV_MSG ->
         <<SignByte(r.value[1])>> \o BigEndian(Magnitude(r.value[1]), 4)
    [] r.type = SHORT_REAL_SRV_MSG -> BigEndian(r.value[1], 2)
    [] r.type = FLOAT_SRV_MSG ->
         <<SignByte(r.value[1])>> \o BigEndian(Magnitude(r.value[1]), 4) \o <<r.value[2]>>
    [] OTHER -> r.value

(* What the fields of a datagram can hold: characters up to the terminator,  *)
(* INT without places behind the point, SHORT_REAL with two, FLOAT with as   *)
(* many as the last byte says.                                              *)
Texts(size) == {t \in Seq(Byte \ {0}) : Len(t) <= size}

Numbers == (1 - Word)..(Word - 1)

Values(t) ==
  CASE t = INT_SRV_MSG        -> Numbers \X {0}
    [] t = SHORT_REAL_SRV_MSG -> (0..(Short - 1)) \X {2}
    [] t = FLOAT_SRV_MSG      -> Numbers \X Byte
    [] OTHER                  -> Texts(DataSize)

ReadingsOf(t) ==
  [type : {t}, addr : [1..4 -> Byte], port : 0..(Short - 1),
   topic : Texts(TopicSize), value : Values(t)]

Datagram(r) ==
  r.topic \o Fill(0, TopicSize - Len(r.topic)) \o <<r.type>> \o Payload(r)

-----------------------------------------------------------------------------
(* srv_msg_t, the structure as bytes: where its fields begin.               *)
IpAt    == 2
PortAt  == IpAt + 4
TopicAt == PortAt + 2
DataAt  == TopicAt + TopicSize + 1
MsgSize == DataAt + DataSize

type(msg) == msg[1]
data(msg) == SubSeq(msg, DataAt, MsgSize)

(* Mutant: the port is copied in the order of the network.                  *)
srv_msg_port_unswapped(addr, port, dgram) ==
  LET size == Len(dgram) - TopicSize - 1 IN
  <<dgram[TopicSize + 1]>> \o Store(ntoh(Load(addr), 4), 4) \o port
  \o SubSeq(dgram, 1, TopicSize) \o <<0>>
  \o SubSeq(dgram, TopicSize + 2, TopicSize + 1 + size)
  \o Fill(0, DataSize + 1 - size)

(* The srv_msg of handle_udp_msg: cleared, then the address and the port of *)
(* the provider, both in the host's order, the topic, the type, and as many *)
(* bytes of data as the datagram has behind the two.                        *)
srv_msg(addr, port, dgram) ==
  LET size == Len(dgram) - TopicSize - 1 IN
  <<dgram[TopicSize + 1]>> \o Store(ntoh(Load(addr), 4), 4)
  \o Store(ntoh(Load(port), 2), 2)
  \o SubSeq(dgram, 1, TopicSize) \o <<0>>
  \o SubSeq(dgram, TopicSize + 2, TopicSize + 1 + size)
  \o Fill(0, DataSize + 1 - size)

(* The msg of srv_closes_sub_connection.                                    *)
close_msg == <<CLOSE_SRV_MSG>> \o Fill(0, MsgSize - 1)

-----------------------------------------------------------------------------
(* What printf reads at a char *: up to the terminator, past the field if   *)
(* need be (past the message it is cut here).                               *)
Text(bytes) ==
  LET ends == {k \in 1..Len(bytes) : bytes[k] = 0}
  IN IF ends = {} THEN bytes ELSE SubSeq(bytes, 1, Seqs!Min(ends) - 1)

print_int_msg(msg) ==
  LET val == ToInt(ntoh(Load(SubSeq(data(msg), 2, 5)), 4)) IN
  <<IF data(msg)[1] = 0 THEN val ELSE Negated(val), 0>>

print_short_real_msg(msg) == <<ntoh(Load(SubSeq(data(msg), 1, 2)), 2), 2>>

print_float_msg(msg) ==
  LET val == ntoh(Load(SubSeq(data(msg), 2, 5)), 4) IN
  <<IF data(msg)[1] = 0 THEN val ELSE -val, data(msg)[6]>>

print_string_msg(msg) == Text(data(msg))

(* The switch of handle_server_msg, for a message that is printed; inet_ntoa *)
(* prints the bytes of the address in the order they have in memory.  A     *)
(* message of an unknown type is printed without address and port.          *)
Shown(msg) ==
  LET known == type(msg) \in INT_SRV_MSG..STRING_SRV_MSG IN
  [type  |-> type(msg),
   addr  |-> IF known THEN SubSeq(msg, IpAt, IpAt + 3) ELSE <<>>,
   port  |-> IF known THEN Load(SubSeq(msg, PortAt, PortAt + 1)) ELSE 0,
   topic |-> Text(SubSeq(msg, TopicAt, MsgSize)),
   value |-> CASE type(msg) = INT_SRV_MSG        -> print_int_msg(msg)
               [] type(msg) = SHORT_REAL_SRV_MSG -> print_short_real_msg(msg)
               [] type(msg) = FLOAT_SRV_MSG      -> print_float_msg(msg)
               [] OTHER                          -> print_string_msg(msg)]
=============================================================================
