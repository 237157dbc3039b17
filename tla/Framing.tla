------------------------------- MODULE Framing -------------------------------
(***************************************************************************)
(* Messages on a QUIC stream (codec.rs; write_message and read_message in  *)
(* both network.rs): a length of PrefixWidth values, then as many bytes.   *)
(* The stream delivers them in order and in pieces of any size.            *)
(*                                                                         *)
(* A length is one element of the stream, <<0, length>>, and so is a byte  *)
(* of a payload, <<message, position>>.  Widths and the limit are scaled   *)
(* down, in the order of the code's: MAX_MESSAGE_SIZE < 2^32.              *)
(***************************************************************************)
EXTENDS Integers, Sequences, SequencesExt

CONSTANTS
  Sizes,             \* payload sizes of the messages that are sent
  MAX_MESSAGE_SIZE,
  PrefixWidth,       \* lengths the prefix can hold, 2^32 in the code
  MaxMessages        \* bound: messages sent

ASSUME FramingAssumption ==
  /\ Sizes \subseteq Nat /\ MaxMessages \in Nat
  /\ MAX_MESSAGE_SIZE \in Nat /\ PrefixWidth \in Nat /\ MAX_MESSAGE_SIZE < PrefixWidth

VARIABLES
  sent,       \* sizes of the messages written
  stream,     \* elements under way
  arrived,    \* elements that have been delivered and not been read
  expected,   \* the length that was read, -1 before it
  received,   \* messages decoded, each as the bytes it was decoded from
  open        \* FALSE after an error of the reader

frameVars == <<sent, stream, arrived, expected, received, open>>

Payload(m, size) == [i \in 1..size |-> <<m, i>>]

\* The size is cut to the width of the prefix, and not checked.
encode(m, size) == << <<0, size % PrefixWidth>> >> \o Payload(m, size)

write_message(size) ==
  /\ open /\ Len(sent) < MaxMessages
  /\ sent' = Append(sent, size) /\ stream' = stream \o encode(Len(sent'), size)
  /\ UNCHANGED <<arrived, expected, received, open>>

Deliver ==
  /\ \E n \in 1..Len(stream) : /\ arrived' = arrived \o SubSeq(stream, 1, n)
                               /\ stream' = SubSeq(stream, n + 1, Len(stream))
  /\ UNCHANGED <<sent, expected, received, open>>

check_message_size(size) == size <= MAX_MESSAGE_SIZE

\* The first half of read_message.  Bytes of a payload that are taken for a
\* length may have any value.
ReadLength ==
  /\ open /\ expected = -1 /\ arrived # <<>> /\ arrived' = Tail(arrived)
  /\ \E len \in IF Head(arrived)[1] = 0 THEN {Head(arrived)[2]} ELSE 0..(PrefixWidth - 1) :
       IF check_message_size(len) THEN expected' = len /\ UNCHANGED open
                                  ELSE open' = FALSE /\ UNCHANGED expected
  /\ UNCHANGED <<sent, stream, received>>

\* Mutant: a read returns what is there.
ReadSome ==
  /\ open /\ expected # -1 /\ (expected = 0 \/ arrived # <<>>) /\ expected' = -1
  /\ LET n == IF Len(arrived) < expected THEN Len(arrived) ELSE expected
     IN /\ received' = Append(received, SubSeq(arrived, 1, n))
        /\ arrived' = SubSeq(arrived, n + 1, Len(arrived))
  /\ UNCHANGED <<sent, stream, open>>

\* The second half: read_exact waits for all of the payload.
ReadPayload ==
  /\ open /\ expected # -1 /\ Len(arrived) >= expected /\ expected' = -1
  /\ received' = Append(received, SubSeq(arrived, 1, expected))
  /\ arrived' = SubSeq(arrived, expected + 1, Len(arrived))
  /\ UNCHANGED <<sent, stream, open>>

FramingInit ==
  /\ sent = <<>> /\ stream = <<>> /\ arrived = <<>> /\ expected = -1 /\ received = <<>> /\ open = TRUE

FramingNext == (\E size \in Sizes : write_message(size)) \/ Deliver \/ ReadLength \/ ReadPayload

FramingSpec == FramingInit /\ [][FramingNext]_frameVars

\* The reader decodes the messages that were written, whole and in order,
\* until one above the limit, which ends the connection: no message is read
\* from the bytes of another, however the stream is cut into pieces.
MessagesIntact == IsPrefix(received, [m \in 1..Len(sent) |-> Payload(m, sent[m])])
=============================================================================
