------------------------------- MODULE Codec --------------------------------
(***************************************************************************)
(* Frames and payloads as bytes.  A frame is a header of 24 bytes, its     *)
(* numbers in network order, and a payload:                                *)
(*                                                                         *)
(*   1..4 magic   5 version   6 flags   7..8 type   9..10 kind             *)
(*   11..12 reserved   13..16 payload length   17..24 message identifier   *)
(*                                                                         *)
(* The three clients write the same header; they differ in what they check *)
(* of one they read.  A byte has Base values, so that small bases show     *)
(* what becomes of a number that does not fit.                             *)
(***************************************************************************)
EXTENDS Integers, Sequences

CONSTANT Base     \* the values of a byte: 256

\* Room for the flags in a byte and for the frame types in two.
ASSUME CodecAssumption == Base \in Nat /\ Base >= 8

Byte == 0..(Base - 1)
Word == Base * Base                 \* what two bytes can hold
DoubleWord == Word * Word           \* what four can

HeaderSize == 24
Magic == <<77 % Base, 83 % Base, 73 % Base, 80 % Base>>     \* "MSIP"
Version == 1

FrameType ==
  [Hello |-> 1, Subscribe |-> 2, Unsubscribe |-> 3, Publish |-> 4, Event |-> 5,
   Ack |-> 6, Error |-> 7, Ping |-> 8, Pong |-> 9, Close |-> 10]
FrameTypes == {FrameType[n] : n \in DOMAIN FrameType}

MessageKind == [Event |-> 1, Command |-> 2, State |-> 3, Log |-> 4, Metric |-> 5]
MessageKinds == {MessageKind[n] : n \in DOMAIN MessageKind}

FrameFlags == [None |-> 0, AckRequired |-> 1, Compressed |-> 2, Urgent |-> 4]
AllFlags == 0..7                    \* FrameFlags::all() and what it contains

Headers ==
  [type : FrameTypes, kind : MessageKinds, flags : AllFlags,
   length : 0..(DoubleWord - 1), id : 0..(DoubleWord * DoubleWord - 1)]

-----------------------------------------------------------------------------
(* Numbers: to_be_bytes keeps the low bytes, as a conversion with "as" does. *)

Be16(n) == <<(n \div Base) % Base, n % Base>>
Be32(n) == Be16(n \div Word) \o Be16(n)
Be64(n) == Be32(n \div DoubleWord) \o Be32(n)

\* The number at place i of the bytes s.
Value16(s, i) == s[i] * Base + s[i + 1]
Value32(s, i) == Value16(s, i) * Word + Value16(s, i + 2)
Value64(s, i) == Value32(s, i) * DoubleWord + Value32(s, i + 4)

-----------------------------------------------------------------------------
(* Plausible bugs, for the checks that show the properties can fail. *)

\* The length is written as a little-endian number would be.
BugEncodeSwapsLength(h) ==
  Magic \o <<Version, h.flags>> \o Be16(h.type) \o Be16(h.kind) \o Be16(0)
        \o Be16(h.length) \o Be16(h.length \div Word) \o Be64(h.id)

-----------------------------------------------------------------------------
(* Headers. *)

Encode(h) ==
  Magic \o <<Version, h.flags>> \o Be16(h.type) \o Be16(h.kind) \o Be16(0)
        \o Be32(h.length) \o Be64(h.id)

\* A whole frame begins s: the part every client waits for.
Whole(s) == Len(s) >= HeaderSize /\ Len(s) >= HeaderSize + Value32(s, 13)

\* Every client looks at the magic number; TypeScript at nothing else, Python
\* at the type, Rust at the version and the kind as well.  Flags that Rust
\* does not know are cut off before they are looked at, so that none is wrong.
Decodable(client, s) ==
  /\ SubSeq(s, 1, 4) = Magic
  /\ client # "ts" => Value16(s, 7) \in FrameTypes
  /\ client = "rust" => s[5] = Version /\ Value16(s, 9) \in MessageKinds

Decode(client, s) ==
  [type |-> Value16(s, 7), kind |-> Value16(s, 9),
   flags |-> IF client = "rust" THEN s[6] % 8 ELSE s[6],
   length |-> Value32(s, 13), id |-> Value64(s, 17)]

-----------------------------------------------------------------------------
(* Payloads.  A SUBSCRIBE, an UNSUBSCRIBE and a HELLO carry a text, a PING  *)
(* and a CLOSE nothing, a PUBLISH a topic and a message.                   *)

\* A plausible bug: nothing is said of a topic that does not fit.
BugTopicFits(client, topic) == TRUE

\* In TypeScript and Python a topic whose length does not fit raises an error.
TopicFits(client, topic) == client = "rust" \/ Len(topic) < Word

\* [topic_length (2 bytes)] [topic] [message]
PublishPayload(topic, message) == Be16(Len(topic)) \o topic \o message

\* parse_message: the message in a payload, or none.
Messages(p) ==
  LET n == Value16(p, 1)
  IN  IF Len(p) < 2 \/ Len(p) < 2 + n THEN {}
      ELSE {[topic |-> SubSeq(p, 3, 2 + n), message |-> SubSeq(p, 3 + n, Len(p))]}

=============================================================================
