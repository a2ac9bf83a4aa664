--------------------------- MODULE SendingProofs ----------------------------
(***************************************************************************)
(* Proofs about the frames of a connection, for any threads, topics,       *)
(* capacity and bounds, and for any number of values of a byte: what the   *)
(* peer decodes is what the calls of the program were promised.            *)
(***************************************************************************)
EXTENDS Sending, MsgIdProofs, CodecProofs

\* Identifiers and lengths fit their fields.
Ids == 0..(DoubleWord * DoubleWord - 1)

Fits ==
  /\ Millisecond * MaxClock + MaxIds \in Ids
  /\ \A n \in Subscribed \cup Published : n + 3 < DoubleWord

-----------------------------------------------------------------------------
(* Frames that follow one another without a gap: the pairs of bytes and of *)
(* the frames they are made of.                                            *)

Pairs == Seq(Byte) \X Seq(Seq(Byte))

Closed(S) ==
  /\ << <<>>, <<>> >> \in S
  /\ \A w \in Seq(Byte), fs \in Seq(Seq(Byte)), f \in Seq(Byte) :
       <<w, fs>> \in S => <<w \o f, Append(fs, f)>> \in S

Cut(w, fs) == \A S \in SUBSET Pairs : Closed(S) => <<w, fs>> \in S

LEMMA CutNothing == Cut(<<>>, <<>>)
BY DEF Cut, Closed

LEMMA CutAppend ==
  ASSUME NEW w \in Seq(Byte), NEW fs \in Seq(Seq(Byte)), NEW f \in Seq(Byte), Cut(w, fs)
  PROVE  Cut(w \o f, Append(fs, f))
BY DEF Cut, Closed

LEMMA Associative ==
  \A u, v, w \in Seq(Byte) : (u \o v) \o w = u \o (v \o w)
BY ConcatAssociative, SMTT(60)

\* Bytes are those of the first frame, and then those of the others.
FirstAndRest(w, fs) ==
  IF fs = <<>> THEN w = <<>>
  ELSE \E r \in Seq(Byte) : w = Head(fs) \o r /\ Cut(r, Tail(fs))

LEMMA CutHead ==
  ASSUME NEW w \in Seq(Byte), NEW fs \in Seq(Seq(Byte)), Cut(w, fs)
  PROVE  FirstAndRest(w, fs)
<1> DEFINE S == {p \in Pairs : Cut(p[1], p[2]) /\ FirstAndRest(p[1], p[2])}
<1>1. << <<>>, <<>> >> \in S
  <2>1. <<>> \in Seq(Byte) /\ <<>> \in Seq(Seq(Byte))
    BY EmptySeq
  <2> QED
    BY <2>1, CutNothing DEF Pairs, FirstAndRest
<1>2. ASSUME NEW v \in Seq(Byte), NEW gs \in Seq(Seq(Byte)), NEW f \in Seq(Byte),
             <<v, gs>> \in S
      PROVE  <<v \o f, Append(gs, f)>> \in S
  <2>1. Cut(v, gs) /\ FirstAndRest(v, gs)
    BY <1>2
  <2>2. v \o f \in Seq(Byte) /\ Append(gs, f) \in Seq(Seq(Byte)) /\ Append(gs, f) # <<>>
    BY AppendProperties, ConcatProperties
  <2>3. Cut(v \o f, Append(gs, f))
    BY <2>1, CutAppend
  <2>4. /\ Head(Append(gs, f)) = IF gs = <<>> THEN f ELSE Head(gs)
        /\ Tail(Append(gs, f)) = IF gs = <<>> THEN <<>> ELSE Append(Tail(gs), f)
    BY HeadTailAppend
  <2>5. FirstAndRest(v \o f, Append(gs, f))
    <3>1. CASE gs = <<>>
      <4>1. v = <<>>
        BY <2>1, <3>1 DEF FirstAndRest
      <4>2. v \o f = f \o <<>> /\ <<>> \in Seq(Byte)
        BY <4>1, ConcatEmptySeq, EmptySeq
      <4> QED
        BY <2>2, <2>4, <3>1, <4>2, CutNothing DEF FirstAndRest
    <3>2. CASE gs # <<>>
      <4>1. PICK r \in Seq(Byte) : v = Head(gs) \o r /\ Cut(r, Tail(gs))
        BY <2>1, <3>2 DEF FirstAndRest
      <4>2. Head(gs) \in Seq(Byte) /\ Tail(gs) \in Seq(Seq(Byte))
        BY <3>2, HeadTailProperties
      <4>3. r \o f \in Seq(Byte) /\ Cut(r \o f, Append(Tail(gs), f))
        BY <4>1, <4>2, CutAppend, ConcatProperties
      <4>4. v \o f = Head(gs) \o (r \o f)
        <5>1. (Head(gs) \o r) \o f = Head(gs) \o (r \o f)
          BY <4>2, Associative, Zenon
        <5> QED
          BY <4>1, <5>1, Zenon
      <4> QED
        BY <2>2, <2>4, <3>2, <4>3, <4>4 DEF FirstAndRest
    <3> QED
      BY <3>1, <3>2
  <2> QED
    BY <2>2, <2>3, <2>5 DEF Pairs
<1>3. S \in SUBSET Pairs
  OBVIOUS
<1> HIDE DEF S
<1>4. <<w, fs>> \in S
  BY <1>1, <1>2, <1>3 DEF Cut, Closed
<1> QED
  BY <1>4 DEF S

-----------------------------------------------------------------------------
(* The frame of a call. *)

LEMMA TopicBytes ==
  ASSUME NEW n \in Subscribed \cup Published \cup {0}
  PROVE  Topic[n] \in Seq(Byte) /\ Len(Topic[n]) = n /\ n \in Nat
<1>1. n \in Nat
  BY SendingAssumption
<1>2. Topic[n] = [i \in 1..n |-> i % Base]
  BY DEF Topic
<1>3. \A i \in 1..n : i % Base \in Byte
  BY <1>1, Sizes DEF Byte
<1> QED
  BY <1>1, <1>2, <1>3

LEMMA TextBytes == Text \in Seq(Byte) /\ Len(Text) = 1
<1>1. Base - 1 \in Byte
  BY Sizes DEF Byte
<1> QED
  BY <1>1 DEF Text

\* What is known of the calls a program makes.
LEMMA CallFields ==
  ASSUME NEW c \in ProgramCalls
  PROVE  /\ c.type \in FrameTypes /\ c.flags \in AllFlags
         /\ c.topic \in Subscribed \cup Published \cup {0}
         /\ c.type = FrameType.Publish => c.topic \in Published
         /\ c # NoCall
BY DEF ProgramCalls, PingCall, NoCall, Asked, FrameTypes, FrameType, AllFlags, FrameFlags

LEMMA PayloadBytes ==
  ASSUME Fits, NEW c \in ProgramCalls
  PROVE  Payload[c] \in Seq(Byte) /\ Len(Payload[c]) \in 0..(DoubleWord - 1)
<1>1. /\ c.topic \in Subscribed \cup Published \cup {0}
      /\ c.type = FrameType.Publish => c.topic \in Published
  BY CallFields
<1>2. /\ Topic[c.topic] \in Seq(Byte) /\ Len(Topic[c.topic]) = c.topic
      /\ c.topic \in Nat
  BY <1>1, TopicBytes
<1>3. DoubleWord \in Nat \ {0}
  BY Sizes
<1>4. CASE c.type = FrameType.Publish
  <2>1. Payload[c] = PublishPayload(Topic[c.topic], Text)
    BY <1>4 DEF Payload
  <2>2. /\ PublishPayload(Topic[c.topic], Text) \in Seq(Byte)
        /\ Len(PublishPayload(Topic[c.topic], Text)) = 2 + c.topic + 1
    BY <1>2, TextBytes, PublishLayout
  <2>3. c.topic + 3 < DoubleWord
    BY <1>1, <1>4 DEF Fits
  <2> QED
    BY <1>2, <1>3, <2>1, <2>2, <2>3
<1>5. CASE c.type # FrameType.Publish
  <2>1. Payload[c] = Topic[c.topic]
    BY <1>5 DEF Payload
  <2>2. c.topic < DoubleWord
    BY <1>1, <1>2, <1>3 DEF Fits
  <2> QED
    BY <1>2, <1>3, <2>1, <2>2
<1> QED
  BY <1>4, <1>5

HeaderOf(c, id) ==
  [type |-> c.type, kind |-> MessageKind.Event, flags |-> c.flags,
   length |-> Len(Payload[c]), id |-> id]

LEMMA FrameBytes ==
  ASSUME Fits, NEW c \in ProgramCalls, NEW id \in Ids
  PROVE  /\ HeaderOf(c, id) \in Headers
         /\ Frame(c, id) = Encode(HeaderOf(c, id)) \o Payload[c]
         /\ Frame(c, id) \in Seq(Byte)
         /\ Encode(HeaderOf(c, id)) \in Seq(Byte)
<1>1. HeaderOf(c, id) \in Headers
  <2>1. c.type \in FrameTypes /\ c.flags \in AllFlags
    BY CallFields
  <2>2. MessageKind.Event \in MessageKinds
    BY DEF MessageKind, MessageKinds
  <2> QED
    BY <2>1, <2>2, PayloadBytes DEF Headers, HeaderOf, Ids
<1>2. Frame(c, id) = Encode(HeaderOf(c, id)) \o Payload[c]
  BY DEF Frame, HeaderOf
<1>3. Payload[c] \in Seq(Byte)
  BY PayloadBytes
<1> QED
  BY <1>1, <1>2, <1>3, Layout

(***************************************************************************)
(* The decoder of any client reads the frame of a call off the bytes that  *)
(* begin with it, and leaves those behind it.                              *)
(***************************************************************************)
LEMMA FrameIsRead ==
  ASSUME Fits, client \in Clients, NEW c \in ProgramCalls, NEW id \in Ids,
         NEW rest \in Seq(Byte)
  PROVE  LET s == Frame(c, id) \o rest
             end == HeaderSize + Decode(client, s).length
         IN  /\ s \in Seq(Byte) /\ s # <<>>
             /\ Whole(s) /\ Decodable(client, s)
             /\ Decode(client, s) = HeaderOf(c, id)
             /\ SubSeq(s, HeaderSize + 1, end) = Payload[c]
             /\ SubSeq(s, end + 1, Len(s)) = rest
<1> DEFINE h == HeaderOf(c, id)
           p == Payload[c]
           more == p \o rest
           s == Encode(h) \o more
<1>1. /\ h \in Headers /\ p \in Seq(Byte) /\ Len(p) = h.length /\ h.length \in Nat
      /\ Encode(h) \in Seq(Byte) /\ Frame(c, id) = Encode(h) \o p
  <2>1. h.length = Len(p)
    BY DEF HeaderOf
  <2>2. p \in Seq(Byte) /\ Len(p) \in Nat
    BY PayloadBytes
  <2>3. h \in Headers /\ Encode(h) \in Seq(Byte) /\ Frame(c, id) = Encode(h) \o p
    BY FrameBytes
  <2> HIDE DEF h, p
  <2> QED
    BY <2>1, <2>2, <2>3
<1> HIDE DEF h, p
<1>2. Frame(c, id) \o rest = s
  <2>1. (Encode(h) \o p) \o rest = Encode(h) \o (p \o rest)
    BY <1>1, Associative, Zenon
  <2> QED
    BY <1>1, <2>1
<1>3. more \in Seq(Byte) /\ Len(more) = h.length + Len(rest) /\ Len(rest) \in Nat
  BY <1>1, Joined
<1>4. /\ s \in Seq(Byte) /\ Len(s) = 24 + Len(more) /\ Part(s, 25, more)
      /\ Value32(s, 13) = h.length
  BY <1>1, <1>3, Layout, Fields DEF HeaderSize
<1>5. Decodable(client, s) /\ Decode(client, s) = h
  BY <1>1, <1>3, HeaderIsRead DEF Clients
<1>6. Whole(s) /\ SubSeq(s, HeaderSize + 1, HeaderSize + h.length) = p
  <2>1. Whole(s) /\ SubSeq(s, HeaderSize + 1, HeaderSize + Value32(s, 13)) = p
    <3>1. \A g \in Headers, q \in Seq(Byte), t \in Seq(Byte) : Len(q) = g.length =>
            LET b == Encode(g) \o (q \o t)
            IN  Whole(b) /\ SubSeq(b, HeaderSize + 1, HeaderSize + Value32(b, 13)) = q
      BY FrameEnds, Zenon
    <3> QED
      BY <1>1, <3>1, Zenon
  <2> QED
    BY <1>4, <2>1, Zenon
<1>7. Part(s, 25 + Len(p), rest)
  <2>1. At(s, 25, p \o rest)
    BY <1>4 DEF Part
  <2>2. At(s, 25 + Len(p), rest)
    BY <1>1, <2>1, AtJoined
  <2> QED
    BY <1>1, <1>3, <1>4, <2>2 DEF Part
<1>8. SubSeq(s, HeaderSize + h.length + 1, Len(s)) = rest
  <2>1. SubSeq(s, 25 + Len(p), 25 + Len(p) + Len(rest) - 1) = rest
    BY <1>7, PartIsCut
  <2>2. /\ 25 + Len(p) = HeaderSize + h.length + 1
        /\ 25 + Len(p) + Len(rest) - 1 = Len(s)
    BY <1>1, <1>3, <1>4 DEF HeaderSize
  <2> QED
    BY <2>1, <2>2, Zenon
<1>9. s # <<>>
  BY <1>3, <1>4, <1>1
<1> HIDE DEF s
<1> QED
  BY <1>2, <1>4, <1>5, <1>6, <1>8, <1>9, Zenon DEF h, p

-----------------------------------------------------------------------------
(* The identifiers are those of MsgId. *)

LEMMA StepRefines == [SendNext]_allVars => [Next]_vars
<1> SUFFICES ASSUME [SendNext]_allVars PROVE [Next]_vars
  OBVIOUS
<1>1. ASSUME NEW t \in Callers, NEW c \in Calls(t), Begin(t, c) PROVE Next
  BY <1>1 DEF Begin, Next
<1>2. ASSUME NEW t \in Callers, Complete(t) PROVE Next
  BY <1>2 DEF Complete, Next
<1>3. ASSUME NEW t \in Callers, HandOver(t) \/ Dropped(t) PROVE UNCHANGED vars
  BY <1>3 DEF HandOver, Dropped, Returns
<1>4. CASE Connect \/ Lose \/ Notice \/ Write \/ WriteFails \/ PeerReads
  BY <1>4 DEF Connect, Lose, Notice, Write, WriteFails, PeerReads
<1>5. CASE Clock
  BY <1>5 DEF Clock, Next
<1>6. CASE UNCHANGED allVars
  BY <1>6 DEF allVars
<1> QED
  BY <1>1, <1>2, <1>3, <1>4, <1>5, <1>6 DEF SendNext

(***************************************************************************)
(* Calls that are refused, wait or fail, a ping task beside the program    *)
(* and a lost connection change nothing about how identifiers are made:    *)
(* whatever is proved of them holds of the identifiers of frames.          *)
(***************************************************************************)
THEOREM ImplementsIdentifiers == SendSpec => Spec
<1>1. SendInit => Init
  BY DEF SendInit
<1> QED
  BY <1>1, StepRefines, PTL DEF SendSpec, Spec

-----------------------------------------------------------------------------
(* The invariant. *)

Bytes(a) == Frame(a.asked, a.id)

\* Numbers stay within their bounds.
NumberInv ==
  /\ clock <= MaxClock /\ counter <= MaxIds
  /\ \A t \in Threads : count[t] <= MaxIds /\ drawn[t] \in Ids
  /\ \A k \in DOMAIN accepted : accepted[k].id \in Ids

\* Before the connection nothing is asked for.
QuietInv ==
  /\ socket = "open" => writing
  /\ socket = "none" =>
       /\ ~connected /\ ~writing /\ \A t \in Threads : ~Busy(t)
       /\ queue = <<>> /\ wire = <<>> /\ accepted = <<>> /\ got = <<>>

\* What is on the wire, frame by frame, was accepted after what was decoded, and
\* what is in the queue after that; of a queue nobody takes from nothing is said.
OnTheWay(fs) ==
  /\ Len(got) + Len(fs) <= Len(accepted)
  /\ \A i \in DOMAIN fs : fs[i] = Bytes(accepted[Len(got) + i])
  /\ writing =>
       /\ Len(accepted) = Len(got) + Len(fs) + Len(queue)
       /\ \A j \in DOMAIN queue : queue[j] = Bytes(accepted[Len(got) + Len(fs) + j])

WayInv == \E fs \in Seq(Seq(Byte)) : Cut(wire, fs) /\ OnTheWay(fs)

\* Only what was let through is called for.
LetInv ==
  /\ \A t \in Threads : Busy(t) => LetThrough(call[t])
  /\ \A k \in DOMAIN accepted : LetThrough(accepted[k].asked)

\* What was decoded was accepted.
DecodedInv ==
  /\ Len(got) <= Len(accepted)
  /\ \A k \in DOMAIN got : got[k] = Expected(accepted[k])

SInv ==
  /\ SendTypeOK /\ NumberInv /\ QuietInv /\ WayInv
  /\ DecodedInv

\* The next identifier.
LEMMA IdentifierFits ==
  ASSUME Fits, TypeOK, NumberInv, NEW t \in Threads
  PROVE  Identifier(clock, count[t]) \in Ids
<1> DEFINE n == count[t]
           s == Scale
<1>1. /\ clock \in Nat /\ clock <= MaxClock /\ n \in Nat /\ n <= MaxIds
      /\ MaxClock \in Nat /\ MaxIds \in Nat /\ Millisecond \in Nat /\ Millisecond >= 1
  BY MsgIdAssumption DEF TypeOK, NumberInv
<1>2. s \in Nat /\ s <= Millisecond
  BY <1>1 DEF Scale
<1>3. Millisecond * MaxClock + MaxIds \in Ids /\ DoubleWord * DoubleWord \in Nat
  BY Sizes DEF Fits
<1> HIDE DEF n, s
<1>4. PICK d \in Nat : MaxClock = clock + d
  BY <1>1, MaxClock - clock \in Nat
<1>5. PICK e \in Nat : Millisecond = s + e
  BY <1>1, <1>2, Millisecond - s \in Nat
<1>6. Millisecond * MaxClock = s * clock + e * clock + Millisecond * d
  BY <1>1, <1>2, <1>4, <1>5
<1>7. s * clock \in Nat /\ e * clock \in Nat /\ Millisecond * d \in Nat
  BY <1>1, <1>2
<1>8. s * clock + n \in Ids
  BY <1>1, <1>3, <1>6, <1>7 DEF Ids
<1> QED
  BY <1>8 DEF Identifier, n, s

LEMMA NumberStep ==
  ASSUME Fits, TypeOK, NumberInv, accepted \in Seq([asked : ProgramCalls, id : Nat]),
         call \in [Threads -> ProgramCalls \cup {NoCall}], drawn \in [Threads -> Nat],
         [SendNext]_allVars
  PROVE  NumberInv'
<1>0. counter \in Nat /\ count \in [Threads -> Nat] /\ clock \in Nat /\ MaxClock \in Nat
      /\ MaxIds \in Nat /\ Callers \subseteq Threads /\ First \in {0, 1}
  BY Worth, MsgIdAssumption DEF TypeOK
<1>1. ASSUME NEW t \in Callers, NEW c \in Calls(t), Begin(t, c) PROVE NumberInv'
  BY <1>0, <1>1 DEF Begin, Take, NumberInv
<1>2. ASSUME NEW t \in Callers, Complete(t) PROVE NumberInv'
  BY <1>0, <1>2, IdentifierFits DEF Complete, Stamp, NumberInv
<1>3. ASSUME NEW t \in Callers, HandOver(t) \/ Dropped(t) PROVE NumberInv'
  <2>1. UNCHANGED <<clock, counter, count, drawn>>
    BY <1>3 DEF HandOver, Dropped, Returns, vars
  <2>2. CASE accepted' = accepted
    BY <2>1, <2>2 DEF NumberInv
  <2>3. CASE accepted' = Append(accepted, [asked |-> call[t], id |-> drawn[t]])
    <3>1. drawn[t] \in Ids
      BY <1>0 DEF NumberInv
    <3>2. ASSUME NEW k \in DOMAIN accepted' PROVE accepted'[k].id \in Ids
      BY <2>3, <3>1 DEF NumberInv
    <3> QED
      BY <2>1, <3>2 DEF NumberInv
  <2> QED
    BY <1>3, <2>2, <2>3 DEF HandOver, Dropped, Returns
<1>4. CASE Connect \/ Lose \/ Notice \/ Write \/ WriteFails \/ PeerReads
  BY <1>4 DEF Connect, Lose, Notice, Write, WriteFails, PeerReads, NumberInv, vars
<1>5. CASE Clock
  BY <1>0, <1>5 DEF Clock, Tick, SetBack, NumberInv
<1>6. CASE UNCHANGED allVars
  BY <1>6 DEF allVars, vars, NumberInv
<1> QED
  BY <1>1, <1>2, <1>3, <1>4, <1>5, <1>6 DEF SendNext

LEMMA QuietStep ==
  ASSUME SendTypeOK, QuietInv, [SendNext]_allVars
  PROVE  QuietInv'
<1>0. Callers \subseteq Threads
  BY Worth
<1>1. ASSUME NEW t \in Callers, NEW c \in Calls(t), Begin(t, c) PROVE QuietInv'
  BY <1>1 DEF Begin, QuietInv
<1>2. ASSUME NEW t \in Callers, Complete(t) PROVE QuietInv'
  BY <1>2 DEF Complete, QuietInv, Busy
<1>3. ASSUME NEW t \in Callers, HandOver(t) \/ Dropped(t) PROVE QuietInv'
  <2>1. Busy(t) /\ t \in Threads
    BY <1>0, <1>3 DEF HandOver, Dropped, HasIdentifier
  <2>2. socket' = socket /\ writing' = writing
    BY <1>3 DEF HandOver, Dropped, Returns
  <2> QED
    BY <2>1, <2>2 DEF QuietInv
<1>4. CASE Connect \/ Lose \/ Notice
  BY <1>4 DEF Connect, Lose, Notice, QuietInv, Busy
<1>5. CASE Write \/ WriteFails
  BY <1>5 DEF Write, WriteFails, QuietInv
<1>6. CASE PeerReads
  <2>1. socket # "none"
    <3>1. wire # <<>>
      BY <1>6 DEF PeerReads, Whole, HeaderSize
    <3> QED
      BY <3>1 DEF QuietInv
  <2> QED
    BY <1>6, <2>1 DEF PeerReads, QuietInv
<1>7. CASE Clock
  BY <1>7 DEF Clock, QuietInv, Busy
<1>8. CASE UNCHANGED allVars
  BY <1>8 DEF allVars, QuietInv, Busy
<1> QED
  BY <1>1, <1>2, <1>3, <1>4, <1>5, <1>6, <1>7, <1>8 DEF SendNext

\* A call that was accepted, with its identifier.
LEMMA AcceptedCall ==
  ASSUME SendTypeOK, NumberInv, NEW k \in DOMAIN accepted
  PROVE  accepted[k] \in [asked : ProgramCalls, id : Ids]
<1> DEFINE R == [asked : ProgramCalls, id : Nat]
<1>1. accepted \in Seq(R)
  BY DEF SendTypeOK
<1> HIDE DEF R
<1>2. accepted[k] \in R
  BY <1>1
<1>3. accepted[k].id \in Ids
  BY DEF NumberInv
<1> QED
  BY <1>2, <1>3 DEF R

\* What the peer decodes is the first frame that is on the wire.
LEMMA Reading ==
  ASSUME Fits, SInv, PeerReads
  PROVE  \E fs \in Seq(Seq(Byte)) :
           /\ fs # <<>> /\ OnTheWay(fs)
           /\ Len(got) + 1 \in DOMAIN accepted
           /\ got' = Append(got, Expected(accepted[Len(got) + 1]))
           /\ wire' \in Seq(Byte) /\ Cut(wire', Tail(fs))
<1>0. /\ wire \in Seq(Byte) /\ client \in Clients
      /\ accepted \in Seq([asked : ProgramCalls, id : Nat])
      /\ Len(got) \in Nat /\ Len(accepted) \in Nat
  BY DEF SInv, SendTypeOK, TypeOK
<1>1. PICK fs \in Seq(Seq(Byte)) : Cut(wire, fs) /\ OnTheWay(fs)
  BY DEF SInv, WayInv
<1>2. FirstAndRest(wire, fs)
  BY <1>0, <1>1, CutHead
<1>3. wire # <<>>
  BY DEF PeerReads, Whole, HeaderSize
<1>4. fs # <<>>
  BY <1>2, <1>3 DEF FirstAndRest
<1>5. PICK r \in Seq(Byte) : wire = Head(fs) \o r /\ Cut(r, Tail(fs))
  BY <1>2, <1>4 DEF FirstAndRest
<1> DEFINE k == Len(got) + 1
           a == accepted[k]
           end == HeaderSize + Decode(client, wire).length
<1>6. 1 \in DOMAIN fs /\ Head(fs) = fs[1] /\ Len(fs) \in Nat /\ Len(fs) >= 1
  BY <1>4
<1>7. k \in DOMAIN accepted /\ Head(fs) = Bytes(a)
  BY <1>0, <1>1, <1>6 DEF OnTheWay
<1>8. a.asked \in ProgramCalls /\ a.id \in Ids
  <2>1. a \in [asked : ProgramCalls, id : Ids]
    BY <1>7, AcceptedCall DEF SInv
  <2> HIDE DEF a
  <2> QED
    BY <2>1
<1>9. wire = Frame(a.asked, a.id) \o r
  BY <1>5, <1>7 DEF Bytes
<1> HIDE DEF k, a
<1>10. /\ Decode(client, wire) = HeaderOf(a.asked, a.id)
       /\ SubSeq(wire, HeaderSize + 1, end) = Payload[a.asked]
       /\ SubSeq(wire, end + 1, Len(wire)) = r
  <2>1. LET s == Frame(a.asked, a.id) \o r
            n == HeaderSize + Decode(client, s).length
        IN  /\ Decode(client, s) = HeaderOf(a.asked, a.id)
            /\ SubSeq(s, HeaderSize + 1, n) = Payload[a.asked]
            /\ SubSeq(s, n + 1, Len(s)) = r
    BY <1>0, <1>8, FrameIsRead
  <2> QED
    BY <1>9, <2>1
<1>11. Expected(a) = [header |-> HeaderOf(a.asked, a.id), payload |-> Payload[a.asked]]
  BY DEF Expected, HeaderOf
<1>12. /\ got' = Append(got, [header |-> Decode(client, wire),
                              payload |-> SubSeq(wire, HeaderSize + 1, end)])
       /\ wire' = SubSeq(wire, end + 1, Len(wire))
  BY DEF PeerReads
<1> HIDE DEF end
<1>13. got' = Append(got, Expected(a)) /\ wire' = r
  BY <1>10, <1>11, <1>12
<1> QED
  BY <1>1, <1>4, <1>5, <1>7, <1>13 DEF k, a

LEMMA ExpectedType ==
  ASSUME Fits, NEW a \in [asked : ProgramCalls, id : Ids]
  PROVE  Expected(a) \in [header : Headers, payload : Seq(Byte)]
<1>1. a.asked \in ProgramCalls /\ a.id \in Ids
  OBVIOUS
<1>2. Expected(a) = [header |-> HeaderOf(a.asked, a.id), payload |-> Payload[a.asked]]
  BY DEF Expected, HeaderOf
<1>3. HeaderOf(a.asked, a.id) \in Headers /\ Payload[a.asked] \in Seq(Byte)
  BY <1>1, FrameBytes, PayloadBytes
<1> QED
  BY <1>2, <1>3

LEMMA SendTypeStep ==
  ASSUME Fits, SInv, [SendNext]_allVars
  PROVE  SendTypeOK'
<1>0. SendTypeOK /\ TypeOK /\ Callers \subseteq Threads /\ NumberInv
  BY Worth DEF SInv, SendTypeOK
<1>1. TypeOK' /\ client' = client
  BY <1>0, StepRefines, TypeStep, SameClient
<1>2. ASSUME NEW t \in Callers, NEW c \in Calls(t), Begin(t, c) PROVE SendTypeOK'
  <2>1. c \in ProgramCalls
    BY DEF Calls, ProgramCalls
  <2> QED
    BY <1>0, <1>1, <1>2, <2>1 DEF SendTypeOK, Begin
<1>3. ASSUME NEW t \in Callers, Complete(t) PROVE SendTypeOK'
  <2>1. Identifier(clock, count[t]) \in Nat
    BY <1>0, IdentifierNat DEF TypeOK
  <2> QED
    BY <1>0, <1>1, <1>3, <2>1 DEF SendTypeOK, Complete
<1>4. ASSUME NEW t \in Callers, HandOver(t) \/ Dropped(t) PROVE SendTypeOK'
  <2>1. call[t] \in ProgramCalls /\ drawn[t] \in Ids /\ drawn[t] \in Nat
    BY <1>0, <1>4 DEF HandOver, Dropped, HasIdentifier, Busy, SendTypeOK, NumberInv
  <2>2. Frame(call[t], drawn[t]) \in Seq(Byte)
    BY <2>1, FrameBytes
  <2>3. queue' \in Seq(Seq(Byte)) /\ (client = "rust" => Len(queue') <= Capacity)
    <3>1. CASE Dropped(t)
      BY <1>0, <3>1 DEF Dropped, SendTypeOK
    <3>2. CASE HandOver(t)
      <4> DEFINE f == Frame(call[t], drawn[t])
      <4>1. queue' = Append(queue, f) /\ Room
        BY <3>2 DEF HandOver
      <4> HIDE DEF f
      <4>2. queue \in Seq(Seq(Byte)) /\ f \in Seq(Byte)
        BY <1>0, <2>2 DEF f, SendTypeOK
      <4>3. queue' \in Seq(Seq(Byte)) /\ Len(queue') = Len(queue) + 1 /\ Len(queue) \in Nat
        BY <4>1, <4>2, AppendProperties
      <4> QED
        BY <4>1, <4>3, SendingAssumption DEF Room
    <3> QED
      BY <1>4, <3>1, <3>2
  <2>4. call' \in [Threads -> ProgramCalls \cup {NoCall}]
    BY <1>0, <1>4 DEF HandOver, Dropped, Returns, SendTypeOK
  <2>5. accepted' \in Seq([asked : ProgramCalls, id : Nat])
    <3> DEFINE e == [asked |-> call[t], id |-> drawn[t]]
    <3>1. e \in [asked : ProgramCalls, id : Nat]
      BY <2>1
    <3>2. accepted' = accepted \/ accepted' = Append(accepted, e)
      BY <1>4 DEF HandOver, Dropped, Returns
    <3> DEFINE R == [asked : ProgramCalls, id : Nat]
    <3>3. accepted \in Seq(R) /\ e \in R
      BY <1>0, <3>1 DEF SendTypeOK
    <3> HIDE DEF e, R
    <3>4. accepted' \in Seq(R)
      BY <3>2, <3>3
    <3> QED
      BY <3>4 DEF R
  <2>6. UNCHANGED <<socket, connected, writing, drawn, wire, got>>
    BY <1>4 DEF HandOver, Dropped, Returns
  <2> QED
    BY <1>0, <1>1, <2>3, <2>4, <2>5, <2>6 DEF SendTypeOK
<1>5. CASE Connect \/ Lose \/ Notice
  BY <1>0, <1>1, <1>5 DEF SendTypeOK, Connect, Lose, Notice
<1>6. CASE Write
  <2>1. Head(queue) \in Seq(Byte) /\ Tail(queue) \in Seq(Seq(Byte))
        /\ Len(Tail(queue)) = Len(queue) - 1 /\ Len(queue) \in Nat
    BY <1>0, <1>6, HeadTailProperties DEF SendTypeOK, Write
  <2>2. wire \o Head(queue) \in Seq(Byte)
    BY <1>0, <2>1, ConcatProperties DEF SendTypeOK
  <2>3. Capacity \in Nat
    BY SendingAssumption
  <2>4. client = "rust" => Len(queue') <= Capacity
    BY <1>0, <1>6, <2>1, <2>3 DEF SendTypeOK, Write
  <2> QED
    BY <1>0, <1>1, <1>6, <2>1, <2>2, <2>4 DEF SendTypeOK, Write
<1>7. CASE WriteFails
  <2>1. queue' = <<>> /\ Len(queue') = 0 /\ queue' \in Seq(Seq(Byte))
    BY <1>7, EmptySeq DEF WriteFails
  <2>2. Len(queue') <= Capacity
    BY <2>1, SendingAssumption
  <2> QED
    BY <1>0, <1>1, <1>7, <2>1, <2>2 DEF SendTypeOK, WriteFails
<1>8. CASE PeerReads
  <2>1. wire' \in Seq(Byte) /\ \E a \in [asked : ProgramCalls, id : Ids] : got' = Append(got, Expected(a))
    <3>1. PICK fs \in Seq(Seq(Byte)) :
            /\ Len(got) + 1 \in DOMAIN accepted
            /\ got' = Append(got, Expected(accepted[Len(got) + 1]))
            /\ wire' \in Seq(Byte)
      BY <1>8, Reading
    <3>2. accepted[Len(got) + 1] \in [asked : ProgramCalls, id : Ids]
      BY <1>0, <3>1, AcceptedCall
    <3> QED
      BY <3>1, <3>2
  <2>2. got' \in Seq([header : Headers, payload : Seq(Byte)])
    BY <1>0, <2>1, ExpectedType, AppendProperties DEF SendTypeOK
  <2> QED
    BY <1>0, <1>1, <1>8, <2>1, <2>2 DEF SendTypeOK, PeerReads
<1>9. CASE Clock
  BY <1>0, <1>1, <1>9 DEF SendTypeOK, Clock
<1>10. CASE UNCHANGED allVars
  BY <1>0, <1>1, <1>10 DEF SendTypeOK, allVars
<1> QED
  BY <1>2, <1>3, <1>4, <1>5, <1>6, <1>7, <1>8, <1>9, <1>10 DEF SendNext

\* A call that returns: what was accepted before stays where it was.
LEMMA AcceptMore ==
  ASSUME SendTypeOK, NEW t \in Threads, Returns(t)
  PROVE  LET e == [asked |-> call[t], id |-> drawn[t]]
         IN  /\ Len(accepted) \in Nat /\ Len(accepted') = Len(accepted) + 1
             /\ DOMAIN accepted' = 1..Len(accepted')
             /\ \A k \in 1..Len(accepted) : accepted'[k] = accepted[k]
             /\ accepted'[Len(accepted) + 1] = e
             /\ DOMAIN accepted = 1..Len(accepted)
<1> DEFINE e == [asked |-> call[t], id |-> drawn[t]]
           R == [asked : ProgramCalls, id : Nat]
<1>1. accepted \in Seq(R) /\ accepted' = Append(accepted, e)
  BY DEF SendTypeOK, Returns
<1> HIDE DEF e, R
<1>2. /\ Len(accepted) \in Nat /\ Len(accepted') = Len(accepted) + 1
      /\ DOMAIN accepted' = 1..Len(accepted')
      /\ \A k \in 1..Len(accepted) : accepted'[k] = accepted[k]
      /\ accepted'[Len(accepted) + 1] = e
      /\ DOMAIN accepted = 1..Len(accepted)
  BY <1>1
<1> QED
  BY <1>2 DEF e

LEMMA WayStep ==
  ASSUME Fits, SInv, [SendNext]_allVars
  PROVE  WayInv'
<1>0. /\ SendTypeOK /\ QuietInv /\ Callers \subseteq Threads
      /\ wire \in Seq(Byte) /\ queue \in Seq(Seq(Byte))
      /\ Len(got) \in Nat /\ Len(accepted) \in Nat /\ Len(queue) \in Nat
      /\ DOMAIN accepted = 1..Len(accepted)
  BY Worth DEF SInv, SendTypeOK
<1>1. PICK fs \in Seq(Seq(Byte)) : Cut(wire, fs) /\ OnTheWay(fs)
  BY DEF SInv, WayInv
<1>2. /\ Len(fs) \in Nat /\ Len(got) \in Nat /\ Len(accepted) \in Nat /\ Len(queue) \in Nat
      /\ DOMAIN fs = 1..Len(fs) /\ DOMAIN queue = 1..Len(queue)
      /\ DOMAIN accepted = 1..Len(accepted)
  BY <1>0
<1>3. CASE UNCHANGED <<writing, queue, wire, accepted, got>>
  BY <1>1, <1>3 DEF WayInv, OnTheWay
<1>4. CASE Connect
  <2>1. /\ wire' = <<>> /\ queue' = <<>> /\ accepted' = <<>> /\ got' = <<>>
    BY <1>0, <1>4 DEF Connect, QuietInv
  <2>2. <<>> \in Seq(Seq(Byte)) /\ OnTheWay(<<>>)'
    BY <2>1, EmptySeq DEF OnTheWay
  <2> QED
    BY <2>1, <2>2, CutNothing DEF WayInv
<1>5. ASSUME NEW t \in Callers, HandOver(t) \/ Dropped(t) PROVE WayInv'
  <2>0. t \in Threads /\ UNCHANGED <<writing, wire, got>>
    BY <1>0, <1>5 DEF HandOver, Dropped, Returns
  <2>1. CASE accepted' = accepted /\ queue' = queue
    BY <1>3, <2>0, <2>1
  <2>2. CASE Returns(t)
    <3> DEFINE e == [asked |-> call[t], id |-> drawn[t]]
    <3>1. /\ Len(accepted') = Len(accepted) + 1
          /\ \A k \in 1..Len(accepted) : accepted'[k] = accepted[k]
          /\ accepted'[Len(accepted) + 1] = e
      BY <1>0, <2>0, <2>2, AcceptMore
    <3>2. Bytes(e) = Frame(call[t], drawn[t])
      BY DEF Bytes
    <3> HIDE DEF e
    <3>3. /\ Len(got') + Len(fs) <= Len(accepted')
          /\ \A i \in DOMAIN fs : fs[i] = Bytes(accepted'[Len(got') + i])
      <4>1. /\ Len(got') = Len(got) /\ Len(got) + Len(fs) <= Len(accepted)
            /\ \A i \in DOMAIN fs : fs[i] = Bytes(accepted[Len(got) + i])
        BY <1>1, <2>0 DEF OnTheWay
      <4>2. \A i \in DOMAIN fs : Len(got) + i \in 1..Len(accepted)
        BY <1>2, <4>1
      <4>3. \A i \in DOMAIN fs : accepted'[Len(got) + i] = accepted[Len(got) + i]
        BY <3>1, <4>2
      <4>4. Len(got') + Len(fs) <= Len(accepted')
        BY <1>2, <3>1, <4>1
      <4> QED
        BY <4>1, <4>3, <4>4
    <3>4. CASE ~writing
      BY <1>1, <2>0, <3>3, <3>4 DEF WayInv, OnTheWay, Bytes
    <3>5. CASE writing
      <4>1. queue' = Append(queue, Bytes(e))
        <5>1. CASE HandOver(t)
          BY <3>2, <5>1 DEF HandOver
        <5>2. CASE Dropped(t)
          <6>1. client = "rust"
            BY <3>5, <5>2 DEF Dropped, Room
          <6>2. accepted' = accepted
            BY <5>2, <6>1 DEF Dropped
          <6> QED
            BY <1>2, <3>1, <6>2
        <5> QED
          BY <1>5, <5>1, <5>2
      <4>2. /\ Len(queue') = Len(queue) + 1 /\ DOMAIN queue' = 1..(Len(queue) + 1)
            /\ \A j \in 1..Len(queue) : queue'[j] = queue[j]
            /\ queue'[Len(queue) + 1] = Bytes(e)
        BY <1>0, <4>1
      <4>3. /\ Len(accepted) = Len(got) + Len(fs) + Len(queue)
            /\ \A j \in DOMAIN queue : queue[j] = Bytes(accepted[Len(got) + Len(fs) + j])
        BY <1>1, <3>5 DEF OnTheWay
      <4>4. ASSUME NEW j \in DOMAIN queue'
            PROVE  queue'[j] = Bytes(accepted'[Len(got) + Len(fs) + j])
        <5>1. CASE j \in 1..Len(queue)
          <6>1. Len(got) + Len(fs) + j \in 1..Len(accepted)
            BY <1>2, <4>3, <5>1
          <6> QED
            BY <1>2, <3>1, <4>2, <4>3, <5>1, <6>1
        <5>2. CASE j = Len(queue) + 1
          <6>1. Len(got) + Len(fs) + j = Len(accepted) + 1
            BY <1>2, <4>3, <5>2
          <6> QED
            BY <3>1, <4>2, <5>2, <6>1
        <5>3. j \in 1..(Len(queue) + 1)
          BY <4>2
        <5> QED
          BY <1>2, <5>1, <5>2, <5>3
      <4>5. Len(accepted') = Len(got') + Len(fs) + Len(queue')
        BY <1>0, <1>2, <2>0, <3>1, <4>2, <4>3
      <4> QED
        BY <1>1, <2>0, <3>3, <4>4, <4>5 DEF WayInv, OnTheWay, Bytes
    <3> QED
      BY <3>4, <3>5
  <2> QED
    BY <1>5, <2>1, <2>2 DEF HandOver, Dropped
<1>6. CASE Write
  <2> DEFINE f == Head(queue)
             tq == Tail(queue)
  <2>1. /\ f \in Seq(Byte) /\ f = queue[1] /\ Len(queue) >= 1
        /\ Len(tq) = Len(queue) - 1
        /\ \A j \in 1..(Len(queue) - 1) : tq[j] = queue[j + 1]
        /\ DOMAIN tq = 1..(Len(queue) - 1)
    BY <1>0, <1>6, HeadTailProperties DEF Write
  <2> HIDE DEF f, tq
  <2>2. PICK gs \in Seq(Seq(Byte)) : gs = Append(fs, f)
    <3>1. Append(fs, f) \in Seq(Seq(Byte))
      BY <2>1, AppendProperties
    <3> QED
      BY <3>1, Zenon
  <2>3. /\ Len(gs) = Len(fs) + 1 /\ DOMAIN gs = 1..(Len(fs) + 1)
        /\ \A i \in 1..Len(fs) : gs[i] = fs[i]
        /\ gs[Len(fs) + 1] = f
        /\ Cut(wire', gs)
    <3>1. Cut(wire \o f, Append(fs, f))
      BY <1>0, <1>1, <2>1, CutAppend
    <3>2. wire' = wire \o f
      BY <1>6 DEF Write, f
    <3> QED
      BY <1>2, <2>1, <2>2, <3>1, <3>2
  <2>4. /\ writing /\ writing' = writing /\ queue' = tq /\ accepted' = accepted
        /\ got' = got
    BY <1>6 DEF Write, tq
  <2>5. /\ Len(accepted) = Len(got) + Len(fs) + Len(queue)
        /\ \A j \in DOMAIN queue : queue[j] = Bytes(accepted[Len(got) + Len(fs) + j])
        /\ \A i \in DOMAIN fs : fs[i] = Bytes(accepted[Len(got) + i])
    BY <1>1, <2>4 DEF OnTheWay
  <2>6. ASSUME NEW i \in DOMAIN gs PROVE gs[i] = Bytes(accepted[Len(got) + i])
    <3>1. CASE i \in 1..Len(fs)
      BY <1>2, <2>3, <2>5, <3>1
    <3>2. CASE i = Len(fs) + 1
      <4>1. Len(got) + Len(fs) + 1 = Len(got) + i
        BY <1>0, <1>2, <3>2
      <4>2. queue[1] = Bytes(accepted[Len(got) + Len(fs) + 1])
        <5>1. 1 \in DOMAIN queue
          BY <1>2, <2>1
        <5> QED
          BY <2>5, <5>1
      <4> QED
        BY <2>1, <2>3, <3>2, <4>1, <4>2
    <3> QED
      BY <1>2, <2>3, <3>1, <3>2
  <2>7. ASSUME NEW j \in DOMAIN tq
        PROVE  tq[j] = Bytes(accepted[Len(got) + Len(gs) + j])
    <3>1. j + 1 \in DOMAIN queue /\ Len(got) + Len(fs) + (j + 1) = Len(got) + Len(gs) + j
      <4>1. j \in 1..(Len(queue) - 1) /\ Len(gs) = Len(fs) + 1
        BY <2>1, <2>3
      <4> QED
        BY <1>2, <4>1
    <3> QED
      BY <2>1, <2>5, <3>1
  <2>8. OnTheWay(gs)'
    <3>1. /\ Len(got) + Len(gs) <= Len(accepted)
          /\ Len(accepted) = Len(got) + Len(gs) + Len(tq)
      <4>1. Len(gs) = Len(fs) + 1 /\ Len(tq) = Len(queue) - 1 /\ Len(queue) >= 1
        BY <2>1, <2>3
      <4>2. Len(accepted) = Len(got) + Len(fs) + Len(queue)
        BY <2>5
      <4>3. Len(got) \in Nat /\ Len(fs) \in Nat /\ Len(queue) \in Nat
        BY <1>2
      <4> QED
        BY <4>1, <4>2, <4>3
    <3> QED
      BY <2>4, <2>6, <2>7, <3>1 DEF OnTheWay, Bytes
  <2> QED
    BY <2>3, <2>8 DEF WayInv
<1>7. CASE WriteFails
  BY <1>1, <1>7 DEF WayInv, OnTheWay, WriteFails, Bytes
<1>8. CASE PeerReads
  <2>1. PICK gs \in Seq(Seq(Byte)) :
          /\ gs # <<>> /\ OnTheWay(gs)
          /\ got' = Append(got, Expected(accepted[Len(got) + 1]))
          /\ Cut(wire', Tail(gs))
    BY <1>8, Reading
  <2> DEFINE rs == Tail(gs)
  <2>2. /\ rs \in Seq(Seq(Byte)) /\ Len(rs) = Len(gs) - 1 /\ Len(gs) \in Nat
        /\ \A i \in 1..(Len(gs) - 1) : rs[i] = gs[i + 1]
        /\ DOMAIN rs = 1..(Len(gs) - 1) /\ DOMAIN gs = 1..Len(gs)
    BY <2>1, HeadTailProperties
  <2> HIDE DEF rs
  <2>3. Len(got') = Len(got) + 1
    BY <1>0, <2>1 DEF SendTypeOK
  <2>4. UNCHANGED <<writing, queue, accepted>>
    BY <1>8 DEF PeerReads
  <2>5. ASSUME NEW i \in DOMAIN rs PROVE rs[i] = Bytes(accepted[Len(got') + i])
    <3>1. i + 1 \in DOMAIN gs /\ Len(got) + (i + 1) = Len(got') + i
      <4>1. i \in 1..(Len(gs) - 1) /\ Len(gs) \in Nat /\ DOMAIN gs = 1..Len(gs)
        BY <2>2
      <4>2. i + 1 \in 1..Len(gs)
        BY <4>1
      <4>3. Len(got) \in Nat
        BY <1>2
      <4>4. Len(got) + (i + 1) = Len(got') + i
        BY <2>3, <4>1, <4>3
      <4> QED
        BY <4>1, <4>2, <4>4
    <3> QED
      BY <2>1, <2>2, <3>1 DEF OnTheWay
  <2>6. Len(got') + Len(rs) = Len(got) + Len(gs)
    BY <1>0, <2>2, <2>3
  <2>7. OnTheWay(rs)'
    BY <2>1, <2>4, <2>5, <2>6 DEF OnTheWay, Bytes
  <2> QED
    BY <2>1, <2>2, <2>7 DEF WayInv, rs
<1> QED
  <2>1. ASSUME NEW t \in Callers, NEW c \in Calls(t), Begin(t, c) PROVE WayInv'
    BY <1>3, <2>1 DEF Begin
  <2>2. ASSUME NEW t \in Callers, Complete(t) PROVE WayInv'
    BY <1>3, <2>2 DEF Complete
  <2>3. CASE Lose \/ Notice \/ Clock \/ UNCHANGED allVars
    BY <1>3, <2>3 DEF Lose, Notice, Clock, allVars
  <2> QED
    BY <1>4, <1>5, <1>6, <1>7, <1>8, <2>1, <2>2, <2>3 DEF SendNext

LEMMA PeerStep ==
  ASSUME Fits, SInv, [SendNext]_allVars
  PROVE  DecodedInv'
<1>0. /\ SendTypeOK /\ Callers \subseteq Threads
      /\ Len(got) \in Nat /\ Len(accepted) \in Nat /\ Len(got) <= Len(accepted)
      /\ DOMAIN got = 1..Len(got) /\ DOMAIN accepted = 1..Len(accepted)
      /\ \A k \in DOMAIN got : got[k] = Expected(accepted[k])
  BY Worth DEF SInv, SendTypeOK, DecodedInv
<1>1. CASE UNCHANGED <<accepted, got>>
  BY <1>0, <1>1 DEF DecodedInv
<1>2. ASSUME NEW t \in Callers, HandOver(t) \/ Dropped(t), Returns(t)
      PROVE  DecodedInv'
  <2>1. /\ t \in Threads /\ got' = got
        /\ Len(accepted') = Len(accepted) + 1
        /\ \A k \in 1..Len(accepted) : accepted'[k] = accepted[k]
    BY <1>0, <1>2, AcceptMore DEF Returns
  <2>2. \A k \in DOMAIN got : k \in 1..Len(accepted)
    BY <1>0
  <2>3. Len(got') <= Len(accepted')
    BY <1>0, <2>1
  <2> QED
    BY <1>0, <2>1, <2>2, <2>3 DEF DecodedInv, Expected
<1>3. CASE PeerReads
  <2>1. /\ Len(got) + 1 \in DOMAIN accepted
        /\ got' = Append(got, Expected(accepted[Len(got) + 1]))
    BY <1>3, Reading
  <2>2. accepted' = accepted
    BY <1>3 DEF PeerReads
  <2> DEFINE e == Expected(accepted[Len(got) + 1])
             R == [header : Headers, payload : Seq(Byte)]
  <2>3. got \in Seq(R)
    BY <1>0 DEF SendTypeOK
  <2>4. got' = Append(got, e)
    BY <2>1
  <2> HIDE DEF e, R
  <2>5. /\ Len(got') = Len(got) + 1 /\ DOMAIN got' = 1..(Len(got) + 1)
        /\ \A k \in 1..Len(got) : got'[k] = got[k]
        /\ got'[Len(got) + 1] = e
    BY <2>3, <2>4
  <2>6. ASSUME NEW k \in DOMAIN got' PROVE got'[k] = Expected(accepted[k])
    <3>1. CASE k \in 1..Len(got)
      BY <1>0, <2>5, <3>1
    <3>2. CASE k = Len(got) + 1
      BY <2>5, <3>2 DEF e
    <3> QED
      BY <1>0, <2>5, <3>1, <3>2
  <2>7. Len(got') <= Len(accepted)
    BY <1>0, <2>1, <2>5
  <2> QED
    BY <2>2, <2>6, <2>7 DEF DecodedInv, Expected
<1> QED
  <2>1. ASSUME NEW t \in Callers, NEW c \in Calls(t), Begin(t, c)
        PROVE  DecodedInv'
    BY <1>1, <2>1 DEF Begin
  <2>2. ASSUME NEW t \in Callers, Complete(t) PROVE DecodedInv'
    BY <1>1, <2>2 DEF Complete
  <2>3. ASSUME NEW t \in Callers, HandOver(t) \/ Dropped(t) PROVE DecodedInv'
    <3>1. CASE Returns(t)
      BY <1>2, <2>3, <3>1
    <3>2. CASE UNCHANGED <<accepted, got>>
      BY <1>1, <3>2
    <3> QED
      BY <2>3, <3>1, <3>2 DEF HandOver, Dropped
  <2>4. CASE \/ Connect \/ Lose \/ Notice \/ Write \/ WriteFails \/ Clock
             \/ UNCHANGED allVars
    BY <1>1, <2>4 DEF Connect, Lose, Notice, Write, WriteFails, Clock, allVars
  <2> QED
    BY <1>3, <2>1, <2>2, <2>3, <2>4 DEF SendNext

LEMMA InitSInv == Fits /\ SendInit => SInv
<1> SUFFICES ASSUME Fits, SendInit PROVE SInv
  OBVIOUS
<1>1. TypeOK
  BY InitIInv DEF SendInit, IInv
<1>2. /\ socket = "none" /\ connected = FALSE /\ writing = FALSE
      /\ call = [t \in Threads |-> NoCall] /\ drawn = [t \in Threads |-> 0]
      /\ queue = <<>> /\ wire = <<>> /\ accepted = <<>> /\ got = <<>>
      /\ count = [t \in Threads |-> 0] /\ clock = 0 /\ counter = 0
  BY DEF SendInit, Init
<1>3. SendTypeOK
  <2>1. \A S : <<>> \in Seq(S) /\ Len(<<>>) = 0
    BY EmptySeq
  <2>2. 0 <= Capacity
    BY SendingAssumption
  <2> QED
    BY <1>1, <1>2, <2>1, <2>2 DEF SendTypeOK
<1>4. NumberInv
  <2>1. 0 \in Ids
    BY Sizes DEF Ids
  <2> QED
    BY <1>2, <2>1, MsgIdAssumption DEF NumberInv
<1>5. QuietInv
  BY <1>2 DEF QuietInv, Busy
<1>6. WayInv
  <2>1. <<>> \in Seq(Seq(Byte)) /\ OnTheWay(<<>>)
    BY <1>2, EmptySeq DEF OnTheWay
  <2> QED
    BY <1>2, <2>1, CutNothing DEF WayInv
<1>7. DecodedInv
  BY <1>2 DEF DecodedInv
<1> QED
  BY <1>3, <1>4, <1>5, <1>6, <1>7 DEF SInv

LEMMA StepSInv == Fits /\ SInv /\ [SendNext]_allVars => SInv'
<1> SUFFICES ASSUME Fits, SInv, [SendNext]_allVars PROVE SInv'
  OBVIOUS
<1>1. SendTypeOK' /\ WayInv' /\ DecodedInv'
  BY SendTypeStep, WayStep, PeerStep
<1>2. QuietInv' /\ NumberInv'
  BY QuietStep, NumberStep DEF SInv, SendTypeOK
<1> QED
  BY <1>1, <1>2 DEF SInv

\* No frame is empty: where no bytes are on the wire, no frame is.
LEMMA NothingOnTheWay ==
  ASSUME Fits, SInv, NEW fs \in Seq(Seq(Byte)), Cut(wire, fs), OnTheWay(fs), wire = <<>>
  PROVE  fs = <<>>
<1> SUFFICES ASSUME fs # <<>> PROVE FALSE
  OBVIOUS
<1>0. /\ wire \in Seq(Byte) /\ Len(got) \in Nat /\ Len(accepted) \in Nat
      /\ DOMAIN accepted = 1..Len(accepted)
  BY DEF SInv, SendTypeOK
<1>1. PICK r \in Seq(Byte) : wire = Head(fs) \o r
  BY <1>0, CutHead DEF FirstAndRest
<1>2. 1 \in DOMAIN fs /\ Head(fs) = fs[1] /\ Len(fs) \in Nat /\ Len(fs) >= 1
  OBVIOUS
<1>3. Len(got) + 1 \in DOMAIN accepted /\ Head(fs) = Bytes(accepted[Len(got) + 1])
  <2>1. Len(got) + Len(fs) <= Len(accepted)
    BY DEF OnTheWay
  <2>2. fs[1] = Bytes(accepted[Len(got) + 1])
    BY <1>2 DEF OnTheWay
  <2>3. Len(got) + 1 \in 1..Len(accepted)
    BY <1>0, <1>2, <2>1
  <2> QED
    BY <1>0, <1>2, <2>2, <2>3, Zenon
<1> DEFINE a == accepted[Len(got) + 1]
<1>4. a.asked \in ProgramCalls /\ a.id \in Ids
  <2>1. a \in [asked : ProgramCalls, id : Ids]
    BY <1>3, AcceptedCall DEF SInv
  <2> HIDE DEF a
  <2> QED
    BY <2>1
<1> HIDE DEF a
<1>5. Head(fs) = Frame(a.asked, a.id)
  BY <1>3 DEF Bytes, a
<1>6. client \in Clients
  BY DEF SInv, SendTypeOK, TypeOK
<1>7. Frame(a.asked, a.id) \o r # <<>>
  BY <1>4, <1>6, FrameIsRead
<1> QED
  BY <1>1, <1>5, <1>7

\* The invariant holds in every reachable state.
THEOREM SendInvariant == Fits => (SendSpec => []SInv)
<1> SUFFICES ASSUME Fits PROVE SendSpec => []SInv
  OBVIOUS
<1>1. SendInit => SInv
  BY InitSInv
<1>2. SInv /\ [SendNext]_allVars => SInv'
  BY StepSInv
<1> QED
  BY <1>1, <1>2, PTL DEF SendSpec

-----------------------------------------------------------------------------
(* What follows. *)

\* Every variable has its type in every reachable state of every client, and the
\* channel of the Rust client never holds more than its capacity.
THEOREM SendTyped == Fits => (SendSpec => []SendTypeOK)
BY SendInvariant, PTL DEF SInv

(***************************************************************************)
(* What the peer of any client decodes is what was accepted, in the order  *)
(* in which the calls returned, each under the identifier the caller was   *)
(* given: for any threads, any capacity, and a connection lost at any      *)
(* point, as long as identifiers fit 64 bits and payloads 32.  And while   *)
(* the connection stands nothing is lost of it.                            *)
(***************************************************************************)
THEOREM PeerIsTold == Fits => (SendSpec => []PeerGetsWhatWasAccepted)
<1> SUFFICES ASSUME Fits PROVE SendSpec => []PeerGetsWhatWasAccepted
  OBVIOUS
<1>1. SInv => PeerGetsWhatWasAccepted
  <2> SUFFICES ASSUME SInv, socket # "lost", queue = <<>>, wire = <<>>
               PROVE  Len(got) = Len(accepted)
    BY DEF SInv, DecodedInv, PeerGetsWhatWasAccepted
  <2>1. CASE socket = "none"
    BY <2>1 DEF SInv, QuietInv
  <2>2. CASE socket = "open"
    <3>1. PICK fs \in Seq(Seq(Byte)) : Cut(wire, fs) /\ OnTheWay(fs)
      BY DEF SInv, WayInv
    <3>2. fs = <<>>
      BY <3>1, NothingOnTheWay
    <3>3. Len(fs) = 0 /\ Len(queue) = 0 /\ Len(got) \in Nat
      BY <3>2 DEF SInv, SendTypeOK
    <3> QED
      BY <2>2, <3>1, <3>3 DEF SInv, QuietInv, OnTheWay
  <2> QED
    BY <2>1, <2>2 DEF SInv, SendTypeOK
<1> QED
  BY <1>1, SendInvariant, PTL

(***************************************************************************)
(* Identifiers that frames carry are in the order a caller can observe, as *)
(* long as the clock is not set back.                                      *)
(***************************************************************************)
THEOREM FramesAreOrdered == SendSpec => []RealTimeOrder
BY ImplementsIdentifiers, RealTimeOrdered, PTL

(***************************************************************************)
(* And no two frames of a client with one thread carry the same one, so    *)
(* that an ACK names one call: in TypeScript whatever the clock does, in   *)
(* Python if it is not set back.                                           *)
(***************************************************************************)
THEOREM FramesAreUnique ==
  MaxIds < Millisecond /\ "python" \notin SetBackFor => (SendSpec => []UniqueIds)
BY ImplementsIdentifiers, UniqueOnOneThread, PTL

LEMMA LetStep ==
  ASSUME SendTypeOK, LetInv, [SendNext]_allVars
  PROVE  LetInv'
<1>0. Callers \subseteq Threads /\ client' = client
  BY Worth, StepRefines, SameClient
<1>1. \A c : LetThrough(c) => LetThrough(c)'
  BY <1>0 DEF LetThrough
<1>2. ASSUME NEW t \in Callers, NEW c \in Calls(t), Begin(t, c) PROVE LetInv'
  BY <1>0, <1>1, <1>2 DEF Begin, LetInv, Busy, SendTypeOK
<1>3. CASE UNCHANGED <<call, accepted>>
  BY <1>0, <1>1, <1>3 DEF LetInv, Busy, LetThrough
<1>4. ASSUME NEW t \in Callers, HandOver(t) \/ Dropped(t) PROVE LetInv'
  <2>1. t \in Threads /\ LetThrough(call[t]) /\ call' = [call EXCEPT ![t] = NoCall]
    BY <1>0, <1>4 DEF HandOver, Dropped, HasIdentifier, LetInv, Returns
  <2>2. ASSUME NEW u \in Threads, Busy(u)' PROVE LetThrough(call[u])'
    BY <1>0, <1>1, <2>1, <2>2 DEF LetInv, Busy, SendTypeOK, LetThrough
  <2>3. ASSUME NEW k \in DOMAIN accepted' PROVE LetThrough(accepted[k].asked)'
    <3>1. CASE accepted' = accepted
      BY <1>0, <1>1, <2>3, <3>1 DEF LetInv, LetThrough
    <3>2. CASE Returns(t)
      <4>1. /\ Len(accepted) \in Nat
            /\ DOMAIN accepted' = 1..(Len(accepted) + 1) /\ DOMAIN accepted = 1..Len(accepted)
            /\ \A i \in 1..Len(accepted) : accepted'[i] = accepted[i]
            /\ accepted'[Len(accepted) + 1] = [asked |-> call[t], id |-> drawn[t]]
        BY <2>1, <3>2, AcceptMore
      <4>2. CASE k \in 1..Len(accepted)
        BY <1>0, <4>1, <4>2 DEF LetInv, LetThrough
      <4>3. CASE k = Len(accepted) + 1
        <5>1. accepted'[k].asked = call[t]
          BY <4>1, <4>3
        <5> QED
          BY <1>0, <2>1, <5>1 DEF LetThrough
      <4> QED
        BY <2>3, <4>1, <4>2, <4>3
    <3> QED
      BY <1>4, <3>1, <3>2 DEF HandOver, Dropped
  <2> QED
    BY <2>2, <2>3 DEF LetInv
<1> QED
  <2>1. ASSUME NEW t \in Callers, Complete(t) PROVE LetInv'
    BY <1>3, <2>1 DEF Complete
  <2>2. CASE \/ Connect \/ Lose \/ Notice \/ Write \/ WriteFails \/ PeerReads
             \/ Clock \/ UNCHANGED allVars
    BY <1>3, <2>2 DEF Connect, Lose, Notice, Write, WriteFails, PeerReads, Clock, allVars
  <2> QED
    BY <1>2, <1>4, <2>1, <2>2 DEF SendNext

(***************************************************************************)
(* A message that was published through any client is read back as one     *)
(* message, with the topic the client wrote the length of, and what else   *)
(* there was of the topic in front of the text.                            *)
(***************************************************************************)
THEOREM MessagesAreRead == Fits => (SendSpec => []PublishedIsRead)
<1> SUFFICES ASSUME Fits PROVE SendSpec => []PublishedIsRead
  OBVIOUS
<1>1. SendInit => LetInv
  BY DEF SendInit, LetInv, Busy
<1>2. SInv /\ LetInv /\ [SendNext]_allVars => LetInv'
  BY LetStep DEF SInv
<1>3. SInv /\ LetInv => PublishedIsRead
  <2> SUFFICES ASSUME SInv, LetInv, NEW k \in DOMAIN got,
                      accepted[k].asked.type = FrameType.Publish
               PROVE  LET topic == Topic[accepted[k].asked.topic]
                          cut == IF client = "rust" THEN Len(topic) % Word
                                                    ELSE Len(topic)
                      IN  Messages(got[k].payload) =
                            {[topic |-> SubSeq(topic, 1, cut),
                              message |-> SubSeq(topic, cut + 1, Len(topic)) \o Text]}
    BY Zenon DEF PublishedIsRead
  <2> DEFINE c == accepted[k].asked
             topic == Topic[c.topic]
             cut == IF client = "rust" THEN Len(topic) % Word ELSE Len(topic)
  <2>1. k \in DOMAIN accepted /\ got[k] = Expected(accepted[k])
    BY DEF SInv, SendTypeOK, DecodedInv
  <2>2. c \in ProgramCalls
    BY <2>1, AcceptedCall DEF SInv
  <2>3. LetThrough(c)
    BY <2>1 DEF LetInv
  <2>4. got[k].payload = Payload[c]
    BY <2>1 DEF Expected
  <2>5. topic \in Seq(Byte) /\ Len(topic) \in Nat
    BY <2>2, CallFields, TopicBytes
  <2> HIDE DEF c
  <2>6. Payload[c] = PublishPayload(topic, Text)
    BY <2>2 DEF Payload, c
  <2>7. client = "rust" \/ Len(topic) < Word
    BY <2>3 DEF LetThrough, TopicFits, c
  <2> HIDE DEF topic
  <2>8. cut = Len(topic) % Word
    <3>1. Len(topic) < Word => Len(topic) \in 0..(Word - 1)
      BY <2>5, Sizes
    <3> QED
      BY <2>7, <3>1, Fitting, Sizes
  <2> HIDE DEF cut
  <2>9. Messages(PublishPayload(topic, Text)) =
          {[topic |-> SubSeq(topic, 1, cut),
            message |-> SubSeq(topic, cut + 1, Len(topic)) \o Text]}
    BY <2>5, <2>8, TextBytes, LongTopicIsCut
  <2> QED
    BY <2>4, <2>6, <2>9, Zenon DEF topic, cut, c
<1> QED
  BY <1>1, <1>2, <1>3, SendInvariant, PTL DEF SendSpec

=============================================================================
