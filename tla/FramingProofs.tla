--------------------------- MODULE FramingProofs ----------------------------
(***************************************************************************)
(* Proofs about the framing of a byte stream, for any size of the header,  *)
(* any payload lengths and any number of frames.                           *)
(***************************************************************************)
EXTENDS Framing, TLAPS

\* A new connection, made by whom it may be.
Renewed == \E state \in {"reading", "looping"} : Fresh(state)

\* The frames follow one another in the stream without a gap.
StreamInv ==
  /\ Len(starts) = Len(frames)
  /\ \A k \in DOMAIN frames : End(k) <= total
  /\ \A j, k \in DOMAIN frames : j < k => End(j) <= starts[k]
  /\ \A k \in DOMAIN frames : k + 1 \in DOMAIN frames => starts[k + 1] = End(k)
  /\ frames # <<>> => starts[1] = 0 /\ End(Len(frames)) = total
  /\ frames = <<>> => total = 0

LEMMA KindFields ==
  ASSUME NEW f \in Kinds
  PROVE  f.len \in Nat
BY FramingAssumption DEF Kinds

\* What an index of a frame says about the offsets.
LEMMA Offsets ==
  ASSUME TypeOK, NEW k \in DOMAIN frames
  PROVE  /\ frames[k] \in Kinds /\ k \in 1..Len(frames) /\ k \in DOMAIN starts
         /\ starts[k] \in Nat /\ Size(k) \in Nat /\ End(k) \in Nat
         /\ HeaderSize <= Size(k) /\ starts[k] < End(k)
         /\ End(k) = starts[k] + Size(k)
<1>1. frames[k] \in Kinds /\ k \in 1..Len(frames) /\ k \in DOMAIN starts
      /\ starts[k] \in Nat
  BY DEF TypeOK
<1>2. frames[k].len \in Nat
  BY <1>1, KindFields
<1> QED
  BY <1>1, <1>2, FramingAssumption DEF Size, End

LEMMA TypeStep == TypeOK /\ [Next]_vars => TypeOK'
<1> SUFFICES ASSUME TypeOK, [Next]_vars PROVE TypeOK'
  OBVIOUS
<1> USE FramingAssumption
<1>1. ASSUME NEW f \in Kinds, Send(f) PROVE TypeOK'
  <2>1. f.len \in Nat
    BY KindFields
  <2>2. /\ frames' \in Seq(Kinds) /\ starts' \in Seq(Nat)
        /\ Len(starts') = Len(frames')
    BY <1>1 DEF Send, TypeOK
  <2>3. /\ total' \in Nat /\ received' \in 0..total' /\ consumed' \in 0..received'
    BY <1>1, <2>1 DEF Send, TypeOK
  <2> QED
    BY <1>1, <2>2, <2>3 DEF Send, TypeOK
<1>2. CASE Receive
  BY <1>2 DEF Receive, TypeOK, stream
<1>3. CASE NeedMore
  BY <1>3 DEF NeedMore, TypeOK, stream
<1>4. CASE BadMagic
  BY <1>4 DEF BadMagic, TypeOK, stream
<1>5. ASSUME NEW k \in DOMAIN frames, Undecodable(k) PROVE TypeOK'
  <2>1. HeaderSize <= Buffered
    BY <1>5, Offsets DEF Undecodable, Whole, Buffered, TypeOK
  <2> QED
    BY <1>5, <2>1 DEF Undecodable, TypeOK, Buffered, stream
<1>6. ASSUME NEW k \in DOMAIN frames, Process(k) PROVE TypeOK'
  <2>1. Size(k) \in Nat /\ Size(k) <= Buffered /\ k \in Nat
    BY <1>6, Offsets DEF Process, Whole, TypeOK
  <2>2. consumed' \in 0..received' /\ received' = received
    BY <1>6, <2>1 DEF Process, TypeOK, Buffered
  <2>3. delivered' \in Seq(Nat)
    BY <1>6, <2>1 DEF Process, TypeOK
  <2> QED
    BY <1>6, <2>2, <2>3 DEF Process, TypeOK, stream
<1>7. CASE Renewed
  <2>1. errors' \in BOOLEAN /\ dialect' = dialect
    BY <1>7 DEF Renewed, Fresh
  <2>2. /\ frames' = <<>> /\ starts' = <<>> /\ delivered' = <<>>
        /\ total' = 0 /\ received' = 0 /\ consumed' = 0
        /\ status' \in {"reading", "looping"}
    BY <1>7 DEF Renewed, Fresh
  <2> QED
    BY <2>1, <2>2 DEF TypeOK
<1>8. CASE UNCHANGED vars
  BY <1>8 DEF vars, stream, TypeOK
<1> QED
  BY <1>1, <1>2, <1>3, <1>4, <1>5, <1>6, <1>7, <1>8
     DEF Next, Iterate, Reconnect, ListenerReconnects, Renewed

\* Every variable has its type in every reachable state of every client.
THEOREM Typed == Spec => []TypeOK
<1>1. Init => TypeOK
  <2>1. Init => errors \in BOOLEAN
    BY DEF Init
  <2>3. Init => dialect \in {"ts", "python", "rust"}
    BY DEF Init
  <2>2. Init => /\ frames = <<>> /\ starts = <<>> /\ delivered = <<>>
                /\ total = 0 /\ received = 0 /\ consumed = 0 /\ status = "reading"
    BY DEF Init
  <2> QED
    BY <2>1, <2>2, <2>3 DEF TypeOK
<1> QED
  BY <1>1, TypeStep, PTL DEF Spec

LEMMA StreamStep ==
  ASSUME TypeOK, StreamInv, [Next]_vars
  PROVE  StreamInv'
<1>1. ASSUME NEW f \in Kinds, Send(f) PROVE StreamInv'
  <2>n. PICK n \in Nat : n = Len(frames)
    BY DEF TypeOK
  <2>0. f.len \in Nat /\ HeaderSize \in Nat \ {0} /\ total \in Nat
    BY KindFields, FramingAssumption DEF TypeOK
  <2>1. /\ DOMAIN frames = 1..n /\ DOMAIN starts = 1..n /\ Len(starts) = n
        /\ Len(frames') = n + 1 /\ Len(starts') = n + 1
        /\ DOMAIN frames' = 1..(n + 1)
        /\ \A k \in 1..n : frames'[k] = frames[k] /\ starts'[k] = starts[k]
        /\ frames'[n + 1] = f /\ starts'[n + 1] = total
        /\ total' = total + HeaderSize + f.len
    BY <1>1, <2>n DEF Send, TypeOK
  <2>2. \A k \in 1..n : End(k)' = End(k) /\ End(k) \in Nat /\ starts[k] \in Nat
    BY <2>1, Offsets DEF End, Size
  <2>a. End(n + 1)' = starts'[n + 1] + (HeaderSize + frames'[n + 1].len)
    BY DEF End, Size
  <2>3. End(n + 1)' = total'
    BY <2>0, <2>1, <2>a
  <2>b. \A k \in 1..(n + 1) : k \in 1..n \/ k = n + 1
    BY <2>0
  <2>c. /\ \A k \in 1..n : End(k) <= total
        /\ \A j, k \in 1..n : j < k => End(j) <= starts[k]
        /\ \A k \in 1..n : k + 1 \in 1..n => starts[k + 1] = End(k)
    BY <2>1 DEF StreamInv
  <2>4. ASSUME NEW k \in 1..(n + 1) PROVE End(k)' <= total'
    <3>1. CASE k \in 1..n
      BY <2>0, <2>1, <2>2, <2>c, <3>1
    <3>2. CASE k = n + 1
      BY <2>0, <2>1, <2>3, <3>2
    <3> QED
      BY <2>b, <3>1, <3>2
  <2>5. ASSUME NEW j \in 1..(n + 1), NEW k \in 1..(n + 1), j < k
        PROVE  End(j)' <= starts'[k]
    <3>1. j \in 1..n
      BY <2>0, <2>5
    <3>2. CASE k \in 1..n
      BY <2>1, <2>2, <2>5, <2>c, <3>1, <3>2
    <3>3. CASE k = n + 1
      BY <2>1, <2>2, <2>c, <3>1, <3>3
    <3> QED
      BY <2>b, <3>2, <3>3
  <2>6. ASSUME NEW k \in 1..(n + 1), k + 1 \in 1..(n + 1)
        PROVE  starts'[k + 1] = End(k)'
    <3>1. k \in 1..n
      BY <2>0, <2>6
    <3>2. CASE k + 1 \in 1..n
      BY <2>1, <2>2, <2>c, <3>1, <3>2
    <3>3. CASE k = n
      <4>1. End(n) = total
        BY <2>0, <2>n, <3>1, <3>3 DEF StreamInv, TypeOK
      <4> QED
        BY <2>1, <2>2, <3>1, <3>3, <4>1
    <3> QED
      BY <2>0, <3>1, <3>2, <3>3
  <2>7. starts'[1] = 0 /\ frames' # <<>>
    BY <2>0, <2>1, <2>n DEF StreamInv, TypeOK
  <2> QED
    BY <2>1, <2>3, <2>4, <2>5, <2>6, <2>7 DEF StreamInv
<1>2. CASE Renewed
  BY <1>2 DEF Renewed, Fresh, StreamInv
<1>3. CASE UNCHANGED stream
  BY <1>3 DEF stream, StreamInv, End, Size
<1> QED
  BY <1>1, <1>2, <1>3
        DEF Next, Iterate, Reconnect, ListenerReconnects, Renewed, Receive,
            NeedMore, BadMagic, Undecodable, Process, vars

LEMMA StreamAlways == Spec => []StreamInv
<1>1. Init => StreamInv
  BY DEF Init, StreamInv
<1> QED
  BY <1>1, StreamStep, Typed, PTL DEF Spec

\* At most one frame starts at an offset.
LEMMA OneFront ==
  ASSUME TypeOK, StreamInv, NEW j \in Front, NEW k \in Front
  PROVE  j = k
<1>1. /\ j \in DOMAIN frames /\ k \in DOMAIN frames /\ starts[j] = starts[k]
      /\ j \in Nat /\ k \in Nat
  BY DEF Front, TypeOK
<1>2. \A m \in DOMAIN frames : starts[m] < End(m) /\ starts[m] \in Nat /\ End(m) \in Nat
  BY Offsets
<1>3. CASE j < k
  BY <1>1, <1>2, <1>3 DEF StreamInv
<1>4. CASE k < j
  BY <1>1, <1>2, <1>4 DEF StreamInv
<1> QED
  BY <1>1, <1>3, <1>4

-----------------------------------------------------------------------------
(* No frame is held back. *)

LEMMA WaitStep ==
  ASSUME TypeOK, StreamInv, NoWholeFrameWaits, [Next]_vars
  PROVE  NoWholeFrameWaits'
<1> USE DEF NoWholeFrameWaits
<1>1. ASSUME NEW f \in Kinds, Send(f), status = "reading",
             NEW k \in Front', frames'[k].fault # "magic"
      PROVE  End(k)' > received'
  <2>n. PICK n \in Nat : n = Len(frames)
    BY DEF TypeOK
  <2>a. /\ DOMAIN frames = 1..n
        /\ frames' = Append(frames, f) /\ starts' = Append(starts, total)
        /\ frames \in Seq(Kinds) /\ starts \in Seq(Nat) /\ Len(starts) = n
        /\ received' = received /\ received \in 0..total /\ total \in Nat
        /\ consumed' = consumed
    BY <1>1, <2>n DEF Send, TypeOK
  <2>b. /\ \A j \in 1..n : frames'[j] = frames[j] /\ starts'[j] = starts[j]
        /\ frames'[n + 1] = f /\ starts'[n + 1] = total
        /\ DOMAIN frames' = 1..(n + 1)
    BY <2>n, <2>a
  <2>1. /\ DOMAIN frames = 1..n /\ k \in 1..(n + 1) /\ starts'[k] = consumed
        /\ \A j \in 1..n : frames'[j] = frames[j] /\ starts'[j] = starts[j]
        /\ frames'[n + 1] = f /\ starts'[n + 1] = total
        /\ received' = received /\ received \in 0..total /\ total \in Nat
    BY <1>1, <2>a, <2>b DEF Front
  <2>2. CASE k \in 1..n
    <3>1. k \in Front /\ frames[k].fault # "magic" /\ End(k)' = End(k)
      BY <1>1, <2>1, <2>2 DEF Front, End, Size
    <3> QED
      BY <1>1, <2>1, <3>1
  <2>3. CASE k = n + 1
    <3>1. End(k)' = total + (HeaderSize + f.len) /\ f.len \in Nat
      BY <2>1, <2>3, KindFields DEF End, Size
    <3> QED
      BY <2>1, <3>1, FramingAssumption
  <2> QED
    BY <2>1, <2>2, <2>3
<1>2. ASSUME NEW f \in Kinds, Send(f) PROVE NoWholeFrameWaits'
  BY <1>1, <1>2 DEF Send
<1>3. CASE NeedMore
  <2> SUFFICES ASSUME NEW k \in Front, frames[k].fault # "magic" PROVE End(k) > received
    BY <1>3 DEF NeedMore, stream, Front, End, Size
  <2>1. /\ starts[k] = consumed /\ End(k) = consumed + Size(k)
        /\ Size(k) \in Nat /\ HeaderSize <= Size(k)
        /\ received \in Nat /\ consumed \in Nat
    BY Offsets DEF Front, TypeOK
  <2>2. Buffered < Size(k)
    <3>1. CASE Buffered < HeaderSize
      BY <2>1, <3>1, FramingAssumption DEF Buffered
    <3>2. CASE \E j \in Front : Buffered < Size(j)
      BY <3>2, OneFront
    <3> QED
      BY <1>3, <3>1, <3>2 DEF NeedMore
  <2> QED
    BY <2>1, <2>2 DEF Buffered
<1>4. CASE BadMagic
  <2>1. CASE dialect = "rust"
    <3> SUFFICES ASSUME NEW k \in Front' PROVE End(k)' > received'
      OBVIOUS
    <3>1. UNCHANGED <<frames, starts, received>> /\ consumed' = received
      BY <1>4, <2>1 DEF BadMagic, stream
    <3>2. k \in DOMAIN frames /\ starts[k] = received /\ End(k)' = End(k)
      BY <3>1 DEF Front, End, Size
    <3> QED
      BY <3>1, <3>2, Offsets
  <2>2. CASE dialect # "rust"
    BY <1>4, <2>2 DEF BadMagic, stream, Front
  <2> QED
    BY <2>1, <2>2
<1>5. CASE Receive \/ \E k \in DOMAIN frames : Undecodable(k) \/ Process(k)
  BY <1>5 DEF Receive, Undecodable, Process, Whole
<1>6. CASE Renewed
  BY <1>6 DEF Renewed, Fresh, Front
<1>7. CASE UNCHANGED vars
  BY <1>7 DEF vars, stream, Front, End, Size
<1> QED
  BY <1>2, <1>3, <1>4, <1>5, <1>6, <1>7
     DEF Next, Iterate, Reconnect, ListenerReconnects, Renewed

(***************************************************************************)
(* However the stream is cut into reads, no client waits for more while a  *)
(* whole frame is at the front of its buffer.                              *)
(***************************************************************************)
THEOREM NothingHeldBack == Spec => []NoWholeFrameWaits
<1>1. Init => NoWholeFrameWaits
  BY DEF Init, NoWholeFrameWaits, Front
<1> QED
  BY <1>1, WaitStep, StreamAlways, Typed, PTL DEF Spec

-----------------------------------------------------------------------------
(* No frame is passed on twice, out of order, or in part. *)

\* A frame is passed on at most once, in order, and only when all of it has
\* arrived: also by the Rust client, behind a header it cannot decode.
OnceInOrder ==
  /\ \A i \in DOMAIN delivered :
       delivered[i] \in DOMAIN frames /\ End(delivered[i]) <= received
  /\ \A i, j \in DOMAIN delivered : i < j => delivered[i] < delivered[j]

\* What has been passed on has left the buffer, unless reading has stopped.
LeftInv ==
  status # "stopped" =>
    \A i \in DOMAIN delivered : End(delivered[i]) <= consumed

LEMMA OrderStep ==
  ASSUME TypeOK, StreamInv, OnceInOrder, LeftInv, [Next]_vars
  PROVE  OnceInOrder' /\ LeftInv'
<1>1. ASSUME NEW f \in Kinds, Send(f) PROVE OnceInOrder' /\ LeftInv'
  <2>1. /\ \A k \in DOMAIN frames : k \in DOMAIN frames' /\ frames'[k] = frames[k]
                                     /\ starts'[k] = starts[k]
        /\ UNCHANGED <<received, consumed, status, delivered>>
    BY <1>1 DEF Send, TypeOK
  <2>2. \A k \in DOMAIN frames : End(k)' = End(k)
    BY <2>1 DEF End, Size
  <2> QED
    BY <2>1, <2>2 DEF OnceInOrder, LeftInv
<1>2. ASSUME NEW k \in DOMAIN frames, Process(k) PROVE OnceInOrder' /\ LeftInv'
  <2>n. PICK n \in Nat : n = Len(delivered)
    BY DEF TypeOK
  <2>1. /\ DOMAIN delivered = 1..n /\ DOMAIN delivered' = 1..(n + 1)
        /\ \A i \in 1..n : delivered'[i] = delivered[i] /\ delivered[i] \in Nat
        /\ delivered'[n + 1] = k
        /\ UNCHANGED <<frames, starts, total, received>>
    BY <1>2, <2>n DEF Process, TypeOK, stream
  <2>2. /\ starts[k] = consumed /\ End(k) = starts[k] + Size(k) /\ k \in Nat
        /\ Size(k) <= Buffered /\ End(k) <= received
        /\ Size(k) \in Nat /\ received \in Nat /\ consumed \in Nat
    BY <1>2, Offsets DEF Process, Whole, Front, Buffered, TypeOK
  <2>3. \A j \in DOMAIN frames : End(j)' = End(j) /\ End(j) \in Nat
    BY <2>1, Offsets DEF End, Size
  <2>4. \A i \in 1..n : delivered[i] \in DOMAIN frames /\ End(delivered[i]) <= consumed
    BY <1>2, <2>1 DEF Process, Whole, OnceInOrder, LeftInv
  <2>5. \A i \in 1..n : delivered[i] < k
    <3> SUFFICES ASSUME NEW i \in 1..n, ~(delivered[i] < k) PROVE FALSE
      OBVIOUS
    <3> DEFINE d == delivered[i]
    <3>1. d \in DOMAIN frames /\ d \in Nat /\ End(d) <= consumed /\ End(d) \in Nat
          /\ starts[d] < End(d) /\ starts[d] \in Nat
      BY <2>1, <2>4, Offsets
    <3> HIDE DEF d
    <3>2. d # k
      BY <2>2, <3>1
    <3>3. CASE k < d
      <4>1. End(k) <= starts[d]
        BY <3>1, <3>3 DEF StreamInv
      <4> QED
        BY <2>2, <3>1, <4>1, FramingAssumption, Offsets
    <3> QED
      BY <2>2, <3>1, <3>2, <3>3 DEF d
  <2>6. ASSUME NEW i \in 1..(n + 1)
        PROVE  \A d : d = delivered'[i] =>
                 /\ d \in DOMAIN frames /\ End(d) <= received
                 /\ i \in 1..n => End(d) <= consumed
                 /\ i = n + 1 => d = k
    <3>1. CASE i \in 1..n
      BY <2>1, <2>2, <2>3, <2>4, <3>1
    <3>2. CASE i = n + 1
      BY <2>1, <2>2, <3>2
    <3> QED
      BY <3>1, <3>2
  <2>7. ASSUME NEW i \in 1..(n + 1), NEW j \in 1..(n + 1), i < j
        PROVE  delivered'[i] < delivered'[j]
    <3>1. i \in 1..n
      BY <2>7
    <3>2. CASE j \in 1..n
      BY <2>1, <2>7, <3>1, <3>2 DEF OnceInOrder
    <3>3. CASE j = n + 1
      BY <2>1, <2>5, <3>1, <3>3
    <3> QED
      BY <3>2, <3>3
  <2>8. LeftInv'
    <3> SUFFICES ASSUME status' # "stopped", NEW i \in 1..(n + 1)
                 PROVE  \A d : d = delivered'[i] => End(d) <= consumed'
      BY <2>1 DEF LeftInv, End, Size
    <3>1. consumed' = End(k)
      BY <1>2, <2>2 DEF Process, Whole
    <3> QED
      BY <2>2, <2>3, <2>6, <3>1
  <2>9. \A i \in DOMAIN delivered' :
          delivered'[i] \in DOMAIN frames' /\ End(delivered[i])' <= received'
    BY <2>1, <2>6 DEF End, Size
  <2> QED
    BY <2>1, <2>7, <2>8, <2>9 DEF OnceInOrder
<1>3. CASE Renewed
  BY <1>3 DEF Renewed, Fresh, OnceInOrder, LeftInv
<1>4. ASSUME UNCHANGED <<stream, delivered>>, received' >= received,
             consumed' >= consumed, status' # "stopped" => status # "stopped"
      PROVE  OnceInOrder' /\ LeftInv'
  <2>1. /\ \A k \in DOMAIN frames : End(k)' = End(k) /\ End(k) \in Nat
        /\ frames' = frames /\ delivered' = delivered
    BY <1>4, Offsets DEF stream, End, Size
  <2>2. received \in Nat /\ consumed \in Nat /\ received' \in Nat /\ consumed' \in Nat
    BY TypeStep DEF TypeOK
  <2> QED
    BY <1>4, <2>1, <2>2 DEF OnceInOrder, LeftInv
<1>5. CASE Receive \/ NeedMore \/ BadMagic
  BY <1>4, <1>5, TypeStep
        DEF Receive, NeedMore, BadMagic, TypeOK, stream, Next, Iterate,
            Reconnect, ListenerReconnects, Renewed
<1>6. ASSUME NEW k \in DOMAIN frames, Undecodable(k) PROVE OnceInOrder' /\ LeftInv'
  BY <1>4, <1>6, FramingAssumption DEF Undecodable, Whole, TypeOK, stream
<1>7. CASE UNCHANGED vars
  BY <1>4, <1>7 DEF vars, TypeOK
<1> QED
  BY <1>1, <1>2, <1>3, <1>5, <1>6, <1>7
     DEF Next, Iterate, Reconnect, ListenerReconnects, Renewed

LEMMA OrderAlways == Spec => [](OnceInOrder /\ LeftInv)
<1>1. Init => OnceInOrder /\ LeftInv
  BY DEF Init, OnceInOrder, LeftInv
<1>2. TypeOK /\ StreamInv /\ (OnceInOrder /\ LeftInv) /\ [Next]_vars
        => (OnceInOrder /\ LeftInv)'
  BY OrderStep
<1> QED
  BY <1>1, <1>2, StreamAlways, Typed, PTL DEF Spec

-----------------------------------------------------------------------------
(***************************************************************************)
(* A client that does not go on behind a wrong frame, or has met none,     *)
(* implements the channel: what is at the front of the buffer is always    *)
(* the frame that follows the last one passed on.                          *)
(***************************************************************************)

InStep == dialect # "rust" \/ ~errors

ChannelInv ==
  /\ Len(delivered) <= Len(frames)
  /\ \A i \in DOMAIN delivered : delivered[i] = i
  /\ status # "stopped" =>
       /\ Len(delivered) < Len(frames) => consumed = starts[Len(delivered) + 1]
       /\ Len(delivered) = Len(frames) => consumed = total

LEMMA NextIsFront ==
  ASSUME TypeOK, StreamInv, ChannelInv, status # "stopped", NEW k \in Front
  PROVE  k = Len(delivered) + 1
<1>1. /\ k \in DOMAIN frames /\ starts[k] = consumed
      /\ starts[k] < End(k) /\ End(k) <= total
      /\ starts[k] \in Nat /\ End(k) \in Nat /\ total \in Nat
  BY Offsets DEF Front, StreamInv, TypeOK
<1>2. Len(delivered) < Len(frames)
  <2>1. Len(delivered) # Len(frames)
    BY <1>1 DEF ChannelInv
  <2> QED
    BY <2>1 DEF ChannelInv, TypeOK
<1>3. Len(delivered) + 1 \in Front
  BY <1>2 DEF ChannelInv, Front, TypeOK
<1> QED
  BY <1>3, OneFront

LEMMA ProcessNext ==
  ASSUME TypeOK, StreamInv, ChannelInv, NEW k \in DOMAIN frames, Process(k)
  PROVE  k = Len(delivered) + 1 /\ delivered' = Append(delivered, k)
BY NextIsFront DEF Process, Whole

LEMMA ChannelInvStep ==
  ASSUME TypeOK, StreamInv, ChannelInv, [Next]_vars, InStep'
  PROVE  ChannelInv'
<1>1. ASSUME NEW f \in Kinds, Send(f) PROVE ChannelInv'
  <2>n. PICK n \in Nat, m \in Nat : n = Len(frames) /\ m = Len(delivered)
    BY DEF TypeOK
  <2>1. /\ Len(frames') = n + 1 /\ Len(delivered') = m /\ delivered' = delivered
        /\ \A j \in 1..n : starts'[j] = starts[j]
        /\ starts'[n + 1] = total
        /\ UNCHANGED <<consumed, status>>
    BY <1>1, <2>n DEF Send, TypeOK
  <2>2. /\ m <= n
        /\ status # "stopped" => /\ m < n => consumed = starts[m + 1]
                                 /\ m = n => consumed = total
    BY <2>n DEF ChannelInv
  <2>3. status # "stopped" => consumed = starts'[m + 1]
    <3>1. CASE m < n
      BY <2>1, <2>2, <3>1
    <3>2. CASE m = n
      BY <2>1, <2>2, <3>2
    <3> QED
      BY <2>2, <3>1, <3>2
  <2> QED
    BY <2>1, <2>2, <2>3 DEF ChannelInv
<1>2. ASSUME NEW k \in DOMAIN frames, Process(k) PROVE ChannelInv'
  <2>n. PICK n \in Nat, m \in Nat : n = Len(frames) /\ m = Len(delivered)
    BY DEF TypeOK
  <2>1. k = m + 1 /\ k \in 1..n /\ delivered' = Append(delivered, k)
    BY <1>2, <2>n, ProcessNext DEF TypeOK
  <2>2. /\ Len(delivered') = m + 1 /\ DOMAIN delivered' = 1..(m + 1)
        /\ DOMAIN delivered = 1..m
        /\ \A i \in 1..m : delivered'[i] = delivered[i]
        /\ delivered'[m + 1] = m + 1
    BY <2>n, <2>1 DEF TypeOK
  <2>3. \A i \in DOMAIN delivered' : delivered'[i] = i
    BY <2>2 DEF ChannelInv
  <2>4. /\ UNCHANGED <<frames, starts, total>>
        /\ status' # "stopped" => consumed' = starts[k] + Size(k)
    BY <1>2 DEF Process, Whole, Front, stream
  <2>5. status' # "stopped" => consumed' = End(k)
    BY <2>4 DEF End
  <2>6. k < n => starts[k + 1] = End(k)
    <3>1. DOMAIN frames = 1..n
      BY <2>n DEF TypeOK
    <3> QED
      BY <2>1, <3>1 DEF StreamInv
  <2>7. k = n => End(k) = total
    <3>1. frames # <<>>
      BY <2>n, <2>1
    <3> QED
      BY <2>n, <3>1 DEF StreamInv
  <2> QED
    BY <2>n, <2>1, <2>2, <2>3, <2>4, <2>5, <2>6, <2>7 DEF ChannelInv
<1>3. ASSUME NEW k \in DOMAIN frames, Undecodable(k) PROVE ChannelInv'
  <2>1. dialect # "rust"
    BY <1>3 DEF Undecodable, InStep
  <2> QED
    BY <1>3, <2>1 DEF Undecodable, ChannelInv, stream
<1>4. CASE BadMagic
  <2>1. dialect # "rust"
    BY <1>4 DEF BadMagic, InStep
  <2> QED
    BY <1>4, <2>1 DEF BadMagic, ChannelInv, stream
<1>5. CASE Receive \/ NeedMore \/ UNCHANGED vars
  BY <1>5 DEF Receive, NeedMore, vars, stream, ChannelInv
<1>6. CASE Renewed
  BY <1>6 DEF Renewed, Fresh, ChannelInv
<1> QED
  BY <1>1, <1>2, <1>3, <1>4, <1>5, <1>6
     DEF Next, Iterate, Reconnect, ListenerReconnects, Renewed

\* A client gets out of step by an error only, and into step by a new connection.
LEMMA InStepStep ==
  ASSUME TypeOK, StreamInv, InStep => ChannelInv, [Next]_vars
  PROVE  (InStep => ChannelInv)'
<1> SUFFICES ASSUME InStep' PROVE ChannelInv'
  OBVIOUS
<1>1. CASE Renewed
  BY <1>1 DEF Renewed, Fresh, ChannelInv
<1>2. CASE ~Renewed
  <2>1. ASSUME ~InStep PROVE FALSE
    BY <1>2, <2>1
       DEF InStep, Next, Iterate, Reconnect, ListenerReconnects, Renewed, Send,
           Receive, NeedMore, BadMagic,
                      Undecodable, Process, vars, stream
  <2> QED
    BY <2>1, ChannelInvStep
<1> QED
  BY <1>1, <1>2

LEMMA InStepAlways == Spec => [](InStep => ChannelInv)
<1>1. Init => (InStep => ChannelInv)
  BY DEF Init, ChannelInv
<1> QED
  BY <1>1, InStepStep, StreamAlways, Typed, PTL DEF Spec

\* What is passed on next is behind everything that was passed on.
LEMMA ProcessOrder ==
  ASSUME TypeOK, StreamInv, OnceInOrder, LeftInv, [Next]_vars,
         NEW k \in DOMAIN frames, Process(k)
  PROVE  \A i \in DOMAIN delivered : delivered[i] < k
<1>n. PICK n \in Nat : n = Len(delivered)
  BY DEF TypeOK
<1>1. /\ DOMAIN delivered = 1..n /\ DOMAIN delivered' = 1..(n + 1)
      /\ \A i \in 1..n : delivered'[i] = delivered[i]
      /\ delivered'[n + 1] = k
  BY <1>n DEF Process, TypeOK
<1>2. \A i, j \in 1..(n + 1) : i < j => delivered'[i] < delivered'[j]
  BY <1>1, OrderStep DEF OnceInOrder
<1>3. \A i \in 1..n : i \in 1..(n + 1) /\ n + 1 \in 1..(n + 1) /\ i < n + 1
  OBVIOUS
<1> QED
  BY <1>1, <1>2, <1>3

LEMMA ChannelStep ==
  ASSUME TypeOK, StreamInv, InStep => ChannelInv, OnceInOrder, LeftInv, [Next]_vars
  PROVE  [Channel!Next]_<<Len(frames), delivered, errors>>
<1>1. ASSUME NEW f \in Kinds, Send(f) PROVE Channel!Send
  BY <1>1 DEF Send, TypeOK, Channel!Send
<1>2. ASSUME NEW k \in DOMAIN frames, Process(k) PROVE Channel!Deliver
  <2>1. delivered' = Append(delivered, k) /\ frames' = frames
    BY <1>2 DEF Process, stream
  <2>2. errors' = errors \/ errors' = TRUE
    BY <1>2 DEF Process
  <2>3. ~errors => k = Len(delivered) + 1
    BY <1>2, ProcessNext DEF InStep
  <2>4. \A i \in DOMAIN delivered : delivered[i] < k
    BY <1>2, ProcessOrder
  <2>5. k \in 1..Len(frames) /\ Len(frames') = Len(frames)
    BY <2>1 DEF TypeOK
  <2> QED
    BY <2>1, <2>2, <2>3, <2>4, <2>5 DEF Channel!Deliver
<1>3. ASSUME Renewed PROVE Channel!Replace
  <2>1. frames' = <<>> /\ delivered' = <<>> /\ errors' = FALSE
    BY <1>3 DEF Renewed, Fresh
  <2>2. Len(frames') = 0
    BY <2>1
  <2> QED
    BY <2>1, <2>2 DEF Channel!Replace
<1>4. CASE UNCHANGED <<frames, delivered, errors>>
  BY <1>4
<1>5. CASE BadMagic \/ \E k \in DOMAIN frames : Undecodable(k)
  BY <1>5 DEF BadMagic, Undecodable, stream, Channel!Next, Channel!Break
<1> QED
  BY <1>1, <1>2, <1>3, <1>4, <1>5
        DEF Next, Iterate, Reconnect, ListenerReconnects, Renewed, Receive,
            NeedMore, vars, stream, Channel!Next

(***************************************************************************)
(* Every client passes the frames on as the channel promises, whatever is  *)
(* wrong in the stream.                                                    *)
(***************************************************************************)
THEOREM ImplementsChannel == Spec => ChannelSpec
<1> SUFFICES Spec => Channel!Spec
  BY DEF ChannelSpec
<1>1. Init => Channel!Init
  BY DEF Init, Channel!Init
<1>2. TypeOK /\ StreamInv /\ (InStep => ChannelInv) /\ (OnceInOrder /\ LeftInv)
        /\ [Next]_vars
        => [Channel!Next]_<<Len(frames), delivered, errors>>
  BY ChannelStep
<1> QED
  BY <1>1, <1>2, InStepAlways, OrderAlways, StreamAlways, Typed, PTL
     DEF Spec, Channel!Spec

(***************************************************************************)
(* What has arrived and has only good frames before it has been passed on  *)
(* when a client that is in step waits for more.                           *)
(***************************************************************************)
THEOREM GoodFramesArrive == Spec => [](InStep => GoodPrefixDelivered)
<1>1. TypeOK /\ StreamInv /\ ChannelInv /\ NoWholeFrameWaits => GoodPrefixDelivered
  <2> SUFFICES ASSUME TypeOK, StreamInv, ChannelInv, NoWholeFrameWaits,
                      status = "reading", NEW k \in DOMAIN frames,
                      End(k) <= received, \A j \in 1..k : Good(j)
               PROVE  k <= Len(delivered) /\ delivered[k] = k
    BY DEF GoodPrefixDelivered
  <2>n. PICK m \in Nat : m = Len(delivered)
    BY DEF TypeOK
  <2>0. k \in Nat /\ k >= 1 /\ k <= Len(frames) /\ Len(frames) \in Nat
    BY DEF TypeOK
  <2>1. ASSUME m < k PROVE FALSE
    <3>1. m + 1 \in Front /\ frames[m + 1].fault # "magic"
      <4>1. m + 1 \in 1..k /\ m + 1 \in DOMAIN frames /\ m < Len(frames)
        BY <2>0, <2>1 DEF TypeOK
      <4>2. consumed = starts[m + 1]
        BY <2>n, <4>1 DEF ChannelInv
      <4> QED
        BY <4>1, <4>2 DEF Front, Good
    <3>2. End(m + 1) > received
      BY <3>1 DEF NoWholeFrameWaits
    <3>3. /\ m + 1 \in DOMAIN frames /\ End(m + 1) \in Nat
          /\ starts[k] < End(k) /\ starts[k] \in Nat /\ End(k) \in Nat
          /\ received \in Nat
      <4>1. m + 1 \in DOMAIN frames
        BY <3>1 DEF Front
      <4>2. End(m + 1) \in Nat
        BY <4>1, Offsets
      <4>3. starts[k] < End(k) /\ starts[k] \in Nat /\ End(k) \in Nat
        BY Offsets
      <4>4. received \in Nat
        BY DEF TypeOK
      <4> QED
        BY <4>1, <4>2, <4>3, <4>4
    <3>4. CASE m + 1 = k
      BY <3>2, <3>3, <3>4
    <3>5. CASE m + 1 < k
      BY <3>2, <3>3, <3>5 DEF StreamInv
    <3> QED
      BY <2>0, <2>1, <3>4, <3>5
  <2> QED
    BY <2>n, <2>0, <2>1 DEF ChannelInv, TypeOK
<1> QED
  BY <1>1, InStepAlways, NothingHeldBack, StreamAlways, Typed, PTL

-----------------------------------------------------------------------------
(* What an error ends, and what is not lost without one. *)

\* A client stops at the last frame of its connection.
StopInv ==
  \A i \in DOMAIN delivered :
    Final(delivered[i]) => status = "stopped" /\ i = Len(delivered)

LEMMA StopStep ==
  ASSUME TypeOK, OnceInOrder, StopInv, [Next]_vars
  PROVE  StopInv'
<1>0. CASE Renewed
  BY <1>0 DEF Renewed, Fresh, StopInv
<1>1. ASSUME NEW f \in Kinds, Send(f) PROVE StopInv'
  <2>1. /\ UNCHANGED <<delivered, dialect, status>>
        /\ \A k \in DOMAIN frames : frames'[k] = frames[k]
    BY <1>1 DEF Send, TypeOK
  <2>2. \A i \in DOMAIN delivered : delivered[i] \in DOMAIN frames
    BY DEF OnceInOrder
  <2> QED
    BY <2>1, <2>2 DEF StopInv, Final
<1>2. ASSUME NEW k \in DOMAIN frames, Process(k) PROVE StopInv'
  <2>n. PICK m \in Nat : m = Len(delivered)
    BY DEF TypeOK
  <2>1. /\ DOMAIN delivered = 1..m /\ DOMAIN delivered' = 1..(m + 1)
        /\ \A i \in 1..m : delivered'[i] = delivered[i]
        /\ delivered'[m + 1] = k /\ Len(delivered') = m + 1
    BY <1>2, <2>n DEF Process, TypeOK
  <2>2. UNCHANGED <<frames, dialect>> /\ status = "looping"
    BY <1>2 DEF Process, Whole, stream
  <2>3. \A i \in 1..m : ~Final(delivered[i])
    BY <2>1, <2>2 DEF StopInv
  <2>4. Final(k) => status' = "stopped"
    BY <1>2 DEF Process, Whole, Decodes, Final
  <2>5. ASSUME NEW i \in 1..(m + 1), Final(delivered'[i])
        PROVE  status' = "stopped" /\ i = m + 1
    <3>1. CASE i \in 1..m
      BY <2>1, <2>3, <2>5, <3>1
    <3>2. CASE i = m + 1
      BY <2>1, <2>4, <2>5, <3>2
    <3> QED
      BY <3>1, <3>2
  <2>6. \A i : Final(delivered[i])' <=> Final(delivered'[i])
    BY <2>2 DEF Final
  <2> QED
    BY <2>1, <2>5, <2>6 DEF StopInv
<1>3. CASE UNCHANGED <<dialect, frames, delivered>> /\ (status = "stopped" => status' = "stopped")
  BY <1>3 DEF StopInv, Final
<1> QED
  BY <1>0, <1>1, <1>2, <1>3
     DEF Next, Iterate, Reconnect, ListenerReconnects, Renewed, Receive,
         NeedMore, BadMagic, Undecodable, Whole, vars, stream

(***************************************************************************)
(* No client passes on what is behind the frame that ends its connection,  *)
(* although the Python client keeps such a frame, and what follows it, in  *)
(* its buffer and may go on to read.                                       *)
(***************************************************************************)
THEOREM CorruptionStops == Spec => []NothingPassesCorruption
<1>1. Init => StopInv
  BY DEF Init, StopInv
<1>2. TypeOK /\ (InStep => ChannelInv) /\ StopInv => NothingPassesCorruption
  <2> SUFFICES ASSUME TypeOK, InStep => ChannelInv, StopInv,
                      NEW i \in DOMAIN delivered, NEW j \in 1..(delivered[i] - 1), Final(j)
               PROVE  FALSE
    BY DEF NothingPassesCorruption
  <2>n. PICK m \in Nat : m = Len(delivered)
    BY DEF TypeOK
  <2>1. dialect # "rust"
    BY DEF Final
  <2>0. DOMAIN delivered = 1..m
    BY <2>n DEF TypeOK
  <2>c. \A k \in DOMAIN delivered : delivered[k] = k
    BY <2>1 DEF InStep, ChannelInv
  <2>2. DOMAIN delivered = 1..m /\ \A k \in 1..m : delivered[k] = k
    BY <2>0, <2>c
  <2>3. j \in 1..m /\ j < m
    BY <2>2
  <2>4. delivered[j] = j
    BY <2>2, <2>3
  <2> QED
    BY <2>n, <2>2, <2>3, <2>4 DEF StopInv
<1> QED
  BY <1>1, <1>2, StopStep, InStepAlways, OrderAlways, Typed, PTL DEF Spec

\* A client that waits, and has seen no error, has no whole frame at the front of
\* its buffer, not even a wrong one.
WaitInv ==
  (status = "reading" /\ ~errors) => \A k \in Front : End(k) > received

LEMMA WaitInvStep ==
  ASSUME TypeOK, StreamInv, WaitInv, [Next]_vars
  PROVE  WaitInv'
<1> SUFFICES ASSUME status' = "reading", ~errors', NEW k \in Front'
             PROVE  End(k)' > received'
  BY DEF WaitInv
<1>1. CASE NeedMore
  <2>1. UNCHANGED <<frames, starts, consumed, received>>
    BY <1>1 DEF NeedMore, stream
  <2>2. k \in Front /\ End(k)' = End(k)
    BY <2>1 DEF Front, End, Size
  <2>3. /\ starts[k] = consumed /\ End(k) = consumed + Size(k)
        /\ Size(k) \in Nat /\ HeaderSize <= Size(k)
        /\ received \in Nat /\ consumed \in Nat
    BY <2>2, Offsets DEF Front, TypeOK
  <2>4. Buffered < Size(k)
    <3>1. CASE Buffered < HeaderSize
      BY <2>3, <3>1, FramingAssumption DEF Buffered
    <3>2. CASE \E j \in Front : Buffered < Size(j)
      BY <2>2, <3>2, OneFront
    <3> QED
      BY <1>1, <3>1, <3>2 DEF NeedMore
  <2> QED
    BY <2>1, <2>2, <2>3, <2>4 DEF Buffered
<1>2. ASSUME NEW f \in Kinds, Send(f) PROVE End(k)' > received'
  <2>n. PICK n \in Nat : n = Len(frames)
    BY DEF TypeOK
  <2>1. /\ DOMAIN frames = 1..n
        /\ frames' = Append(frames, f) /\ starts' = Append(starts, total)
        /\ frames \in Seq(Kinds) /\ starts \in Seq(Nat) /\ Len(starts) = n
        /\ received' = received /\ received \in 0..total /\ total \in Nat
        /\ consumed' = consumed /\ status = "reading" /\ ~errors
    BY <1>2, <2>n DEF Send, TypeOK
  <2>2. /\ \A j \in 1..n : frames'[j] = frames[j] /\ starts'[j] = starts[j]
        /\ frames'[n + 1] = f /\ starts'[n + 1] = total
        /\ DOMAIN frames' = 1..(n + 1)
    BY <2>n, <2>1
  <2>3. CASE k \in 1..n
    <3>1. k \in Front /\ End(k)' = End(k)
      BY <2>1, <2>2, <2>3 DEF Front, End, Size
    <3> QED
      BY <2>1, <3>1 DEF WaitInv
  <2>4. CASE k = n + 1
    <3>1. End(k)' = total + (HeaderSize + f.len) /\ f.len \in Nat
      BY <2>2, <2>4, KindFields DEF End, Size
    <3> QED
      BY <2>1, <3>1, FramingAssumption
  <2> QED
    BY <2>2, <2>3, <2>4 DEF Front
<1>3. CASE Renewed
  BY <1>3 DEF Renewed, Fresh, Front
<1>4. CASE UNCHANGED vars
  BY <1>4 DEF vars, stream, WaitInv, Front, End, Size
<1> QED
  BY <1>1, <1>2, <1>3, <1>4
     DEF Next, Iterate, Reconnect, ListenerReconnects, Renewed, Receive,
         BadMagic, Undecodable, Process, Whole

LEMMA WaitAlways == Spec => []WaitInv
<1>1. Init => WaitInv
  BY DEF Init, WaitInv, Front
<1> QED
  BY <1>1, WaitInvStep, StreamAlways, Typed, PTL DEF Spec

(***************************************************************************)
(* Without an error everything that has arrived has been passed on when    *)
(* the client waits: a frame is lost with an error only.                   *)
(***************************************************************************)
THEOREM NothingLostInSilence == Spec => []NoSilentLoss
<1>1. TypeOK /\ StreamInv /\ (InStep => ChannelInv) /\ WaitInv => NoSilentLoss
  <2> SUFFICES ASSUME TypeOK, StreamInv, InStep => ChannelInv, WaitInv,
                      status = "reading", ~errors,
                      NEW k \in DOMAIN frames, End(k) <= received
               PROVE  \E i \in DOMAIN delivered : delivered[i] = k
    BY DEF NoSilentLoss
  <2>n. PICK m \in Nat : m = Len(delivered)
    BY DEF TypeOK
  <2>0. /\ ChannelInv /\ k \in Nat /\ k >= 1 /\ k <= Len(frames)
        /\ Len(frames) \in Nat /\ DOMAIN delivered = 1..m
    BY <2>n DEF InStep, TypeOK
  <2>1. ASSUME m < k PROVE FALSE
    <3>1. m + 1 \in DOMAIN frames /\ m < Len(frames)
      BY <2>0, <2>1 DEF TypeOK
    <3>2. m + 1 \in Front
      BY <2>n, <2>0, <3>1 DEF ChannelInv, Front
    <3>3. End(m + 1) > received
      BY <3>2 DEF WaitInv
    <3>4. /\ End(m + 1) \in Nat /\ received \in Nat
          /\ starts[k] < End(k) /\ starts[k] \in Nat /\ End(k) \in Nat
      <4>1. End(m + 1) \in Nat
        BY <3>1, Offsets
      <4>2. starts[k] < End(k) /\ starts[k] \in Nat /\ End(k) \in Nat
        BY Offsets
      <4>3. received \in Nat
        BY DEF TypeOK
      <4> QED
        BY <4>1, <4>2, <4>3
    <3>5. CASE m + 1 = k
      BY <3>3, <3>4, <3>5
    <3>6. CASE m + 1 < k
      BY <3>1, <3>3, <3>4, <3>6 DEF StreamInv
    <3> QED
      BY <2>0, <2>1, <3>5, <3>6
  <2> QED
    BY <2>0, <2>1 DEF ChannelInv
<1> QED
  BY <1>1, WaitAlways, InStepAlways, StreamAlways, Typed, PTL

=============================================================================
