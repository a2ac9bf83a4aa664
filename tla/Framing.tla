------------------------------ MODULE Framing -------------------------------
(***************************************************************************)
(* How the three clients cut the byte stream of a connection into frames:  *)
(* handleData, _handle_data and handle_data.  A read appends an arbitrary  *)
(* piece of the stream to a buffer, and a loop takes whole frames off its  *)
(* front.                                                                  *)
(*                                                                         *)
(* The bytes themselves are not modelled.  The buffer is the part of the   *)
(* stream from offset consumed to offset received; what stands at its      *)
(* front is known from the offsets at which the frames start.  Bytes that  *)
(* are not at such an offset do not look like a magic number.              *)
(*                                                                         *)
(* The clients differ in what they do with a frame that is wrong:          *)
(*                                                                         *)
(*                magic number         unknown type    version or kind     *)
(*   TypeScript   closes the socket    passes it on    passes it on        *)
(*   Python       closes the writer    stops reading   passes it on        *)
(*   Rust         clears the buffer    skips the header, and no more       *)
(***************************************************************************)
EXTENDS Integers, Sequences

CONSTANTS
  HeaderSize,   \* HEADER_SIZE
  Lengths,      \* the payload lengths the server uses
  MaxFrames     \* bound: frames sent on one connection

ASSUME FramingAssumption ==
  /\ HeaderSize \in Nat \ {0}
  /\ Lengths \subseteq Nat
  /\ MaxFrames \in Nat

VARIABLES
  dialect,     \* which client
  frames,      \* what the server has sent on this connection
  starts,      \* the offset of the first byte of each frame
  total,       \* the offset behind the last frame
  received,    \* the offset behind the last byte that was read
  consumed,    \* the offset of the first byte of the buffer
  status,      \* "reading", "looping" over the buffer, or "stopped"
  delivered,   \* the numbers of the frames that were passed to callbacks
  errors       \* TRUE iff an error was emitted on this connection

stream == <<frames, starts, total>>
vars == <<dialect, stream, received, consumed, status, delivered, errors>>

\* What is wrong with a frame: its magic number; its type, or its version or
\* kind, is unknown; a payload that should be text is not UTF-8.  A client acts
\* on the first fault it meets, so that one is enough.
Faults == {"none", "magic", "type", "version", "text"}

Kinds == [len : Lengths, fault : Faults]

Init ==
  /\ dialect \in {"ts", "python", "rust"}
  /\ frames = <<>> /\ starts = <<>> /\ total = 0
  /\ received = 0 /\ consumed = 0
  /\ status = "reading"
  /\ delivered = <<>>
  /\ errors = FALSE

Buffered == received - consumed

\* The frame whose first byte is at the front of the buffer.
Front == {k \in DOMAIN frames : starts[k] = consumed}

Size(k) == HeaderSize + frames[k].len
End(k) == starts[k] + Size(k)

-----------------------------------------------------------------------------

\* The server sends a frame.
Send(f) ==
  /\ Len(frames) < MaxFrames
  /\ frames' = Append(frames, f)
  /\ starts' = Append(starts, total)
  /\ total' = total + HeaderSize + f.len
  /\ UNCHANGED <<dialect, received, consumed, status, delivered, errors>>

\* A read returns the next bytes of the stream, as many as it likes.
Receive ==
  /\ status = "reading"
  /\ received' \in (received + 1)..total
  /\ status' = "looping"
  /\ UNCHANGED <<dialect, stream, consumed, delivered, errors>>

\* The rest of the header, or of the payload, is still to come.
NeedMore ==
  /\ status = "looping"
  /\ \/ Buffered < HeaderSize
     \/ \E k \in Front : frames[k].fault # "magic" /\ Buffered < Size(k)
  /\ status' = "reading"
  /\ UNCHANGED <<dialect, stream, received, consumed, delivered, errors>>

\* A plausible bug: every client empties its buffer and goes on.
BugBadMagicIsSkipped ==
  /\ status = "looping" /\ Buffered >= HeaderSize
  /\ \A k \in Front : frames[k].fault = "magic"
  /\ status' = "reading" /\ consumed' = received /\ errors' = TRUE
  /\ UNCHANGED <<dialect, stream, received, delivered>>

\* A plausible bug: nobody is told.
BugBadMagicIsSilent ==
  /\ status = "looping" /\ Buffered >= HeaderSize
  /\ \A k \in Front : frames[k].fault = "magic"
  /\ status' = "reading" /\ consumed' = received
  /\ UNCHANGED <<dialect, stream, received, delivered, errors>>

\* The buffer does not begin with the magic number.
BadMagic ==
  /\ status = "looping"
  /\ Buffered >= HeaderSize
  /\ \A k \in Front : frames[k].fault = "magic"
  /\ errors' = TRUE
  /\ \/ dialect = "ts" /\ status' = "stopped" /\ UNCHANGED consumed
     \/ dialect = "python" /\ status' = "reading" /\ UNCHANGED consumed
     \/ dialect = "rust" /\ status' = "reading" /\ consumed' = received
  /\ UNCHANGED <<dialect, stream, received, delivered>>

\* A whole frame is at the front of the buffer.
Whole(k) ==
  /\ status = "looping"
  /\ k \in Front
  /\ frames[k].fault # "magic"
  /\ Buffered >= Size(k)

\* The header can be decoded: Python looks at the type, Rust at all of it.
Decodes(k) ==
  /\ frames[k].fault = "type" => dialect = "ts"
  /\ frames[k].fault = "version" => dialect # "rust"

\* The header cannot be decoded: Rust drops the header and not the payload, in
\* Python the exception ends the loop that reads.
Undecodable(k) ==
  /\ Whole(k) /\ ~Decodes(k)
  /\ errors' = TRUE
  /\ \/ dialect = "python" /\ status' = "stopped" /\ UNCHANGED consumed
     \/ dialect = "rust" /\ consumed' = consumed + HeaderSize /\ UNCHANGED status
  /\ UNCHANGED <<dialect, stream, received, delivered>>

\* Plausible bugs: the frame stays in the buffer; one frame is taken per read.
BugProcessKeepsFrame(k) ==
  /\ Whole(k) /\ Decodes(k)
  /\ delivered' = Append(delivered, k)
  /\ UNCHANGED <<dialect, stream, received, consumed, status, errors>>

BugProcessOncePerRead(k) ==
  /\ Whole(k) /\ Decodes(k)
  /\ delivered' = Append(delivered, k)
  /\ consumed' = consumed + Size(k)
  /\ status' = "reading"
  /\ UNCHANGED <<dialect, stream, received, errors>>

\* The frame goes to the callbacks and leaves the buffer.  In Python a text that
\* is not UTF-8 raises an exception in between.
Process(k) ==
  /\ Whole(k) /\ Decodes(k)
  /\ delivered' = Append(delivered, k)
  /\ \/ /\ dialect = "python" /\ frames[k].fault = "text"
        /\ status' = "stopped" /\ errors' = TRUE
        /\ UNCHANGED consumed
     \/ /\ dialect # "python" \/ frames[k].fault # "text"
        /\ consumed' = consumed + Size(k)
        /\ UNCHANGED <<status, errors>>
  /\ UNCHANGED <<dialect, stream, received>>

\* There is a new connection, with an empty buffer.
Fresh(state) ==
  /\ frames' = <<>> /\ starts' = <<>> /\ total' = 0
  /\ received' = 0 /\ consumed' = 0
  /\ status' = state
  /\ delivered' = <<>>
  /\ errors' = FALSE
  /\ UNCHANGED dialect

\* The connection is lost, or given up, and a new one made.
Reconnect == Fresh("reading")

\* A plausible bug: what is behind the frame is put into the new buffer.
BugListenerReconnectsWithRest(k) ==
  /\ Whole(k) /\ dialect = "ts"
  /\ frames' = <<>> /\ starts' = <<>> /\ total' = 0
  /\ received' = 0 /\ consumed' = End(k) - received
  /\ status' = "looping" /\ delivered' = <<>> /\ errors' = FALSE
  /\ UNCHANGED dialect

\* In TypeScript a listener may do so while it gets a frame: the loop then cuts
\* the frame off a buffer that is new and empty, and goes on with that.
ListenerReconnects(k) ==
  /\ Whole(k) /\ dialect = "ts"
  /\ Fresh("looping")

Iterate ==
  \/ NeedMore
  \/ BadMagic
  \/ \E k \in DOMAIN frames : Undecodable(k) \/ Process(k) \/ ListenerReconnects(k)

Next ==
  \/ \E f \in Kinds : Send(f)
  \/ Receive
  \/ Iterate
  \/ Reconnect

Spec == Init /\ [][Next]_vars

\* The network delivers what was sent, and a loop that runs goes on.
FairSpec == Spec /\ WF_vars(Receive) /\ WF_vars(Iterate)

-----------------------------------------------------------------------------

TypeOK ==
  /\ dialect \in {"ts", "python", "rust"}
  /\ frames \in Seq(Kinds)
  /\ starts \in Seq(Nat) /\ Len(starts) = Len(frames)
  /\ total \in Nat /\ received \in 0..total /\ consumed \in 0..received
  /\ status \in {"reading", "looping", "stopped"}
  /\ delivered \in Seq(Nat)
  /\ errors \in BOOLEAN

\* The client has nothing to object to.
Good(k) ==
  /\ frames[k].fault # "magic" /\ Decodes(k)
  /\ frames[k].fault = "text" => dialect # "python"

(***************************************************************************)
(* However the stream was cut into pieces: when the client waits for more, *)
(* every frame that has arrived and has only good ones before it has been  *)
(* passed on, in its place.                                                *)
(***************************************************************************)
GoodPrefixDelivered ==
  status = "reading" =>
    \A k \in DOMAIN frames :
      (End(k) <= received /\ \A j \in 1..k : Good(j)) =>
        k <= Len(delivered) /\ delivered[k] = k

(***************************************************************************)
(* A client that waits does not have a whole frame at the front of its     *)
(* buffer: no frame is held back until the next one comes.                 *)
(***************************************************************************)
NoWholeFrameWaits ==
  status = "reading" =>
    \A k \in Front : frames[k].fault # "magic" => End(k) > received

\* Frames that are the last of their connection for the client.
Final(k) ==
  \/ frames[k].fault = "magic" /\ dialect # "rust"
  \/ frames[k].fault \in {"type", "text"} /\ dialect = "python"

(***************************************************************************)
(* What is behind a frame that ends the reading is not passed on, whether  *)
(* it was in the same read or comes later: the Python client keeps such a  *)
(* frame in its buffer and, at a wrong magic number, goes on to read.      *)
(***************************************************************************)
NothingPassesCorruption ==
  \A i \in DOMAIN delivered : \A j \in 1..(delivered[i] - 1) : ~Final(j)

(***************************************************************************)
(* No frame is lost in silence: without an error, what has arrived has     *)
(* been passed on.                                                         *)
(***************************************************************************)
NoSilentLoss ==
  (status = "reading" /\ ~errors) =>
    \A k \in DOMAIN frames : End(k) <= received =>
      \E i \in DOMAIN delivered : delivered[i] = k

Channel == INSTANCE FrameChannel WITH sent <- Len(frames), broken <- errors

\* The client implements the channel.
ChannelSpec == Channel!Spec

(***************************************************************************)
(* What the server sends arrives, if it is good and only good frames are   *)
(* before it, unless the connection is replaced.                           *)
(***************************************************************************)
EveryFrameArrives ==
  \A n \in 1..MaxFrames :
    (Len(frames) >= n /\ \A k \in 1..n : Good(k))
      ~> (Len(delivered) >= n \/ frames = <<>>)

=============================================================================
