------------------------------ MODULE Sending -------------------------------
(***************************************************************************)
(* A frame's way from a call of the program to the peer, in the three      *)
(* clients: subscribe, unsubscribe, publish, ping and the raw frames, the  *)
(* ping task of the Rust client, and what is between them and the socket.  *)
(* The module composes the identifiers (MsgId) and the bytes (Codec) with  *)
(* a connection that is made once and may be lost.                         *)
(*                                                                         *)
(*   Rust          the frame goes into a bounded channel; a call of the    *)
(*                 program fails when it is full, the ping task waits; the *)
(*                 write task takes frames off it and writes them          *)
(*   Python, TS    the frame goes into the buffer of the socket, which has *)
(*                 no bound, and the event loop writes it                  *)
(*                                                                         *)
(* How the flags of the client and its tasks get to know of a loss is in   *)
(* the life cycles; here the client notices some time later.               *)
(***************************************************************************)
EXTENDS MsgId, Codec

CONSTANTS
  Pinger,        \* the thread that runs the ping task of the Rust client
  Capacity,      \* what its channel holds: 100
  Subscribed,    \* the lengths of the topics the program subscribes to
  Published      \* and of those it publishes on

ASSUME SendingAssumption ==
  /\ Pinger \in Threads \ {Main}
  /\ Capacity \in Nat \ {0}
  /\ Subscribed \subseteq Nat /\ Published \subseteq Nat

VARIABLES
  socket,      \* "none", "open" or "lost"
  connected,   \* this.connected
  writing,     \* TRUE iff something takes frames off the queue
  call,        \* the call a thread is in
  drawn,       \* the identifier that was completed for it
  queue,       \* the channel, or the buffer of the socket
  wire,        \* bytes on their way to the peer
  accepted,    \* history: the calls that returned an identifier, with it
  got          \* history: the frames that the peer decoded

allVars ==
  <<vars, socket, connected, writing, call, drawn, queue, wire, accepted, got>>

\* What a thread asks for; a topic is known by its length.
Asked(type, flags, topic) == [type |-> type, flags |-> flags, topic |-> topic]

NoCall == Asked(0, 0, 0)
PingCall == Asked(FrameType.Ping, FrameFlags.None, 0)

\* One call of each kind, with each kind of flags.
ProgramCalls ==
     {Asked(FrameType.Subscribe, FrameFlags.AckRequired, n) : n \in Subscribed}
  \cup {Asked(FrameType.Unsubscribe, FrameFlags.None, n) : n \in Subscribed}
  \cup {Asked(FrameType.Publish, FrameFlags.Urgent, n) : n \in Published}
  \cup {PingCall}

Calls(t) == IF t = Pinger THEN {PingCall} ELSE ProgramCalls

Topic == [n \in Subscribed \cup Published \cup {0} |-> [i \in 1..n |-> i % Base]]
Text == <<Base - 1>>

LetThrough(c) == c.type = FrameType.Publish => TopicFits(client, Topic[c.topic])

Payload == [c \in ProgramCalls |->
  IF c.type = FrameType.Publish THEN PublishPayload(Topic[c.topic], Text)
                                ELSE Topic[c.topic]]

Frame(c, id) ==
  Encode([type |-> c.type, kind |-> MessageKind.Event, flags |-> c.flags,
          length |-> Len(Payload[c]), id |-> id]) \o Payload[c]

Busy(t) == call[t] # NoCall
HasIdentifier(t) == Busy(t) /\ pc[t] = "idle"

Room == client # "rust" \/ Len(queue) < Capacity

SendInit ==
  /\ Init
  /\ socket = "none" /\ connected = FALSE /\ writing = FALSE
  /\ call = [t \in Threads |-> NoCall]
  /\ drawn = [t \in Threads |-> 0]
  /\ queue = <<>> /\ wire = <<>>
  /\ accepted = <<>> /\ got = <<>>

-----------------------------------------------------------------------------
(* The connection. *)

Connect ==
  /\ socket = "none"
  /\ socket' = "open" /\ connected' = TRUE /\ writing' = TRUE
  /\ UNCHANGED <<vars, call, drawn, queue, wire, accepted, got>>

\* The network.  Of the bytes that are on their way some still arrive: the peer
\* may go on to read, and need not.
Lose ==
  /\ socket = "open"
  /\ socket' = "lost"
  /\ UNCHANGED <<vars, connected, writing, call, drawn, queue, wire, accepted, got>>

\* The client gets to know of it, or ends the session of its own accord, as
\* disconnect(), a HELLO that fails and a CLOSE frame do: the flag is cleared,
\* with the socket lost or open.  A client with one thread is not within a call.
Notice ==
  /\ connected
  /\ client = "rust" \/ ~Busy(Main)
  /\ connected' = FALSE
  /\ UNCHANGED <<vars, socket, writing, call, drawn, queue, wire, accepted, got>>

-----------------------------------------------------------------------------
(* A call. *)

\* It is let through while the client is connected, and takes its count.
Begin(t, c) ==
  /\ ~Busy(t)
  /\ LetThrough(c) /\ connected
  /\ Take(t)
  /\ call' = [call EXCEPT ![t] = c]
  /\ UNCHANGED <<socket, connected, writing, drawn, queue, wire, accepted, got>>

\* It reads the clock.
Complete(t) ==
  /\ Stamp(t)
  /\ drawn' = [drawn EXCEPT ![t] = Identifier(clock, count[t])]
  /\ UNCHANGED <<socket, connected, writing, call, queue, wire, accepted, got>>

Returns(t) ==
  /\ call' = [call EXCEPT ![t] = NoCall]
  /\ accepted' = Append(accepted, [asked |-> call[t], id |-> drawn[t]])
  /\ UNCHANGED <<vars, socket, connected, writing, drawn, wire, got>>

\* The frame is handed over, and the call returns its identifier.
HandOver(t) ==
  /\ HasIdentifier(t)
  /\ writing /\ Room
  /\ queue' = Append(queue, Frame(call[t], drawn[t]))
  /\ Returns(t)

\* Plausible bugs: that the channel is full is not looked at; a ping that waits is
\* not told that the channel closes.
BugDroppedIsAccepted(t) ==
  /\ HasIdentifier(t)
  /\ ~writing \/ (~Room /\ t # Pinger)
  /\ Returns(t)
  /\ UNCHANGED queue

BugDroppedNeverClosed(t) ==
  /\ HasIdentifier(t) /\ t # Pinger
  /\ ~writing \/ ~Room
  /\ call' = [call EXCEPT ![t] = NoCall]
  /\ UNCHANGED <<vars, socket, connected, writing, drawn, queue, wire, accepted, got>>

\* Nobody takes the frame: a Rust call fails, since the channel is full or
\* closed, the ping task waits for room; the other clients do not look.
Dropped(t) ==
  /\ HasIdentifier(t)
  /\ ~writing \/ (~Room /\ t # Pinger)
  /\ IF client = "rust"
     THEN /\ call' = [call EXCEPT ![t] = NoCall]
          /\ UNCHANGED <<vars, socket, connected, writing, drawn, wire, accepted, got>>
     ELSE Returns(t)
  /\ UNCHANGED queue

-----------------------------------------------------------------------------
(* The write task, or the event loop, and the peer. *)

Write ==
  /\ writing /\ queue # <<>>
  /\ socket = "open"
  /\ wire' = wire \o Head(queue)
  /\ queue' = Tail(queue)
  /\ UNCHANGED <<vars, socket, connected, writing, call, drawn, accepted, got>>

\* The socket is lost: the queue goes with it.
WriteFails ==
  /\ writing /\ socket = "lost"
  /\ writing' = FALSE
  /\ queue' = <<>>
  /\ UNCHANGED <<vars, socket, connected, call, drawn, wire, accepted, got>>

\* The peer reads with the same decoder.
PeerReads ==
  /\ Whole(wire) /\ Decodable(client, wire)
  /\ LET h == Decode(client, wire)
         end == HeaderSize + h.length
     IN  /\ got' = Append(got, [header |-> h,
                                payload |-> SubSeq(wire, HeaderSize + 1, end)])
         /\ wire' = SubSeq(wire, end + 1, Len(wire))
  /\ UNCHANGED <<vars, socket, connected, writing, call, drawn, queue, accepted>>

Clock ==
  /\ Tick \/ SetBack
  /\ UNCHANGED <<socket, connected, writing, call, drawn, queue, wire, accepted, got>>

SendNext ==
  \/ Connect \/ Lose \/ Notice
  \/ \E t \in Callers :
       \/ \E c \in Calls(t) : Begin(t, c)
       \/ Complete(t) \/ HandOver(t) \/ Dropped(t)
  \/ Write \/ WriteFails \/ PeerReads
  \/ Clock

SendSpec == SendInit /\ [][SendNext]_allVars

\* Threads run, the write task is scheduled, and the network delivers.
FairSendSpec ==
  /\ SendSpec
  /\ \A t \in Threads :
       WF_allVars(t \in Callers /\ (Complete(t) \/ HandOver(t) \/ Dropped(t)))
  /\ WF_allVars(Write) /\ WF_allVars(WriteFails) /\ WF_allVars(PeerReads)

-----------------------------------------------------------------------------

SendTypeOK ==
  /\ TypeOK
  /\ socket \in {"none", "open", "lost"}
  /\ connected \in BOOLEAN /\ writing \in BOOLEAN
  /\ call \in [Threads -> ProgramCalls \cup {NoCall}]
  /\ drawn \in [Threads -> Nat]
  /\ queue \in Seq(Seq(Byte)) /\ (client = "rust" => Len(queue) <= Capacity)
  /\ wire \in Seq(Byte)
  /\ accepted \in Seq([asked : ProgramCalls, id : Nat])
  /\ got \in Seq([header : Headers, payload : Seq(Byte)])

\* What the peer should read of an accepted call.
Expected(a) ==
  [header |-> [type |-> a.asked.type, kind |-> MessageKind.Event,
               flags |-> a.asked.flags, length |-> Len(Payload[a.asked]), id |-> a.id],
   payload |-> Payload[a.asked]]

(***************************************************************************)
(* The frames that the peer decodes are those of the calls that returned   *)
(* an identifier, in that order, whichever threads made them, and carry    *)
(* the identifier that was returned: nothing a call was refused for        *)
(* arrives, no frame runs into the next one, and an ACK names its call.    *)
(* And while the connection stands none is missing that is not under way.  *)
(***************************************************************************)
PeerGetsWhatWasAccepted ==
  /\ Len(got) <= Len(accepted)
  /\ (socket # "lost" /\ queue = <<>> /\ wire = <<>>) => Len(got) = Len(accepted)
  /\ \A k \in DOMAIN got : got[k] = Expected(accepted[k])

(***************************************************************************)
(* A message that was published is read back as one message: with its      *)
(* topic, from a client that refuses a topic that does not fit; the Rust   *)
(* client cuts the length of such a topic instead, so that its beginning   *)
(* is the topic that is read, and the rest is read as part of the message. *)
(***************************************************************************)
PublishedIsRead ==
  \A k \in DOMAIN got :
    LET c == accepted[k].asked
        topic == Topic[c.topic]
        cut == IF client = "rust" THEN Len(topic) % Word ELSE Len(topic)
    IN  c.type = FrameType.Publish =>
          Messages(got[k].payload) =
            {[topic |-> SubSeq(topic, 1, cut),
              message |-> SubSeq(topic, cut + 1, Len(topic)) \o Text]}

(***************************************************************************)
(* Every call ends: that of a ping task that waits for room, too.          *)
(***************************************************************************)
CallsReturn == \A t \in Threads : []<>~Busy(t)

(***************************************************************************)
(* What was accepted arrives, unless the connection is lost: the peer      *)
(* catches up with the calls again and again.                              *)
(***************************************************************************)
ArrivesUnlessLost == []<>(Len(got) = Len(accepted) \/ socket = "lost")

=============================================================================
