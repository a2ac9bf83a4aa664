-------------------------- MODULE RustClientProofs --------------------------
(***************************************************************************)
(* Proofs about the connection life cycle of the Rust client, for any      *)
(* number of connections, any room in the channel and any limit.           *)
(***************************************************************************)
EXTENDS RustClient, FiniteSetTheorems, TLAPS

USE RustClientAssumption

-----------------------------------------------------------------------------
(* Types. *)

Commands == Frames \cup {"quit"}

\* What a channel holds, and that it keeps its bound.
QueueOK ==
  /\ queue \in [Conns -> Seq(Commands)]
  /\ \A c \in Conns : Len(queue[c]) <= Capacity

\* The client holds the last connection or none, and one while it greets or closes.
HeldInv ==
  /\ main = "connecting" => conn < MaxConns
  /\ command_tx \in {0, conn}
  /\ main \in {"greeting", "closing", "quitting", "waiting"} => command_tx # 0

ReaderStates ==
  {"none", "reading", "ended", "falling", "swapped", "sleeping", "done"}

RestOK ==
  /\ connected \in BOOLEAN /\ running \in BOOLEAN /\ auto_reconnect \in BOOLEAN
  /\ attempts \in Nat
  /\ main \in {"idle", "connecting", "greeting", "closing", "quitting",
               "waiting", "dropped"}
  /\ command_tx \in {0} \cup Conns
  /\ conn \in 0..MaxConns
  /\ reader \in [Conns -> ReaderStates]
  /\ writer \in [Conns -> {"none", "idle", "done"} \cup Frames]
  /\ pinger \in [Conns -> {"none", "ticking", "sending", "last", "done"}]
  /\ peer \in [Conns -> {"none", "open", "closed"}]
  /\ sent \in [Conns -> {"nothing", "greeted", "closed", "ungreeted"}]
  /\ downs \in Nat

TypeInv == QueueOK /\ RestOK /\ HeldInv

LEMMA Sorts == TypeInv => TypeOK
BY DEF TypeInv, QueueOK, RestOK, TypeOK, Commands, ReaderStates

LEMMA TypeInit == Init => TypeInv
<1> SUFFICES ASSUME Init PROVE TypeInv
  OBVIOUS
<1>1. QueueOK
  <2>1. \A c \in Conns : queue[c] = <<>> /\ <<>> \in Seq(Commands) /\ Len(<<>>) = 0
    BY DEF Init
  <2> QED
    BY <2>1 DEF Init, QueueOK
<1>2. RestOK
  <2>1. /\ reader \in [Conns -> ReaderStates]
        /\ writer \in [Conns -> {"none", "idle", "done"} \cup Frames]
        /\ pinger \in [Conns -> {"none", "ticking", "sending", "last", "done"}]
        /\ peer \in [Conns -> {"none", "open", "closed"}]
        /\ sent \in [Conns -> {"nothing", "greeted", "closed", "ungreeted"}]
    BY DEF Init, ReaderStates
  <2>2. conn \in 0..MaxConns /\ command_tx = 0 /\ attempts \in Nat /\ downs \in Nat
    BY DEF Init
  <2>3. /\ connected \in BOOLEAN /\ running \in BOOLEAN /\ auto_reconnect \in BOOLEAN
        /\ main = "idle"
    BY DEF Init
  <2> QED
    BY <2>1, <2>2, <2>3 DEF RestOK
<1>3. HeldInv
  BY DEF Init, HeldInv
<1> QED
  BY <1>1, <1>2, <1>3 DEF TypeInv

\* A command that fits is put into the channel.
LEMMA EnqueuedOK ==
  ASSUME QueueOK, NEW c \in Conns, NEW x \in Commands, Room(c),
         queue' = Enqueued(c, x)
  PROVE  QueueOK'
<1>1. /\ Append(queue[c], x) \in Seq(Commands)
      /\ Len(Append(queue[c], x)) = Len(queue[c]) + 1
      /\ Len(queue[c]) \in Nat
  BY DEF QueueOK
<1>2. Len(queue[c]) + 1 <= Capacity
  BY <1>1 DEF Room
<1>3. queue' = [queue EXCEPT ![c] = Append(queue[c], x)]
  BY DEF Enqueued
<1> QED
  BY <1>1, <1>2, <1>3 DEF QueueOK

LEMMA SendAwaitOK ==
  ASSUME QueueOK, NEW c \in Conns, NEW x \in Commands, SendAwait(c, x)
  PROVE  QueueOK'
BY EnqueuedOK DEF SendAwait, QueueOK

LEMMA EmptiedOK ==
  ASSUME QueueOK, NEW c \in Conns, queue' = [queue EXCEPT ![c] = <<>>]
  PROVE  QueueOK'
<1>1. <<>> \in Seq(Commands) /\ Len(<<>>) = 0
  OBVIOUS
<1> QED
  BY <1>1 DEF QueueOK

LEMMA TakenOK ==
  ASSUME QueueOK, NEW c \in Conns, queue[c] # <<>>
  PROVE  /\ Head(queue[c]) \in Commands
         /\ queue' = [queue EXCEPT ![c] = Tail(@)] => QueueOK'
<1>1. /\ Tail(queue[c]) \in Seq(Commands) /\ Head(queue[c]) \in Commands
      /\ Len(Tail(queue[c])) = Len(queue[c]) - 1 /\ Len(queue[c]) \in Nat
  BY DEF QueueOK
<1>2. Len(Tail(queue[c])) <= Capacity
  BY <1>1 DEF QueueOK
<1>3. ASSUME queue' = [queue EXCEPT ![c] = Tail(queue[c])] PROVE QueueOK'
  BY <1>1, <1>2, <1>3 DEF QueueOK
<1> QED
  BY <1>1, <1>3

LEMMA QueueStep ==
  ASSUME TypeInv, [Next]_vars PROVE QueueOK'
<1>0. QueueOK /\ "hello" \in Commands /\ "frame" \in Commands /\ "close" \in Commands
      /\ "quit" \in Commands
  BY DEF TypeInv, Commands, Frames
<1>1. CASE Greet
  <2>1. command_tx \in Conns
    BY <1>1 DEF Greet, TypeInv, RestOK, HeldInv
  <2> QED
    BY <1>0, <1>1, <2>1, EnqueuedOK DEF Greet, QueueOK
<1>2. CASE Send
  <2>1. command_tx \in Conns
    BY <1>2 DEF Send, TypeInv, RestOK
  <2> QED
    BY <1>0, <1>2, <2>1, EnqueuedOK DEF Send
<1>3. CASE SendClose
  <2>1. command_tx \in Conns
    BY <1>3 DEF SendClose, TypeInv, RestOK, HeldInv
  <2> QED
    BY <1>0, <1>3, <2>1, SendAwaitOK DEF SendClose
<1>4. CASE SendQuit
  <2>1. command_tx \in Conns
    BY <1>4 DEF SendQuit, TypeInv, RestOK, HeldInv
  <2> QED
    BY <1>0, <1>4, <2>1, SendAwaitOK DEF SendQuit
<1>5. ASSUME NEW c \in Conns, Take(c) \/ WriteFails(c) \/ PingSend(c) PROVE QueueOK'
  <2>1. CASE Take(c)
    BY <1>0, <2>1, TakenOK, EmptiedOK DEF Take
  <2>2. CASE WriteFails(c)
    BY <1>0, <2>2, EmptiedOK DEF WriteFails
  <2>3. CASE PingSend(c)
    BY <1>0, <2>3, SendAwaitOK DEF PingSend
  <2> QED
    BY <1>5, <2>1, <2>2, <2>3
<1>6. CASE UNCHANGED queue
  BY <1>0, <1>6 DEF QueueOK
<1>7. CASE \/ Connect \/ ConnectFails \/ Established \/ Disconnect \/ Cleanup \/ Drop
           \/ UNCHANGED vars
  BY <1>6, <1>7 DEF Connect, ConnectFails, Established, Disconnect, Cleanup, Drop, vars
<1>8. ASSUME NEW c \in Conns,
             \/ ReadEnds(c) \/ Swap(c) \/ Announce(c) \/ Schedule(c) \/ SleepEnds(c)
             \/ NoSender(c) \/ Written(c) \/ PingTick(c) \/ PingAborted(c) \/ PeerEnds(c)
      PROVE  QueueOK'
  BY <1>6, <1>8 DEF ReadEnds, Swap, Announce, Schedule, SleepEnds, NoSender, Written,
                    PingTick, PingAborted, PeerEnds
<1> QED
  BY <1>1, <1>2, <1>3, <1>4, <1>5, <1>7, <1>8 DEF Next, Caller, Task

LEMMA RestStep ==
  ASSUME TypeInv, [Next]_vars PROVE RestOK' /\ HeldInv'
<1> USE DEF RestOK, HeldInv
<1>0. RestOK /\ HeldInv
  BY DEF TypeInv
<1>1. CASE Connect \/ ConnectFails \/ Greet \/ Send \/ Disconnect \/ SendClose \/ Drop
  BY <1>0, <1>1 DEF Connect, ConnectFails, Greet, Send, Disconnect, SendClose, Drop,
                    flags, tasks, history, client
<1>2. CASE Established
  <2>1. conn + 1 \in Conns /\ conn + 1 \in 0..MaxConns /\ conn + 1 # 0
    BY <1>0, <1>2 DEF Established, Conns
  <2>2. /\ reader' \in [Conns -> ReaderStates]
        /\ writer' \in [Conns -> {"none", "idle", "done"} \cup Frames]
        /\ pinger' \in [Conns -> {"none", "ticking", "sending", "last", "done"}]
        /\ peer' \in [Conns -> {"none", "open", "closed"}]
    BY <1>0, <1>2 DEF Established, ReaderStates
  <2> QED
    BY <1>0, <1>2, <2>1, <2>2 DEF Established, history
<1>3. CASE SendQuit
  BY <1>0, <1>3 DEF SendQuit, PingerAborted, flags, history
<1>4. CASE Cleanup
  <2>1. command_tx \in Conns
    BY <1>0, <1>4 DEF Cleanup
  <2>2. AfterAbort(reader[command_tx]) \subseteq ReaderStates
    BY <1>0, <2>1 DEF AfterAbort, ReaderStates
  <2> QED
    BY <1>0, <1>4, <2>1, <2>2 DEF Cleanup, history
<1>5. ASSUME NEW c \in Conns,
             ReadEnds(c) \/ Swap(c) \/ Announce(c) \/ Schedule(c) \/ SleepEnds(c)
      PROVE  RestOK' /\ HeldInv'
  <2>1. reader' \in [Conns -> ReaderStates]
    BY <1>0, <1>5 DEF ReadEnds, Swap, Announce, Schedule, SleepEnds, ReaderStates
  <2>2. attempts' \in Nat /\ downs' \in Nat
    BY <1>0, <1>5 DEF ReadEnds, Swap, Announce, Schedule, SleepEnds, flags, history
  <2>3. connected' = connected \/ connected' = FALSE
    BY <1>5 DEF ReadEnds, Swap, Announce, Schedule, SleepEnds, flags
  <2>4. connected' \in BOOLEAN
    BY <1>0, <2>3
  <2> QED
    BY <1>0, <1>5, <2>1, <2>2, <2>4 DEF ReadEnds, Swap, Announce, Schedule, SleepEnds, ReaderStates,
                    flags, client, history
<1>6. ASSUME NEW c \in Conns, Take(c)
      PROVE  RestOK' /\ HeldInv'
  <2>1. Head(queue[c]) \in Commands
    BY <1>6, TakenOK DEF Take, TypeInv
  <2>2. writer' \in [Conns -> {"none", "idle", "done"} \cup Frames]
    BY <1>0, <1>6, <2>1 DEF Take, Commands
  <2> QED
    BY <1>0, <1>6, <2>2 DEF Take, flags, client, history
<1>7. ASSUME NEW c \in Conns, NoSender(c) \/ WriteFails(c)
      PROVE  RestOK' /\ HeldInv'
  BY <1>0, <1>7 DEF NoSender, WriteFails, flags, client, history
<1>8. ASSUME NEW c \in Conns, Written(c)
      PROVE  RestOK' /\ HeldInv'
  BY <1>0, <1>8 DEF Written, flags, client
<1>9. ASSUME NEW c \in Conns, PingTick(c) \/ PingSend(c) \/ PingAborted(c) \/ PeerEnds(c)
      PROVE  RestOK' /\ HeldInv'
  BY <1>0, <1>9 DEF PingTick, PingSend, PingAborted, PeerEnds, flags, client, tasks,
                    history
<1>10. CASE UNCHANGED vars
  BY <1>0, <1>10 DEF vars, flags, client, tasks, history
<1> QED
  BY <1>1, <1>2, <1>3, <1>4, <1>5, <1>6, <1>7, <1>8, <1>9, <1>10 DEF Next, Caller, Task

LEMMA TypeAlways == Spec => []TypeInv
<1>1. TypeInv /\ [Next]_vars => TypeInv'
  BY QueueStep, RestStep DEF TypeInv
<1> QED
  BY <1>1, TypeInit, PTL DEF Spec

(***************************************************************************)
(* Every variable has its type, and no channel holds more than it has room *)
(* for, whoever sends.                                                     *)
(***************************************************************************)
THEOREM Typed == Spec => []TypeOK
BY TypeAlways, Sorts, PTL

-----------------------------------------------------------------------------
(* A connection is watched while the client says that it is connected. *)

LEMMA WatchedStep ==
  ASSUME TypeInv, ConnectedIsWatched, [Next]_vars
  PROVE  ConnectedIsWatched'
<1> USE DEF ConnectedIsWatched
<1>0. /\ reader \in [Conns -> ReaderStates]
      /\ conn \in 0..MaxConns /\ (conn # 0 => conn \in Conns)
      /\ main = "connecting" => conn < MaxConns
  BY DEF TypeInv, RestOK, HeldInv, Conns
<1>1. CASE Established
  <2>1. conn + 1 \in Conns /\ conn + 1 # 0
    BY <1>0, <1>1 DEF Established, Conns
  <2> QED
    BY <1>0, <1>1, <2>1 DEF Established
<1>2. CASE Cleanup \/ \E c \in Conns : Swap(c)
  BY <1>2 DEF Cleanup, Swap
<1>3. ASSUME NEW c \in Conns,
             ReadEnds(c) \/ Announce(c) \/ Schedule(c) \/ SleepEnds(c)
      PROVE  ConnectedIsWatched'
  <2> SUFFICES ASSUME connected PROVE conn # 0 /\ reader'[conn] \in {"reading", "ended"}
    BY <1>3 DEF ReadEnds, Announce, Schedule, SleepEnds, flags, client
  <2>1. conn \in Conns /\ reader[conn] \in {"reading", "ended"}
    BY <1>0
  <2>2. CASE ReadEnds(c)
    BY <1>0, <2>1, <2>2 DEF ReadEnds
  <2>3. CASE c # conn
    BY <1>0, <1>3, <2>1, <2>3 DEF ReadEnds, Announce, Schedule, SleepEnds
  <2> QED
    BY <1>3, <2>1, <2>2, <2>3 DEF Announce, Schedule, SleepEnds
<1>4. CASE reader' = reader /\ conn' = conn /\ (connected' => connected)
  BY <1>4
<1>5. CASE \/ Connect \/ ConnectFails \/ Greet \/ Send \/ Disconnect \/ SendClose
           \/ SendQuit \/ Drop \/ UNCHANGED vars
  BY <1>4, <1>5 DEF Connect, ConnectFails, Greet, Send, Disconnect, SendClose, SendQuit,
                    Drop, vars, flags, client, tasks
<1>6. ASSUME NEW c \in Conns,
             \/ Take(c) \/ NoSender(c) \/ Written(c) \/ WriteFails(c)
             \/ PingTick(c) \/ PingSend(c) \/ PingAborted(c) \/ PeerEnds(c)
      PROVE  ConnectedIsWatched'
  BY <1>4, <1>6 DEF Take, NoSender, Written, WriteFails, PingTick, PingSend, PingAborted,
                    PeerEnds, flags, client, tasks
<1> QED
  BY <1>1, <1>2, <1>3, <1>5, <1>6 DEF Next, Caller, Task

(***************************************************************************)
(* A client that says it is connected has a read task that watches, also   *)
(* where read tasks of older connections clear the flag at any time.       *)
(***************************************************************************)
THEOREM Watched == Spec => []ConnectedIsWatched
<1>1. Init => ConnectedIsWatched
  BY DEF Init, ConnectedIsWatched
<1> QED
  BY <1>1, WatchedStep, TypeAlways, PTL DEF Spec

-----------------------------------------------------------------------------
(* on_disconnect is called once for a connection at the most. *)

\* The read tasks that have taken connected back, and not called on_disconnect yet.
Falling == {c \in Conns : reader[c] = "falling"}

Up == IF connected THEN 1 ELSE 0

ToldInv == downs + Cardinality(Falling) + Up <= conn

LEMMA FallingFinite ==
  /\ IsFiniteSet(Falling) /\ Cardinality(Falling) \in Nat
  /\ \A S \in SUBSET Falling :
       Cardinality(S) \in Nat /\ Cardinality(S) <= Cardinality(Falling)
<1>1. IsFiniteSet(Conns)
  BY FS_Interval DEF Conns
<1>2. Falling \subseteq Conns
  BY DEF Falling
<1>3. IsFiniteSet(Falling)
  BY <1>1, <1>2, FS_Subset
<1>4. \A S \in SUBSET Falling : IsFiniteSet(S) /\ Cardinality(S) <= Cardinality(Falling)
  BY <1>3, FS_Subset
<1> QED
  BY <1>3, <1>4, FS_CardinalityType

\* A step after which fewer fall, and no connection is up that was not.
LEMMA FewerFall ==
  ASSUME TypeInv, ToldInv, Falling' \subseteq Falling, downs' = downs, conn' = conn,
         connected' => connected
  PROVE  ToldInv'
<1>1. /\ Cardinality(Falling) \in Nat /\ Cardinality(Falling') \in Nat
      /\ Cardinality(Falling') <= Cardinality(Falling)
  BY FallingFinite
<1>2. downs \in Nat /\ conn \in Nat
  BY DEF TypeInv, RestOK
<1>3. /\ downs + Cardinality(Falling) + Up <= conn
      /\ Up \in {0, 1} /\ Up' \in {0, 1} /\ Up' <= Up
  BY DEF ToldInv, Up
<1>4. downs' + Cardinality(Falling') + Up' <= conn'
  BY <1>1, <1>2, <1>3
<1> QED
  BY <1>4 DEF ToldInv

LEMMA ToldStep ==
  ASSUME TypeInv, ToldInv, [Next]_vars
  PROVE  ToldInv'
<1>0. /\ reader \in [Conns -> ReaderStates] /\ downs \in Nat /\ conn \in Nat
      /\ IsFiniteSet(Falling) /\ Cardinality(Falling) \in Nat
      /\ downs + Cardinality(Falling) + Up <= conn
  BY FallingFinite DEF TypeInv, RestOK, ToldInv
<1>1. CASE Established
  <2>1. Falling' \subseteq Falling
    BY <1>0, <1>1 DEF Established, Falling
  <2>2. Cardinality(Falling') \in Nat /\ Cardinality(Falling') <= Cardinality(Falling)
    BY <2>1, FallingFinite
  <2>3. downs' = downs /\ conn' = conn + 1 /\ Up' \in {0, 1} /\ Up \in {0, 1}
    BY <1>1 DEF Established, history, Up
  <2>4. downs' + Cardinality(Falling') + Up' <= conn'
    BY <1>0, <2>2, <2>3
  <2> QED
    BY <2>4 DEF ToldInv
<1>2. ASSUME NEW c \in Conns, Swap(c) PROVE ToldInv'
  <2>1. CASE connected
    <3>1. Falling' = Falling \cup {c} /\ c \notin Falling
      BY <1>0, <1>2, <2>1 DEF Swap, Falling
    <3>2. Cardinality(Falling') = Cardinality(Falling) + 1
      BY <1>0, <3>1, FS_AddElement
    <3>3. downs' = downs /\ conn' = conn /\ Up' = 0 /\ Up = 1
      BY <1>2, <2>1 DEF Swap, history, client, Up
    <3>4. downs' + Cardinality(Falling') + Up' <= conn'
      BY <1>0, <3>2, <3>3
    <3> QED
      BY <3>4 DEF ToldInv
  <2>2. CASE ~connected
    <3>1. Falling' \subseteq Falling
      BY <1>0, <1>2, <2>2 DEF Swap, Falling
    <3> QED
      BY <1>2, <3>1, FewerFall DEF Swap, client, history
  <2> QED
    BY <2>1, <2>2
<1>3. ASSUME NEW c \in Conns, Announce(c) PROVE ToldInv'
  <2>1. Falling' = Falling \ {c} /\ c \in Falling
    BY <1>0, <1>3 DEF Announce, Falling
  <2>2. Cardinality(Falling') = Cardinality(Falling) - 1
    BY <1>0, <2>1, FS_RemoveElement
  <2>3. downs' = downs + 1 /\ conn' = conn /\ Up' = Up /\ Up \in {0, 1}
    BY <1>3 DEF Announce, flags, client, Up
  <2>4. downs' + Cardinality(Falling') + Up' <= conn'
    BY <1>0, <2>2, <2>3
  <2> QED
    BY <2>4 DEF ToldInv
<1>4. ASSUME NEW c \in Conns, ReadEnds(c) \/ Schedule(c) \/ SleepEnds(c) PROVE ToldInv'
  <2>1. Falling' \subseteq Falling
    BY <1>0, <1>4 DEF ReadEnds, Schedule, SleepEnds, Falling
  <2> QED
    BY <1>4, <2>1, FewerFall DEF ReadEnds, Schedule, SleepEnds, flags, client, history
<1>5. CASE Cleanup
  <2>1. Falling' \subseteq Falling
    BY <1>0, <1>5 DEF Cleanup, AfterAbort, Falling
  <2> QED
    BY <1>5, <2>1, FewerFall DEF Cleanup, history
<1>6. ASSUME reader' = reader, conn' = conn, downs' = downs, connected' => connected
      PROVE  ToldInv'
  BY <1>6, FewerFall DEF Falling
<1>7. CASE \/ Connect \/ ConnectFails \/ Greet \/ Send \/ Disconnect \/ SendClose
           \/ SendQuit \/ Drop \/ UNCHANGED vars
  BY <1>6, <1>7 DEF Connect, ConnectFails, Greet, Send, Disconnect, SendClose, SendQuit,
                    Drop, vars, flags, client, tasks, history
<1>8. ASSUME NEW c \in Conns,
             \/ Take(c) \/ NoSender(c) \/ Written(c) \/ WriteFails(c)
             \/ PingTick(c) \/ PingSend(c) \/ PingAborted(c) \/ PeerEnds(c)
      PROVE  ToldInv'
  BY <1>6, <1>8 DEF Take, NoSender, Written, WriteFails, PingTick, PingSend, PingAborted,
                    PeerEnds, flags, client, tasks, history
<1> QED
  BY <1>1, <1>2, <1>3, <1>4, <1>5, <1>7, <1>8 DEF Next, Caller, Task

(***************************************************************************)
(* on_disconnect is called once at the most for each connection, however   *)
(* the read tasks of older connections overlap the newer ones.             *)
(***************************************************************************)
THEOREM ToldAtMostOnce == Spec => []ToldOnce
<1>1. Init => ToldInv
  <2> SUFFICES ASSUME Init PROVE ToldInv
    OBVIOUS
  <2>1. Falling = {} /\ Cardinality({}) = 0
    BY FS_EmptySet DEF Init, Falling
  <2> QED
    BY <2>1 DEF Init, ToldInv, Up
<1>2. TypeInv /\ ToldInv => ToldOnce
  <2> SUFFICES ASSUME TypeInv, ToldInv PROVE downs + Up <= conn
    BY DEF ToldOnce, Up
  <2> QED
    BY FallingFinite DEF TypeInv, RestOK, ToldInv, Up
<1> QED
  BY <1>1, <1>2, ToldStep, TypeAlways, PTL DEF Spec

-----------------------------------------------------------------------------
(* A client without pings whose read tasks end before it connects again.   *)

Calm == ~PingEnabled /\ ~StaleReaders

\* A read task in one of these states has something to say of the connection.
Speaking == {"reading", "ended", "falling", "swapped"}

ReaderInv ==
  /\ \A c \in Conns : c # conn => reader[c] \notin Speaking
  /\ (conn # 0 /\ ~connected) => reader[conn] # "reading"
  /\ (conn # 0 /\ reader[conn] \in Speaking) => attempts = 0
  /\ main = "connecting" => ~connected
  /\ (command_tx = 0 /\ main # "dropped") => ~connected

\* The channel is new when the client greets.
ChannelInv ==
  /\ \A c \in Conns : pinger[c] \in {"none", "done"}
  /\ \A c \in Conns : c > conn => queue[c] = <<>>
  /\ main = "greeting" => queue[conn] = <<>> /\ writer[conn] = "idle"

CalmInv == TypeInv /\ ConnectedIsWatched /\ ReaderInv /\ ChannelInv

\* What the parts of the type invariant say, for citation.
LEMMA Facts ==
  ASSUME TypeInv
  PROVE  /\ reader \in [Conns -> ReaderStates] /\ conn \in 0..MaxConns
         /\ queue \in [Conns -> Seq(Commands)]
         /\ writer \in [Conns -> {"none", "idle", "done"} \cup Frames]
         /\ pinger \in [Conns -> {"none", "ticking", "sending", "last", "done"}]
         /\ attempts \in Nat
         /\ conn # 0 => conn \in Conns
         /\ command_tx \in {0, conn}
         /\ main \in {"greeting", "closing", "quitting", "waiting"} =>
              command_tx = conn /\ conn # 0
         /\ main = "connecting" => conn + 1 \in Conns
BY DEF TypeInv, RestOK, QueueOK, HeldInv, Conns

\* A client that is connected when it greets gets its HELLO into the channel.
LEMMA GreetingFits ==
  ASSUME CalmInv, main = "greeting", connected
  PROVE  Open(command_tx) /\ Room(command_tx)
<1>1. command_tx = conn /\ queue[conn] = <<>> /\ writer[conn] = "idle"
  BY Facts DEF CalmInv, ChannelInv
<1>2. Len(<<>>) = 0
  OBVIOUS
<1> QED
  BY <1>1, <1>2 DEF Open, Room

LEMMA ChannelStep ==
  ASSUME Calm, CalmInv, [Next]_vars
  PROVE  ChannelInv'
<1> USE DEF ChannelInv
<1>0. /\ TypeInv /\ ChannelInv
      /\ queue \in [Conns -> Seq(Commands)] /\ conn \in 0..MaxConns
      /\ writer \in [Conns -> {"none", "idle", "done"} \cup Frames]
      /\ pinger \in [Conns -> {"none", "ticking", "sending", "last", "done"}]
      /\ (conn # 0 => conn \in Conns)
      /\ command_tx \in {0, conn}
      /\ main = "connecting" => conn + 1 \in Conns
      /\ main \in {"greeting", "closing", "quitting", "waiting"} =>
           command_tx = conn /\ conn # 0
  BY Facts DEF CalmInv
<1>1. CASE Established
  <2>1. /\ conn' = conn + 1 /\ conn + 1 \in Conns /\ queue' = queue
        /\ writer' = [writer EXCEPT ![conn + 1] = "idle"]
        /\ pinger' = [pinger EXCEPT ![conn + 1] = "none"]
    BY <1>0, <1>1 DEF Established, Calm
  <2>2. conn + 1 > conn /\ \A c \in Conns : c > conn + 1 => c > conn
    BY <1>0 DEF Conns
  <2> QED
    BY <1>0, <2>1, <2>2
<1>2. CASE SendQuit
  <2>1. conn' = conn /\ command_tx = conn /\ conn \in Conns /\ main' = "waiting"
    BY <1>0, <1>2 DEF SendQuit
  <2>2. \A c \in Conns : c > conn => queue'[c] = queue[c]
    BY <1>0, <1>2, <2>1 DEF SendQuit, SendAwait, Enqueued
  <2>3. \A c \in Conns : pinger'[c] \in {"none", "done"}
    BY <1>0, <1>2 DEF SendQuit, PingerAborted
  <2> QED
    BY <1>0, <2>1, <2>2, <2>3
<1>3. CASE Greet \/ Send \/ SendClose
  <2>1. /\ conn' = conn /\ command_tx = conn /\ conn \in Conns /\ main' # "greeting"
        /\ pinger' = pinger
    BY <1>0, <1>3 DEF Greet, Send, SendClose, client, tasks
  <2>2. \A c \in Conns : c > conn => queue'[c] = queue[c]
    BY <1>0, <1>3, <2>1 DEF Greet, Send, SendClose, SendAwait, Enqueued
  <2> QED
    BY <1>0, <2>1, <2>2
<1>4. ASSUME NEW c \in Conns, Take(c) \/ WriteFails(c) PROVE ChannelInv'
  <2>1. conn' = conn /\ main' = main /\ pinger' = pinger
    BY <1>4 DEF Take, WriteFails, client
  <2>2. c > conn => queue[c] = <<>>
    BY <1>0
  <2>3. main = "greeting" => c # conn
    BY <1>0, <1>4 DEF Take, WriteFails, Frames
  <2>4. \A d \in Conns : d # c => queue'[d] = queue[d] /\ writer'[d] = writer[d]
    BY <1>0, <1>4 DEF Take, WriteFails
  <2>5. c > conn => queue'[c] = <<>>
    BY <1>0, <1>4, <2>2 DEF Take, WriteFails
  <2> QED
    BY <1>0, <2>1, <2>3, <2>4, <2>5
<1>5. ASSUME NEW c \in Conns, NoSender(c) \/ Written(c) PROVE ChannelInv'
  <2>1. conn' = conn /\ main' = main /\ pinger' = pinger /\ queue' = queue
    BY <1>5 DEF NoSender, Written, client
  <2>2. main = "greeting" => c # conn
    BY <1>0, <1>5 DEF NoSender, Written, Frames
  <2>3. \A d \in Conns : d # c => writer'[d] = writer[d]
    BY <1>0, <1>5 DEF NoSender, Written
  <2> QED
    BY <1>0, <2>1, <2>2, <2>3
<1>6. ASSUME NEW c \in Conns, PingTick(c) \/ PingSend(c) \/ PingAborted(c) PROVE FALSE
  BY <1>0, <1>6 DEF PingTick, PingSend, PingAborted
<1>7. ASSUME UNCHANGED <<queue, writer, pinger, conn>>, main' = "greeting" => main = "greeting"
      PROVE  ChannelInv'
  BY <1>0, <1>7
<1>8. CASE Connect \/ ConnectFails \/ Disconnect \/ Cleanup \/ Drop \/ UNCHANGED vars
  BY <1>7, <1>8 DEF Connect, ConnectFails, Disconnect, Cleanup, Drop, vars, tasks, client
<1>9. ASSUME NEW c \in Conns,
             ReadEnds(c) \/ Swap(c) \/ Announce(c) \/ Schedule(c) \/ SleepEnds(c) \/ PeerEnds(c)
      PROVE  ChannelInv'
  BY <1>7, <1>9 DEF ReadEnds, Swap, Announce, Schedule, SleepEnds, PeerEnds, client, tasks
<1> QED
  BY <1>1, <1>2, <1>3, <1>4, <1>5, <1>6, <1>8, <1>9 DEF Next, Caller, Task

LEMMA ReaderStep ==
  ASSUME Calm, CalmInv, [Next]_vars
  PROVE  ReaderInv'
<1> USE DEF ReaderInv, Speaking
<1>0. /\ TypeInv /\ ReaderInv /\ ConnectedIsWatched
      /\ reader \in [Conns -> ReaderStates] /\ conn \in 0..MaxConns
      /\ (conn # 0 => conn \in Conns)
      /\ command_tx \in {0, conn}
      /\ main = "connecting" => conn + 1 \in Conns
      /\ main \in {"greeting", "closing", "quitting", "waiting"} =>
           command_tx = conn /\ conn # 0
  BY Facts DEF CalmInv
<1>1. CASE Established
  <2>1. /\ conn' = conn + 1 /\ conn + 1 \in Conns /\ attempts' = 0 /\ connected'
        /\ reader' = [reader EXCEPT ![conn + 1] = "reading"]
        /\ command_tx' = conn + 1 /\ main' = "greeting"
        /\ ~connected
    BY <1>0, <1>1 DEF Established
  <2>2. \A c \in Conns : reader[c] \notin Speaking
    <3>1. \A c \in Conns : reader[c] \notin {"ended", "falling", "swapped"}
      BY <1>1 DEF Established, Calm
    <3>2. \A c \in Conns : c = conn => conn # 0
      BY DEF Conns
    <3>3. \A c \in Conns : reader[c] # "reading"
      BY <1>0, <2>1, <3>2
    <3> QED
      BY <3>1, <3>3
  <2>3. conn + 1 # 0
    BY <1>0
  <2> QED
    BY <1>0, <2>1, <2>2, <2>3
<1>2. CASE Greet
  <2>1. (connected' => connected) /\ (connected => connected')
    BY <1>2, GreetingFits DEF Greet
  <2> QED
    BY <1>0, <1>2, <2>1 DEF Greet, tasks
<1>3. CASE Cleanup
  <2>1. /\ conn' = conn /\ conn \in Conns /\ attempts' = attempts /\ ~connected'
        /\ main' = "idle"
    BY <1>0, <1>3 DEF Cleanup
  <2>2. \A c \in Conns : c # conn => reader'[c] = reader[c]
    BY <1>0, <1>3 DEF Cleanup
  <2>3. /\ reader'[conn] # "reading"
        /\ reader'[conn] \in Speaking => reader[conn] \in Speaking
    BY <1>0, <1>3 DEF Cleanup, AfterAbort
  <2> QED
    BY <1>0, <2>1, <2>2, <2>3
<1>4. ASSUME NEW c \in Conns,
             ReadEnds(c) \/ Swap(c) \/ Announce(c) \/ Schedule(c) \/ SleepEnds(c)
      PROVE  ReaderInv'
  <2>1. /\ conn' = conn /\ main' = main /\ command_tx' = command_tx
        /\ connected' => connected
    BY <1>4 DEF ReadEnds, Swap, Announce, Schedule, SleepEnds, client, flags
  <2>2. CASE SleepEnds(c)
    BY <1>0, <2>1, <2>2 DEF SleepEnds, flags
  <2>3. CASE ~SleepEnds(c)
    <3>1. c = conn /\ reader[conn] \in Speaking /\ attempts = 0 /\ conn # 0
      BY <1>0, <1>4, <2>3 DEF ReadEnds, Swap, Announce, Schedule, Conns
    <3>2. \A d \in Conns : d # conn => reader'[d] = reader[d]
      BY <1>0, <1>4, <2>3, <3>1 DEF ReadEnds, Swap, Announce, Schedule
    <3>3. /\ reader'[conn] # "reading"
          /\ reader'[conn] \in Speaking => attempts' = attempts
      BY <1>0, <1>4, <2>3, <3>1 DEF ReadEnds, Swap, Announce, Schedule, flags
    <3> QED
      BY <1>0, <2>1, <3>1, <3>2, <3>3
  <2> QED
    BY <2>2, <2>3
<1>5. CASE Disconnect
  <2>1. /\ reader' = reader /\ conn' = conn /\ attempts' = attempts
        /\ command_tx' = command_tx /\ main' # "connecting"
        /\ main = "idle" /\ main' # "dropped"
        /\ command_tx = 0 => ~connected /\ ~connected'
        /\ command_tx # 0 => connected' = connected
    BY <1>0, <1>5 DEF Disconnect, tasks
  <2> QED
    BY <1>0, <2>1
<1>6. CASE Drop \/ Connect
  BY <1>0, <1>6 DEF Drop, Connect, tasks
<1>7. ASSUME UNCHANGED <<reader, connected, attempts, conn, command_tx>>,
             \/ main' = main
             \/ main' \in {"idle", "quitting", "waiting"} /\ main # "dropped"
      PROVE  ReaderInv'
  BY <1>0, <1>7
<1>8. CASE ConnectFails \/ Send \/ SendClose \/ SendQuit \/ UNCHANGED vars
  BY <1>7, <1>8 DEF ConnectFails, Send, SendClose, SendQuit, vars, tasks, client, flags
<1>9. ASSUME NEW c \in Conns,
             \/ Take(c) \/ NoSender(c) \/ Written(c) \/ WriteFails(c)
             \/ PingTick(c) \/ PingSend(c) \/ PingAborted(c) \/ PeerEnds(c)
      PROVE  ReaderInv'
  BY <1>7, <1>9 DEF Take, NoSender, Written, WriteFails, PingTick, PingSend, PingAborted,
                    PeerEnds, tasks, client, flags
<1> QED
  BY <1>1, <1>2, <1>3, <1>4, <1>5, <1>6, <1>8, <1>9 DEF Next, Caller, Task

LEMMA CalmAlways == Calm => (Spec => []CalmInv)
<1> SUFFICES ASSUME Calm PROVE Spec => []CalmInv
  OBVIOUS
<1>1. Init => CalmInv
  <2> SUFFICES ASSUME Init PROVE CalmInv
    OBVIOUS
  <2>1. conn = 0 /\ connected = FALSE /\ main = "idle" /\ \A c \in Conns : c # 0
    BY DEF Init, Conns
  <2>2. \A c \in Conns : reader[c] = "none" /\ pinger[c] = "none" /\ queue[c] = <<>>
    BY DEF Init
  <2> QED
    BY <2>1, <2>2, TypeInit
       DEF CalmInv, ConnectedIsWatched, ReaderInv, ChannelInv, Speaking
<1>2. CalmInv /\ [Next]_vars => CalmInv'
  <2> SUFFICES ASSUME CalmInv, [Next]_vars PROVE CalmInv'
    OBVIOUS
  <2>1. TypeInv'
    BY QueueStep, RestStep DEF TypeInv, CalmInv
  <2> QED
    BY <2>1, WatchedStep, ReaderStep, ChannelStep DEF CalmInv
<1> QED
  BY <1>1, <1>2, PTL DEF Spec

(***************************************************************************)
(* In a calm client no read task of an older connection takes connected    *)
(* back while the current one reads.                                       *)
(***************************************************************************)
THEOREM ReadersAgree == Calm => (Spec => []ReadingIsConnected)
<1> SUFFICES ASSUME Calm PROVE Spec => []ReadingIsConnected
  OBVIOUS
<1>1. CalmInv => ReadingIsConnected
  BY Facts DEF CalmInv, ReaderInv, ReadingIsConnected
<1> QED
  BY <1>1, CalmAlways, PTL

-----------------------------------------------------------------------------
(* The client implements Session. *)

\* No call connects a client that is connected; and no connection is there
\* while a read task is between its swap and its count, unless it was overtaken.
OverlapInv ==
  /\ main = "connecting" => ~connected
  /\ ~StaleReaders =>
       \A c \in Conns : reader[c] \in {"falling", "swapped"} => ~connected

LEMMA OverlapStep ==
  ASSUME TypeInv, OverlapInv, [Next]_vars
  PROVE  OverlapInv'
<1> USE DEF OverlapInv
<1>0. conn \in 0..MaxConns /\ connected \in BOOLEAN /\ reader = [c \in Conns |-> reader[c]]
      /\ (main = "waiting" => command_tx \in Conns)
  BY DEF TypeInv, RestOK, HeldInv
<1>1. CASE Established
  <2>1. main' = "greeting" /\ (~StaleReaders => \A c \in Conns :
                               reader[c] \notin {"ended", "falling", "swapped"})
        /\ reader' = [reader EXCEPT ![conn + 1] = "reading"]
    BY <1>1 DEF Established
  <2>2. ~StaleReaders => \A c \in Conns : reader'[c] \notin {"falling", "swapped"}
    BY <1>0, <2>1
  <2> QED
    BY <2>1, <2>2
<1>2. CASE Cleanup \/ Greet
  <2>1. main' = "idle" /\ (connected' => connected)
    BY <1>0, <1>2 DEF Cleanup, Greet
  <2>2. Cleanup => ~connected'
    BY DEF Cleanup
  <2>3. Greet => reader' = reader
    BY DEF Greet, tasks
  <2> QED
    BY <1>2, <2>1, <2>2, <2>3
<1>3. ASSUME NEW c \in Conns, Swap(c)
      PROVE  OverlapInv'
  BY <1>3 DEF Swap
<1>4. ASSUME NEW c \in Conns,
             ReadEnds(c) \/ Announce(c) \/ Schedule(c) \/ SleepEnds(c)
      PROVE  OverlapInv'
  <2>1. main' = main /\ connected' = connected
    BY <1>4 DEF ReadEnds, Announce, Schedule, SleepEnds, flags, client
  <2>2. \A d \in Conns : reader'[d] \in {"falling", "swapped"}
                            => reader[d] \in {"falling", "swapped"}
    BY <1>0, <1>4 DEF ReadEnds, Announce, Schedule, SleepEnds
  <2> QED
    BY <2>1, <2>2
<1>5. CASE Connect
  BY <1>5 DEF Connect, tasks
<1>6. CASE Disconnect
  <2>1. main' # "connecting" /\ (connected' => connected) /\ reader' = reader
    BY <1>0, <1>6 DEF Disconnect, tasks
  <2> QED
    BY <2>1
<1>7. CASE ConnectFails \/ Send \/ SendClose \/ SendQuit \/ Drop \/ UNCHANGED vars
  <2>1. (main' = "connecting" => main = "connecting")
        /\ connected' = connected /\ reader' = reader
    BY <1>7 DEF ConnectFails, Send, SendClose, SendQuit, Drop, vars, tasks, client, flags
  <2> QED
    BY <2>1
<1>8. ASSUME NEW c \in Conns,
             \/ Take(c) \/ NoSender(c) \/ Written(c) \/ WriteFails(c)
             \/ PingTick(c) \/ PingSend(c) \/ PingAborted(c) \/ PeerEnds(c)
      PROVE  UNCHANGED <<main, connected, reader>>
  BY <1>8 DEF Take, NoSender, Written, WriteFails, PingTick, PingSend, PingAborted,
              PeerEnds, tasks, client, flags
<1> QED
  BY <1>1, <1>2, <1>3, <1>4, <1>5, <1>6, <1>7, <1>8 DEF Next, Caller, Task

LEMMA OverlapAlways == Spec => [](TypeInv /\ OverlapInv)
<1>1. Init => OverlapInv
  BY DEF Init, OverlapInv
<1>2. TypeInv /\ OverlapInv /\ [Next]_vars => OverlapInv'
  BY OverlapStep
<1> QED
  BY <1>1, <1>2, TypeAlways, PTL DEF Spec

\* The count stops after the attempt that exceeds the limit, in a calm client.
LEMMA CountStep ==
  ASSUME TypeInv, OverlapInv, Calm => CalmInv, NEW c \in Conns, Schedule(c)
  PROVE  [Life!Next]_<<connected, conn, auto_reconnect, attempts>>
<1> USE DEF Life!Next
<1>1. CASE auto_reconnect /\ running
  <2>1. /\ attempts' = attempts + 1 /\ reader[c] = "swapped"
        /\ UNCHANGED <<connected, conn, auto_reconnect>>
    BY <1>1 DEF Schedule, client
  <2>2. StaleReaders \/ ~connected
    BY <2>1 DEF OverlapInv
  <2>3. CASE Calm
    <3>1. c = conn /\ conn # 0
      BY <2>1, <2>3 DEF CalmInv, ReaderInv, Speaking, Conns
    <3>2. attempts = 0
      BY <2>1, <2>3, <3>1 DEF CalmInv, ReaderInv, Speaking
    <3>3. max_attempts = 0 \/ attempts < max_attempts + 1
      BY <3>2, RustClientAssumption
    <3> QED
      BY <1>1, <2>1, <2>2, <3>3 DEF Life!Count, Life!Counted
  <2>4. CASE ~Calm
    BY <1>1, <2>1, <2>2, <2>4 DEF Life!Count, Life!Counted, Calm
  <2> QED
    BY <2>3, <2>4
<1>2. CASE ~(auto_reconnect /\ running)
  BY <1>2 DEF Schedule, client
<1> QED
  BY <1>1, <1>2

LEMMA LifeStep ==
  ASSUME TypeInv, OverlapInv, Calm => CalmInv, [Next]_vars
  PROVE  [Life!Next]_<<connected, conn, auto_reconnect, attempts>>
<1> DEFINE view == <<connected, conn, auto_reconnect, attempts>>
<1> USE DEF Life!Next
<1>0. connected \in BOOLEAN
  BY DEF TypeInv, RestOK
<1>1. CASE Established
  <2>1. ~connected /\ connected' /\ attempts' = 0 /\ auto_reconnect' = auto_reconnect
    BY <1>1 DEF Established, OverlapInv
  <2>2. Life!Establish
    BY <1>0, <1>1, <2>1 DEF Life!Establish, Established
  <2> QED
    BY <2>2
<1>2. CASE Disconnect
  <2>1. Life!Revoke
    BY <1>2 DEF Disconnect, Life!Revoke
  <2> QED
    BY <2>1
<1>3. ASSUME NEW c \in Conns, Schedule(c)
      PROVE  [Life!Next]_view
  BY <1>3, CountStep
<1>4. ASSUME connected' = FALSE \/ connected' = connected,
             UNCHANGED <<conn, auto_reconnect, attempts>>
      PROVE  [Life!Next]_view
  <2>1. CASE connected' = connected
    BY <1>4, <2>1
  <2>2. CASE connected /\ connected' = FALSE
    BY <1>4, <2>2 DEF Life!Lose
  <2> QED
    BY <1>0, <1>4, <2>1, <2>2
<1>5. CASE Cleanup
  BY <1>4, <1>5 DEF Cleanup
<1>6. CASE Greet
  BY <1>4, <1>6 DEF Greet
<1>7. CASE \/ Connect \/ ConnectFails \/ Send \/ SendClose \/ SendQuit \/ Drop
           \/ UNCHANGED vars
  BY <1>7 DEF Connect, ConnectFails, Send, SendClose, SendQuit, Drop, vars, flags, client
<1>8. ASSUME NEW c \in Conns, Swap(c)
      PROVE  [Life!Next]_view
  BY <1>4, <1>8 DEF Swap, client
<1>9. ASSUME NEW c \in Conns,
             \/ ReadEnds(c) \/ Announce(c) \/ SleepEnds(c)
             \/ Take(c) \/ NoSender(c) \/ Written(c) \/ WriteFails(c)
             \/ PingTick(c) \/ PingSend(c) \/ PingAborted(c) \/ PeerEnds(c)
      PROVE  UNCHANGED view
  BY <1>9 DEF ReadEnds, Announce, SleepEnds, Take, NoSender, Written, WriteFails, PingTick,
              PingSend, PingAborted, PeerEnds, flags, client
<1> QED
  BY <1>1, <1>2, <1>3, <1>5, <1>6, <1>7, <1>8, <1>9 DEF Next, Caller, Task

(***************************************************************************)
(* The client implements Session, in every environment: no connection is   *)
(* replaced while it is up, no reconnection is counted after disconnect()  *)
(* and, unless a read task is overtaken, while there is a connection; nor, *)
(* in a calm client, beyond the attempt that exceeds the limit.            *)
(***************************************************************************)
THEOREM ImplementsSession == Spec => LifeSpec
<1> SUFFICES Spec => Life!Spec
  BY DEF LifeSpec
<1>1. Init => Life!Init
  BY DEF Init, Life!Init
<1>2. TypeInv /\ OverlapInv /\ (Calm => CalmInv) /\ [Next]_vars
        => [Life!Next]_<<connected, conn, auto_reconnect, attempts>>
  BY LifeStep
<1>3. Spec => [](Calm => CalmInv)
  <2>1. CASE Calm
    <3>1. CalmInv => (Calm => CalmInv)
      OBVIOUS
    <3> QED
      BY <2>1, <3>1, CalmAlways, PTL
  <2>2. CASE ~Calm
    <3>1. Calm => CalmInv
      BY <2>2
    <3> QED
      BY <3>1, PTL
  <2> QED
    BY <2>1, <2>2
<1> QED
  BY <1>1, <1>2, <1>3, OverlapAlways, PTL DEF Spec, Life!Spec, Life!vars

-----------------------------------------------------------------------------
(* HELLO is first. *)

\* HELLO was written, is being written, or is what is written next; or nothing is.
Greets(c) ==
  \/ sent[c] # "nothing"
  \/ writer[c] \in {"hello", "done"}
  \/ queue[c] # <<>> /\ Head(queue[c]) = "hello"

HelloInv ==
  /\ HelloFirst
  /\ \A c \in Conns : sent[c] = "nothing" =>
       /\ writer[c] \in {"none", "idle", "hello", "done"}
       /\ (writer[c] = "idle" /\ queue[c] # <<>>) => Head(queue[c]) \in {"hello", "quit"}
  /\ (connected /\ main # "greeting" /\ command_tx # 0) => Greets(command_tx)
  /\ main = "closing" => Greets(command_tx)

LEMMA AppendFacts ==
  ASSUME NEW s \in Seq(Commands), NEW x \in Commands
  PROVE  /\ Append(s, x) # <<>> /\ Append(s, x) \in Seq(Commands)
         /\ s # <<>> => Head(Append(s, x)) = Head(s)
         /\ s = <<>> => Head(Append(s, x)) = x
         /\ Len(Append(s, x)) = Len(s) + 1 /\ Len(s) \in Nat
         /\ \A i \in 1..Len(s) : Append(s, x)[i] = s[i]
         /\ Append(s, x)[Len(s) + 1] = x
OBVIOUS

\* A command put behind HELLO, or Disconnect, leaves what is first.
LEMMA HelloEnqueued ==
  ASSUME CalmInv, HelloInv, NEW c \in Conns, NEW x \in Commands,
         queue' = Enqueued(c, x), sent' = sent, writer' = writer,
         Greets(c) \/ x = "quit" \/ x = "hello"
  PROVE  /\ \A d \in Conns : Greets(d) => Greets(d)'
         /\ x = "hello" /\ queue[c] = <<>> => Greets(c)'
         /\ \A d \in Conns : sent'[d] = "nothing" =>
              /\ writer'[d] \in {"none", "idle", "hello", "done"}
              /\ (writer'[d] = "idle" /\ queue'[d] # <<>>) =>
                   Head(queue'[d]) \in {"hello", "quit"}
<1>1. queue \in [Conns -> Seq(Commands)]
  BY Facts DEF CalmInv
<1>2. /\ queue'[c] = Append(queue[c], x)
      /\ \A d \in Conns : d # c => queue'[d] = queue[d]
  BY <1>1 DEF Enqueued
<1>3. /\ queue'[c] # <<>>
      /\ queue[c] # <<>> => Head(queue'[c]) = Head(queue[c])
      /\ queue[c] = <<>> => Head(queue'[c]) = x
  BY <1>1, <1>2, AppendFacts
<1>4. \A d \in Conns : Greets(d) => Greets(d)'
  BY <1>2, <1>3 DEF Greets
<1>5. (x = "hello" /\ queue[c] = <<>>) => Greets(c)'
  BY <1>3 DEF Greets
<1>6. ASSUME sent[c] = "nothing", writer[c] = "idle"
      PROVE  Head(queue'[c]) \in {"hello", "quit"}
  BY <1>3, <1>6 DEF Greets, HelloInv
<1> QED
  BY <1>2, <1>4, <1>5, <1>6 DEF HelloInv

LEMMA HelloStep ==
  ASSUME Calm, CalmInv, HelloInv, [Next]_vars
  PROVE  HelloInv'
<1>0. /\ queue \in [Conns -> Seq(Commands)] /\ conn \in 0..MaxConns
      /\ writer \in [Conns -> {"none", "idle", "done"} \cup Frames]
      /\ sent \in [Conns -> {"nothing", "greeted", "closed", "ungreeted"}]
      /\ \A c \in Conns : pinger[c] \in {"none", "done"}
      /\ (conn # 0 => conn \in Conns)
      /\ command_tx \in {0, conn}
      /\ main = "connecting" => conn + 1 \in Conns
      /\ main \in {"greeting", "closing", "quitting", "waiting"} =>
           command_tx = conn /\ conn # 0
  BY Facts DEF CalmInv, ChannelInv, TypeInv, RestOK
<1>c. {"hello", "frame", "close", "quit"} \subseteq Commands
  BY DEF Commands, Frames
<1>1. CASE Established
  <2>1. /\ sent' = sent /\ queue' = queue /\ main' = "greeting"
        /\ writer' = [writer EXCEPT ![conn + 1] = "idle"]
    BY <1>1 DEF Established, history
  <2>2. conn + 1 \in Conns /\ queue[conn + 1] = <<>>
    <3>1. conn + 1 \in Conns /\ conn + 1 > conn
      BY <1>0, <1>1 DEF Established
    <3> QED
      BY <3>1 DEF CalmInv, ChannelInv
  <2> QED
    BY <1>0, <2>1, <2>2 DEF HelloInv, HelloFirst
<1>2. CASE Greet
  <2>1. main' = "idle" /\ sent' = sent /\ writer' = writer /\ command_tx' = command_tx
    BY <1>2 DEF Greet, tasks, history
  <2>2. CASE connected
    <3>1. queue' = Enqueued(command_tx, "hello") /\ command_tx \in Conns
      BY <1>0, <1>2, <2>2, GreetingFits DEF Greet
    <3>2. queue[command_tx] = <<>>
      BY <1>0, <1>2 DEF Greet, CalmInv, ChannelInv
    <3> QED
      BY <1>c, <2>1, <3>1, <3>2, HelloEnqueued DEF HelloInv, HelloFirst
  <2>3. CASE ~connected
    <3>1. queue' = queue /\ connected' = FALSE
      BY <1>2, <2>3 DEF Greet
    <3> QED
      BY <2>1, <3>1 DEF HelloInv, HelloFirst
  <2> QED
    BY <2>2, <2>3
<1>3. CASE Send
  <2>1. /\ queue' = Enqueued(command_tx, "frame") /\ sent' = sent /\ writer' = writer
        /\ main' = main /\ command_tx' = command_tx /\ connected' = connected
        /\ command_tx \in Conns /\ Greets(command_tx) /\ main = "idle"
    BY <1>0, <1>3 DEF Send, tasks, history, client, flags, HelloInv
  <2> QED
    BY <1>c, <2>1, HelloEnqueued DEF HelloInv, HelloFirst
<1>4. CASE SendClose
  <2>1. /\ queue' = queue \/ queue' = Enqueued(command_tx, "close")
        /\ sent' = sent /\ writer' = writer
        /\ main' = "quitting" /\ command_tx' = command_tx /\ connected' = connected
        /\ command_tx \in Conns /\ Greets(command_tx)
    BY <1>0, <1>4 DEF SendClose, SendAwait, tasks, history, flags, HelloInv
  <2>2. CASE queue' = queue
    BY <2>1, <2>2 DEF HelloInv, HelloFirst, Greets
  <2>3. CASE queue' = Enqueued(command_tx, "close")
    BY <1>c, <2>1, <2>3, HelloEnqueued DEF HelloInv, HelloFirst
  <2> QED
    BY <2>1, <2>2, <2>3
<1>5. CASE SendQuit
  <2>1. /\ queue' = queue \/ queue' = Enqueued(command_tx, "quit")
        /\ sent' = sent /\ writer' = writer /\ main = "quitting"
        /\ main' = "waiting" /\ command_tx' = command_tx /\ connected' = connected
        /\ command_tx \in Conns
    BY <1>0, <1>5 DEF SendQuit, SendAwait, history, flags
  <2>2. CASE queue' = queue
    BY <2>1, <2>2 DEF HelloInv, HelloFirst, Greets
  <2>3. CASE queue' = Enqueued(command_tx, "quit")
    BY <1>c, <2>1, <2>3, HelloEnqueued DEF HelloInv, HelloFirst
  <2> QED
    BY <2>1, <2>2, <2>3
<1>6. ASSUME NEW c \in Conns, Take(c) \/ WriteFails(c) \/ NoSender(c) \/ Written(c)
      PROVE  HelloInv'
  <2>1. UNCHANGED <<connected, main, command_tx>>
    BY <1>6 DEF Take, WriteFails, NoSender, Written, flags, client
  <2>2. \A d \in Conns : d # c =>
          queue'[d] = queue[d] /\ writer'[d] = writer[d] /\ sent'[d] = sent[d]
    BY <1>0, <1>6 DEF Take, WriteFails, NoSender, Written, history
  <2>3. /\ sent'[c] # "ungreeted"
        /\ Greets(c) => Greets(c)'
        /\ sent'[c] = "nothing" =>
             writer'[c] \in {"none", "hello", "done"}
    <3>1. CASE Take(c)
      <4>1. writer[c] = "idle" /\ queue[c] # <<>> /\ sent' = sent
        BY <3>1 DEF Take, history
      <4>2. \/ Head(queue[c]) = "quit" /\ writer'[c] = "done"
            \/ Head(queue[c]) # "quit" /\ writer'[c] = Head(queue[c])
        BY <1>0, <3>1 DEF Take
      <4> QED
        BY <4>1, <4>2 DEF HelloInv, HelloFirst, Greets
    <3>2. CASE WriteFails(c) \/ NoSender(c)
      <4>1. writer'[c] = "done" /\ sent' = sent
        BY <1>0, <3>2 DEF WriteFails, NoSender, history
      <4> QED
        BY <4>1 DEF HelloInv, HelloFirst, Greets
    <3>3. CASE Written(c)
      <4>1. writer[c] \in Frames /\ (sent[c] = "nothing" => writer[c] = "hello")
        BY <3>3 DEF Written, HelloInv, Frames
      <4>2. sent'[c] \in {"greeted", "closed", sent[c]} /\ sent'[c] # "nothing"
        BY <1>0, <3>3, <4>1 DEF Written
      <4> QED
        BY <4>2 DEF HelloInv, HelloFirst, Greets
    <3> QED
      BY <1>6, <3>1, <3>2, <3>3
  <2>4. \A d \in Conns : Greets(d) => Greets(d)'
    BY <2>2, <2>3 DEF Greets
  <2>5. command_tx # 0 => command_tx \in Conns
    BY <1>0
  <2>6. main = "closing" => command_tx \in Conns
    BY <1>0
  <2>7. \A d \in Conns : sent'[d] # "ungreeted"
    BY <2>2, <2>3 DEF HelloInv, HelloFirst
  <2>8. \A d \in Conns : sent'[d] = "nothing" =>
          /\ writer'[d] \in {"none", "idle", "hello", "done"}
          /\ (writer'[d] = "idle" /\ queue'[d] # <<>>) =>
               Head(queue'[d]) \in {"hello", "quit"}
    BY <2>2, <2>3 DEF HelloInv
  <2> QED
    BY <2>1, <2>4, <2>5, <2>6, <2>7, <2>8 DEF HelloInv, HelloFirst
<1>7. ASSUME NEW c \in Conns, PingTick(c) \/ PingSend(c) \/ PingAborted(c) PROVE FALSE
  BY <1>0, <1>7 DEF PingTick, PingSend, PingAborted
<1>8. CASE Disconnect
  BY <1>8 DEF Disconnect, HelloInv, HelloFirst, Greets, tasks, history
<1>9. CASE Connect \/ ConnectFails \/ Cleanup \/ Drop \/ UNCHANGED vars
  BY <1>9 DEF Connect, ConnectFails, Cleanup, Drop, vars, flags, client, tasks, history,
               HelloInv, HelloFirst, Greets
<1>10. ASSUME NEW c \in Conns,
              \/ ReadEnds(c) \/ Swap(c) \/ Announce(c) \/ Schedule(c) \/ SleepEnds(c)
              \/ PeerEnds(c)
       PROVE  HelloInv'
  <2>1. /\ UNCHANGED <<queue, writer, sent, main, command_tx>>
        /\ connected' => connected
    BY <1>10 DEF ReadEnds, Swap, Announce, Schedule, SleepEnds, PeerEnds, flags, client,
                 tasks, history
  <2> QED
    BY <2>1 DEF HelloInv, HelloFirst, Greets
<1> QED
  BY <1>1, <1>2, <1>3, <1>4, <1>5, <1>6, <1>7, <1>8, <1>9, <1>10 DEF Next, Caller, Task

LEMMA HelloAlways == Calm => (Spec => []HelloInv)
<1> SUFFICES ASSUME Calm PROVE Spec => []HelloInv
  OBVIOUS
<1>1. Init => HelloInv
  BY DEF Init, HelloInv, HelloFirst
<1> QED
  BY <1>1, HelloStep, CalmAlways, PTL DEF Spec

(***************************************************************************)
(* Of a calm client every connection gets HELLO before anything else,      *)
(* whatever the program sends as soon as connect() has returned.           *)
(***************************************************************************)
THEOREM GreetsFirst == Calm => (Spec => []HelloFirst)
<1> SUFFICES ASSUME Calm PROVE Spec => []HelloFirst
  OBVIOUS
<1>1. HelloInv => HelloFirst
  BY DEF HelloInv
<1> QED
  BY <1>1, HelloAlways, PTL

-----------------------------------------------------------------------------
(* CLOSE comes before the connection is shut down. *)

\* CLOSE was written, or is on its way; or nobody could read it.
Closing(c) ==
  \/ peer[c] = "closed" \/ sent[c] = "closed"
  \/ writer[c] \in {"close", "done"}
  \/ \E i \in 1..Len(queue[c]) : queue[c][i] = "close"

\* The Disconnect command at a place of the channel has CLOSE before it.
ClosedBefore(c, i) ==
  \/ peer[c] = "closed" \/ sent[c] = "closed"
  \/ writer[c] \in {"close", "done"}
  \/ \E j \in 1..(i - 1) : queue[c][j] = "close"

\* While the program has not called disconnect().
AtEase == main \in {"idle", "connecting", "greeting"} /\ command_tx # 0

CloseInv ==
  /\ \A c \in Conns : \A i \in 1..Len(queue[c]) :
       queue[c][i] = "quit" => ClosedBefore(c, i)
  /\ main = "quitting" => Closing(command_tx)
  /\ (AtEase /\ ~connected) => peer[command_tx] = "closed"
  /\ (AtEase /\ reader[command_tx] = "ended") => peer[command_tx] = "closed"
  /\ (AtEase /\ ~running) => peer[command_tx] = "closed"
  /\ main = "connecting" => running

\* Appending to a channel that is open.
LEMMA CloseEnqueued ==
  ASSUME CalmInv, CloseInv, NEW c \in Conns, NEW x \in Commands,
         queue' = Enqueued(c, x), UNCHANGED <<sent, writer, peer>>,
         x = "quit" => Closing(c)
  PROVE  /\ \A d \in Conns : \A i \in 1..Len(queue'[d]) :
              queue'[d][i] = "quit" => ClosedBefore(d, i)'
         /\ Closing(c) => Closing(c)'
         /\ x = "close" => Closing(c)'
<1>1. queue \in [Conns -> Seq(Commands)]
  BY Facts DEF CalmInv
<1>n. PICK n \in Nat : n = Len(queue[c])
  BY <1>1
<1>2. /\ queue'[c] = Append(queue[c], x)
      /\ \A d \in Conns : d # c => queue'[d] = queue[d]
  BY <1>1 DEF Enqueued
<1>3. /\ Len(queue'[c]) = n + 1
      /\ \A i \in 1..n : queue'[c][i] = queue[c][i]
      /\ queue'[c][n + 1] = x
  BY <1>1, <1>n, <1>2, AppendFacts
<1>4. \A i \in 1..(n + 1) : i \in 1..n \/ i = n + 1
  OBVIOUS
<1>5. ASSUME NEW i \in 1..(n + 1), queue'[c][i] = "quit" PROVE ClosedBefore(c, i)'
  <2>1. CASE i \in 1..n
    <3>1. ClosedBefore(c, i)
      BY <1>n, <1>3, <1>5, <2>1 DEF CloseInv
    <3>2. \A j \in 1..(i - 1) : queue'[c][j] = queue[c][j]
      BY <1>3, <2>1
    <3> QED
      BY <3>1, <3>2 DEF ClosedBefore
  <2>2. CASE i = n + 1
    <3>1. Closing(c)
      BY <1>3, <1>5, <2>2
    <3>2. 1..(i - 1) = 1..n
      BY <2>2
    <3> QED
      BY <1>n, <1>3, <3>1, <3>2 DEF Closing, ClosedBefore
  <2> QED
    BY <1>4, <2>1, <2>2
<1>6. \A d \in Conns : d # c => \A i \in 1..Len(queue'[d]) :
        queue'[d][i] = "quit" => ClosedBefore(d, i)'
  BY <1>2 DEF CloseInv, ClosedBefore
<1>7. Closing(c) => Closing(c)'
  <2>1. \A i \in 1..n : i \in 1..(n + 1)
    OBVIOUS
  <2> QED
    BY <1>n, <1>3, <2>1 DEF Closing
<1>8. x = "close" => Closing(c)'
  <2>1. n + 1 \in 1..(n + 1)
    OBVIOUS
  <2> QED
    BY <1>3, <2>1 DEF Closing
<1> QED
  BY <1>3, <1>5, <1>6, <1>7, <1>8

\* What the write task does keeps what is promised of CLOSE.
LEMMA CloseWriter ==
  ASSUME CalmInv, HelloInv, CloseInv, NEW c \in Conns,
         Take(c) \/ WriteFails(c) \/ NoSender(c) \/ Written(c)
  PROVE  /\ \A d \in Conns : \A i \in 1..Len(queue'[d]) :
              queue'[d][i] = "quit" => ClosedBefore(d, i)'
         /\ \A d \in Conns : Closing(d) => Closing(d)'
<1>1. /\ queue \in [Conns -> Seq(Commands)]
      /\ writer \in [Conns -> {"none", "idle", "done"} \cup Frames]
      /\ sent \in [Conns -> {"nothing", "greeted", "closed", "ungreeted"}]
  BY DEF CalmInv, TypeInv, RestOK, QueueOK
<1>2. peer' = peer
  BY DEF Take, WriteFails, NoSender, Written, history
<1>3. \A d \in Conns : d # c =>
        queue'[d] = queue[d] /\ writer'[d] = writer[d] /\ sent'[d] = sent[d]
  BY <1>1 DEF Take, WriteFails, NoSender, Written, history
<1>4. \A d \in Conns : d # c =>
        /\ Closing(d) => Closing(d)'
        /\ \A i \in 1..Len(queue'[d]) :
             queue'[d][i] = "quit" => ClosedBefore(d, i)'
  BY <1>2, <1>3 DEF CloseInv, Closing, ClosedBefore
<1>5. CASE writer'[c] = "done"
  BY <1>4, <1>5 DEF Closing, ClosedBefore
<1>6. CASE Take(c) /\ writer'[c] # "done"
  <2>1. /\ writer[c] = "idle" /\ queue[c] # <<>> /\ sent' = sent
        /\ writer'[c] = Head(queue[c]) /\ queue'[c] = Tail(queue[c])
    BY <1>1, <1>6 DEF Take, history
  <2>n. PICK n \in Nat : n = Len(queue[c]) /\ n >= 1
    BY <1>1, <2>1
  <2>2. /\ Len(queue'[c]) = n - 1 /\ queue[c][1] = writer'[c]
        /\ \A i \in 1..(n - 1) : queue'[c][i] = queue[c][i + 1]
    BY <1>1, <2>1, <2>n
  <2>3. \A i \in 1..n : i = 1 \/ (i - 1 \in 1..(n - 1) /\ queue'[c][i - 1] = queue[c][i])
    <3>1. \A i \in 1..n : i = 1 \/ (i - 1 \in 1..(n - 1) /\ (i - 1) + 1 = i)
      BY <2>n
    <3> QED
      BY <2>2, <3>1
  <2>4. Closing(c) => Closing(c)'
    BY <1>2, <2>1, <2>n, <2>2, <2>3 DEF Closing
  <2>5. ASSUME NEW i \in 1..(n - 1), queue'[c][i] = "quit"
        PROVE  ClosedBefore(c, i)'
    <3>1. i + 1 \in 1..n /\ queue[c][i + 1] = "quit"
      BY <2>n, <2>2, <2>5
    <3>2. ClosedBefore(c, i + 1)
      BY <2>n, <3>1 DEF CloseInv
    <3>3. CASE peer[c] = "closed" \/ sent[c] = "closed"
      BY <1>2, <2>1, <3>3 DEF ClosedBefore
    <3>4. CASE \E j \in 1..((i + 1) - 1) : queue[c][j] = "close"
      <4>1. PICK j \in 1..i : queue[c][j] = "close"
        BY <3>4
      <4>2. CASE j = 1
        BY <2>2, <4>1, <4>2 DEF ClosedBefore
      <4>3. CASE j # 1
        <5>1. j - 1 \in 1..(i - 1) /\ j \in 1..n
          BY <2>n, <4>3
        <5> QED
          BY <2>3, <4>1, <4>3, <5>1 DEF ClosedBefore
      <4> QED
        BY <4>2, <4>3
    <3> QED
      BY <2>1, <3>2, <3>3, <3>4 DEF ClosedBefore
  <2> QED
    BY <1>4, <2>2, <2>4, <2>5
<1>7. CASE Written(c)
  <2>1. /\ queue' = queue /\ writer[c] \in Frames
        /\ writer[c] = "close" => sent[c] \in {"greeted", "closed"}
        /\ sent' = [sent EXCEPT ![c] =
             CASE @ = "nothing" -> IF writer[c] = "hello" THEN "greeted" ELSE "ungreeted"
               [] @ = "greeted" /\ writer[c] = "close" -> "closed"
               [] OTHER -> @]
    BY <1>1, <1>7 DEF Written, HelloInv, HelloFirst, Frames
  <2>2. writer[c] = "close" \/ sent[c] = "closed" => sent'[c] = "closed"
    BY <1>1, <2>1
  <2>3. writer[c] # "done"
    BY <2>1 DEF Frames
  <2> QED
    BY <1>2, <1>4, <2>1, <2>2, <2>3 DEF Closing, ClosedBefore, CloseInv
<1> QED
  BY <1>1, <1>5, <1>6, <1>7 DEF WriteFails, NoSender

LEMMA CloseStep ==
  ASSUME Calm, CalmInv, HelloInv, CloseInv, [Next]_vars
  PROVE  CloseInv'
<1>0. /\ queue \in [Conns -> Seq(Commands)] /\ conn \in 0..MaxConns
      /\ reader \in [Conns -> ReaderStates]
      /\ peer \in [Conns -> {"none", "open", "closed"}]
      /\ \A c \in Conns : pinger[c] \in {"none", "done"}
      /\ \A c \in Conns : c # conn => reader[c] \notin Speaking
      /\ (conn # 0 => conn \in Conns)
      /\ command_tx \in {0, conn}
      /\ main = "connecting" => conn + 1 \in Conns
      /\ main \in {"greeting", "closing", "quitting", "waiting"} =>
           command_tx = conn /\ conn # 0
  BY Facts DEF CalmInv, ChannelInv, ReaderInv, TypeInv, RestOK
<1>c. {"hello", "frame", "close", "quit"} \subseteq Commands
  BY DEF Commands, Frames
<1>1. CASE Established
  <2>1. /\ sent' = sent /\ queue' = queue /\ main' = "greeting" /\ running' = running
        /\ running /\ connected' /\ conn + 1 \in Conns /\ command_tx' = conn + 1
        /\ writer' = [writer EXCEPT ![conn + 1] = "idle"]
        /\ peer' = [peer EXCEPT ![conn + 1] = "open"]
        /\ reader' = [reader EXCEPT ![conn + 1] = "reading"]
    BY <1>0, <1>1 DEF Established, history, CloseInv
  <2>2. queue[conn + 1] = <<>> /\ Len(<<>>) = 0
    <3>1. conn + 1 > conn
      BY <1>0
    <3> QED
      BY <2>1, <3>1 DEF CalmInv, ChannelInv
  <2>3. \A c \in Conns : c # conn + 1 =>
          queue'[c] = queue[c] /\ peer'[c] = peer[c] /\ writer'[c] = writer[c]
    BY <1>0, <2>1 DEF CalmInv, TypeInv, RestOK
  <2>4. \A c \in Conns : \A i \in 1..Len(queue'[c]) :
          queue'[c][i] = "quit" => ClosedBefore(c, i)'
    <3>1. \A c \in Conns : c # conn + 1 => \A i \in 1..Len(queue'[c]) :
            queue'[c][i] = "quit" => ClosedBefore(c, i)'
      BY <2>1, <2>3 DEF CloseInv, ClosedBefore
    <3>2. 1..Len(queue'[conn + 1]) = {}
      BY <2>1, <2>2
    <3> QED
      BY <3>1, <3>2
  <2>5. command_tx' \in Conns /\ reader'[command_tx'] = "reading"
    BY <1>0, <2>1
  <2> QED
    BY <2>1, <2>4, <2>5 DEF CloseInv, AtEase
<1>2. CASE Greet
  <2>1. /\ main' = "idle" /\ UNCHANGED <<sent, writer, command_tx, peer, reader>>
        /\ main = "greeting" /\ command_tx \in Conns /\ command_tx # 0
    BY <1>0, <1>2 DEF Greet, tasks, history
  <2>2. CASE connected
    <3>1. queue' = Enqueued(command_tx, "hello") /\ running' = running /\ connected'
      BY <1>0, <1>2, <2>2, GreetingFits DEF Greet
    <3> QED
      BY <1>c, <2>1, <3>1, CloseEnqueued DEF CloseInv, AtEase
  <2>3. CASE ~connected
    <3>1. queue' = queue /\ peer[command_tx] = "closed"
      BY <1>2, <2>1, <2>3 DEF Greet, CloseInv, AtEase
    <3> QED
      BY <2>1, <3>1 DEF CloseInv, ClosedBefore, AtEase
  <2> QED
    BY <2>2, <2>3
<1>3. CASE Send
  <2>1. /\ queue' = Enqueued(command_tx, "frame")
        /\ UNCHANGED <<sent, writer, peer, reader, main, command_tx, connected, running>>
        /\ command_tx \in Conns /\ main = "idle"
    BY <1>0, <1>3 DEF Send, tasks, history, client, flags
  <2> QED
    BY <1>c, <2>1, CloseEnqueued DEF CloseInv, AtEase
<1>4. CASE Disconnect
  <2>1. /\ UNCHANGED <<sent, writer, peer, reader, queue, command_tx>>
        /\ main = "idle" /\ (command_tx = 0 => main' = "idle")
        /\ (command_tx # 0 => main' = IF connected THEN "closing" ELSE "quitting")
    BY <1>4 DEF Disconnect, tasks, history
  <2>2. (command_tx # 0 /\ ~connected) => peer[command_tx] = "closed"
    BY <2>1 DEF CloseInv, AtEase
  <2> QED
    BY <2>1, <2>2 DEF CloseInv, ClosedBefore, Closing, AtEase
<1>5. CASE SendClose
  <2>1. /\ UNCHANGED <<sent, writer, peer>> /\ main' = "quitting"
        /\ command_tx' = command_tx /\ command_tx \in Conns
        /\ \/ queue' = queue /\ writer[command_tx] = "done"
           \/ queue' = Enqueued(command_tx, "close")
    BY <1>0, <1>5 DEF SendClose, SendAwait, Open, tasks, history
  <2>2. CASE queue' = queue /\ writer[command_tx] = "done"
    BY <2>1, <2>2 DEF CloseInv, ClosedBefore, Closing, AtEase
  <2>3. CASE queue' = Enqueued(command_tx, "close")
    BY <1>c, <2>1, <2>3, CloseEnqueued DEF CloseInv, AtEase
  <2> QED
    BY <2>1, <2>2, <2>3
<1>6. CASE SendQuit
  <2>1. /\ UNCHANGED <<sent, writer, peer>> /\ main' = "waiting" /\ main = "quitting"
        /\ command_tx' = command_tx /\ command_tx \in Conns /\ Closing(command_tx)
        /\ queue' = queue \/ queue' = Enqueued(command_tx, "quit")
    BY <1>0, <1>6 DEF SendQuit, SendAwait, history, CloseInv
  <2>2. CASE queue' = queue
    BY <2>1, <2>2 DEF CloseInv, ClosedBefore, AtEase
  <2>3. CASE queue' = Enqueued(command_tx, "quit")
    BY <1>c, <2>1, <2>3, CloseEnqueued DEF CloseInv, AtEase
  <2> QED
    BY <2>1, <2>2, <2>3
<1>7. ASSUME NEW c \in Conns, Take(c) \/ WriteFails(c) \/ NoSender(c) \/ Written(c)
      PROVE  CloseInv'
  <2>1. UNCHANGED <<peer, reader, main, command_tx, connected, running>>
    BY <1>7 DEF Take, WriteFails, NoSender, Written, flags, client, history
  <2>2. main = "quitting" => command_tx \in Conns
    BY <1>0
  <2>3. /\ \A d \in Conns : \A i \in 1..Len(queue'[d]) :
             queue'[d][i] = "quit" => ClosedBefore(d, i)'
        /\ \A d \in Conns : Closing(d) => Closing(d)'
    BY <1>7, CloseWriter
  <2> QED
    BY <2>1, <2>2, <2>3 DEF CloseInv, AtEase
<1>8. ASSUME NEW c \in Conns, PingTick(c) \/ PingSend(c) \/ PingAborted(c) PROVE FALSE
  BY <1>0, <1>8 DEF PingTick, PingSend, PingAborted
<1>9. ASSUME NEW c \in Conns,
             ReadEnds(c) \/ Swap(c) \/ Announce(c) \/ Schedule(c) \/ SleepEnds(c)
      PROVE  CloseInv'
  <2>1. /\ UNCHANGED <<queue, writer, sent, peer, main, command_tx, running>>
    BY <1>9 DEF ReadEnds, Swap, Announce, Schedule, SleepEnds, flags, client, history
  <2>2. command_tx # 0 => command_tx \in Conns
    BY <1>0
  <2>3. ASSUME AtEase', ~connected' PROVE peer[command_tx] = "closed"
    <3>1. AtEase
      BY <2>1, <2>3 DEF AtEase
    <3>2. CASE Swap(c)
      <4>1. reader[c] = "ended" /\ c = command_tx
        BY <1>0, <3>1, <3>2 DEF Swap, Speaking, AtEase
      <4> QED
        BY <3>1, <4>1 DEF CloseInv
    <3>3. CASE ~Swap(c)
      BY <1>9, <2>3, <3>1, <3>3 DEF ReadEnds, Announce, Schedule, SleepEnds, flags, CloseInv
    <3> QED
      BY <3>2, <3>3
  <2>4. ASSUME AtEase', reader'[command_tx] = "ended" PROVE peer[command_tx] = "closed"
    <3>1. AtEase /\ command_tx \in Conns
      BY <1>0, <2>1, <2>4 DEF AtEase
    <3>2. reader[command_tx] = "ended" \/ (ReadEnds(c) /\ c = command_tx)
      BY <1>0, <1>9, <2>4, <3>1 DEF ReadEnds, Swap, Announce, Schedule, SleepEnds
    <3>3. CASE reader[command_tx] = "ended"
      BY <3>1, <3>3 DEF CloseInv
    <3>4. CASE ReadEnds(c) /\ c = command_tx
      BY <3>1, <3>4 DEF ReadEnds, CloseInv
    <3> QED
      BY <3>2, <3>3, <3>4
  <2> QED
    BY <2>1, <2>3, <2>4 DEF CloseInv, ClosedBefore, Closing, AtEase
<1>10. ASSUME NEW c \in Conns, PeerEnds(c) PROVE CloseInv'
  <2>1. /\ UNCHANGED <<queue, writer, sent, reader, main, command_tx, running, connected>>
        /\ \A d \in Conns : peer[d] = "closed" => peer'[d] = "closed"
    BY <1>0, <1>10 DEF PeerEnds, flags, client, tasks, history
  <2>2. command_tx # 0 => command_tx \in Conns
    BY <1>0
  <2>3. main = "quitting" => command_tx \in Conns
    BY <1>0
  <2>4. \A d \in Conns : \A i \in 1..Len(queue[d]) : ClosedBefore(d, i) => ClosedBefore(d, i)'
    BY <2>1 DEF ClosedBefore
  <2>5. main = "quitting" => Closing(command_tx)'
    BY <2>1, <2>3 DEF CloseInv, Closing
  <2> QED
    BY <2>1, <2>2, <2>4, <2>5 DEF CloseInv, AtEase
<1>11. CASE Connect
  BY <1>11 DEF Connect, CloseInv, ClosedBefore, Closing, AtEase, tasks, history
<1>12. CASE Cleanup \/ Drop
  <2>1. /\ UNCHANGED <<queue, writer, sent, peer>> /\ command_tx' = 0
        /\ main' \in {"idle", "dropped"}
    BY <1>12 DEF Cleanup, Drop, tasks, history
  <2> QED
    BY <2>1 DEF CloseInv, ClosedBefore, AtEase
<1>13. CASE ConnectFails \/ UNCHANGED vars
  BY <1>13 DEF ConnectFails, vars, flags, client, tasks, history, CloseInv, ClosedBefore,
               Closing, AtEase
<1> QED
  BY <1>1, <1>2, <1>3, <1>4, <1>5, <1>6, <1>7, <1>8, <1>9, <1>10, <1>11, <1>12, <1>13
     DEF Next, Caller, Task

(***************************************************************************)
(* A calm client shuts a live connection down only after CLOSE was         *)
(* written, behind everything that was in the channel.                     *)
(***************************************************************************)
THEOREM ClosesFirst == Calm => (Spec => CloseBeforeFin)
<1> DEFINE Shut == \A c \in Conns :
                     (writer[c] = "idle" /\ writer'[c] = "done" /\ queue[c] # <<>>)
                       => (sent[c] = "closed" \/ peer[c] = "closed")
<1> SUFFICES ASSUME Calm PROVE Spec => [][Shut]_vars
  BY DEF CloseBeforeFin
<1>1. Init => CloseInv
  <2> SUFFICES ASSUME Init PROVE CloseInv
    OBVIOUS
  <2>1. main = "idle" /\ command_tx = 0 /\ \A c \in Conns : queue[c] = <<>>
    BY DEF Init
  <2>2. 1..Len(<<>>) = {}
    OBVIOUS
  <2> QED
    BY <2>1, <2>2 DEF CloseInv, AtEase
<1>2. CalmInv /\ CloseInv /\ [Next]_vars => [Shut]_vars
  <2> SUFFICES ASSUME CalmInv, CloseInv, Next, NEW c \in Conns,
                      writer[c] = "idle", writer'[c] = "done", queue[c] # <<>>
               PROVE  sent[c] = "closed" \/ peer[c] = "closed"
    OBVIOUS
  <2>1. /\ writer \in [Conns -> {"none", "idle", "done"} \cup Frames]
        /\ queue \in [Conns -> Seq(Commands)]
    BY Facts DEF CalmInv
  <2>2. \E d \in Conns : Take(d) \/ NoSender(d) \/ WriteFails(d) \/ Written(d)
    <3>1. ASSUME Caller PROVE FALSE
      BY <2>1, <3>1 DEF Caller, Connect, ConnectFails, Established, Greet, Send, Disconnect,
                  SendClose, SendQuit, Cleanup, Drop, tasks
    <3>2. ASSUME NEW d \in Conns,
                 \/ ReadEnds(d) \/ Swap(d) \/ Announce(d) \/ Schedule(d) \/ SleepEnds(d)
                 \/ PingTick(d) \/ PingSend(d) \/ PingAborted(d) \/ PeerEnds(d)
          PROVE  FALSE
      BY <3>2 DEF ReadEnds, Swap, Announce, Schedule, SleepEnds, PingTick, PingSend,
                  PingAborted, PeerEnds, tasks
    <3> QED
      BY <3>1, <3>2 DEF Next, Task
  <2>3. Take(c) /\ Head(queue[c]) = "quit"
    <3>1. PICK d \in Conns : Take(d) \/ NoSender(d) \/ WriteFails(d) \/ Written(d)
      BY <2>2
    <3>2. c = d
      BY <2>1, <3>1 DEF Take, NoSender, WriteFails, Written
    <3>3. Take(c)
      BY <2>1, <3>1, <3>2 DEF NoSender, WriteFails, Written, Frames
    <3>4. Head(queue[c]) # "quit" => writer'[c] = Head(queue[c])
      BY <2>1, <3>3 DEF Take
    <3>5. Head(queue[c]) \in Commands /\ "done" \notin Commands
      BY <2>1 DEF Commands, Frames
    <3> QED
      BY <3>3, <3>4, <3>5
  <2>4. 1 \in 1..Len(queue[c]) /\ queue[c][1] = "quit"
    BY <2>1, <2>3
  <2>5. ClosedBefore(c, 1) /\ 1..(1 - 1) = {}
    BY <2>4 DEF CloseInv
  <2> QED
    BY <2>5 DEF ClosedBefore
<1>3. CalmInv /\ HelloInv /\ CloseInv /\ [Next]_vars => CloseInv'
  BY CloseStep
<1> QED
  BY <1>1, <1>2, <1>3, HelloAlways, CalmAlways, PTL DEF Spec

=============================================================================
