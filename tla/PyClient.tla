------------------------------ MODULE PyClient ------------------------------
(***************************************************************************)
(* The connection life cycle of the Python client.  One thread runs the    *)
(* program and the client's tasks by turns: each runs to its next await.   *)
(*                                                                         *)
(* A task that is cancelled ends with CancelledError at its next step,     *)
(* since none of them catches it, and who awaits it gets that exception.   *)
(* So _cleanup() passes over the tasks that have ended by themselves, and  *)
(* at the first other one, which it cancels if need be, it raises.         *)
(***************************************************************************)
EXTENDS Integers, FiniteSets

CONSTANTS
  MaxConns,                 \* bound: connections established
  MaxClosers,               \* bound: CLOSE frames of a connection waiting to be handled
  max_reconnect_attempts,   \* the option: 0 means no limit
  OverlapConnects           \* TRUE if the program may call connect() while a
                            \* reconnection is under way

ASSUME PyClientAssumption ==
  /\ MaxConns \in Nat /\ MaxClosers \in Nat
  /\ max_reconnect_attempts \in Nat
  /\ OverlapConnects \in BOOLEAN

Conns == 1..MaxConns

VARIABLES
  pinging,              \* the option ping_interval > 0
  auto_reconnect,       \* the option
  connected, running,   \* _connected, _running
  attempts,             \* _reconnect_attempts
  main,                 \* where the program's call is
  outcome,              \* history: how the last disconnect() ended, until the next connect()
  downs,                \* history: how often on_disconnect was called
  conn,                 \* the connections established so far
  cur,                  \* the connection of _reader and _writer, 0 for None
  net,                  \* the stream from the server: open, or ended
  ping, read,           \* the ping task and the read task of each connection
  source,               \* the connection that a read task waits for
  ping_task, read_task, \* what _ping_task and _read_task hold, 0 for None
  reconnect,            \* the task in _reconnect_task, "none" for None
  closers               \* the tasks that CLOSE frames on a connection have created

flags == <<pinging, auto_reconnect, connected, running, attempts>>
program == <<main, outcome, downs>>
network == <<conn, cur, net>>
tasks == <<ping, ping_task, read, read_task, reconnect>>
vars == <<flags, program, network, tasks, source, closers>>

Live == {"new", "waiting", "sleeping", "dialing", "cancelling"}
Ended == {"done", "cancelled"}

TypeOK ==
  /\ pinging \in BOOLEAN /\ auto_reconnect \in BOOLEAN
  /\ connected \in BOOLEAN /\ running \in BOOLEAN
  /\ attempts \in Nat
  /\ main \in {"idle", "dialing", "raising", "closing", "waiting"}
  /\ outcome \in {"none", "returned", "raised"}
  /\ downs \in Nat
  /\ conn \in 0..MaxConns /\ cur \in 0..conn
  /\ net \in [Conns -> {"open", "ended"}]
  /\ ping \in [Conns -> {"none", "sleeping", "cancelling"} \cup Ended]
  /\ read \in [Conns -> {"none", "new", "waiting", "cancelling"} \cup Ended]
  /\ source \in [Conns -> 0..MaxConns]
  /\ ping_task \in 0..conn /\ read_task \in 0..conn
  /\ reconnect \in {"none", "sleeping", "dialing", "cancelling"} \cup Ended
  /\ closers \in [Conns -> 0..MaxClosers]

Init ==
  /\ pinging \in BOOLEAN
  /\ auto_reconnect = TRUE
  /\ connected = FALSE /\ running = FALSE
  /\ attempts = 0
  /\ main = "idle" /\ outcome = "none" /\ downs = 0
  /\ conn = 0 /\ cur = 0
  /\ net = [c \in Conns |-> "open"]
  /\ ping = [c \in Conns |-> "none"]
  /\ read = [c \in Conns |-> "none"]
  /\ source = [c \in Conns |-> 0]
  /\ ping_task = 0 /\ read_task = 0
  /\ reconnect = "none"
  /\ closers = [c \in Conns |-> 0]

-----------------------------------------------------------------------------
(* _cleanup *)

Raises(s) == s \in Live \cup {"cancelled"}
State(ts, t) == IF t = 0 THEN "none" ELSE ts[t]
Stopped(s) == IF s \in Live THEN "cancelling" ELSE s

\* A plausible bug: the read task is forgotten.
BugFirstForgetsRead ==
  IF Raises(State(ping, ping_task)) THEN "ping"
  ELSE IF Raises(reconnect) THEN "reconnect"
  ELSE "nothing"

\* The first task that makes _cleanup() raise.
First ==
  IF Raises(State(ping, ping_task)) THEN "ping"
  ELSE IF Raises(State(read, read_task)) THEN "read"
  ELSE IF Raises(reconnect) THEN "reconnect"
  ELSE "nothing"

\* What _cleanup() leaves, if the read tasks are in the states readers.
Cleanup(readers) ==
  /\ ping' = IF First = "ping" THEN [ping EXCEPT ![ping_task] = Stopped(@)] ELSE ping
  /\ ping_task' = IF First = "ping" THEN ping_task ELSE 0
  /\ read' = IF First = "read" THEN [readers EXCEPT ![read_task] = Stopped(@)] ELSE readers
  /\ read_task' = IF First \in {"ping", "read"} THEN read_task ELSE 0

AfterCleanup ==
  CASE First = "reconnect" -> Stopped(reconnect)
    [] First = "nothing" -> "none"
    [] OTHER -> reconnect

-----------------------------------------------------------------------------
(* connect and disconnect *)

\* connect(), when not connected, up to the await of open_connection.
Connect ==
  /\ main = "idle" /\ ~connected
  /\ OverlapConnects \/ reconnect \notin Live
  /\ conn < MaxConns
  /\ running' = TRUE
  /\ main' = "dialing" /\ outcome' = "none"
  /\ UNCHANGED <<pinging, auto_reconnect, connected, attempts, downs, network,
                 tasks, source, closers>>

\* No task is ready to run.  The event loop is first come, first served: what is
\* ready runs before a delay ends, and while open_connection takes its turns.
Quiet ==
  \A c \in Conns :
    /\ read[c] # "new" /\ closers[c] = 0
    /\ "cancelling" \notin {ping[c], read[c], reconnect}

\* The part of connect() behind that await.
Established ==
  /\ conn < MaxConns /\ Quiet
  /\ LET c == conn + 1
     IN /\ conn' = c /\ cur' = c
        /\ read' = [read EXCEPT ![c] = "new"] /\ read_task' = c
        /\ \/ pinging /\ ping' = [ping EXCEPT ![c] = "sleeping"] /\ ping_task' = c
           \/ ~pinging /\ UNCHANGED <<ping, ping_task>>
  /\ connected' = TRUE
  /\ attempts' = 0
  /\ UNCHANGED <<pinging, auto_reconnect, running, outcome, downs, net, source, closers>>

Connected ==
  /\ main = "dialing" /\ main' = "idle"
  /\ Established
  /\ UNCHANGED reconnect

ConnectFails ==
  /\ main = "dialing" /\ main' = "idle"
  /\ UNCHANGED <<flags, outcome, downs, network, tasks, source, closers>>

\* disconnect(), up to its first await.
Disconnect ==
  /\ main = "idle"
  /\ auto_reconnect' = FALSE /\ running' = FALSE
  /\ Cleanup(read) /\ reconnect' = AfterCleanup
  /\ \/ /\ First # "nothing"
        /\ main' = "raising" /\ UNCHANGED <<outcome, connected>>
     \/ /\ First = "nothing" /\ cur # 0
        /\ main' = IF connected THEN "closing" ELSE "waiting"
        /\ UNCHANGED <<outcome, connected>>
     \/ /\ First = "nothing" /\ cur = 0
        /\ outcome' = "returned" /\ connected' = FALSE /\ UNCHANGED main
  /\ UNCHANGED <<pinging, attempts, downs, network, source, closers>>

\* CancelledError leaves disconnect() when the task it waits for has ended.
DisconnectRaises ==
  /\ main = "raising"
  /\ \A c \in Conns : "cancelling" \notin {ping[c], read[c], reconnect}
  /\ main' = "idle" /\ outcome' = "raised"
  /\ UNCHANGED <<flags, downs, network, tasks, source, closers>>

\* CLOSE is drained, or that fails: the writer is closed.
CloseSent ==
  /\ main = "closing" /\ main' = "waiting"
  /\ UNCHANGED <<flags, outcome, downs, network, tasks, source, closers>>

\* wait_closed() returns: the connection has ended.
DisconnectReturns ==
  /\ main = "waiting"
  /\ main' = "idle" /\ outcome' = "returned"
  /\ net' = [net EXCEPT ![cur] = "ended"]
  /\ cur' = 0 /\ connected' = FALSE
  /\ UNCHANGED <<pinging, auto_reconnect, running, attempts, downs, conn, tasks,
                 source, closers>>

-----------------------------------------------------------------------------
(* _handle_close and _schedule_reconnect *)

Exhausted ==
  max_reconnect_attempts > 0 /\ attempts >= max_reconnect_attempts

Counted == attempts + 1

\* A plausible bug: a client that was told to disconnect reconnects.
BugWanted == TRUE

Wanted == auto_reconnect /\ running

\* A plausible bug: whether it was connected is not looked at.
BugTold == downs + 1

\* on_disconnect is called if it was connected.
Told == IF connected THEN downs + 1 ELSE downs

\* _handle_close(), if the read tasks are in the states readers.
HandleClose(readers) ==
  /\ connected' = FALSE
  /\ Cleanup(readers)
  /\ \/ /\ First # "nothing"
        /\ reconnect' = AfterCleanup
        /\ UNCHANGED <<attempts, downs>>
     \/ /\ First = "nothing"
        /\ downs' = Told
        /\ IF Wanted /\ ~Exhausted
             THEN attempts' = Counted /\ reconnect' = "sleeping"
             ELSE reconnect' = "none" /\ UNCHANGED attempts
  /\ UNCHANGED <<pinging, auto_reconnect, running, main, outcome, conn, cur>>

\* A task that a CLOSE frame created.  Nobody awaits or cancels it.
CloseRuns(c) ==
  /\ closers[c] > 0
  /\ closers' = [closers EXCEPT ![c] = @ - 1]
  /\ HandleClose(read)
  /\ UNCHANGED <<net, source>>

\* The delay of reconnect() is over, and it calls connect().
DelayEnds ==
  /\ reconnect = "sleeping" /\ Quiet
  /\ \/ connected /\ reconnect' = "done" /\ UNCHANGED running
     \/ ~connected /\ reconnect' = "dialing" /\ running' = TRUE
  /\ UNCHANGED <<pinging, auto_reconnect, connected, attempts, program, network,
                 ping, ping_task, read, read_task, source, closers>>

Reconnected ==
  /\ reconnect = "dialing" /\ reconnect' = "done"
  /\ Established
  /\ UNCHANGED main

\* _schedule_reconnect() finds the very task that calls it, which is not done,
\* and returns.
ReconnectFails ==
  /\ reconnect = "dialing" /\ reconnect' = "done"
  /\ UNCHANGED <<flags, program, network, ping, ping_task, read, read_task,
                 source, closers>>

ReconnectCancelled ==
  /\ reconnect = "cancelling" /\ reconnect' = "cancelled"
  /\ UNCHANGED <<flags, program, network, ping, ping_task, read, read_task,
                 source, closers>>

-----------------------------------------------------------------------------
(* The read task and the ping task of a connection *)

\* An exception in the loop.  The task itself is one that _cleanup() cancels.
Fails(c) ==
  /\ HandleClose([read EXCEPT ![c] = IF First = "nothing" THEN "done" ELSE "cancelling"])
  /\ UNCHANGED source

\* The loop goes on, with whatever _reader is now; a StreamReader that another
\* task waits for raises RuntimeError, unless it has data.
LoopsOn(c) ==
  \/ /\ ~running \/ cur = 0
     /\ read' = [read EXCEPT ![c] = "done"]
     /\ UNCHANGED <<source, flags, program, conn, cur, ping, ping_task, read_task, reconnect>>
  \/ /\ running /\ cur # 0
     /\ read' = [read EXCEPT ![c] = "waiting"]
     /\ source' = [source EXCEPT ![c] = cur]
     /\ UNCHANGED <<flags, program, conn, cur, ping, ping_task, read_task, reconnect>>
  \/ /\ running /\ cur # 0
     /\ \E d \in Conns \ {c} : read[d] = "waiting" /\ source[d] = cur
     /\ Fails(c)

ReadStarts(c) ==
  /\ read[c] = "new"
  /\ LoopsOn(c)
  /\ UNCHANGED <<net, closers>>

HasData(c) == read[c] = "waiting" /\ net[source[c]] = "open"

Receive(c) ==
  /\ HasData(c)
  /\ LoopsOn(c)
  /\ UNCHANGED <<net, closers>>

ReceiveClose(c) ==
  /\ HasData(c)
  /\ closers[source[c]] < MaxClosers
  /\ closers' = [closers EXCEPT ![source[c]] = @ + 1]
  /\ LoopsOn(c)
  /\ UNCHANGED net

\* A wrong magic number: _writer is closed, whose connection then ends.
ReceiveBadMagic(c) ==
  /\ HasData(c)
  /\ net' = IF cur = 0 THEN net ELSE [net EXCEPT ![cur] = "ended"]
  /\ LoopsOn(c)
  /\ UNCHANGED closers

\* An unknown frame type, a text that is not UTF-8, or a broken connection.
ReceiveFails(c) ==
  /\ HasData(c)
  /\ Fails(c)
  /\ UNCHANGED <<net, closers>>

\* An empty read: the stream has ended, or another task has taken the data.
ReadEmpty(c) ==
  /\ read[c] = "waiting"
  /\ \/ net[source[c]] = "ended"
     \/ \E d \in Conns \ {c} : read[d] = "waiting" /\ source[d] = source[c]
  /\ read' = [read EXCEPT ![c] = "done"]
  /\ UNCHANGED <<flags, program, network, ping, ping_task, read_task, reconnect,
                 source, closers>>

\* A plausible bug: the loop catches CancelledError and goes on.
BugReadCancelled(c) ==
  /\ read[c] = "cancelling" /\ \A d \in Conns : net[d] = "ended"
  /\ read' = [read EXCEPT ![c] = "done"]
  /\ UNCHANGED <<flags, program, network, ping, ping_task, read_task, reconnect,
                 source, closers>>

ReadCancelled(c) ==
  /\ read[c] = "cancelling"
  /\ read' = [read EXCEPT ![c] = "cancelled"]
  /\ UNCHANGED <<flags, program, network, ping, ping_task, read_task, reconnect,
                 source, closers>>

\* The interval is over: PING if connected, and the loop's condition.
PingWakes(c) ==
  /\ ping[c] = "sleeping"
  /\ ping' = [ping EXCEPT ![c] = IF connected /\ running THEN @ ELSE "done"]
  /\ UNCHANGED <<flags, program, network, ping_task, read, read_task, reconnect,
                 source, closers>>

PingCancelled(c) ==
  /\ ping[c] = "cancelling"
  /\ ping' = [ping EXCEPT ![c] = "cancelled"]
  /\ UNCHANGED <<flags, program, network, ping_task, read, read_task, reconnect,
                 source, closers>>

\* The server ends the connection.
PeerEnds(c) ==
  /\ c <= conn /\ net[c] = "open"
  /\ net' = [net EXCEPT ![c] = "ended"]
  /\ UNCHANGED <<flags, program, conn, cur, tasks, source, closers>>

Task(c) ==
  \/ CloseRuns(c) \/ ReadStarts(c)
  \/ Receive(c) \/ ReceiveClose(c) \/ ReceiveBadMagic(c) \/ ReceiveFails(c)
  \/ ReadEmpty(c) \/ ReadCancelled(c) \/ PingWakes(c) \/ PingCancelled(c)
  \/ PeerEnds(c)

Next ==
  \/ Connect \/ Connected \/ ConnectFails
  \/ Disconnect \/ DisconnectRaises \/ CloseSent \/ DisconnectReturns
  \/ DelayEnds \/ Reconnected \/ ReconnectFails \/ ReconnectCancelled
  \/ \E c \in Conns : Task(c)

Spec == Init /\ [][Next]_vars

\* The connection that disconnect() closes has ended by itself.
Gone == cur # 0 /\ net[cur] = "ended"

\* The event loop runs what is ready; attempts are decided and delays end; the
\* end of a stream is delivered, and fails what waits for the connection.
\* Servers and programs owe nothing: drain() and wait_closed(), which have no
\* time-out, may wait for ever for a server that reads no more.
Fairness ==
  /\ WF_vars(Connected \/ ConnectFails)
  /\ WF_vars(DisconnectRaises)
  /\ WF_vars(CloseSent /\ Gone) /\ WF_vars(DisconnectReturns /\ Gone)
  /\ WF_vars(DelayEnds) /\ WF_vars(Reconnected \/ ReconnectFails)
  /\ WF_vars(ReconnectCancelled)
  /\ \A c \in Conns :
       /\ WF_vars(CloseRuns(c)) /\ WF_vars(ReadStarts(c))
       /\ WF_vars(ReadEmpty(c) /\ net[source[c]] = "ended")
       /\ WF_vars(ReadCancelled(c))
       /\ WF_vars(PingWakes(c)) /\ WF_vars(PingCancelled(c))

FairSpec == Spec /\ Fairness

-----------------------------------------------------------------------------

(***************************************************************************)
(* A disconnect() that returns has stopped everything: until the program   *)
(* connects again, no ping, read or reconnect task is left and nothing of  *)
(* the connection either.  The task of a CLOSE frame may be left, and has  *)
(* nothing to clean up or to schedule.                                     *)
(***************************************************************************)
ReturnedMeansStopped ==
  outcome = "returned" =>
    /\ ~connected /\ cur = 0
    /\ reconnect \notin Live
    /\ \A c \in Conns : ping[c] \notin Live /\ read[c] \notin Live

(***************************************************************************)
(* However disconnect() ended, no reconnection is under way afterwards.    *)
(***************************************************************************)
NoReconnectAfterDisconnect ==
  (~auto_reconnect /\ main = "idle") => reconnect \notin Live

(***************************************************************************)
(* on_disconnect is called once at the most for each connection, and not   *)
(* while the last one is up: not again for a CLOSE frame whose task runs   *)
(* after the read task has failed, nor the other way round.                *)
(***************************************************************************)
ToldOnce == downs + (IF connected THEN 1 ELSE 0) <= conn

(***************************************************************************)
(* While the client is up and its stream open, a read task waits for that  *)
(* stream, or is about to: no failure of another task leaves it unread.    *)
(***************************************************************************)
LiveStreamIsRead ==
  (connected /\ running) =>
    /\ cur # 0
    /\ net[cur] = "open" =>
         \E c \in Conns : read[c] = "new" \/ (read[c] = "waiting" /\ source[c] = cur)

(***************************************************************************)
(* Tasks of an older connection have ended before there is a new one: one  *)
(* ping task at most sends PING, and without pings no two read tasks wait  *)
(* for the same stream.  Nor is there one too few.                         *)
(***************************************************************************)
OneOfEach ==
  /\ Cardinality({c \in Conns : ping[c] = "sleeping"}) <= 1
  /\ ~pinging => Cardinality({c \in Conns : read[c] \in {"new", "waiting"}}) <= 1
  /\ LiveStreamIsRead

(***************************************************************************)
(* connect() and disconnect() end, one way or the other; but a disconnect()*)
(* that has stopped the tasks may wait for the network while the server    *)
(* keeps the connection.                                                   *)
(***************************************************************************)
CallsEnd ==
  main # "idle" ~> (main = "idle" \/ (main \in {"closing", "waiting"} /\ ~Gone))

(***************************************************************************)
(* disconnect() disconnects.                                               *)
(***************************************************************************)
DisconnectDisconnects == outcome # "none" => ~connected

(***************************************************************************)
(* When the server ends a connection that the program has not given up,    *)
(* the client calls on_disconnect.                                         *)
(***************************************************************************)
LossIsAnnounced ==
  \A n \in 0..MaxConns :
    (connected /\ running /\ net[cur] = "ended" /\ downs = n)
      ~> (~running \/ downs > n)

Life ==
  INSTANCE Session WITH Limit <- max_reconnect_attempts, Overlaps <- OverlapConnects,
                        up <- connected, line <- conn,
                        wanted <- auto_reconnect, tries <- attempts

(***************************************************************************)
(* The client implements Session: it connects only when it has no          *)
(* connection, counts reconnections only while it wants one, up to the     *)
(* limit, and never takes disconnect() back.                               *)
(***************************************************************************)
LifeSpec == Life!Spec

=============================================================================
