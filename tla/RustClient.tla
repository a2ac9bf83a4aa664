----------------------------- MODULE RustClient -----------------------------
(***************************************************************************)
(* The connection life cycle of the Rust client: connect(), disconnect(),  *)
(* drop and the sending calls on one side; on the other the three tasks    *)
(* that each connection spawns, which run on the threads of the runtime.   *)
(* They share atomic flags and a bounded channel of commands.  A task is   *)
(* cut into steps where it awaits, and between its accesses to what it     *)
(* shares.                                                                 *)
(*                                                                         *)
(* connect() and disconnect() borrow the client exclusively, so that no    *)
(* other call runs meanwhile; the tasks do.  The tasks of a connection     *)
(* that was replaced are detached, not stopped.                            *)
(***************************************************************************)
EXTENDS Integers, Sequences

CONSTANTS
  MaxConns,         \* bound: connections established
  Capacity,         \* of the channel of commands: 100 in the code
  max_attempts,     \* the option max_reconnect_attempts: 0 means no limit
  PingEnabled,      \* ping_interval_ms > 0
  StaleReaders      \* TRUE if a read task that has left its loop may be
                    \* overtaken by a new connect()

ASSUME RustClientAssumption ==
  /\ MaxConns \in Nat
  /\ Capacity \in Nat \ {0}
  /\ max_attempts \in Nat
  /\ PingEnabled \in BOOLEAN /\ StaleReaders \in BOOLEAN

Conns == 1..MaxConns

VARIABLES
  connected, running,   \* the shared flags
  auto_reconnect,       \* the option
  attempts,             \* reconnect_attempts
  main,                 \* where the call that borrows the client is
  command_tx,           \* the connection whose channel and tasks the client holds, or 0
  conn,                 \* the connections established so far
  reader, writer, pinger,   \* the tasks of each connection
  queue,                \* the channel of each connection
  peer,                 \* the server's end of each connection
  sent,                 \* history: what was written on each connection
  downs                 \* history: how often on_disconnect was called

flags == <<connected, running, auto_reconnect, attempts>>
client == <<main, command_tx, conn>>
tasks == <<reader, writer, pinger>>
history == <<sent, downs>>
vars == <<flags, client, tasks, queue, peer, history>>

\* "frame" stands for PING and for what the program sends.
Frames == {"hello", "frame", "close"}

TypeOK ==
  /\ connected \in BOOLEAN /\ running \in BOOLEAN /\ auto_reconnect \in BOOLEAN
  /\ attempts \in Nat
  /\ main \in {"idle", "connecting", "greeting", "closing", "quitting",
               "waiting", "dropped"}
  /\ command_tx \in {0} \cup Conns
  /\ conn \in 0..MaxConns
  /\ reader \in [Conns -> {"none", "reading", "ended", "falling", "swapped",
                       "sleeping", "done"}]
  /\ writer \in [Conns -> {"none", "idle", "done"} \cup Frames]
  /\ pinger \in [Conns -> {"none", "ticking", "sending", "last", "done"}]
  /\ queue \in [Conns -> Seq(Frames \cup {"quit"})]
  /\ \A c \in Conns : Len(queue[c]) <= Capacity
  /\ peer \in [Conns -> {"none", "open", "closed"}]
  /\ sent \in [Conns -> {"nothing", "greeted", "closed", "ungreeted"}]
  /\ downs \in Nat

Init ==
  /\ connected = FALSE /\ running = FALSE /\ auto_reconnect = TRUE
  /\ attempts = 0
  /\ main = "idle" /\ command_tx = 0 /\ conn = 0
  /\ reader = [c \in Conns |-> "none"]
  /\ writer = [c \in Conns |-> "none"]
  /\ pinger = [c \in Conns |-> "none"]
  /\ queue = [c \in Conns |-> <<>>]
  /\ peer = [c \in Conns |-> "none"]
  /\ sent = [c \in Conns |-> "nothing"]
  /\ downs = 0

\* mutant: the receiver outlives the write task.
BugOpenForEver(c) == TRUE

\* The receiver lives until the write task ends.
Open(c) == writer[c] # "done"
Room(c) == Len(queue[c]) < Capacity
Enqueued(c, x) == [queue EXCEPT ![c] = Append(@, x)]

\* tx.send(x).await: waits for room, fails when the receiver is gone.
SendAwait(c, x) ==
  \/ ~Open(c) /\ queue' = queue
  \/ Open(c) /\ Room(c) /\ queue' = Enqueued(c, x)

-----------------------------------------------------------------------------
(* The calls of the program. *)

\* mutant: a client that is connected connects again.
BugConnectAgain ==
  /\ main = "idle" /\ conn < MaxConns
  /\ running' = TRUE
  /\ main' = "connecting"
  /\ UNCHANGED <<connected, auto_reconnect, attempts, command_tx, conn,
                 tasks, queue, peer, history>>

\* connect(), up to the await of TcpStream::connect.
Connect ==
  /\ main = "idle" /\ ~connected /\ conn < MaxConns
  /\ running' = TRUE
  /\ main' = "connecting"
  /\ UNCHANGED <<connected, auto_reconnect, attempts, command_tx, conn,
                 tasks, queue, peer, history>>

ConnectFails ==
  /\ main = "connecting"
  /\ main' = "idle"
  /\ UNCHANGED <<flags, command_tx, conn, tasks, queue, peer, history>>

\* The stream is there: a new channel, the flags, the tasks.
Established ==
  /\ main = "connecting"
  /\ StaleReaders \/ \A c \in Conns : reader[c] \notin {"ended", "falling", "swapped"}
  /\ LET c == conn + 1
     IN /\ conn' = c /\ command_tx' = c
        /\ reader' = [reader EXCEPT ![c] = "reading"]
        /\ writer' = [writer EXCEPT ![c] = "idle"]
        /\ pinger' = [pinger EXCEPT ![c] = IF PingEnabled THEN "ticking" ELSE "none"]
        /\ peer' = [peer EXCEPT ![c] = "open"]
  /\ connected' = TRUE
  /\ attempts' = 0
  /\ main' = "greeting"
  /\ UNCHANGED <<running, auto_reconnect, queue, history>>

\* mutant: no HELLO.
BugNoHello ==
  /\ main = "greeting"
  /\ main' = "idle"
  /\ UNCHANGED <<flags, command_tx, conn, tasks, queue, peer, history>>

\* on_connect, and send_frame for HELLO: try_send, which fails on a full channel too.
Greet ==
  /\ main = "greeting"
  /\ main' = "idle"
  /\ LET c == command_tx
     IN \/ /\ connected /\ Open(c) /\ Room(c)
           /\ queue' = Enqueued(c, "hello")
           /\ UNCHANGED <<connected, running>>
        \/ /\ ~(connected /\ Open(c) /\ Room(c))
           /\ connected' = FALSE /\ running' = FALSE
           /\ UNCHANGED queue
  /\ UNCHANGED <<auto_reconnect, attempts, command_tx, conn, tasks, peer, history>>

\* subscribe(), unsubscribe(), publish(), ping(), send_raw_frame(), when they succeed.
Send ==
  /\ main = "idle" /\ command_tx # 0 /\ connected
  /\ Open(command_tx) /\ Room(command_tx)
  /\ queue' = Enqueued(command_tx, "frame")
  /\ UNCHANGED <<flags, client, tasks, peer, history>>

\* mutant: disconnect() sends no CLOSE.
BugDisconnectNoClose ==
  /\ main = "idle"
  /\ auto_reconnect' = FALSE /\ running' = FALSE
  /\ \/ command_tx = 0 /\ connected' = FALSE /\ UNCHANGED main
     \/ command_tx # 0 /\ UNCHANGED connected /\ main' = "quitting"
  /\ UNCHANGED <<attempts, command_tx, conn, tasks, queue, peer, history>>

\* disconnect(), up to its first await on the channel.
Disconnect ==
  /\ main = "idle"
  /\ auto_reconnect' = FALSE /\ running' = FALSE
  /\ \/ command_tx = 0 /\ connected' = FALSE /\ UNCHANGED main
     \/ /\ command_tx # 0 /\ UNCHANGED connected
        /\ main' = IF connected THEN "closing" ELSE "quitting"
  /\ UNCHANGED <<attempts, command_tx, conn, tasks, queue, peer, history>>

\* send_close_internal
SendClose ==
  /\ main = "closing"
  /\ SendAwait(command_tx, "close")
  /\ main' = "quitting"
  /\ UNCHANGED <<flags, command_tx, conn, tasks, peer, history>>

\* An aborted task ends where it awaits.
PingerAborted(c) ==
  [pinger EXCEPT ![c] = CASE @ = "ticking" -> "done"
                          [] @ = "sending" -> "last"
                          [] OTHER -> @]

\* One that runs on another thread goes on to its next await, or to its end;
\* if it was handling data, it finds that running is false.
AfterAbort(s) ==
  CASE s = "reading" -> {"done", "ended"}
    [] s \in {"ended", "falling", "swapped"} -> {"done", s}
    [] OTHER -> {"done"}

\* The Disconnect command, then the beginning of cleanup_tasks.
SendQuit ==
  /\ main = "quitting"
  /\ SendAwait(command_tx, "quit")
  /\ pinger' = PingerAborted(command_tx)
  /\ main' = "waiting"
  /\ UNCHANGED <<flags, command_tx, conn, reader, writer, peer, history>>

\* mutant: the read task is not aborted.
BugCleanupKeepsReader ==
  /\ main = "waiting"
  /\ connected' = FALSE
  /\ command_tx' = 0
  /\ main' = "idle"
  /\ UNCHANGED <<running, auto_reconnect, attempts, conn, tasks, queue, peer, history>>

\* The write task has ended, or 500 ms have passed.
Cleanup ==
  /\ main = "waiting"
  /\ \E s \in AfterAbort(reader[command_tx]) :
       reader' = [reader EXCEPT ![command_tx] = s]
  /\ connected' = FALSE
  /\ command_tx' = 0
  /\ main' = "idle"
  /\ UNCHANGED <<running, auto_reconnect, attempts, conn, writer, pinger,
                 queue, peer, history>>

\* The program drops the client: its tasks are detached.
Drop ==
  /\ main = "idle"
  /\ main' = "dropped"
  /\ running' = FALSE
  /\ command_tx' = 0
  /\ UNCHANGED <<connected, auto_reconnect, attempts, conn, tasks, queue, peer, history>>

-----------------------------------------------------------------------------
(* The read task. *)

\* mutant: an empty read is taken for no data yet.
BugEofIgnored(c) ==
  /\ reader[c] = "reading" /\ ~running
  /\ reader' = [reader EXCEPT ![c] = "ended"]
  /\ UNCHANGED <<flags, client, writer, pinger, queue, peer, history>>

\* The loop ends: the stream has, or the flag says so after a read.
ReadEnds(c) ==
  /\ reader[c] = "reading"
  /\ peer[c] = "closed" \/ ~running
  /\ reader' = [reader EXCEPT ![c] = "ended"]
  /\ UNCHANGED <<flags, client, writer, pinger, queue, peer, history>>

\* mutant: connected is read and not cleared.
BugSwapKeepsConnected(c) ==
  /\ reader[c] = "ended"
  /\ reader' = [reader EXCEPT ![c] = IF connected THEN "falling" ELSE "swapped"]
  /\ UNCHANGED <<flags, client, writer, pinger, queue, peer, history>>

\* connected.swap(false)
Swap(c) ==
  /\ reader[c] = "ended"
  /\ reader' = [reader EXCEPT ![c] = IF connected THEN "falling" ELSE "swapped"]
  /\ connected' = FALSE
  /\ UNCHANGED <<running, auto_reconnect, attempts, client, writer, pinger,
                 queue, peer, history>>

\* on_disconnect, if it was true.
Announce(c) ==
  /\ reader[c] = "falling"
  /\ reader' = [reader EXCEPT ![c] = "swapped"]
  /\ downs' = downs + 1
  /\ UNCHANGED <<flags, client, writer, pinger, queue, peer, sent>>

\* The attempt is counted and announced; the task sleeps and ends.
Schedule(c) ==
  /\ reader[c] = "swapped"
  /\ \/ /\ auto_reconnect /\ running
        /\ attempts' = attempts + 1
        /\ reader' = [reader EXCEPT ![c] =
             IF max_attempts = 0 \/ attempts < max_attempts THEN "sleeping" ELSE "done"]
     \/ /\ ~(auto_reconnect /\ running)
        /\ reader' = [reader EXCEPT ![c] = "done"]
        /\ UNCHANGED attempts
  /\ UNCHANGED <<connected, running, auto_reconnect, client, writer, pinger,
                 queue, peer, history>>

SleepEnds(c) ==
  /\ reader[c] = "sleeping"
  /\ reader' = [reader EXCEPT ![c] = "done"]
  /\ UNCHANGED <<flags, client, writer, pinger, queue, peer, history>>

-----------------------------------------------------------------------------
(* The write task. *)

\* command_rx.recv() returns a command.
Take(c) ==
  /\ writer[c] = "idle" /\ queue[c] # <<>>
  /\ \/ /\ Head(queue[c]) = "quit"
        /\ writer' = [writer EXCEPT ![c] = "done"]
        /\ queue' = [queue EXCEPT ![c] = <<>>]
     \/ /\ Head(queue[c]) # "quit"
        /\ writer' = [writer EXCEPT ![c] = Head(queue[c])]
        /\ queue' = [queue EXCEPT ![c] = Tail(@)]
  /\ UNCHANGED <<flags, client, reader, pinger, peer, history>>

\* mutant: the read task holds a sender, to answer PING say.
BugReaderKeepsSender(c) ==
  /\ writer[c] = "idle" /\ queue[c] = <<>>
  /\ command_tx # c /\ pinger[c] \in {"none", "done"} /\ reader[c] = "done"
  /\ writer' = [writer EXCEPT ![c] = "done"]
  /\ UNCHANGED <<flags, client, reader, pinger, queue, peer, history>>

\* recv() returns None: every sender is gone.
NoSender(c) ==
  /\ writer[c] = "idle" /\ queue[c] = <<>>
  /\ command_tx # c /\ pinger[c] \in {"none", "done"}
  /\ writer' = [writer EXCEPT ![c] = "done"]
  /\ UNCHANGED <<flags, client, reader, pinger, queue, peer, history>>

Written(c) ==
  /\ writer[c] \in Frames
  /\ sent' = [sent EXCEPT ![c] =
       CASE @ = "nothing" -> IF writer[c] = "hello" THEN "greeted" ELSE "ungreeted"
         [] @ = "greeted" /\ writer[c] = "close" -> "closed"
         [] OTHER -> @]
  /\ writer' = [writer EXCEPT ![c] = "idle"]
  /\ UNCHANGED <<flags, client, reader, pinger, queue, peer, downs>>

\* write_all fails: the task ends, and connected stays as it is.
WriteFails(c) ==
  /\ writer[c] \in Frames /\ peer[c] = "closed"
  /\ writer' = [writer EXCEPT ![c] = "done"]
  /\ queue' = [queue EXCEPT ![c] = <<>>]
  /\ UNCHANGED <<flags, client, reader, pinger, peer, history>>

-----------------------------------------------------------------------------
(* The ping task, and the server. *)

PingTick(c) ==
  /\ pinger[c] = "ticking"
  /\ pinger' = [pinger EXCEPT ![c] =
       IF connected /\ running THEN "sending" ELSE "done"]
  /\ UNCHANGED <<flags, client, reader, writer, queue, peer, history>>

PingSend(c) ==
  /\ \/ pinger[c] = "sending" /\ pinger' = [pinger EXCEPT ![c] = "ticking"]
     \/ pinger[c] = "last" /\ pinger' = [pinger EXCEPT ![c] = "done"]
  /\ SendAwait(c, "frame")
  /\ UNCHANGED <<flags, client, reader, writer, peer, history>>

PingAborted(c) ==
  /\ pinger[c] = "last"
  /\ pinger' = [pinger EXCEPT ![c] = "done"]
  /\ UNCHANGED <<flags, client, reader, writer, queue, peer, history>>

\* The server ends the connection, or it breaks.
PeerEnds(c) ==
  /\ peer[c] = "open"
  /\ peer' = [peer EXCEPT ![c] = "closed"]
  /\ UNCHANGED <<flags, client, tasks, queue, history>>

-----------------------------------------------------------------------------

Caller ==
  \/ Connect \/ ConnectFails \/ Established \/ Greet
  \/ Send \/ Disconnect \/ SendClose \/ SendQuit \/ Cleanup \/ Drop

Task(c) ==
  \/ ReadEnds(c) \/ Swap(c) \/ Announce(c) \/ Schedule(c) \/ SleepEnds(c)
  \/ Take(c) \/ NoSender(c) \/ Written(c) \/ WriteFails(c)
  \/ PingTick(c) \/ PingSend(c) \/ PingAborted(c)
  \/ PeerEnds(c)

Next == Caller \/ \E c \in Conns : Task(c)

Spec == Init /\ [][Next]_vars

\* The runtime polls a task that is ready, a call that can go on does, and a
\* server reads what it is sent and ends the connection when it gets FIN.
Fairness ==
  /\ WF_vars(ConnectFails \/ Established)
  /\ WF_vars(Greet) /\ WF_vars(SendClose) /\ WF_vars(SendQuit) /\ WF_vars(Cleanup)
  /\ \A c \in Conns :
       /\ WF_vars(ReadEnds(c) /\ peer[c] = "closed")
       /\ WF_vars(Swap(c)) /\ WF_vars(Announce(c))
       /\ WF_vars(Schedule(c)) /\ WF_vars(SleepEnds(c))
       /\ WF_vars(Take(c)) /\ WF_vars(NoSender(c))
       /\ WF_vars(Written(c) \/ WriteFails(c))
       /\ WF_vars(PingTick(c)) /\ WF_vars(PingSend(c) \/ PingAborted(c))
       /\ WF_vars(writer[c] = "done" /\ PeerEnds(c))

FairSpec == Spec /\ Fairness

-----------------------------------------------------------------------------

(***************************************************************************)
(* A client that says it is connected has a read task that will notice     *)
(* when it no longer is.                                                   *)
(***************************************************************************)
ConnectedIsWatched ==
  connected => conn # 0 /\ reader[conn] \in {"reading", "ended"}

(***************************************************************************)
(* on_disconnect is called once at the most for each connection, and not   *)
(* while the last one is up, however the read tasks of old connections     *)
(* overlap the new one.                                                    *)
(***************************************************************************)
ToldOnce == downs + (IF connected THEN 1 ELSE 0) <= conn

(***************************************************************************)
(* While the read task of the current connection reads, the client says    *)
(* that it is connected: no older task takes that back.                    *)
(***************************************************************************)
ReadingIsConnected ==
  (main = "idle" /\ running /\ command_tx # 0 /\ reader[command_tx] = "reading")
    => connected

(***************************************************************************)
(* HELLO is the first frame of every connection.                           *)
(***************************************************************************)
HelloFirst == \A c \in Conns : sent[c] # "ungreeted"

(***************************************************************************)
(* disconnect() shuts a live connection down only after CLOSE was written. *)
(***************************************************************************)
CloseBeforeFin ==
  [][\A c \in Conns :
       (writer[c] = "idle" /\ writer'[c] = "done" /\ queue[c] # <<>>)
         => (sent[c] = "closed" \/ peer[c] = "closed")]_vars

(***************************************************************************)
(* disconnect() returns.                                                   *)
(***************************************************************************)
DisconnectReturns ==
  main \in {"closing", "quitting", "waiting"} ~> main = "idle"

(***************************************************************************)
(* When a connection is lost that the program has not given up, the client *)
(* calls on_disconnect.                                                    *)
(***************************************************************************)
LossIsAnnounced ==
  \A n \in 0..MaxConns :
    (connected /\ running /\ peer[conn] = "closed" /\ downs = n)
      ~> (~running \/ downs > n)

(***************************************************************************)
(* After disconnect() or drop every task ends, those of replaced           *)
(* connections too.                                                        *)
(***************************************************************************)
TasksEnd ==
  (~running /\ command_tx = 0) ~>
    (running \/ \A c \in Conns : {reader[c], writer[c], pinger[c]} \subseteq {"none", "done"})

(***************************************************************************)
(* A client that announced a reconnection tries it after the delay.        *)
(***************************************************************************)
AutoReconnects ==
  (\E c \in Conns : reader[c] = "sleeping") ~>
    (main = "connecting" \/ connected \/ ~auto_reconnect \/ ~running)

Life ==
  INSTANCE Session WITH
    Limit <- IF max_attempts = 0 \/ StaleReaders \/ PingEnabled
               THEN 0 ELSE max_attempts + 1,
    Overlaps <- StaleReaders, up <- connected, line <- conn,
    wanted <- auto_reconnect, tries <- attempts

(***************************************************************************)
(* The client implements Session, where the attempt that exceeds the limit *)
(* is counted too: it connects only when it has no connection, counts      *)
(* reconnections only while it wants one, and never takes disconnect()     *)
(* back.  A read task whose connection failed to take HELLO, for PINGs     *)
(* that filled the channel, outlives it and counts for itself.             *)
(***************************************************************************)
LifeSpec == Life!Spec

=============================================================================
