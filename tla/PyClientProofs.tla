---------------------------- MODULE PyClientProofs ----------------------------
(***************************************************************************)
(* Proofs about PyClient.  Types, and that a loss is told once, need no    *)
(* premise.  The rest holds for a program that waits for a reconnection    *)
(* that is under way, by one invariant: the tasks that are alive are those *)
(* that _cleanup() finds; a reconnection under way has nothing beside it;  *)
(* and a task of a CLOSE frame that is late finds something that stops it. *)
(***************************************************************************)
EXTENDS PyClient, FiniteSetTheorems, TLAPS

\* One of the tasks that _cleanup() looks at makes it raise.
Obstructed ==
  Raises(State(ping, ping_task)) \/ Raises(State(read, read_task)) \/ Raises(reconnect)

\* What _cleanup() finds when it has nothing to do.
Bare == reconnect = "none" /\ ping_task = 0 /\ read_task = 0

TaskInv ==
  /\ \A c \in Conns : c > conn => ping[c] = "none" /\ read[c] = "none"
  /\ ping_task # 0 <=> (pinging /\ conn > 0)
  /\ \A c \in Conns : ping[c] \in Live => c = ping_task
  /\ ping_task # 0 =>
       /\ ping[ping_task] \in {"sleeping", "cancelling", "cancelled"}
       /\ ping[ping_task] = "sleeping" => (connected /\ running)
  /\ ~pinging => \A c \in Conns :
       read[c] \in Live =>
         c = read_task /\ (read[c] # "cancelling" => connected)

CallInv ==
  /\ main = "dialing" =>
       ~connected /\ running /\ reconnect \notin Live /\ outcome = "none"
  /\ main = "raising" => ~auto_reconnect
  /\ main \in {"closing", "waiting"} => ~auto_reconnect /\ Bare
  /\ outcome = "returned" =>
       main = "idle" /\ ~auto_reconnect /\ ~connected /\ cur = 0 /\ Bare

ReconnectInv ==
  /\ reconnect # "none" => MaxConns > 0
  /\ reconnect \in {"sleeping", "dialing"} =>
       /\ ping_task = 0 /\ read_task = 0
       /\ ~connected /\ auto_reconnect /\ running /\ main = "idle"
  /\ reconnect = "dialing" => \A c \in Conns : closers[c] = 0
  /\ (reconnect = "cancelling" /\ ~auto_reconnect) => main = "raising"
  /\ (auto_reconnect /\ ~running) =>
       ~connected /\ conn = 0 /\ \A c \in Conns : closers[c] = 0
  /\ (auto_reconnect /\ ~connected) =>
       (\A c \in Conns : closers[c] = 0) \/ Obstructed \/ Exhausted

CalmInv == TypeOK /\ TaskInv /\ CallInv /\ ReconnectInv

-----------------------------------------------------------------------------
(* The operators of _cleanup() *)

LEMMA FirstFacts ==
  /\ First \in {"ping", "read", "reconnect", "nothing"}
  /\ First = "ping" <=> Raises(State(ping, ping_task))
  /\ First = "read" => Raises(State(read, read_task))
  /\ First = "reconnect" => (Raises(reconnect) /\ ~Raises(State(read, read_task)))
  /\ First = "nothing" <=> ~Obstructed
  BY Zenon DEF First, Obstructed

LEMMA AfterFacts ==
  /\ First = "reconnect" => AfterCleanup = Stopped(reconnect)
  /\ First = "nothing" => AfterCleanup = "none"
  /\ First \notin {"reconnect", "nothing"} => AfterCleanup = reconnect
  BY Zenon DEF AfterCleanup

PingStates == {"none", "sleeping", "cancelling"} \cup Ended
ReadStates == {"none", "new", "waiting", "cancelling"} \cup Ended
ReconnectStates == {"none", "sleeping", "dialing", "cancelling"} \cup Ended

\* _cleanup() keeps types, in particular those of the tasks that it cancels.
LEMMA CleanupTypes ==
  ASSUME TypeOK, NEW readers \in [Conns -> ReadStates], Cleanup(readers)
  PROVE  /\ ping' \in [Conns -> PingStates] /\ read' \in [Conns -> ReadStates]
         /\ ping_task' \in 0..conn /\ read_task' \in 0..conn
         /\ AfterCleanup \in ReconnectStates
<1>1. ping \in [Conns -> PingStates] /\ ping_task \in 0..conn /\ read_task \in 0..conn
      /\ reconnect \in ReconnectStates
  BY DEF TypeOK, PingStates, ReconnectStates
<1>2. \A s \in PingStates : Stopped(s) \in PingStates
  BY DEF PingStates, Stopped, Live, Ended
<1>3. \A s \in ReadStates : Stopped(s) \in ReadStates
  BY DEF ReadStates, Stopped, Live, Ended
<1>4. \A s \in ReconnectStates : Stopped(s) \in ReconnectStates
  BY DEF ReconnectStates, Stopped, Live, Ended
<1>5. AfterCleanup \in ReconnectStates
  <2>1. "none" \in ReconnectStates
    BY DEF ReconnectStates
  <2> QED
    BY <1>1, <1>4, <2>1, FirstFacts, AfterFacts
<1>6. ping' \in [Conns -> PingStates]
  BY <1>1, <1>2 DEF Cleanup
<1>7. read' \in [Conns -> ReadStates]
  BY <1>3 DEF Cleanup
<1>8. ping_task' \in 0..conn /\ read_task' \in 0..conn
  <2>1. 0 \in 0..conn
    BY DEF TypeOK
  <2> QED
    BY <1>1, <2>1 DEF Cleanup
<1> QED
  BY <1>5, <1>6, <1>7, <1>8

-----------------------------------------------------------------------------
(* Types *)

LEMMA HandleCloseTypes ==
  ASSUME TypeOK, NEW readers \in [Conns -> ReadStates], HandleClose(readers)
  PROVE  /\ pinging' \in BOOLEAN /\ auto_reconnect' \in BOOLEAN
         /\ connected' \in BOOLEAN /\ running' \in BOOLEAN
         /\ attempts' \in Nat /\ downs' \in Nat
         /\ main' = main /\ outcome' = outcome
         /\ conn' = conn /\ cur' = cur
         /\ ping' \in [Conns -> PingStates] /\ read' \in [Conns -> ReadStates]
         /\ ping_task' \in 0..conn /\ read_task' \in 0..conn
         /\ reconnect' \in ReconnectStates
<1>1. Cleanup(readers)
  BY DEF HandleClose
<1>2. reconnect' \in ReconnectStates
  BY <1>1, CleanupTypes DEF HandleClose, ReconnectStates
<1>3. attempts' \in Nat /\ downs' \in Nat
  BY DEF HandleClose, TypeOK, Counted, Told
<1> QED
  BY <1>1, <1>2, <1>3, CleanupTypes DEF HandleClose, TypeOK

LEMMA TypeStep == TypeOK /\ [Next]_vars => TypeOK'
<1> SUFFICES ASSUME TypeOK, [Next]_vars PROVE TypeOK'
  OBVIOUS
<1> USE PyClientAssumption
<1>0. read \in [Conns -> ReadStates] /\ conn \in 0..MaxConns
  BY DEF TypeOK, ReadStates
<1>1. ASSUME Established, main' \in {main, "idle"}, reconnect' \in {reconnect, "done"}
      PROVE  TypeOK'
  <2>1. conn + 1 \in Conns /\ conn + 1 \in 0..MaxConns /\ conn + 1 \in 0..(conn + 1)
        /\ ping_task \in 0..(conn + 1)
    BY <1>0, <1>1 DEF Established, Conns, TypeOK
  <2> QED
    BY <1>1, <2>1 DEF Established, TypeOK, Ended
<1>2. CASE Connected \/ Reconnected
  BY <1>1, <1>2 DEF Connected, Reconnected
<1>3. CASE Connect \/ ConnectFails
  BY <1>3 DEF Connect, ConnectFails, TypeOK, flags, network, tasks
<1>4. CASE Disconnect
  BY <1>0, <1>4, CleanupTypes
     DEF Disconnect, TypeOK, network, PingStates, ReadStates, ReconnectStates
<1>5. CASE DisconnectRaises \/ CloseSent
  BY <1>5 DEF DisconnectRaises, CloseSent, TypeOK, flags, network, tasks
<1>6. CASE DisconnectReturns
  <2>1. net' \in [Conns -> {"open", "ended"}] /\ conn' = conn /\ cur' \in 0..conn
    <3>1. net \in [Conns -> {"open", "ended"}]
      BY DEF TypeOK
    <3>2. net' = [net EXCEPT ![cur] = "ended"]
      BY <1>6 DEF DisconnectReturns
    <3>3. net' \in [Conns -> {"open", "ended"}]
      BY <3>1, <3>2
    <3>4. cur' = 0 /\ conn' = conn
      BY <1>6 DEF DisconnectReturns
    <3>5. 0 \in 0..conn
      BY <1>0
    <3> QED
      BY <3>3, <3>4, <3>5
  <2>2. UNCHANGED tasks /\ main' = "idle" /\ outcome' = "returned" /\ connected' = FALSE
        /\ UNCHANGED <<pinging, auto_reconnect, running, attempts, downs, source, closers>>
    BY <1>6 DEF DisconnectReturns
  <2> QED
    BY <2>1, <2>2 DEF TypeOK, tasks
<1>7. CASE DelayEnds \/ ReconnectFails \/ ReconnectCancelled
  BY <1>7 DEF DelayEnds, ReconnectFails, ReconnectCancelled, TypeOK, flags, program, network,
              Ended
<1>8. ASSUME NEW c \in Conns, CloseRuns(c) PROVE TypeOK'
  <2>1. closers' \in [Conns -> 0..MaxClosers]
    BY <1>8 DEF CloseRuns, TypeOK
  <2> QED
    BY <1>0, <1>8, <2>1, HandleCloseTypes
       DEF CloseRuns, TypeOK, PingStates, ReadStates, ReconnectStates
<1>9. ASSUME NEW c \in Conns, Fails(c), net' \in [Conns -> {"open", "ended"}],
             closers' \in [Conns -> 0..MaxClosers]
      PROVE  TypeOK'
  <2> DEFINE readers == [read EXCEPT ![c] = IF First = "nothing" THEN "done" ELSE "cancelling"]
  <2>1. readers \in [Conns -> ReadStates]
    BY <1>0 DEF ReadStates, Ended
  <2>2. HandleClose(readers) /\ source' = source
    BY <1>9 DEF Fails
  <2> HIDE DEF readers
  <2> QED
    BY <1>9, <2>1, <2>2, HandleCloseTypes
       DEF TypeOK, PingStates, ReadStates, ReconnectStates
<1>10. ASSUME NEW c \in Conns, LoopsOn(c), ~Fails(c), net' \in [Conns -> {"open", "ended"}],
              closers' \in [Conns -> 0..MaxClosers]
       PROVE  TypeOK'
  BY <1>10 DEF LoopsOn, TypeOK, flags, program, Ended
<1>11. net \in [Conns -> {"open", "ended"}] /\ closers \in [Conns -> 0..MaxClosers]
  BY DEF TypeOK
<1>12. ASSUME NEW c \in Conns,
              ReadStarts(c) \/ Receive(c) \/ ReceiveClose(c) \/ ReceiveBadMagic(c)
       PROVE  TypeOK'
  <2>1. LoopsOn(c)
    BY <1>12 DEF ReadStarts, Receive, ReceiveClose, ReceiveBadMagic
  <2>2. net' \in [Conns -> {"open", "ended"}]
    BY <1>11, <1>12 DEF ReadStarts, Receive, ReceiveClose, ReceiveBadMagic
  <2>3. closers' \in [Conns -> 0..MaxClosers]
    BY <1>11, <1>12 DEF ReadStarts, Receive, ReceiveClose, ReceiveBadMagic
  <2> QED
    BY <1>9, <1>10, <2>1, <2>2, <2>3
<1>13. ASSUME NEW c \in Conns, ReceiveFails(c) PROVE TypeOK'
  BY <1>9, <1>11, <1>13 DEF ReceiveFails
<1>14. ASSUME NEW c \in Conns,
              \/ ReadEmpty(c) \/ ReadCancelled(c) \/ PingWakes(c) \/ PingCancelled(c)
              \/ PeerEnds(c)
       PROVE  TypeOK'
  BY <1>14 DEF ReadEmpty, ReadCancelled, PingWakes, PingCancelled, PeerEnds, TypeOK,
               flags, program, network, tasks, Ended
<1>15. CASE UNCHANGED vars
  BY <1>15 DEF vars, flags, program, network, tasks, TypeOK
<1> QED
  BY <1>2, <1>3, <1>4, <1>5, <1>6, <1>7, <1>8, <1>12, <1>13, <1>14, <1>15 DEF Next, Task

(***************************************************************************)
(* Type correctness of the Python life cycle.                              *)
(***************************************************************************)
THEOREM Typed == Spec => []TypeOK
<1>1. Init => TypeOK
  <2>1. 0 \in 0..MaxConns /\ 0 \in 0..0 /\ 0 \in 0..MaxClosers
    BY PyClientAssumption
  <2> SUFFICES ASSUME Init PROVE TypeOK
    OBVIOUS
  <2>2. conn = 0 /\ cur = 0 /\ ping_task = 0 /\ read_task = 0
    BY DEF Init
  <2>3. /\ net \in [Conns -> {"open", "ended"}] /\ source \in [Conns -> 0..MaxConns]
        /\ closers \in [Conns -> 0..MaxClosers]
    BY <2>1 DEF Init
  <2> QED
    BY <2>1, <2>2, <2>3 DEF Init, TypeOK
<1> QED
  BY <1>1, TypeStep, PTL DEF Spec

-----------------------------------------------------------------------------
(* A loss is told once. *)

ToldInv == TypeOK /\ ToldOnce

LEMMA ToldStep == ToldInv /\ [Next]_vars => ToldInv'
<1> SUFFICES ASSUME ToldInv, [Next]_vars PROVE ToldOnce'
  BY TypeStep DEF ToldInv
<1>0. /\ downs \in Nat /\ conn \in Nat /\ connected \in BOOLEAN
      /\ downs + (IF connected THEN 1 ELSE 0) <= conn
  BY PyClientAssumption DEF ToldInv, TypeOK, ToldOnce
<1>1. ASSUME Established PROVE ToldOnce'
  BY <1>0, <1>1 DEF Established, ToldOnce
<1>2. ASSUME NEW readers, HandleClose(readers) PROVE ToldOnce'
  BY <1>0, <1>2 DEF HandleClose, Told, ToldOnce
<1>3. ASSUME NEW c \in Conns, LoopsOn(c) PROVE ToldOnce'
  BY <1>0, <1>2, <1>3 DEF LoopsOn, Fails, flags, program, ToldOnce
<1>4. ASSUME NEW c \in Conns, Task(c) PROVE ToldOnce'
  <2>1. CASE CloseRuns(c) \/ ReceiveFails(c)
    BY <1>2, <2>1 DEF CloseRuns, ReceiveFails, Fails
  <2>2. CASE ReadStarts(c) \/ Receive(c) \/ ReceiveClose(c) \/ ReceiveBadMagic(c)
    BY <1>3, <2>2 DEF ReadStarts, Receive, ReceiveClose, ReceiveBadMagic
  <2>3. CASE \/ ReadEmpty(c) \/ ReadCancelled(c) \/ PingWakes(c) \/ PingCancelled(c)
             \/ PeerEnds(c)
    BY <1>0, <2>3 DEF ReadEmpty, ReadCancelled, PingWakes, PingCancelled, PeerEnds, flags,
                      program, network, ToldOnce
  <2> QED
    BY <1>4, <2>1, <2>2, <2>3 DEF Task
<1>5. CASE Connected \/ Reconnected
  BY <1>1, <1>5 DEF Connected, Reconnected
<1>6. CASE \/ Connect \/ ConnectFails \/ Disconnect \/ DisconnectRaises \/ CloseSent
           \/ DisconnectReturns \/ DelayEnds \/ ReconnectFails \/ ReconnectCancelled \/ UNCHANGED vars
  BY <1>0, <1>6 DEF Connect, ConnectFails, Disconnect, DisconnectRaises, CloseSent,
                    DisconnectReturns, DelayEnds, ReconnectFails, ReconnectCancelled, vars, flags, program,
                    network, ToldOnce
<1> QED
  BY <1>4, <1>5, <1>6 DEF Next

(***************************************************************************)
(* on_disconnect is called once at the most for each connection, whatever  *)
(* the program does and whoever notices the loss.                          *)
(***************************************************************************)
THEOREM ToldAtMostOnce == Spec => []ToldOnce
<1>1. Init => ToldOnce
  BY DEF Init, ToldOnce
<1> QED
  BY <1>1, ToldStep, Typed, PTL DEF Spec, ToldInv


-----------------------------------------------------------------------------
(* The calm client *)

LEMMA StateFacts ==
  /\ \A s : s \in Live => Stopped(s) = "cancelling" /\ Raises(s)
  /\ \A s : s \notin Live => Stopped(s) = s
  /\ \A s : Raises(s) => Raises(Stopped(s))
  /\ \A s : Stopped(s) \notin {"new", "waiting", "sleeping", "dialing"}
  /\ \A ts : State(ts, 0) = "none" /\ ~Raises("none") /\ ~Raises("done")
  BY DEF Live, Stopped, Raises, State

\* A client that has nothing to clean up finds nothing.
LEMMA BareIsClean == Bare => First = "nothing"
  BY FirstFacts, StateFacts DEF Bare, Obstructed

\* With pings there is always a ping task in the way; without, the only read
\* task that is alive.
LEMMA FoundAlive ==
  ASSUME TypeOK, TaskInv
  PROVE  /\ (pinging /\ conn > 0) => First = "ping"
         /\ First = "ping" => (pinging /\ conn > 0 /\ ping_task # 0)
         /\ \A c \in Conns : (~pinging /\ read[c] \in Live) => (First = "read" /\ c = read_task)
         /\ First = "read" => (~pinging /\ read_task \in Conns)
<1>1. (pinging /\ conn > 0) => First = "ping"
  BY FirstFacts DEF TaskInv, Raises, State, Live
<1>2. First = "ping" => (pinging /\ conn > 0 /\ ping_task # 0)
  BY FirstFacts, StateFacts DEF TaskInv
<1>3. \A c \in Conns : (~pinging /\ read[c] \in Live) => (First = "read" /\ c = read_task)
  <2> SUFFICES ASSUME NEW c \in Conns, ~pinging, read[c] \in Live
               PROVE  First = "read" /\ c = read_task
    OBVIOUS
  <2>1. c = read_task /\ c # 0
    BY DEF TaskInv, Conns
  <2>2. Raises(State(read, read_task))
    BY <2>1 DEF Raises, State
  <2> QED
    BY <1>2, <2>1, <2>2, FirstFacts DEF Obstructed
<1>4. First = "read" => (~pinging /\ read_task \in Conns)
  <2> SUFFICES ASSUME First = "read" PROVE ~pinging /\ read_task \in Conns
    OBVIOUS
  <2>1. read_task # 0
    BY FirstFacts, StateFacts
  <2>2. read_task \in 0..conn /\ conn \in 0..MaxConns
    BY DEF TypeOK
  <2> QED
    BY <1>1, <2>1, <2>2, PyClientAssumption DEF Conns
<1> QED
  BY <1>1, <1>2, <1>3, <1>4

\* What the tasks are when _cleanup() has returned or raised.
LEMMA CleanupTasks ==
  ASSUME TypeOK, TaskInv, NEW readers \in [Conns -> ReadStates],
         \A d \in Conns : \/ readers[d] = read[d]
                          \/ read[d] \in {"new", "waiting"} /\ d <= conn,
         Cleanup(readers), UNCHANGED <<conn, pinging>>
  PROVE  TaskInv'
<1>1. Cleanup(readers) /\ UNCHANGED <<conn, pinging>>
  OBVIOUS
<1>2. /\ ping \in [Conns -> PingStates] /\ read \in [Conns -> ReadStates]
      /\ conn \in Nat /\ ping_task \in 0..conn /\ read_task \in 0..conn /\ conn <= MaxConns
  BY PyClientAssumption DEF TypeOK, PingStates, ReadStates
<1>3. ASSUME NEW d \in Conns, d > conn PROVE ping'[d] = "none" /\ read'[d] = "none"
  <2>1. ping[d] = "none" /\ read[d] = "none" /\ d # ping_task /\ d # read_task
    BY <1>2, <1>3 DEF TaskInv, Conns
  <2>2. readers[d] = "none"
    BY <1>2, <1>3, <2>1 DEF Conns
  <2> QED
    BY <1>1, <1>2, <2>1, <2>2 DEF Cleanup
<1>4. ping_task' # 0 <=> (pinging' /\ conn' > 0)
  BY <1>1, FoundAlive DEF Cleanup
<1>5. ASSUME NEW d \in Conns, ping'[d] \in Live PROVE d = ping_task'
  <2>1. ping[d] \in Live
    BY <1>1, <1>2, <1>5, StateFacts DEF Cleanup
  <2>2. d = ping_task
    BY <2>1 DEF TaskInv
  <2>3. First = "ping"
    BY <2>2, FoundAlive DEF TaskInv, Conns
  <2> QED
    BY <1>1, <2>2, <2>3 DEF Cleanup
<1>6. ASSUME ping_task' # 0
      PROVE  ping'[ping_task'] \in {"cancelling", "cancelled"}
  <2>1. First = "ping" /\ ping_task' = ping_task /\ ping_task \in Conns
    <3>1. First = "ping" /\ ping_task' = ping_task
      BY <1>1, <1>6 DEF Cleanup
    <3> QED
      BY <1>2, <1>6, <3>1, PyClientAssumption DEF Conns
  <2>2. ping'[ping_task] = Stopped(ping[ping_task])
    BY <1>1, <1>2, <2>1 DEF Cleanup
  <2>3. ping[ping_task] \in {"sleeping", "cancelling", "cancelled"}
    BY <1>6, <2>1 DEF TaskInv, Conns
  <2> QED
    BY <2>1, <2>2, <2>3 DEF Stopped, Live
<1>7. ASSUME ~pinging, NEW d \in Conns, read'[d] \in Live
      PROVE  d = read_task' /\ read'[d] = "cancelling"
  <2>1. read[d] \in Live
    BY <1>1, <1>2, <1>7, StateFacts DEF Cleanup, Live
  <2>2. First = "read" /\ d = read_task
    BY <1>7, <2>1, FoundAlive
  <2>3. read_task' = read_task /\ read'[d] = Stopped(readers[d])
    BY <1>1, <2>2 DEF Cleanup
  <2> QED
    BY <1>7, <2>2, <2>3, StateFacts
<1> QED
  BY <1>1, <1>3, <1>4, <1>5, <1>6, <1>7 DEF TaskInv

\* What _handle_close() is called by: a task of a CLOSE frame, or a read task.
Noticed(c, readers) ==
  /\ readers \in [Conns -> ReadStates]
  /\ \/ readers = read /\ closers[c] > 0
     \/ /\ read[c] \in {"new", "waiting"} /\ c <= conn
        /\ readers = [read EXCEPT ![c] = IF First = "nothing" THEN "done" ELSE "cancelling"]

LEMMA HandleCloseTasks ==
  ASSUME TypeOK, TaskInv, NEW c \in Conns, NEW readers, Noticed(c, readers),
         HandleClose(readers)
  PROVE  TaskInv'
<1>1. \A d \in Conns : \/ readers[d] = read[d]
                       \/ read[d] \in {"new", "waiting"} /\ d <= conn
  BY DEF Noticed, TypeOK
<1> QED
  BY <1>1, CleanupTasks DEF HandleClose, Noticed

\* What _cleanup() leaves of a reconnection when it raises.
LEMMA AfterRaise ==
  ASSUME CalmInv, First # "nothing"
  PROVE  /\ AfterCleanup \in {reconnect, Stopped(reconnect)}
         /\ AfterCleanup \notin {"sleeping", "dialing"}
<1>1. CASE First = "reconnect"
  BY <1>1, AfterFacts, StateFacts
<1>2. CASE First # "reconnect"
  <2>1. AfterCleanup = reconnect
    BY <1>2, AfterFacts
  <2>2. reconnect \in {"sleeping", "dialing"} => First \in {"nothing", "reconnect"}
    BY FirstFacts, StateFacts DEF CalmInv, ReconnectInv
  <2> QED
    BY <1>2, <2>1, <2>2
<1> QED
  BY <1>1, <1>2

\* A call is not disturbed by it either, nor a reconnection.
LEMMA HandleCloseCalls ==
  ASSUME CalmInv, NEW c \in Conns, NEW readers, Noticed(c, readers), HandleClose(readers)
  PROVE  CallInv' /\ ReconnectInv'
<1>0. auto_reconnect => running
  <2>1. (auto_reconnect /\ ~running) => closers[c] = 0 /\ read[c] \notin {"new", "waiting"}
    BY DEF CalmInv, ReconnectInv, TaskInv, Conns, TypeOK
  <2> QED
    BY <2>1 DEF Noticed
<1>1. /\ Cleanup(readers) /\ connected' = FALSE
      /\ UNCHANGED <<conn, pinging, running, auto_reconnect, main, outcome, cur>>
  BY DEF HandleClose
<1>2. CASE First = "nothing"
  <2>1. ping_task' = 0 /\ read_task' = 0
    BY <1>1, <1>2 DEF Cleanup
  <2>2. CASE Wanted /\ ~Exhausted
    <3>1. reconnect' = "sleeping"
      BY <1>2, <2>2 DEF HandleClose
    <3>2. connected \/ closers[c] = 0
      BY <1>2, <2>2, FirstFacts DEF CalmInv, ReconnectInv, Wanted
    <3>3. connected
      <4>1. CASE closers[c] = 0
        <5>1. read[c] \in {"new", "waiting"} /\ conn > 0
          BY <4>1, PyClientAssumption DEF Noticed, Conns, CalmInv, TypeOK
        <5> QED
          BY <1>2, <5>1, FoundAlive DEF CalmInv, TaskInv, Live
      <4> QED
        BY <3>2, <4>1
    <3>4. main = "idle"
      BY <2>2, <3>3 DEF CalmInv, CallInv, TypeOK, Wanted
    <3>5. Obstructed'
      BY <3>1 DEF Obstructed, Raises, Live
    <3> QED
      BY <1>1, <2>1, <2>2, <3>1, <3>3, <3>4, <3>5, PyClientAssumption
         DEF CallInv, ReconnectInv, CalmInv, Wanted, Conns
  <2>3. CASE ~(Wanted /\ ~Exhausted)
    <3>1. reconnect' = "none" /\ attempts' = attempts
      BY <1>2, <2>3 DEF HandleClose
    <3>2. Bare' /\ (Exhausted => Exhausted')
      BY <2>1, <3>1 DEF Bare, Exhausted
    <3>3. auto_reconnect => Exhausted'
      BY <1>0, <2>3, <3>2 DEF Wanted, CalmInv, TypeOK
    <3> QED
      BY <1>0, <1>1, <3>1, <3>2, <3>3 DEF CallInv, ReconnectInv, CalmInv, Live
  <2> QED
    BY <2>2, <2>3
<1>3. CASE First # "nothing"
  <2>1. reconnect' \in {reconnect, Stopped(reconnect)} /\ reconnect' \notin {"sleeping", "dialing"}
    BY <1>3, AfterRaise DEF HandleClose
  <2>2. reconnect' \in Live => reconnect \in Live /\ reconnect' = "cancelling"
    <3>1. reconnect \in {"none", "sleeping", "dialing", "cancelling", "done", "cancelled"}
      BY DEF CalmInv, TypeOK, Ended
    <3>2. reconnect' = Stopped(reconnect) \/ reconnect' = reconnect
      BY <2>1
    <3> QED
      BY <2>1, <3>1, <3>2 DEF Live, Stopped
  <2>3. ~Bare
    BY <1>3, BareIsClean
  <2>4. Obstructed'
    <3>1. CASE First = "ping"
      <4>1. ping_task' = ping_task /\ ping_task # 0 /\ Raises(ping[ping_task])
        BY <1>1, <3>1, FirstFacts, FoundAlive DEF Cleanup, CalmInv, State
      <4>2. ping' = [ping EXCEPT ![ping_task] = Stopped(@)] /\ ping_task \in Conns
        BY <1>1, <3>1, <4>1, PyClientAssumption DEF Cleanup, CalmInv, TypeOK, Conns
      <4>3. ping'[ping_task] = Stopped(ping[ping_task])
        BY <4>2 DEF CalmInv, TypeOK
      <4> QED
        BY <4>1, <4>3, StateFacts DEF Obstructed, State
    <3>2. CASE First = "read"
      <4>1. read_task' = read_task /\ read_task \in Conns /\ read_task # 0
            /\ Raises(read[read_task])
        BY <1>1, <3>2, FirstFacts, FoundAlive DEF Cleanup, CalmInv, State, Conns
      <4>2. read' = [readers EXCEPT ![read_task] = Stopped(@)] /\ readers \in [Conns -> ReadStates]
        BY <1>1, <3>2 DEF Cleanup, Noticed
      <4>3. read'[read_task] = Stopped(readers[read_task])
        BY <4>1, <4>2
      <4>4. Raises(readers[read_task])
        BY <1>3, <4>1 DEF Noticed, CalmInv, TypeOK, Raises, Live
      <4> QED
        BY <4>1, <4>3, <4>4, StateFacts DEF Obstructed, State
    <3>3. CASE First = "reconnect"
      <4>1. reconnect' = Stopped(reconnect) /\ Raises(reconnect)
        BY <1>3, <3>3, FirstFacts, AfterFacts DEF HandleClose
      <4> QED
        BY <4>1, StateFacts DEF Obstructed
    <3> QED
      BY <1>3, <3>1, <3>2, <3>3, FirstFacts
  <2>5. MaxConns > 0
    BY PyClientAssumption DEF Conns
  <2>6. reconnect' = "cancelling" => (reconnect = "cancelling" \/ auto_reconnect)
    BY <2>2 DEF Live, CalmInv, TypeOK, ReconnectInv, Ended
  <2>7. CallInv'
    BY <1>1, <2>2, <2>3 DEF CallInv, CalmInv
  <2>8. auto_reconnect \/ ~(reconnect' = "cancelling") \/ main = "raising"
    BY <2>6 DEF CalmInv, ReconnectInv
  <2> QED
    BY <1>0, <1>1, <2>1, <2>4, <2>5, <2>7, <2>8 DEF ReconnectInv, CalmInv
<1> QED
  BY <1>2, <1>3

\* A connection that connect() or reconnect() has made.
LEMMA EstablishedStep ==
  ASSUME CalmInv, Connected \/ Reconnected
  PROVE  TaskInv' /\ CallInv' /\ ReconnectInv'
<1>1. /\ Established /\ ~connected /\ running
      /\ main' = "idle" /\ reconnect' \notin Live
      /\ outcome' = "none" \/ (outcome' = outcome /\ outcome # "returned")
  BY DEF Connected, Reconnected, CalmInv, CallInv, ReconnectInv, Live, Established
<1>2. PICK c \in Conns : c = conn + 1 /\ conn' = c
  BY <1>1, PyClientAssumption DEF Established, CalmInv, TypeOK, Conns
<1>3. conn \in Nat /\ conn' = conn + 1 /\ c # 0 /\ conn' > 0
  BY <1>2, PyClientAssumption DEF CalmInv, TypeOK, Conns
<1>4. /\ connected' = TRUE /\ UNCHANGED <<pinging, auto_reconnect, running, closers>>
      /\ read' = [read EXCEPT ![c] = "new"] /\ read_task' = c
      /\ \/ pinging /\ ping' = [ping EXCEPT ![c] = "sleeping"] /\ ping_task' = c
         \/ ~pinging /\ UNCHANGED <<ping, ping_task>>
  BY <1>1, <1>2 DEF Established
<1>5. /\ ping \in [Conns -> PingStates] /\ read \in [Conns -> ReadStates]
      /\ pinging \in BOOLEAN
  BY DEF CalmInv, TypeOK, PingStates, ReadStates
<1>6. ASSUME NEW d \in Conns PROVE ping[d] \notin Live /\ (~pinging => read[d] \notin Live)
  <2>1. "cancelling" \notin {ping[d], read[d]} /\ ~connected
    BY <1>1 DEF Established, Quiet
  <2>2. ping[d] \in Live => d = ping_task /\ d # 0 /\ ping[d] = "cancelling"
    BY <2>1 DEF CalmInv, TaskInv, Conns, Live
  <2>3. (~pinging /\ read[d] \in Live) => read[d] = "cancelling"
    BY <2>1 DEF CalmInv, TaskInv
  <2> QED
    BY <2>1, <2>2, <2>3
<1>7. TaskInv'
  <2>1. \A d \in Conns : d # c => ping'[d] = ping[d] /\ read'[d] = read[d]
    BY <1>4, <1>5
  <2>2. \A d \in Conns : d > conn' => ping'[d] = "none" /\ read'[d] = "none"
    BY <1>2, <1>3, <2>1 DEF CalmInv, TaskInv, Conns
  <2>3. ~pinging => ping_task = 0
    BY DEF CalmInv, TaskInv
  <2>4. ping_task' # 0 <=> (pinging' /\ conn' > 0)
    BY <1>3, <1>4, <2>3
  <2>5. \A d \in Conns : ping'[d] \in Live => d = ping_task'
    BY <1>4, <1>6, <2>1
  <2>6. ping_task' # 0 => ping_task' = c /\ ping'[c] = "sleeping"
    BY <1>4, <1>5, <2>3
  <2>7. \A d \in Conns : (~pinging /\ read'[d] \in Live) => d = c
    BY <1>6, <2>1
  <2> QED
    BY <1>1, <1>2, <1>4, <2>2, <2>4, <2>5, <2>6, <2>7 DEF TaskInv
<1>8. reconnect' # "none" => MaxConns > 0
  BY <1>2, PyClientAssumption DEF Conns
<1>9. CallInv' /\ ReconnectInv'
  BY <1>1, <1>4, <1>8 DEF CallInv, ReconnectInv, Live
<1> QED
  BY <1>7, <1>9

\* disconnect() up to its first await.
LEMMA DisconnectStep ==
  ASSUME CalmInv, Disconnect
  PROVE  TaskInv' /\ CallInv' /\ ReconnectInv'
<1>1. /\ main = "idle" /\ auto_reconnect' = FALSE /\ running' = FALSE
      /\ Cleanup(read) /\ reconnect' = AfterCleanup
      /\ UNCHANGED <<pinging, conn, cur, closers>>
  BY DEF Disconnect, network
<1>2. TaskInv'
  <2>1. read \in [Conns -> ReadStates]
    BY DEF CalmInv, TypeOK, ReadStates
  <2> QED
    BY <1>1, <2>1, CleanupTasks DEF CalmInv
<1>3. CASE First = "nothing"
  <2>1. Bare'
    BY <1>1, <1>3, AfterFacts DEF Cleanup, Bare
  <2>2. \/ main' \in {"closing", "waiting"} /\ outcome' = outcome /\ outcome # "returned"
        \/ main' = "idle" /\ outcome' = "returned" /\ connected' = FALSE /\ cur = 0
    BY <1>1, <1>3 DEF Disconnect, CalmInv, CallInv
  <2>3. CallInv'
    BY <1>1, <2>1, <2>2 DEF CallInv
  <2> QED
    BY <1>1, <1>2, <2>1, <2>3 DEF ReconnectInv, Bare
<1>4. CASE First # "nothing"
  <2>1. main' = "raising" /\ outcome' = outcome /\ connected' = connected
    BY <1>4 DEF Disconnect
  <2>2. ~Bare
    BY <1>4, BareIsClean
  <2>3. CallInv'
    <3>1. outcome # "returned"
      BY <2>2 DEF CallInv, CalmInv
    <3> QED
      BY <1>1, <2>1, <3>1 DEF CallInv
  <2>4. reconnect' # "none" => reconnect # "none"
    BY <1>1, <1>4, AfterRaise, StateFacts DEF Live
  <2>5. reconnect' \notin {"sleeping", "dialing"}
    BY <1>1, <1>4, AfterRaise
  <2> QED
    BY <1>1, <1>2, <2>1, <2>3, <2>4, <2>5 DEF ReconnectInv, CalmInv
<1> QED
  BY <1>2, <1>3, <1>4

\* The read loop goes on or ends: c is a read task that ran.
LEMMA LoopStep ==
  ASSUME CalmInv, NEW c \in Conns, read[c] \in {"new", "waiting"},
         \/ read' = [read EXCEPT ![c] = "done"]
         \/ read' = [read EXCEPT ![c] = "waiting"],
         UNCHANGED <<flags, program, conn, cur, ping, ping_task, read_task, reconnect>>,
         \A d \in Conns : closers[d] = 0 => (closers'[d] = 0 \/ read[c] = "waiting")
  PROVE  TaskInv' /\ CallInv' /\ ReconnectInv'
<1>1. read \in [Conns -> ReadStates] /\ conn \in Nat
  BY PyClientAssumption DEF CalmInv, TypeOK, ReadStates
<1>2. c <= conn
  BY <1>1 DEF CalmInv, TaskInv, Conns
<1>3. TaskInv'
  BY <1>1, <1>2 DEF CalmInv, TaskInv, flags, program, Conns, Live
<1>4. CallInv'
  BY DEF CalmInv, CallInv, flags, program, Bare
<1>5. pinging \/ connected
  BY DEF CalmInv, TaskInv, Live, TypeOK
<1>6. conn > 0
  BY <1>1, <1>2 DEF Conns
<1>7. ~connected => ping_task # 0 /\ Obstructed'
  <2> SUFFICES ASSUME ~connected PROVE ping_task # 0 /\ Obstructed'
    OBVIOUS
  <2>1. First = "ping"
    BY <1>5, <1>6, FoundAlive DEF CalmInv
  <2>2. ping_task # 0 /\ Raises(State(ping, ping_task))
    BY <2>1, FirstFacts, FoundAlive DEF CalmInv
  <2> QED
    BY <2>2 DEF Obstructed, State
<1>8. ReconnectInv'
  <2>1. reconnect \notin {"sleeping", "dialing"}
    BY <1>7 DEF CalmInv, ReconnectInv
  <2>2. auto_reconnect => running
    BY <1>6 DEF CalmInv, ReconnectInv, TypeOK
  <2>3. connected' = connected /\ auto_reconnect' = auto_reconnect /\ running' = running
        /\ main' = main /\ reconnect' = reconnect
    BY DEF flags, program
  <2> QED
    BY <1>7, <2>1, <2>2, <2>3 DEF CalmInv, ReconnectInv
<1> QED
  BY <1>3, <1>4, <1>8

\* The steps of the tasks of a connection that do not notice a loss.
LEMMA TaskStep ==
  ASSUME CalmInv, NEW c \in Conns,
         \/ ReadEmpty(c) \/ ReadCancelled(c) \/ PingWakes(c) \/ PingCancelled(c)
         \/ PeerEnds(c)
  PROVE  TaskInv' /\ CallInv' /\ ReconnectInv'
<1>1. CASE ReadEmpty(c)
  BY <1>1, LoopStep DEF ReadEmpty, network
<1>0. /\ ping \in [Conns -> PingStates] /\ read \in [Conns -> ReadStates]
      /\ TaskInv /\ CallInv /\ ReconnectInv
  BY DEF CalmInv, TypeOK, PingStates, ReadStates
<1>2. CASE ReadCancelled(c)
  <2>1. \A d \in Conns : read'[d] = IF d = c THEN "cancelled" ELSE read[d]
    BY <1>0, <1>2 DEF ReadCancelled
  <2>2. UNCHANGED <<flags, program, network, ping, ping_task, read_task, reconnect, closers>>
        /\ read[c] = "cancelling"
    BY <1>2 DEF ReadCancelled
  <2>3. Obstructed => Obstructed'
    <3>1. read_task \in Conns \/ read_task = 0
      BY PyClientAssumption DEF CalmInv, TypeOK, Conns
    <3> QED
      BY <2>1, <2>2, <3>1 DEF Obstructed, State, Raises
  <2>4. TaskInv'
    BY <1>0, <2>1, <2>2 DEF TaskInv, flags, network, Live
  <2>5. CallInv'
    BY <1>0, <2>2 DEF CallInv, flags, program, network, Bare
  <2>6. ReconnectInv'
    BY <1>0, <2>2, <2>3 DEF ReconnectInv, flags, program, network, Exhausted
  <2> QED
    BY <2>4, <2>5, <2>6
<1>3. CASE PingWakes(c)
  <2>1. ping[c] = "sleeping" /\ connected /\ running
    BY <1>0, <1>3 DEF PingWakes, TaskInv, Conns, Live
  <2>2. ping' = ping
    BY <1>0, <1>3, <2>1 DEF PingWakes
  <2> QED
    BY <1>0, <1>3, <2>2 DEF PingWakes, TaskInv, CallInv, ReconnectInv, flags, program, network,
                            Bare, Obstructed, Exhausted
<1>4. CASE PingCancelled(c)
  <2>1. \A d \in Conns : ping'[d] = IF d = c THEN "cancelled" ELSE ping[d]
    BY <1>0, <1>4 DEF PingCancelled
  <2>2. UNCHANGED <<flags, program, network, ping_task, read, read_task, reconnect, closers>>
        /\ ping[c] = "cancelling"
    BY <1>4 DEF PingCancelled
  <2>3. ping_task \in Conns \/ ping_task = 0
    BY PyClientAssumption DEF CalmInv, TypeOK, Conns
  <2>4. Obstructed => Obstructed'
    BY <2>1, <2>2, <2>3 DEF Obstructed, State, Raises
  <2>5. TaskInv'
    BY <1>0, <2>1, <2>2, <2>3 DEF TaskInv, flags, network, Live
  <2>6. CallInv'
    BY <1>0, <2>2 DEF CallInv, flags, program, network, Bare
  <2>7. ReconnectInv'
    BY <1>0, <2>2, <2>4 DEF ReconnectInv, flags, program, network, Exhausted
  <2> QED
    BY <2>5, <2>6, <2>7
<1>5. CASE PeerEnds(c)
  BY <1>0, <1>5 DEF PeerEnds, TaskInv, CallInv, ReconnectInv, flags, program, tasks, Bare,
                    Obstructed, Exhausted
<1> QED
  BY <1>1, <1>2, <1>3, <1>4, <1>5

LEMMA CalmStep == ~OverlapConnects => (CalmInv /\ [Next]_vars => CalmInv')
<1> SUFFICES ASSUME ~OverlapConnects, CalmInv, [Next]_vars
             PROVE  TaskInv' /\ CallInv' /\ ReconnectInv'
  BY TypeStep DEF CalmInv
<1>0. TypeOK /\ TaskInv /\ CallInv /\ ReconnectInv /\ read \in [Conns -> ReadStates]
  BY DEF CalmInv, TypeOK, ReadStates
<1>1. CASE Connected \/ Reconnected
  BY <1>1, EstablishedStep
<1>2. CASE Connect
  <2>1. /\ ~connected /\ reconnect \notin Live
        /\ running' = TRUE /\ main' = "dialing" /\ outcome' = "none"
        /\ UNCHANGED <<pinging, auto_reconnect, connected, attempts, network, tasks, closers>>
    BY <1>2 DEF Connect
  <2>2. TaskInv'
    BY <1>0, <2>1 DEF TaskInv, network, tasks
  <2>3. CallInv'
    BY <2>1 DEF CallInv, tasks
  <2>4. ReconnectInv'
    BY <1>0, <2>1 DEF ReconnectInv, tasks, network, Live, Obstructed, Exhausted
  <2> QED
    BY <2>2, <2>3, <2>4
<1>3. CASE ConnectFails
  BY <1>0, <1>3 DEF ConnectFails, TaskInv, CallInv, ReconnectInv, flags, network, tasks, Bare,
                    Obstructed, Exhausted
<1>4. CASE Disconnect
  BY <1>4, DisconnectStep
<1>5. CASE DisconnectRaises
  <2>1. /\ main = "raising" /\ main' = "idle" /\ outcome' = "raised"
        /\ UNCHANGED <<flags, network, tasks, closers>>
    BY <1>5 DEF DisconnectRaises
  <2>2. reconnect # "cancelling"
    BY <1>0, <1>5, PyClientAssumption DEF DisconnectRaises, ReconnectInv, Conns
  <2> QED
    BY <1>0, <2>1, <2>2 DEF TaskInv, CallInv, ReconnectInv, flags, network, tasks, Obstructed,
                            Exhausted
<1>6. CASE DisconnectReturns
  <2>1. /\ ~auto_reconnect /\ Bare /\ main' = "idle" /\ cur' = 0 /\ connected' = FALSE
        /\ UNCHANGED <<pinging, auto_reconnect, running, conn, tasks, closers>>
    BY <1>0, <1>6 DEF DisconnectReturns, CallInv
  <2>2. TaskInv'
    BY <1>0, <2>1 DEF TaskInv, tasks, Bare, Conns
  <2>3. CallInv' /\ ReconnectInv'
    BY <2>1 DEF CallInv, ReconnectInv, tasks, Bare
  <2> QED
    BY <2>2, <2>3
<1>7. CASE DelayEnds
  <2>1. /\ reconnect = "sleeping" /\ reconnect' = "dialing" /\ running' = TRUE /\ ~connected
        /\ UNCHANGED <<pinging, auto_reconnect, connected, attempts, program, network,
                       ping, ping_task, read, read_task, closers>>
    BY <1>0, <1>7 DEF DelayEnds, ReconnectInv
  <2>2. \A c \in Conns : closers[c] = 0
    BY <1>7 DEF DelayEnds, Quiet
  <2>3. main = "idle"
    BY <1>0, <2>1 DEF ReconnectInv
  <2>4. TaskInv'
    BY <1>0, <2>1 DEF TaskInv, network
  <2>5. CallInv'
    BY <1>0, <2>1, <2>3 DEF CallInv, program, ReconnectInv
  <2>6. ReconnectInv'
    BY <1>0, <2>1, <2>2 DEF ReconnectInv, program
  <2> QED
    BY <2>4, <2>5, <2>6
<1>8. CASE ReconnectFails
  <2>1. /\ reconnect = "dialing" /\ reconnect' = "done"
        /\ UNCHANGED <<flags, program, network, ping, ping_task, read, read_task, closers>>
    BY <1>8 DEF ReconnectFails
  <2>2. TaskInv'
    BY <1>0, <2>1 DEF TaskInv, flags, network
  <2>3. CallInv'
    BY <1>0, <2>1 DEF CallInv, ReconnectInv, flags, program
  <2>4. ReconnectInv'
    BY <1>0, <2>1 DEF ReconnectInv, flags, program, network
  <2> QED
    BY <2>2, <2>3, <2>4
<1>9. CASE ReconnectCancelled
  <2>1. /\ reconnect = "cancelling" /\ reconnect' = "cancelled"
        /\ UNCHANGED <<flags, program, network, ping, ping_task, read, read_task, closers>>
    BY <1>9 DEF ReconnectCancelled
  <2>2. TaskInv'
    BY <1>0, <2>1 DEF TaskInv, flags, network
  <2>3. CallInv'
    BY <1>0, <2>1 DEF CallInv, flags, program, network, Bare, Live
  <2>4. ReconnectInv'
    BY <1>0, <2>1 DEF ReconnectInv, flags, program, network, Obstructed, Raises
  <2> QED
    BY <2>2, <2>3, <2>4
<1>10. ASSUME NEW c \in Conns, CloseRuns(c) PROVE TaskInv' /\ CallInv' /\ ReconnectInv'
  <2>1. Noticed(c, read) /\ HandleClose(read)
    BY <1>0, <1>10 DEF CloseRuns, Noticed
  <2> QED
    BY <1>0, <2>1, HandleCloseTasks, HandleCloseCalls
<1>11. ASSUME NEW c \in Conns, Fails(c), read[c] \in {"new", "waiting"}
       PROVE  TaskInv' /\ CallInv' /\ ReconnectInv'
  <2> DEFINE readers == [read EXCEPT ![c] = IF First = "nothing" THEN "done" ELSE "cancelling"]
  <2>1. readers \in [Conns -> ReadStates]
    BY <1>0 DEF ReadStates, Ended
  <2>2. c <= conn
    BY <1>0, <1>11, PyClientAssumption DEF TaskInv, TypeOK, Conns
  <2>3. Noticed(c, readers)
    BY <1>11, <2>1, <2>2 DEF Noticed
  <2>4. HandleClose(readers)
    BY <1>11 DEF Fails
  <2> HIDE DEF readers
  <2> QED
    BY <1>0, <2>3, <2>4, HandleCloseTasks, HandleCloseCalls
<1>12. ASSUME NEW c \in Conns,
              ReadStarts(c) \/ Receive(c) \/ ReceiveClose(c) \/ ReceiveBadMagic(c)
       PROVE  TaskInv' /\ CallInv' /\ ReconnectInv'
  <2>1. LoopsOn(c) /\ read[c] \in {"new", "waiting"}
    BY <1>12 DEF ReadStarts, Receive, ReceiveClose, ReceiveBadMagic, HasData
  <2>2. closers' = closers \/ read[c] = "waiting"
    BY <1>12 DEF ReadStarts, Receive, ReceiveClose, ReceiveBadMagic, HasData
  <2>3. CASE Fails(c)
    BY <1>11, <2>1, <2>3
  <2>4. CASE ~Fails(c)
    <3>1. /\ read' = [read EXCEPT ![c] = "done"] \/ read' = [read EXCEPT ![c] = "waiting"]
          /\ UNCHANGED <<flags, program, conn, cur, ping, ping_task, read_task, reconnect>>
      BY <2>1, <2>4 DEF LoopsOn
    <3>2. \A d \in Conns : closers[d] = 0 => (closers'[d] = 0 \/ read[c] = "waiting")
      BY <2>2
    <3> QED
      BY <2>1, <3>1, <3>2, LoopStep
  <2> QED
    BY <2>3, <2>4
<1>13. ASSUME NEW c \in Conns, ReceiveFails(c) PROVE TaskInv' /\ CallInv' /\ ReconnectInv'
  BY <1>11, <1>13 DEF ReceiveFails, HasData
<1>14. CASE UNCHANGED vars
  BY <1>0, <1>14 DEF vars, flags, program, network, tasks, TaskInv, CallInv, ReconnectInv, Bare,
                     Obstructed, Exhausted
<1>15. CASE CloseSent
  <2>1. /\ main = "closing" /\ main' = "waiting" /\ outcome' = outcome
        /\ UNCHANGED <<flags, network, tasks, closers>>
    BY <1>15 DEF CloseSent
  <2>2. ~auto_reconnect /\ Bare
    BY <1>0, <2>1 DEF CallInv
  <2>3. reconnect = "none"
    BY <2>2 DEF Bare
  <2> QED
    BY <1>0, <2>1, <2>2, <2>3 DEF TaskInv, CallInv, ReconnectInv, flags, network, tasks, Bare,
                                  Obstructed, Exhausted
<1> QED
  BY <1>1, <1>2, <1>3, <1>4, <1>5, <1>6, <1>7, <1>8, <1>9, <1>10, <1>12, <1>13, <1>14, <1>15,
     TaskStep
     DEF Next, Task

LEMMA CalmAlways == ~OverlapConnects => (Spec => []CalmInv)
<1> SUFFICES ASSUME ~OverlapConnects PROVE Spec => []CalmInv
  OBVIOUS
<1>1. Init => TaskInv /\ CallInv /\ ReconnectInv
  BY DEF Init, TaskInv, CallInv, ReconnectInv, Live, Conns
<1>2. CalmInv /\ [Next]_vars => CalmInv'
  BY CalmStep
<1> QED
  BY <1>1, <1>2, Typed, PTL DEF Spec, CalmInv

(***************************************************************************)
(* A disconnect() that returns leaves no ping, read or reconnect task and  *)
(* no connection, whatever CLOSE frames the server had sent.               *)
(***************************************************************************)
THEOREM ReturnStops == ~OverlapConnects => (Spec => []ReturnedMeansStopped)
<1> SUFFICES ASSUME ~OverlapConnects PROVE Spec => []ReturnedMeansStopped
  OBVIOUS
<1>1. CalmInv => ReturnedMeansStopped
  <2> SUFFICES ASSUME CalmInv, outcome = "returned"
               PROVE  /\ ~connected /\ cur = 0 /\ reconnect \notin Live
                      /\ \A c \in Conns : ping[c] \notin Live /\ read[c] \notin Live
    BY DEF ReturnedMeansStopped
  <2>1. ~connected /\ cur = 0 /\ Bare
    BY DEF CalmInv, CallInv
  <2>2. ASSUME NEW c \in Conns PROVE ping[c] \notin Live /\ read[c] \notin Live
    <3>1. ping_task = 0 /\ read_task = 0 /\ c \in Nat /\ c # 0
      BY <2>1 DEF Bare, Conns
    <3>2. CASE pinging
      <4>1. c > conn
        BY <3>1, <3>2, PyClientAssumption DEF CalmInv, TaskInv, TypeOK
      <4> QED
        BY <4>1 DEF CalmInv, TaskInv, Live
    <3>3. CASE ~pinging
      BY <3>1, <3>3 DEF CalmInv, TaskInv
    <3> QED
      BY <3>2, <3>3
  <2> QED
    BY <2>1, <2>2 DEF Bare, Live
<1> QED
  BY <1>1, CalmAlways, PTL

(***************************************************************************)
(* After disconnect() no reconnection is under way, however it ended.      *)
(***************************************************************************)
THEOREM DisconnectIsFinal == ~OverlapConnects => (Spec => []NoReconnectAfterDisconnect)
<1> SUFFICES ASSUME ~OverlapConnects PROVE Spec => []NoReconnectAfterDisconnect
  OBVIOUS
<1>1. CalmInv => NoReconnectAfterDisconnect
  BY DEF CalmInv, TypeOK, ReconnectInv, NoReconnectAfterDisconnect, Live, Ended
<1> QED
  BY <1>1, CalmAlways, PTL

\* What a task does keeps the live stream read: another task that takes over,
\* or ends, has one beside it that waits.
LEMMA LoopKeepsReading ==
  ASSUME TypeOK, LiveStreamIsRead, NEW c \in Conns, read[c] \in {"new", "waiting"}, LoopsOn(c),
         \A d \in Conns : net'[d] = "open" => net[d] = "open"
  PROVE  LiveStreamIsRead'
<1>1. CASE connected' = FALSE \/ running' = FALSE
  BY <1>1 DEF LiveStreamIsRead
<1>2. CASE running /\ cur # 0 /\ UNCHANGED flags /\ cur' = cur
           /\ read' = [read EXCEPT ![c] = "waiting"] /\ source' = [source EXCEPT ![c] = cur]
  <2>1. read'[c] = "waiting" /\ source'[c] = cur' /\ cur' # 0
    BY <1>2 DEF TypeOK
  <2> QED
    BY <2>1 DEF LiveStreamIsRead
<1>3. CASE (~running \/ cur = 0) /\ UNCHANGED flags /\ cur' = cur
  BY <1>3 DEF LiveStreamIsRead, flags
<1>4. CASE Fails(c)
  BY <1>1, <1>4 DEF Fails, HandleClose
<1> QED
  BY <1>2, <1>3, <1>4 DEF LoopsOn

LEMMA ReadStep == TypeOK /\ LiveStreamIsRead /\ [Next]_vars => LiveStreamIsRead'
<1> SUFFICES ASSUME TypeOK, LiveStreamIsRead, [Next]_vars PROVE LiveStreamIsRead'
  OBVIOUS
<1> USE PyClientAssumption
<1>1. CASE connected' = FALSE \/ running' = FALSE
  BY <1>1 DEF LiveStreamIsRead
<1>2. CASE Connected \/ Reconnected
  <2>1. conn + 1 \in Conns /\ cur' = conn + 1 /\ read' = [read EXCEPT ![conn + 1] = "new"]
    BY <1>2 DEF Connected, Reconnected, Established, TypeOK, Conns
  <2>2. read'[conn + 1] = "new" /\ cur' # 0
    BY <2>1 DEF TypeOK, Conns
  <2> QED
    BY <2>1, <2>2 DEF LiveStreamIsRead
<1>3. CASE \/ ConnectFails \/ DisconnectRaises \/ CloseSent \/ ReconnectFails \/ ReconnectCancelled
           \/ UNCHANGED vars
  BY <1>3 DEF ConnectFails, DisconnectRaises, CloseSent, ReconnectFails, ReconnectCancelled,
              vars, flags, network, tasks, LiveStreamIsRead
<1>4. CASE Connect
  BY <1>1, <1>4 DEF Connect, TypeOK
<1>5. CASE DelayEnds
  BY <1>5 DEF DelayEnds, network, LiveStreamIsRead
<1>6. CASE Disconnect \/ DisconnectReturns
  BY <1>1, <1>6 DEF Disconnect, DisconnectReturns
<1>7. ASSUME NEW c \in Conns, Task(c) PROVE LiveStreamIsRead'
  <2>1. CASE CloseRuns(c) \/ ReceiveFails(c)
    BY <1>1, <2>1 DEF CloseRuns, ReceiveFails, Fails, HandleClose
  <2>2. CASE ReadStarts(c)
    BY <2>2, LoopKeepsReading DEF ReadStarts
  <2>3. CASE Receive(c) \/ ReceiveClose(c)
    BY <2>3, LoopKeepsReading DEF Receive, ReceiveClose, HasData
  <2>4. CASE ReceiveBadMagic(c)
    <3>1. \A d \in Conns : net'[d] = "open" => net[d] = "open"
      BY <2>4 DEF ReceiveBadMagic, TypeOK
    <3> QED
      BY <2>4, <3>1, LoopKeepsReading DEF ReceiveBadMagic, HasData
  <2>5. CASE ReadEmpty(c)
    <3> SUFFICES ASSUME connected, running, cur # 0, net[cur] = "open"
                 PROVE  \E d \in Conns :
                          read'[d] = "new" \/ (read'[d] = "waiting" /\ source[d] = cur)
      BY <2>5 DEF ReadEmpty, flags, network, LiveStreamIsRead
    <3>1. PICK d \in Conns : read[d] = "new" \/ (read[d] = "waiting" /\ source[d] = cur)
      BY DEF LiveStreamIsRead
    <3>2. read[c] = "waiting" /\ read' = [read EXCEPT ![c] = "done"]
      BY <2>5 DEF ReadEmpty
    <3>3. CASE d # c
      BY <3>1, <3>2, <3>3 DEF TypeOK
    <3>4. CASE d = c
      <4>1. source[c] = cur
        BY <3>1, <3>2, <3>4
      <4>2. PICK e \in Conns \ {c} : read[e] = "waiting" /\ source[e] = cur
        BY <2>5, <4>1 DEF ReadEmpty
      <4> QED
        BY <3>2, <4>2 DEF TypeOK
    <3> QED
      BY <3>3, <3>4
  <2>6. CASE ReadCancelled(c)
    <3> SUFFICES ASSUME connected, running, cur # 0, net[cur] = "open"
                 PROVE  \E d \in Conns :
                          read'[d] = "new" \/ (read'[d] = "waiting" /\ source[d] = cur)
      BY <2>6 DEF ReadCancelled, flags, network, LiveStreamIsRead
    <3>1. PICK d \in Conns : read[d] = "new" \/ (read[d] = "waiting" /\ source[d] = cur)
      BY DEF LiveStreamIsRead
    <3> QED
      BY <2>6, <3>1 DEF ReadCancelled, TypeOK
  <2>7. CASE PingWakes(c) \/ PingCancelled(c)
    BY <2>7 DEF PingWakes, PingCancelled, flags, network, LiveStreamIsRead
  <2>8. CASE PeerEnds(c)
    <3>1. \A d \in Conns : net'[d] = "open" => net[d] = "open"
      BY <2>8 DEF PeerEnds, TypeOK
    <3>2. cur \in Conns \/ cur = 0
      BY DEF TypeOK, Conns
    <3> QED
      BY <2>8, <3>1, <3>2 DEF PeerEnds, flags, tasks, LiveStreamIsRead
  <2> QED
    BY <1>7, <2>1, <2>2, <2>3, <2>4, <2>5, <2>6, <2>7, <2>8 DEF Task
<1> QED
  BY <1>2, <1>3, <1>4, <1>5, <1>6, <1>7 DEF Next

(***************************************************************************)
(* While the client is up and its stream open, some task reads it.  This   *)
(* holds also where attempts to connect overlap.                           *)
(***************************************************************************)
THEOREM SomebodyReads == Spec => []LiveStreamIsRead
<1>1. Init => LiveStreamIsRead
  BY DEF Init, LiveStreamIsRead
<1> QED
  BY <1>1, ReadStep, Typed, PTL DEF Spec

(***************************************************************************)
(* One ping task at most, and without pings one reader; and never a stream *)
(* that nobody reads.                                                      *)
(***************************************************************************)
THEOREM OneTaskOfEach == ~OverlapConnects => (Spec => []OneOfEach)
<1> SUFFICES ASSUME ~OverlapConnects PROVE Spec => []OneOfEach
  OBVIOUS
<1>1. CalmInv /\ LiveStreamIsRead => OneOfEach
  <2> SUFFICES ASSUME CalmInv, LiveStreamIsRead PROVE OneOfEach
    OBVIOUS
  <2>1. ASSUME NEW S, NEW e, S \subseteq {e} PROVE Cardinality(S) <= 1
    <3>1. IsFiniteSet({e}) /\ Cardinality({e}) = 1
      BY FS_Singleton
    <3>2. Cardinality(S) <= Cardinality({e})
      BY <2>1, <3>1, FS_Subset
    <3> QED
      BY <3>1, <3>2
  <2>2. {c \in Conns : ping[c] = "sleeping"} \subseteq {ping_task}
    BY DEF CalmInv, TaskInv, Live
  <2>3. ~pinging => {c \in Conns : read[c] \in {"new", "waiting"}} \subseteq {read_task}
    BY DEF CalmInv, TaskInv, Live
  <2> QED
    BY <2>1, <2>2, <2>3 DEF OneOfEach
<1> QED
  BY <1>1, CalmAlways, SomebodyReads, PTL

\* No connection is there when one is established, unless attempts may overlap.
LEMMA LifeStep ==
  ASSUME TypeOK, ~OverlapConnects => CalmInv, [Next]_vars
  PROVE  [Life!Next]_<<connected, conn, auto_reconnect, attempts>>
<1> DEFINE view == <<connected, conn, auto_reconnect, attempts>>
<1> USE DEF Life!Next
<1>0. attempts \in Nat /\ connected \in BOOLEAN
  BY DEF TypeOK
<1>1. CASE Connected \/ Reconnected
  <2>1. OverlapConnects \/ ~connected
    BY <1>1 DEF Connected, Reconnected, CalmInv, CallInv, ReconnectInv
  <2>2. connected' = TRUE /\ attempts' = 0 /\ auto_reconnect' = auto_reconnect
    BY <1>1 DEF Connected, Reconnected, Established
  <2>3. Life!Establish
    BY <2>1, <2>2 DEF Life!Establish
  <2> QED
    BY <2>3
<1>2. CASE Disconnect
  <2>1. auto_reconnect' = FALSE /\ (connected' => connected) /\ UNCHANGED <<conn, attempts>>
    BY <1>0, <1>2 DEF Disconnect, network
  <2>2. Life!Revoke
    BY <2>1 DEF Life!Revoke
  <2> QED
    BY <2>2
<1>3. ASSUME connected' = FALSE, UNCHANGED <<conn, auto_reconnect>>,
             attempts' = attempts \/ Life!Counted
      PROVE  [Life!Next]_view
  <2>1. CASE connected
    <3>1. Life!Lose
      BY <1>3, <2>1 DEF Life!Lose
    <3> QED
      BY <3>1
  <2>2. CASE ~connected /\ attempts' = attempts
    BY <1>0, <1>3, <2>2
  <2>3. CASE ~connected /\ Life!Counted
    <3>1. Life!Count
      BY <1>0, <1>3, <2>3 DEF Life!Count
    <3> QED
      BY <3>1
  <2> QED
    BY <1>3, <2>1, <2>2, <2>3
<1>4. ASSUME NEW readers, HandleClose(readers)
      PROVE  [Life!Next]_view
  <2>1. attempts' = attempts \/ (Wanted /\ ~Exhausted /\ attempts' = attempts + 1)
    BY <1>4 DEF HandleClose, Counted
  <2>2. attempts' = attempts \/ Life!Counted
    BY <1>0, <2>1, PyClientAssumption DEF Wanted, Exhausted, Life!Counted
  <2> QED
    BY <1>3, <1>4, <2>2 DEF HandleClose
<1>5. CASE DisconnectReturns
  BY <1>3, <1>5 DEF DisconnectReturns
<1>6. ASSUME NEW c \in Conns, Task(c)
      PROVE  [Life!Next]_view
  <2>1. CASE CloseRuns(c) \/ ReceiveFails(c)
    BY <1>4, <2>1 DEF CloseRuns, ReceiveFails, Fails
  <2>2. CASE ReadStarts(c) \/ Receive(c) \/ ReceiveClose(c) \/ ReceiveBadMagic(c)
    <3>1. LoopsOn(c)
      BY <2>2 DEF ReadStarts, Receive, ReceiveClose, ReceiveBadMagic
    <3> QED
      BY <1>4, <3>1 DEF LoopsOn, Fails, flags
  <2>3. CASE \/ ReadEmpty(c) \/ ReadCancelled(c) \/ PingWakes(c) \/ PingCancelled(c)
             \/ PeerEnds(c)
    BY <2>3 DEF ReadEmpty, ReadCancelled, PingWakes, PingCancelled, PeerEnds, flags, network
  <2> QED
    BY <1>6, <2>1, <2>2, <2>3 DEF Task
<1>7. CASE \/ Connect \/ ConnectFails \/ DisconnectRaises \/ CloseSent \/ DelayEnds \/ ReconnectFails
           \/ ReconnectCancelled \/ UNCHANGED vars
  BY <1>7 DEF Connect, ConnectFails, DisconnectRaises, CloseSent, DelayEnds, ReconnectFails,
              ReconnectCancelled, vars, flags, network
<1> QED
  BY <1>1, <1>2, <1>5, <1>6, <1>7 DEF Next

(***************************************************************************)
(* The client implements Session, in every environment: reconnections are  *)
(* counted up to the limit and not after disconnect(), and no connection   *)
(* replaces one that is up unless attempts to connect overlap.             *)
(***************************************************************************)
THEOREM ImplementsSession == Spec => LifeSpec
<1> SUFFICES Spec => Life!Spec
  BY DEF LifeSpec
<1>1. Init => Life!Init
  BY DEF Init, Life!Init
<1>2. TypeOK /\ (~OverlapConnects => CalmInv) /\ [Next]_vars
        => [Life!Next]_<<connected, conn, auto_reconnect, attempts>>
  BY LifeStep
<1>3. Spec => [](~OverlapConnects => CalmInv)
  <2>1. CASE ~OverlapConnects
    <3>1. CalmInv => (~OverlapConnects => CalmInv)
      OBVIOUS
    <3> QED
      BY <2>1, <3>1, CalmAlways, PTL
  <2>2. CASE OverlapConnects
    <3>1. ~OverlapConnects => CalmInv
      BY <2>2
    <3> QED
      BY <3>1, PTL
  <2> QED
    BY <2>1, <2>2
<1> QED
  BY <1>1, <1>2, <1>3, Typed, PTL DEF Spec, Life!Spec, Life!vars

=============================================================================
