------------------------------ MODULE Dispatch ------------------------------
(***************************************************************************)
(* The callbacks of the Rust client.  The program registers them, connect()*)
(* and the read tasks call them, and disconnect() forbids reconnections,   *)
(* all under two locks of tokio: one around the lists of callbacks, one    *)
(* around the options.  connect() takes the lock of the callbacks and then *)
(* that of the options, a read task that announces a reconnection takes    *)
(* them in the other order.                                                *)
(*                                                                         *)
(* A lock lets several readers in or one writer, in the order in which     *)
(* they asked.  No writer awaits anything while it is in: a write is one   *)
(* step here, and only readers hold a lock between steps.                  *)
(*                                                                         *)
(* The channel, the write task and the ping task call nothing of the       *)
(* program and take no lock: RustClient has them.                          *)
(***************************************************************************)
EXTENDS Integers, Sequences, FiniteSets

CONSTANTS
  MaxConns,         \* bound: connections established
  MaxCallbacks,     \* bound: callbacks registered for an event
  Registrable,      \* the events the program registers callbacks for
  max_attempts      \* the option max_reconnect_attempts: 0 means no limit

Events == {"connect", "disconnect", "reconnecting", "message", "event",
           "ack", "pong", "error", "frame"}

ASSUME DispatchAssumption ==
  /\ MaxConns \in Nat /\ MaxCallbacks \in Nat
  /\ Registrable \subseteq Events
  /\ max_attempts \in Nat

Conns == 1..MaxConns
Program == 0                        \* the thread that holds the client
Actors == {Program} \cup Conns      \* and the read task of each connection
Locks == {"callbacks", "options"}

\* The lists that are gone through for a frame, in this order.  A PUBLISH or an
\* EVENT whose payload is no message is "other", like CLOSE and what only
\* servers get.
Owed == [event |-> <<"frame", "event", "message">>,
         publish |-> <<"frame", "message">>,
         ack |-> <<"frame", "ack">>,
         pong |-> <<"frame", "pong">>,
         error |-> <<"frame", "error">>,
         other |-> <<"frame">>]

VARIABLES
  lists,                    \* how many callbacks each event has
  connected, running,       \* the shared flags
  auto_reconnect,           \* the option
  attempts,                 \* reconnect_attempts
  main,                     \* where the call that borrows the client is
  conn,                     \* the connections established so far
  reader,                   \* where each read task is
  aborted,                  \* the read tasks that were told to end
  todo,                     \* the lists a read task has still to go through
  holds,                    \* who is in a lock
  waiting                   \* who asked for it and is not, in order

flags == <<connected, running, auto_reconnect, attempts>>
locks == <<holds, waiting>>
tasks == <<reader, todo>>
vars == <<lists, flags, main, conn, aborted, tasks, locks>>

NoCallbacks == [e \in Events |-> 0]

\* Where a read task wants, or has, the lock of the callbacks.
Calling == {"frame", "bad", "failed", "falling", "announcing", "exhausted"}

Init ==
  /\ lists = NoCallbacks
  /\ connected = FALSE /\ running = FALSE /\ auto_reconnect = TRUE
  /\ attempts = 0
  /\ main = "idle" /\ conn = 0
  /\ reader = [c \in Conns |-> "none"]
  /\ aborted = {}
  /\ todo = [c \in Conns |-> <<>>]
  /\ holds = [l \in Locks |-> {}]
  /\ waiting = [l \in Locks |-> <<>>]

-----------------------------------------------------------------------------
(* The locks. *)

\* It is the turn of a; a writer waits for the readers too.
Turn(l, a) == waiting[l] # <<>> /\ Head(waiting[l]) = a
NobodyInside(l) == holds[l] = {}

\* A queue without a, who stands in it once at the most.
Without(s, a) ==
  LET at == {i \in DOMAIN s : s[i] = a}
      i == CHOOSE i \in at : TRUE
  IN  IF at = {} THEN s ELSE SubSeq(s, 1, i - 1) \o SubSeq(s, i + 1, Len(s))

Ask(l, a) == waiting' = [waiting EXCEPT ![l] = Append(@, a)]
Answered(l) == waiting' = [waiting EXCEPT ![l] = Tail(@)]
Enter(l, a) == holds' = [holds EXCEPT ![l] = @ \cup {a}]
Leave(l, a) == holds' = [holds EXCEPT ![l] = @ \ {a}]

\* a got in at l, and asks for m.
AnsweredAsks(l, m, a) ==
  waiting' = [waiting EXCEPT ![l] = Tail(@), ![m] = Append(@, a)]

-----------------------------------------------------------------------------
(* The program: registration. *)

\* on_connect() and its eight like: the thread blocks until it may write.
Register ==
  /\ main = "idle"
  /\ \E e \in Registrable : lists[e] < MaxCallbacks
  /\ main' = "registering"
  /\ Ask("callbacks", Program)
  /\ UNCHANGED <<lists, flags, conn, aborted, tasks, holds>>

Registered(e) ==
  /\ main = "registering"
  /\ Turn("callbacks", Program) /\ NobodyInside("callbacks")
  /\ lists[e] < MaxCallbacks
  /\ lists' = [lists EXCEPT ![e] = @ + 1]
  /\ main' = "idle"
  /\ Answered("callbacks")
  /\ UNCHANGED <<flags, conn, aborted, tasks, holds>>

-----------------------------------------------------------------------------
(* The program: connect(). *)

Connect ==
  /\ main = "idle" /\ ~connected /\ conn < MaxConns
  /\ running' = TRUE
  /\ main' = "addressing"
  /\ Ask("options", Program)
  /\ UNCHANGED <<lists, connected, auto_reconnect, attempts, conn, aborted, tasks, holds>>

\* The address is read from the options.
Dial ==
  /\ main = "addressing" /\ Turn("options", Program)
  /\ main' = "dialing"
  /\ Answered("options")
  /\ UNCHANGED <<lists, flags, conn, aborted, tasks, holds>>

DialFails ==
  /\ main = "dialing"
  /\ main' = "idle"
  /\ UNCHANGED <<lists, flags, conn, aborted, tasks, locks>>

\* The read task runs from here on, before on_connect is called.
Established ==
  /\ main = "dialing"
  /\ conn' = conn + 1
  /\ connected' = TRUE
  /\ attempts' = 0
  /\ reader' = [reader EXCEPT ![conn + 1] = "looping"]
  /\ main' = "spawning"
  /\ Ask("options", Program)
  /\ UNCHANGED <<lists, running, auto_reconnect, aborted, todo, holds>>

\* The interval of the pings is read, and the lock of the callbacks asked for.
Spawned ==
  /\ main = "spawning" /\ Turn("options", Program)
  /\ main' = "emitting"
  /\ AnsweredAsks("options", "callbacks", Program)
  /\ UNCHANGED <<lists, flags, conn, aborted, tasks, holds>>

\* The callbacks of on_connect; their lock is kept while the identifier of the
\* client is read from the options.
EmitConnect ==
  /\ main = "emitting" /\ Turn("callbacks", Program)
  /\ main' = "naming"
  /\ Enter("callbacks", Program)
  /\ AnsweredAsks("callbacks", "options", Program)
  /\ UNCHANGED <<lists, flags, conn, aborted, tasks>>

\* A plausible bug: the guard is kept in the client.
BugGreetKeepsGuard ==
  /\ main = "naming" /\ Turn("options", Program)
  /\ main' = "idle"
  /\ Answered("options")
  /\ UNCHANGED <<lists, flags, conn, aborted, tasks, holds>>

\* HELLO is sent, or fails: surely if the read task has cleared connected.
Greet ==
  /\ main = "naming" /\ Turn("options", Program)
  /\ main' = "idle"
  /\ Answered("options")
  /\ Leave("callbacks", Program)
  /\ \/ connected /\ UNCHANGED <<connected, running>>
     \/ connected' = FALSE /\ running' = FALSE
  /\ UNCHANGED <<lists, auto_reconnect, attempts, conn, aborted, tasks>>

-----------------------------------------------------------------------------
(* The program: disconnect(), and the end of the client. *)

Disconnect ==
  /\ main = "idle"
  /\ main' = "revoking"
  /\ Ask("options", Program)
  /\ UNCHANGED <<lists, flags, conn, aborted, tasks, holds>>

\* auto_reconnect is cleared under the lock, running without.
Revoke ==
  /\ main = "revoking"
  /\ Turn("options", Program) /\ NobodyInside("options")
  /\ auto_reconnect' = FALSE /\ running' = FALSE
  /\ main' = "closing"
  /\ Answered("options")
  /\ UNCHANGED <<lists, connected, attempts, conn, aborted, tasks, holds>>

\* CLOSE is sent, and cleanup_tasks aborts the read task.
Cleanup ==
  /\ main = "closing"
  /\ aborted' = aborted \cup ({conn} \ {0})
  /\ connected' = FALSE
  /\ main' = "idle"
  /\ UNCHANGED <<lists, running, auto_reconnect, attempts, conn, tasks, locks>>

Drop ==
  /\ main = "idle"
  /\ main' = "dropped"
  /\ running' = FALSE
  /\ UNCHANGED <<lists, connected, auto_reconnect, attempts, conn, aborted, tasks, locks>>

-----------------------------------------------------------------------------
(* The read task of connection c. *)

\* It asks for the lock of the callbacks, to go through some of the lists.
AskToCall(c, state, owed) ==
  /\ reader' = [reader EXCEPT ![c] = state]
  /\ todo' = [todo EXCEPT ![c] = owed]
  /\ Ask("callbacks", c)

Loop(c) ==
  /\ reader[c] \in {"looping", "handling"}
  /\ reader' = [reader EXCEPT ![c] = IF running THEN "reading" ELSE "ended"]
  /\ UNCHANGED <<lists, flags, main, conn, aborted, todo, locks>>

\* A read, or what is left of the last one, ends a frame.
Frame(c, kind) ==
  /\ reader[c] \in {"reading", "handling"}
  /\ AskToCall(c, "frame", Owed[kind])
  /\ UNCHANGED <<lists, flags, main, conn, aborted, holds>>

\* Or the magic number is wrong, or the header is not decoded.
BadHeader(c) ==
  /\ reader[c] \in {"reading", "handling"}
  /\ AskToCall(c, "bad", <<"error">>)
  /\ UNCHANGED <<lists, flags, main, conn, aborted, holds>>

ReadFails(c) ==
  /\ reader[c] = "reading"
  /\ AskToCall(c, "failed", <<"error">>)
  /\ UNCHANGED <<lists, flags, main, conn, aborted, holds>>

\* The connection ends, or a read was no whole frame and the flag says so.
ReadEnds(c) ==
  /\ reader[c] = "reading"
  /\ reader' = [reader EXCEPT ![c] = "ended"]
  /\ UNCHANGED <<lists, flags, main, conn, aborted, todo, locks>>

\* connected.swap(false)
Swap(c) ==
  /\ reader[c] = "ended"
  /\ connected' = FALSE
  /\ \/ connected /\ AskToCall(c, "falling", <<"disconnect">>)
     \/ /\ ~connected
        /\ reader' = [reader EXCEPT ![c] = "deciding"]
        /\ Ask("options", c)
        /\ UNCHANGED todo
  /\ UNCHANGED <<lists, running, auto_reconnect, attempts, main, conn, aborted, holds>>

\* A plausible bug: the options are let go of before the announcement.
BugDecideLetsGo(c) ==
  /\ reader[c] = "deciding" /\ Turn("options", c)
  /\ auto_reconnect /\ running
  /\ attempts' = attempts + 1
  /\ todo' = [todo EXCEPT ![c] = <<"reconnecting">>]
  /\ reader' = [reader EXCEPT ![c] = "announcing"]
  /\ AnsweredAsks("options", "callbacks", c)
  /\ UNCHANGED <<lists, connected, running, auto_reconnect, main, conn, aborted, holds>>

\* The attempt is counted, to be announced under the lock of the options.
Decide(c) ==
  /\ reader[c] = "deciding" /\ Turn("options", c)
  /\ \/ /\ auto_reconnect /\ running
        /\ attempts' = attempts + 1
        /\ \/ /\ max_attempts = 0 \/ attempts < max_attempts
              /\ reader' = [reader EXCEPT ![c] = "announcing"]
              /\ todo' = [todo EXCEPT ![c] = <<"reconnecting">>]
           \/ /\ max_attempts # 0 /\ attempts >= max_attempts
              /\ reader' = [reader EXCEPT ![c] = "exhausted"]
              /\ todo' = [todo EXCEPT ![c] = <<"error">>]
        /\ Enter("options", c)
        /\ AnsweredAsks("options", "callbacks", c)
     \/ /\ ~(auto_reconnect /\ running)
        /\ reader' = [reader EXCEPT ![c] = "done"]
        /\ Answered("options")
        /\ UNCHANGED <<attempts, todo, holds>>
  /\ UNCHANGED <<lists, connected, running, auto_reconnect, main, conn, aborted>>

GetIn(c) ==
  /\ reader[c] \in Calling /\ Turn("callbacks", c)
  /\ Enter("callbacks", c)
  /\ Answered("callbacks")
  /\ UNCHANGED <<lists, flags, main, conn, reader, aborted, todo>>

\* A plausible bug: the lock is taken anew for each list.
BugCallLetsGo(c) ==
  /\ c \in holds["callbacks"] /\ todo[c] # <<>>
  /\ todo' = [todo EXCEPT ![c] = Tail(@)]
  /\ Leave("callbacks", c) /\ Ask("callbacks", c)
  /\ UNCHANGED <<lists, flags, main, conn, reader, aborted>>

\* The callbacks of one list, which do not await.
Call(c) ==
  /\ c \in holds["callbacks"] /\ todo[c] # <<>>
  /\ todo' = [todo EXCEPT ![c] = Tail(@)]
  /\ UNCHANGED <<lists, flags, main, conn, reader, aborted, locks>>

\* A plausible bug: the options are kept while the task sleeps.
BugCalledKeepsOptions(c) ==
  /\ c \in holds["callbacks"] /\ todo[c] = <<>>
  /\ reader[c] = "announcing"
  /\ reader' = [reader EXCEPT ![c] = "sleeping"]
  /\ Leave("callbacks", c)
  /\ UNCHANGED <<lists, flags, main, conn, aborted, todo, waiting>>

\* All lists are through.
Called(c) ==
  /\ c \in holds["callbacks"] /\ todo[c] = <<>>
  /\ \/ /\ reader[c] \in {"frame", "bad"}
        /\ reader' = [reader EXCEPT ![c] = "handling"]
        /\ Leave("callbacks", c) /\ UNCHANGED waiting
     \/ /\ reader[c] = "failed"
        /\ reader' = [reader EXCEPT ![c] = "ended"]
        /\ Leave("callbacks", c) /\ UNCHANGED waiting
     \/ /\ reader[c] = "falling"
        /\ reader' = [reader EXCEPT ![c] = "deciding"]
        /\ Leave("callbacks", c) /\ Ask("options", c)
     \/ /\ reader[c] \in {"announcing", "exhausted"}
        /\ reader' = [reader EXCEPT ![c] =
             IF @ = "announcing" THEN "sleeping" ELSE "done"]
        /\ holds' = [l \in Locks |-> holds[l] \ {c}]
        /\ UNCHANGED waiting
  /\ UNCHANGED <<lists, flags, main, conn, aborted, todo>>

SleepEnds(c) ==
  /\ reader[c] = "sleeping"
  /\ reader' = [reader EXCEPT ![c] = "done"]
  /\ UNCHANGED <<lists, flags, main, conn, aborted, todo, locks>>

\* The task is gone, with its guards and its places in the queues.
Gone(c) ==
  /\ reader' = [reader EXCEPT ![c] = "done"]
  /\ todo' = [todo EXCEPT ![c] = <<>>]
  /\ holds' = [l \in Locks |-> holds[l] \ {c}]
  /\ waiting' = [l \in Locks |-> Without(waiting[l], c)]
  /\ UNCHANGED <<lists, flags, main, conn, aborted>>

\* An aborted task ends where it awaits: not while it calls, and one that runs
\* goes on until then.
Aborted(c) ==
  /\ c \in aborted
  /\ \/ reader[c] \in {"reading", "sleeping", "deciding"}
     \/ reader[c] \in Calling /\ c \notin holds["callbacks"]
  /\ Gone(c)

\* A callback panics: the task unwinds.
Panics(c) ==
  /\ c \in holds["callbacks"] /\ todo[c] # <<>>
  /\ lists[Head(todo[c])] > 0
  /\ Gone(c)

-----------------------------------------------------------------------------

Caller ==
  \/ Register \/ \E e \in Registrable : Registered(e)
  \/ Connect \/ Dial \/ DialFails \/ Established \/ Spawned \/ EmitConnect \/ Greet
  \/ Disconnect \/ Revoke \/ Cleanup \/ Drop

Reader(c) ==
  \/ Loop(c) \/ \E kind \in DOMAIN Owed : Frame(c, kind)
  \/ BadHeader(c) \/ ReadFails(c) \/ ReadEnds(c) \/ Swap(c) \/ Decide(c)
  \/ GetIn(c) \/ Call(c) \/ Called(c) \/ SleepEnds(c)
  \/ Aborted(c) \/ Panics(c)

Next == Caller \/ \E c \in Conns : Reader(c)

Spec == Init /\ [][Next]_vars

\* The runtime polls what can go on, attempts to connect are decided, and
\* callbacks return or panic.
Fairness ==
  /\ WF_vars(\E e \in Registrable : Registered(e))
  /\ WF_vars(Dial) /\ WF_vars(DialFails \/ Established)
  /\ WF_vars(Spawned) /\ WF_vars(EmitConnect) /\ WF_vars(Greet)
  /\ WF_vars(Revoke) /\ WF_vars(Cleanup)
  /\ \A c \in Conns :
       /\ WF_vars(Loop(c)) /\ WF_vars(Swap(c)) /\ WF_vars(SleepEnds(c))
       /\ WF_vars(Decide(c)) /\ WF_vars(GetIn(c))
       /\ WF_vars(Call(c) \/ Panics(c)) /\ WF_vars(Called(c))

FairSpec == Spec /\ Fairness

-----------------------------------------------------------------------------

TypeOK ==
  /\ lists \in [Events -> 0..MaxCallbacks]
  /\ connected \in BOOLEAN /\ running \in BOOLEAN /\ auto_reconnect \in BOOLEAN
  /\ attempts \in Nat
  /\ main \in {"idle", "registering", "addressing", "dialing", "spawning",
               "emitting", "naming", "revoking", "closing", "dropped"}
  /\ conn \in 0..MaxConns
  /\ reader \in [Conns -> Calling \cup {"none", "looping", "reading", "handling",
                                        "ended", "deciding", "sleeping", "done"}]
  /\ aborted \subseteq Conns
  /\ todo \in [Conns -> Seq(Events)]
  /\ holds \in [Locks -> SUBSET Actors]
  /\ waiting \in [Locks -> Seq(Actors)]

\* Some of the lists that a frame is owed are through.
WithinAFrame(c) ==
  reader[c] = "frame" /\ todo[c] \notin {Owed[kind] : kind \in DOMAIN Owed}

(***************************************************************************)
(* No registration takes effect between two lists of one frame: on_frame   *)
(* and what follows it, on_event and on_message, on_ack, on_pong or        *)
(* on_error, are called as they were registered together.                  *)
(***************************************************************************)
FrameSeesOneRegistration ==
  [][lists' # lists => \A c \in Conns : ~WithinAFrame(c)]_vars

(***************************************************************************)
(* Once disconnect() has revoked the option no read task, that of a        *)
(* connection that was replaced included, announces a reconnection or that *)
(* there will be none.                                                     *)
(***************************************************************************)
RevokedIsSilent ==
  ~auto_reconnect => \A c \in Conns : reader[c] \notin {"announcing", "exhausted"}

\* Who wants to get into a lock and is not in it.
Wanting(l) ==
  IF l = "callbacks"
    THEN {c \in Conns : reader[c] \in Calling /\ c \notin holds[l]}
           \cup {a \in {Program} : main \in {"registering", "emitting"}}
    ELSE {c \in Conns : reader[c] = "deciding"}
           \cup {a \in {Program} : main \in {"addressing", "spawning", "naming", "revoking"}}

Queued(l) == {waiting[l][i] : i \in DOMAIN waiting[l]}

(***************************************************************************)
(* A lock is kept by nobody who does not need it: not by a task that reads *)
(* or sleeps, and not after a call or a task has ended.  And nobody who    *)
(* wants one is passed over: who waits has one place in its queue, and a   *)
(* task that is gone has none.                                             *)
(***************************************************************************)
NoLockIsForgotten ==
  /\ Program \in holds["callbacks"] => main = "naming"
  /\ \A c \in holds["callbacks"] \ {Program} : reader[c] \in Calling
  /\ \A c \in holds["options"] : c # Program /\ reader[c] \in {"announcing", "exhausted"}
  /\ \A l \in Locks :
       /\ Queued(l) = Wanting(l)
       /\ \A i, j \in DOMAIN waiting[l] : waiting[l][i] = waiting[l][j] => i = j

Writes(l, a) ==
  a = Program /\ main = (IF l = "callbacks" THEN "registering" ELSE "revoking")

\* b is before a in a queue; or b is in the lock, and a is a writer or behind one.
WaitsFor(a, b) ==
  \E l \in Locks : \E i \in DOMAIN waiting[l] :
    /\ waiting[l][i] = a
    /\ \/ \E j \in 1..(i - 1) : waiting[l][j] = b
       \/ b \in holds[l] /\ \E j \in 1..i : Writes(l, waiting[l][j])

(***************************************************************************)
(* However the program and the read tasks meet at the locks, which they    *)
(* take in different orders, no set of them waits only for each other.     *)
(***************************************************************************)
NobodyWaitsInACircle ==
  \A S \in SUBSET Actors :
    S # {} => \E a \in S : \A b \in S : ~WaitsFor(a, b)

(***************************************************************************)
(* Whatever frames keep coming, every call of the program that waits for a *)
(* lock, or holds one, returns, and a read task that has callbacks to call *)
(* gets to call them, unless it is ended: neither the order of the locks,  *)
(* which differs, nor a task that is gone keeps anybody waiting.           *)
(***************************************************************************)
EverybodyMovesOn ==
  /\ []<>(main \in {"idle", "dropped"})
  /\ \A c \in Conns :
       reader[c] \in Calling \cup {"deciding"}
         ~> reader[c] \notin Calling \cup {"deciding"}

=============================================================================
