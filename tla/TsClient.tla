------------------------------ MODULE TsClient ------------------------------
(***************************************************************************)
(* The connection life cycle of the TypeScript client: connect(), the      *)
(* reconnection timer, the ping interval, disconnect(), and the events of  *)
(* the sockets.  There is one thread, so that a callback of the code is an *)
(* action here; what interleaves are the callbacks of Node's event loop    *)
(* and the calls of the program that uses the client.                      *)
(*                                                                         *)
(* A socket that was replaced or abandoned still delivers its events: each *)
(* one holds handlers bound to the client, and none of them says which     *)
(* socket it is called for.  So sockets are modelled one by one, in slots  *)
(* that are used again once a socket is closed.                            *)
(***************************************************************************)
EXTENDS Integers

CONSTANTS
  Sockets,               \* slots for the sockets that live at one time
  None,                  \* this.socket = null
  maxReconnectAttempts,  \* the option: 0 means no limit
  PingEnabled,           \* pingInterval > 0
  AttemptCap,            \* bound: the counters saturate here
  OverlapConnects,       \* TRUE if the program may call connect() whenever it likes,
                         \* FALSE if only when the client is at rest
  LateClose,             \* TRUE if an old connection may still be closing
                         \* when the reconnection timer fires
  ServerSendsClose,      \* TRUE if the server may send CLOSE frames
  QuitInReconnecting,    \* TRUE if a "reconnecting" listener may call disconnect()
  ListenerSubscribes     \* TRUE if the "connect" listener subscribes, as the README shows

ASSUME TsClientAssumption ==
  /\ None \notin Sockets
  /\ maxReconnectAttempts \in Nat
  /\ AttemptCap \in Nat /\ AttemptCap > maxReconnectAttempts
  /\ PingEnabled \in BOOLEAN /\ OverlapConnects \in BOOLEAN
  /\ LateClose \in BOOLEAN /\ ServerSendsClose \in BOOLEAN
  /\ QuitInReconnecting \in BOOLEAN /\ ListenerSubscribes \in BOOLEAN

VARIABLES
  socket,             \* this.socket
  connected,          \* this.connected
  autoReconnect,      \* this.options.autoReconnect
  reconnectAttempts,  \* this.reconnectAttempts
  reconnectTimer,     \* TRUE iff this.reconnectTimer holds an armed timer
  pingTimer,          \* TRUE iff this.pingTimer holds a live interval
  orphanPing,         \* TRUE iff an interval is live whose handle was overwritten
  clientId,           \* what this.clientId holds: the option or a message identifier
  sock,               \* the sockets, as Node and the network see them
  promise,            \* who waits for the promise of the connect() of a socket
  hello,              \* history: how what was written to a socket begins
  dials,              \* history: reconnections tried since the counter was reset
  gaveUp              \* history: the "Max reconnection attempts" error was emitted

timers == <<reconnectTimer, pingTimer, orphanPing>>
counters == <<reconnectAttempts, dials, gaveUp>>
session == <<socket, connected, autoReconnect, clientId>>
network == <<sock, promise, hello>>
vars == <<session, timers, counters, network>>

SockStates == {"free", "connecting", "open", "closing"}
Ids == {"configured", "msgId"}

TypeOK ==
  /\ socket \in Sockets \cup {None}
  /\ connected \in BOOLEAN /\ autoReconnect \in BOOLEAN /\ gaveUp \in BOOLEAN
  /\ reconnectTimer \in BOOLEAN /\ pingTimer \in BOOLEAN /\ orphanPing \in BOOLEAN
  /\ reconnectAttempts \in 0..AttemptCap
  /\ dials \in 0..AttemptCap
  /\ clientId \in Ids
  /\ sock \in [Sockets -> SockStates]
  /\ promise \in [Sockets -> {"settled", "program", "timer"}]
  /\ hello \in [Sockets -> Ids \cup {"nothing", "late", "other", "again"}]

\* new MIPClient(options), with autoReconnect left on
Init ==
  /\ socket = None
  /\ connected = FALSE
  /\ autoReconnect = TRUE
  /\ reconnectAttempts = 0 /\ dials = 0 /\ gaveUp = FALSE
  /\ reconnectTimer = FALSE
  /\ pingTimer = FALSE /\ orphanPing = FALSE
  /\ clientId = "configured"
  /\ sock = [s \in Sockets |-> "free"]
  /\ promise = [s \in Sockets |-> "settled"]
  /\ hello = [s \in Sockets |-> "nothing"]

Idle == \A s \in Sockets : sock[s] = "free"

Saturated(n) == IF n < AttemptCap THEN n + 1 ELSE n

\* The sockets after this.socket.destroy(): no further event but "close".
Destroyed(socks) ==
  [s \in Sockets |-> IF s = socket /\ socks[s] \in {"connecting", "open"}
                       THEN "closing" ELSE socks[s]]

\* What was written to this.socket after HELLO is; "late" is HELLO behind the
\* frame of a "connect" listener.
AfterHello ==
  [s \in Sockets |-> IF s # socket THEN hello[s]
                     ELSE IF hello[s] = "nothing"
                       THEN IF ListenerSubscribes THEN "late" ELSE clientId
                       ELSE "again"]

-----------------------------------------------------------------------------

\* The part of connect() behind its test of this.connected.
Dial(s, caller) ==
  /\ sock[s] = "free"
  /\ socket' = s
  /\ sock' = [sock EXCEPT ![s] = "connecting"]
  /\ promise' = [promise EXCEPT ![s] = caller]
  /\ hello' = [hello EXCEPT ![s] = "nothing"]

\* The program calls connect(); it returns at once when connected.
UserConnect(s) ==
  /\ ~connected
  /\ OverlapConnects \/ (Idle /\ ~reconnectTimer)
  /\ Dial(s, "program")
  /\ UNCHANGED <<connected, autoReconnect, clientId, timers, counters>>

\* A plausible bug: one attempt too many.
BugExhausted ==
  maxReconnectAttempts > 0 /\ reconnectAttempts > maxReconnectAttempts

Exhausted ==
  maxReconnectAttempts > 0 /\ reconnectAttempts >= maxReconnectAttempts

\* scheduleReconnect(), called with the sockets in the states socks.
\* "reconnecting" is emitted before the timer is armed: a listener that calls
\* disconnect() does so in between.
ScheduleReconnect(armed, socks) ==
  \/ /\ armed
     /\ reconnectTimer' = TRUE
     /\ sock' = socks
     /\ UNCHANGED <<socket, autoReconnect, reconnectAttempts, gaveUp>>
  \/ /\ ~armed /\ Exhausted
     /\ gaveUp' = TRUE
     /\ reconnectTimer' = FALSE
     /\ sock' = socks
     /\ UNCHANGED <<socket, autoReconnect, reconnectAttempts>>
  \/ /\ ~armed /\ ~Exhausted
     /\ reconnectAttempts' = Saturated(reconnectAttempts)
     /\ reconnectTimer' = TRUE
     /\ \/ sock' = socks /\ UNCHANGED <<socket, autoReconnect>>
        \/ /\ QuitInReconnecting
           /\ autoReconnect' = FALSE
           /\ socket' = None
           /\ sock' = Destroyed(socks)
     /\ UNCHANGED gaveUp

\* Plausible bugs of handleClose(): autoReconnect is not looked at; connected
\* is not reset; cleanup() comes last; the ping interval is not cleared.
BugCloseAlwaysReconnects(socks) ==
  /\ connected' = FALSE /\ pingTimer' = FALSE
  /\ ScheduleReconnect(FALSE, socks)
  /\ UNCHANGED <<orphanPing, clientId, promise, hello, dials>>

BugCloseStaysConnected(socks) ==
  /\ connected' = connected /\ pingTimer' = FALSE
  /\ \/ ~autoReconnect /\ reconnectTimer' = FALSE /\ sock' = socks
        /\ UNCHANGED <<socket, autoReconnect, reconnectAttempts, gaveUp>>
     \/ autoReconnect /\ ScheduleReconnect(FALSE, socks)
  /\ UNCHANGED <<orphanPing, clientId, promise, hello, dials>>

BugCloseCleansUpLast(socks) ==
  /\ connected' = FALSE /\ pingTimer' = FALSE /\ reconnectTimer' = FALSE
  /\ sock' = socks
  /\ gaveUp' = (gaveUp \/ (autoReconnect /\ Exhausted))
  /\ reconnectAttempts' = IF autoReconnect /\ ~Exhausted
                            THEN Saturated(reconnectAttempts) ELSE reconnectAttempts
  /\ UNCHANGED <<socket, autoReconnect, orphanPing, clientId, promise, hello, dials>>

BugCloseKeepsPing(socks) ==
  /\ connected' = FALSE /\ pingTimer' = pingTimer
  /\ \/ ~autoReconnect /\ reconnectTimer' = FALSE /\ sock' = socks
        /\ UNCHANGED <<socket, autoReconnect, reconnectAttempts, gaveUp>>
     \/ autoReconnect /\ ScheduleReconnect(FALSE, socks)
  /\ UNCHANGED <<orphanPing, clientId, promise, hello, dials>>

\* handleClose(), called with the sockets in the states socks.  A listener of
\* "disconnect" may call disconnect(), behind cleanup().
HandleClose(socks) ==
  /\ connected' = FALSE
  /\ pingTimer' = FALSE
  /\ \/ /\ ~autoReconnect
        /\ reconnectTimer' = FALSE
        /\ sock' = socks
        /\ UNCHANGED <<socket, autoReconnect, reconnectAttempts, gaveUp>>
     \/ /\ connected
        /\ autoReconnect' = FALSE
        /\ reconnectTimer' = FALSE
        /\ sock' = Destroyed(socks)
        /\ socket' = None
        /\ UNCHANGED <<reconnectAttempts, gaveUp>>
     \/ /\ autoReconnect
        /\ ScheduleReconnect(FALSE, socks)
  /\ UNCHANGED <<orphanPing, clientId, promise, hello, dials>>

\* A plausible bug: a connection is not greeted.
BugConnectedWithoutHello(s) ==
  /\ sock[s] = "connecting"
  /\ sock' = [sock EXCEPT ![s] = "open"]
  /\ promise' = [promise EXCEPT ![s] = "settled"]
  /\ connected' = TRUE
  /\ reconnectAttempts' = 0 /\ dials' = 0 /\ gaveUp' = FALSE
  /\ pingTimer' = PingEnabled
  /\ orphanPing' = (orphanPing \/ (PingEnabled /\ pingTimer))
  /\ UNCHANGED <<socket, autoReconnect, reconnectTimer, hello, clientId>>

\* "connect": onConnect.  HELLO goes to this.socket, with this.clientId, which
\* then becomes the identifier of that frame; without a socket the attempt
\* to send it throws, which is caught.
SocketConnected(s) ==
  /\ sock[s] = "connecting"
  /\ sock' = [sock EXCEPT ![s] = "open"]
  /\ promise' = [promise EXCEPT ![s] = "settled"]
  /\ connected' = TRUE
  /\ reconnectAttempts' = 0 /\ dials' = 0 /\ gaveUp' = FALSE
  /\ pingTimer' = PingEnabled
  /\ orphanPing' = (orphanPing \/ (PingEnabled /\ pingTimer))
  /\ hello' = AfterHello
  /\ clientId' = IF socket = None THEN clientId ELSE "msgId"
  /\ UNCHANGED <<socket, autoReconnect, reconnectTimer>>

\* A plausible bug: the promise is not rejected.
BugFailedWithoutReject(s) ==
  /\ sock[s] = "connecting"
  /\ sock' = [sock EXCEPT ![s] = "closing"]
  /\ UNCHANGED <<session, timers, counters, promise, hello>>

\* onConnect when a listener of "connect" calls disconnect(): HELLO is not sent,
\* for want of a connection, and the promise is resolved all the same.
SocketRefused(s) ==
  /\ sock[s] = "connecting"
  /\ sock' = Destroyed([sock EXCEPT ![s] = "open"])
  /\ promise' = [promise EXCEPT ![s] = "settled"]
  /\ reconnectAttempts' = 0 /\ dials' = 0 /\ gaveUp' = FALSE
  /\ orphanPing' = (orphanPing \/ (PingEnabled /\ pingTimer))
  /\ autoReconnect' = FALSE
  /\ pingTimer' = FALSE /\ reconnectTimer' = FALSE
  /\ socket' = None
  /\ connected' = FALSE
  /\ UNCHANGED <<clientId, hello>>

\* "error" of an attempt: onError, and the catch() of an attempt that the
\* timer made, which runs before the "close" of the same socket.  The promise
\* is left alone when another socket has connected meanwhile.
SocketFailed(s) ==
  /\ sock[s] = "connecting"
  /\ LET socks == [sock EXCEPT ![s] = "closing"]
     IN \/ /\ ~connected /\ promise[s] = "timer" /\ autoReconnect
           /\ ScheduleReconnect(reconnectTimer, socks)
        \/ /\ connected \/ promise[s] # "timer" \/ ~autoReconnect
           /\ sock' = socks
           /\ UNCHANGED <<socket, autoReconnect, reconnectTimer,
                          reconnectAttempts, gaveUp>>
  /\ promise' = IF connected THEN promise
                ELSE [promise EXCEPT ![s] = "settled"]
  /\ UNCHANGED <<connected, clientId, pingTimer, orphanPing, hello, dials>>

\* The peer ends or resets the connection: "close" will follow.
SocketEnds(s) ==
  /\ sock[s] = "open"
  /\ sock' = [sock EXCEPT ![s] = "closing"]
  /\ UNCHANGED <<session, timers, counters, promise, hello>>

\* A plausible bug: nothing listens to "close".
BugCloseIgnored(s) ==
  /\ sock[s] = "closing"
  /\ sock' = [sock EXCEPT ![s] = "free"]
  /\ UNCHANGED <<session, timers, counters, promise, hello>>

\* "close"
SocketClose(s) ==
  /\ sock[s] = "closing"
  /\ HandleClose([sock EXCEPT ![s] = "free"])

\* "data" with a CLOSE frame: handleClose() runs, the socket stays as it is.
ReceiveClose(s) ==
  /\ ServerSendsClose
  /\ sock[s] = "open"
  /\ HandleClose(sock)

\* "data" with a wrong magic number: this.socket is destroyed, not s.
ReceiveBadMagic(s) ==
  /\ sock[s] = "open"
  /\ sock' = Destroyed(sock)
  /\ UNCHANGED <<session, timers, counters, promise, hello>>

\* The reconnection timer: connect(), with a catch().
TimerFires ==
  /\ reconnectTimer
  /\ LateClose \/ Idle
  /\ reconnectTimer' = FALSE
  /\ \/ connected /\ UNCHANGED <<socket, dials, network>>
     \/ /\ ~connected
        /\ \E s \in Sockets : Dial(s, "timer")
        /\ dials' = Saturated(dials)
  /\ UNCHANGED <<connected, autoReconnect, clientId, pingTimer, orphanPing,
                 reconnectAttempts, gaveUp>>

\* sendFrame(), called by the program, outside a "connect" listener, or by the
\* ping interval.
Send ==
  /\ connected /\ socket # None
  /\ hello' = [hello EXCEPT ![socket] = IF @ = "nothing" THEN "other" ELSE @]
  /\ UNCHANGED <<session, timers, counters, sock, promise>>

\* A plausible bug: the socket is not destroyed.
BugDisconnectKeepsSocket ==
  /\ autoReconnect' = FALSE /\ pingTimer' = FALSE /\ reconnectTimer' = FALSE
  /\ socket' = None /\ connected' = FALSE
  /\ UNCHANGED <<clientId, orphanPing, network, counters>>

\* The program calls disconnect(), whenever it likes.
Disconnect ==
  /\ autoReconnect' = FALSE
  /\ pingTimer' = FALSE
  /\ reconnectTimer' = FALSE
  /\ sock' = Destroyed(sock)
  /\ socket' = None
  /\ connected' = FALSE
  /\ UNCHANGED <<clientId, orphanPing, promise, hello, counters>>

SocketEvent(s) ==
  \/ SocketConnected(s) \/ SocketRefused(s) \/ SocketFailed(s) \/ SocketEnds(s)
  \/ SocketClose(s) \/ ReceiveClose(s) \/ ReceiveBadMagic(s)

Next ==
  \/ \E s \in Sockets : UserConnect(s) \/ SocketEvent(s)
  \/ TimerFires
  \/ Send
  \/ Disconnect

Spec == Init /\ [][Next]_vars

\* What the operating system owes: an attempt is decided, a closed socket says
\* so, a timer fires, and a connection that was closed at the level of the
\* protocol is ended by the peer.  Nothing is owed by the program.
Fairness ==
  /\ WF_vars(TimerFires)
  /\ \A s \in Sockets :
       /\ WF_vars(SocketConnected(s) \/ SocketRefused(s) \/ SocketFailed(s))
       /\ WF_vars(SocketClose(s))
       /\ WF_vars(~connected /\ SocketEnds(s))

FairSpec == Spec /\ Fairness

-----------------------------------------------------------------------------
(* Whatever the program and the network do. *)

(***************************************************************************)
(* Once disconnect() has been called the reconnection timer is never armed *)
(* again: not by the "close" of the socket that disconnect() destroyed,    *)
(* not by an attempt that was in progress.                                 *)
(***************************************************************************)
NoReconnectAfterDisconnect == ~autoReconnect => ~reconnectTimer

(***************************************************************************)
(* With a limit, no more reconnections are tried than were counted, and no *)
(* more are counted than the limit allows, however "error" and "close" of  *)
(* an attempt interleave with the timer.                                   *)
(***************************************************************************)
AttemptsBounded ==
  maxReconnectAttempts > 0 =>
    dials <= reconnectAttempts /\ reconnectAttempts <= maxReconnectAttempts

(***************************************************************************)
(* isConnected is never true without a TCP connection: one of the sockets  *)
(* is open, or has yet to say that it was closed.                          *)
(***************************************************************************)
ConnectedHasSocket ==
  connected => \E s \in Sockets : sock[s] \in {"open", "closing"}

(***************************************************************************)
(* A client that was told to connect, and not to disconnect, is never left *)
(* without anything that could bring it back: it is connected, has a timer *)
(* armed or a socket with an event to come, or has said that it gave up.   *)
(***************************************************************************)
NeverStranded ==
  (autoReconnect /\ socket # None /\ ~connected /\ ~gaveUp) =>
    \/ reconnectTimer
    \/ \E s \in Sockets : sock[s] \in {"connecting", "closing"}

(***************************************************************************)
(* HELLO is written to a socket before any frame that the program sends,   *)
(* or the ping interval: the moment in which the client says that it is    *)
(* connected is the one that greets, even where calls of connect() overlap *)
(* and the socket that connected is not the one that is written to.  Only  *)
(* a "connect" listener comes first, which runs before HELLO.              *)
(***************************************************************************)
GreetedFirst == \A s \in Sockets : hello[s] # "other"

-----------------------------------------------------------------------------
(* When connect() is not called on a client that is busy connecting. *)

(***************************************************************************)
(* A connected client writes to a socket that has connected: subscribe()   *)
(* does not throw, and the ping interval, whose callback nothing catches,  *)
(* does not either.                                                        *)
(***************************************************************************)
ConnectedOnCurrent ==
  connected => socket # None /\ sock[socket] \in {"open", "closing"}

(***************************************************************************)
(* No ping interval outlives its connection: there is one when connected,  *)
(* if the option asks for it, and none otherwise.                          *)
(***************************************************************************)
OnePingInterval == ~orphanPing /\ (pingTimer <=> (connected /\ PingEnabled))

(***************************************************************************)
(* The promise of connect() is settled by the outcome of its socket; only  *)
(* disconnect() leaves one pending for ever.                               *)
(***************************************************************************)
AbandonedOnlyByDisconnect ==
  (\E s \in Sockets : promise[s] # "settled" /\ sock[s] # "connecting") =>
    ~autoReconnect

(***************************************************************************)
(* disconnect() leaves nothing behind, also when a listener of "connect"   *)
(* or "disconnect" calls it, in the middle of the handler of the event: no *)
(* timer that would reconnect then or later, no ping interval, and, until  *)
(* the program connects again, no socket that could connect or be used.    *)
(***************************************************************************)
DisconnectStops ==
  /\ NoReconnectAfterDisconnect
  /\ (~autoReconnect /\ socket = None) =>
       /\ ~connected /\ ~pingTimer /\ ~orphanPing
       /\ \A s \in Sockets : sock[s] \in {"free", "closing"}

(***************************************************************************)
(* The client gives up after maxReconnectAttempts attempts to reconnect.   *)
(***************************************************************************)
GivesUpAfterMax == gaveUp => dials >= maxReconnectAttempts

(***************************************************************************)
(* A lost connection comes back, unless the attempts are used up or the    *)
(* program calls disconnect().                                             *)
(***************************************************************************)
ReconnectsOrGivesUp ==
  (autoReconnect /\ socket # None /\ ~connected)
    ~> (connected \/ gaveUp \/ ~autoReconnect)

(***************************************************************************)
(* Every connect() gets an answer, unless the program disconnects.         *)
(***************************************************************************)
ConnectSettles ==
  \A s \in Sockets :
    sock[s] = "connecting" ~> (promise[s] = "settled" \/ socket = None)

-----------------------------------------------------------------------------

Life ==
  INSTANCE Session WITH Limit <- maxReconnectAttempts,
                        Overlaps <- OverlapConnects \/ LateClose,
                        up <- connected, line <- socket,
                        wanted <- autoReconnect, tries <- reconnectAttempts

(***************************************************************************)
(* The client implements Session: it connects only when it has no          *)
(* connection, counts reconnections only while it wants one, up to the     *)
(* limit, and never takes disconnect() back.                               *)
(***************************************************************************)
LifeSpec == Life!Spec

=============================================================================
