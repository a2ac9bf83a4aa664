--------------------------- MODULE TsClientProofs ---------------------------
(***************************************************************************)
(* Proofs about the TypeScript client, for any number of sockets that live *)
(* at one time and any limit on the attempts.                              *)
(***************************************************************************)
EXTENDS TsClient, TLAPS

Closing(s) == [sock EXCEPT ![s] = "closing"]
Freed(s) == [sock EXCEPT ![s] = "free"]

\* The variables and the actions of a module are opened where a step needs them.
LEMMA DestroyedType ==
  ASSUME NEW socks \in [Sockets -> SockStates]
  PROVE  Destroyed(socks) \in [Sockets -> SockStates]
BY DEF Destroyed, SockStates

\* The counters stay in their range.
LEMMA SaturatedType ==
  ASSUME NEW n \in 0..AttemptCap
  PROVE  Saturated(n) \in 0..AttemptCap
BY TsClientAssumption DEF Saturated

\* What scheduleReconnect() leaves of the variables it may touch.
LEMMA ScheduleType ==
  ASSUME TypeOK, NEW armed \in BOOLEAN, NEW socks \in [Sockets -> SockStates],
         ScheduleReconnect(armed, socks)
  PROVE  /\ sock' \in [Sockets -> SockStates]
         /\ socket' \in Sockets \cup {None}
         /\ autoReconnect' \in BOOLEAN /\ gaveUp' \in BOOLEAN
         /\ reconnectTimer' \in BOOLEAN
         /\ reconnectAttempts' \in 0..AttemptCap
BY DestroyedType, SaturatedType DEF ScheduleReconnect, TypeOK

LEMMA CloseType ==
  ASSUME TypeOK, NEW socks \in [Sockets -> SockStates], HandleClose(socks)
  PROVE  TypeOK'
<1>1. CASE autoReconnect /\ ScheduleReconnect(FALSE, socks)
  BY <1>1, ScheduleType DEF HandleClose, TypeOK
<1>2. CASE /\ sock' = socks /\ reconnectTimer' = FALSE
           /\ UNCHANGED <<socket, autoReconnect, reconnectAttempts, gaveUp>>
  BY <1>2 DEF HandleClose, TypeOK
<1>3. CASE /\ sock' = Destroyed(socks) /\ socket' = None
           /\ autoReconnect' = FALSE /\ reconnectTimer' = FALSE
           /\ UNCHANGED <<reconnectAttempts, gaveUp>>
  BY <1>3, DestroyedType DEF HandleClose, TypeOK
<1> QED
  BY <1>1, <1>2, <1>3 DEF HandleClose

LEMMA TypeStep == TypeOK /\ [Next]_vars => TypeOK'
<1> SUFFICES ASSUME TypeOK, [Next]_vars PROVE TypeOK'
  OBVIOUS
<1> USE TsClientAssumption
<1>0. sock \in [Sockets -> SockStates]
  BY DEF TypeOK
<1>1. ASSUME NEW s \in Sockets, UserConnect(s) PROVE TypeOK'
  BY <1>1 DEF UserConnect, Dial, TypeOK, SockStates, timers, counters
<1>2. ASSUME NEW s \in Sockets, SocketConnected(s) PROVE TypeOK'
  <2>1. AfterHello \in [Sockets -> Ids \cup {"nothing", "late", "other", "again"}]
    BY DEF AfterHello, TypeOK
  <2>2. clientId' \in Ids /\ hello' \in [Sockets -> Ids \cup {"nothing", "late", "other", "again"}]
    BY <1>2, <2>1 DEF SocketConnected, TypeOK, Ids
  <2>3. orphanPing' \in BOOLEAN
    BY <1>2, Zenon DEF SocketConnected
  <2>4. /\ reconnectAttempts' \in 0..AttemptCap /\ dials' \in 0..AttemptCap
        /\ sock' \in [Sockets -> SockStates]
        /\ promise' \in [Sockets -> {"settled", "program", "timer"}]
    BY <1>2 DEF SocketConnected, TypeOK, SockStates
  <2>5. /\ socket' = socket /\ autoReconnect' = autoReconnect
        /\ reconnectTimer' = reconnectTimer
        /\ connected' \in BOOLEAN /\ gaveUp' \in BOOLEAN /\ pingTimer' \in BOOLEAN
    BY <1>2 DEF SocketConnected
  <2> QED
    BY <2>2, <2>3, <2>4, <2>5 DEF TypeOK
<1>12. ASSUME NEW s \in Sockets, SocketRefused(s) PROVE TypeOK'
  <2>1. [sock EXCEPT ![s] = "open"] \in [Sockets -> SockStates]
    BY <1>0 DEF SockStates
  <2>2. sock' \in [Sockets -> SockStates]
    BY <1>12, <2>1, DestroyedType DEF SocketRefused
  <2>3. orphanPing' \in BOOLEAN
    BY <1>12, Zenon DEF SocketRefused
  <2>4. /\ reconnectAttempts' \in 0..AttemptCap /\ dials' \in 0..AttemptCap
        /\ promise' \in [Sockets -> {"settled", "program", "timer"}]
    BY <1>12 DEF SocketRefused, TypeOK
  <2>5. /\ socket' = None /\ clientId' = clientId /\ hello' = hello
        /\ autoReconnect' \in BOOLEAN /\ reconnectTimer' \in BOOLEAN
        /\ connected' \in BOOLEAN /\ gaveUp' \in BOOLEAN /\ pingTimer' \in BOOLEAN
    BY <1>12 DEF SocketRefused
  <2> QED
    BY <2>2, <2>3, <2>4, <2>5 DEF TypeOK
<1>3. ASSUME NEW s \in Sockets, SocketFailed(s) PROVE TypeOK'
  <2>1. Closing(s) \in [Sockets -> SockStates]
    BY <1>0 DEF Closing, SockStates
  <2>2. CASE ScheduleReconnect(reconnectTimer, Closing(s))
    BY <1>3, <2>1, <2>2, ScheduleType DEF SocketFailed, TypeOK
  <2>3. CASE UNCHANGED <<socket, autoReconnect, reconnectTimer,
                         reconnectAttempts, gaveUp>> /\ sock' = Closing(s)
    BY <1>3, <2>1, <2>3 DEF SocketFailed, TypeOK
  <2> QED
    BY <1>3, <2>2, <2>3 DEF SocketFailed, Closing
<1>4. ASSUME NEW s \in Sockets, SocketEnds(s) PROVE TypeOK'
  BY <1>4 DEF SocketEnds, TypeOK, SockStates, session, timers, counters
<1>5. ASSUME NEW s \in Sockets, SocketClose(s) PROVE TypeOK'
  <2>1. Freed(s) \in [Sockets -> SockStates]
    BY <1>0 DEF Freed, SockStates
  <2> QED
    BY <1>5, <2>1, CloseType DEF SocketClose, Freed
<1>6. ASSUME NEW s \in Sockets, ReceiveClose(s) PROVE TypeOK'
  BY <1>0, <1>6, CloseType DEF ReceiveClose
<1>7. ASSUME NEW s \in Sockets, ReceiveBadMagic(s) PROVE TypeOK'
  BY <1>0, <1>7, DestroyedType
     DEF ReceiveBadMagic, TypeOK, session, timers, counters
<1>8. CASE TimerFires
  <2>1. CASE connected
    BY <1>8, <2>1 DEF TimerFires, TypeOK, network
  <2>2. CASE ~connected
    <3>1. PICK s \in Sockets : Dial(s, "timer")
      BY <1>8, <2>2 DEF TimerFires
    <3> QED
      BY <1>8, <2>2, <3>1, SaturatedType DEF TimerFires, Dial, TypeOK, SockStates
  <2> QED
    BY <2>1, <2>2
<1>9. CASE Send
  BY <1>9 DEF Send, TypeOK, session, timers, counters
<1>10. CASE Disconnect
  BY <1>0, <1>10, DestroyedType DEF Disconnect, TypeOK, counters
<1>11. CASE UNCHANGED vars
  BY <1>11 DEF vars, session, timers, counters, network, TypeOK
<1> QED
  BY <1>1, <1>2, <1>3, <1>4, <1>5, <1>6, <1>7, <1>8, <1>9, <1>10, <1>11, <1>12
     DEF Next, SocketEvent

LEMMA TypeInit == Init => TypeOK
<1> SUFFICES ASSUME Init PROVE TypeOK
  OBVIOUS
<1>1. clientId \in Ids
  BY DEF Init, Ids
<1>2. reconnectAttempts \in 0..AttemptCap /\ dials \in 0..AttemptCap
  BY TsClientAssumption DEF Init
<1>3. hello \in [Sockets -> Ids \cup {"nothing", "late", "other", "again"}]
  BY DEF Init
<1> QED
  BY <1>1, <1>2, <1>3 DEF Init, TypeOK, SockStates

\* Every variable has its type in every reachable state of every client.
THEOREM Typed == Spec => []TypeOK
BY TypeInit, TypeStep, PTL DEF Spec

-----------------------------------------------------------------------------
(* Whatever the program and the network do. *)

LEMMA StopStep ==
  ASSUME ~QuitInReconnecting, NoReconnectAfterDisconnect, [Next]_vars
  PROVE  NoReconnectAfterDisconnect'
<1> USE DEF NoReconnectAfterDisconnect
<1>1. ASSUME NEW socks, HandleClose(socks) PROVE NoReconnectAfterDisconnect'
  BY <1>1 DEF HandleClose, ScheduleReconnect
<1>2. ASSUME NEW s \in Sockets, SocketFailed(s) PROVE NoReconnectAfterDisconnect'
  BY <1>2 DEF SocketFailed, ScheduleReconnect
<1>3. ASSUME NEW s \in Sockets, UserConnect(s) \/ SocketConnected(s)
                \/ SocketRefused(s) \/ SocketEnds(s) \/ ReceiveBadMagic(s)
      PROVE  NoReconnectAfterDisconnect'
  BY <1>3 DEF UserConnect, SocketConnected, SocketRefused, SocketEnds, ReceiveBadMagic,
              session, timers
<1>4. CASE TimerFires \/ Send \/ Disconnect \/ UNCHANGED vars
  BY <1>4 DEF TimerFires, Send, Disconnect, vars, session, timers
<1> QED
  BY <1>1, <1>2, <1>3, <1>4 DEF Next, SocketEvent, SocketClose, ReceiveClose

(***************************************************************************)
(* Unless a "reconnecting" listener calls it, disconnect() is final: the   *)
(* reconnection timer is never armed after it.                             *)
(***************************************************************************)
THEOREM DisconnectIsFinal ==
  ~QuitInReconnecting => (Spec => []NoReconnectAfterDisconnect)
<1> SUFFICES ASSUME ~QuitInReconnecting
             PROVE  Spec => []NoReconnectAfterDisconnect
  OBVIOUS
<1>1. Init => NoReconnectAfterDisconnect
  BY DEF Init, NoReconnectAfterDisconnect
<1> QED
  BY <1>1, StopStep, PTL DEF Spec

\* While the timer is armed on a client that is not connected, one attempt has
\* been counted that is still to be made.
AttemptInv ==
  maxReconnectAttempts > 0 =>
    /\ dials <= reconnectAttempts /\ reconnectAttempts <= maxReconnectAttempts
    /\ (reconnectTimer /\ ~connected) => dials < reconnectAttempts

LEMMA AttemptStep ==
  ASSUME TypeOK, AttemptInv, [Next]_vars
  PROVE  AttemptInv'
<1> SUFFICES ASSUME maxReconnectAttempts > 0 PROVE AttemptInv'
  BY DEF AttemptInv
<1> DEFINE n == reconnectAttempts
<1>0. /\ dials \in Nat /\ n \in Nat /\ dials <= n /\ n <= maxReconnectAttempts
      /\ (reconnectTimer /\ ~connected) => dials < n
      /\ maxReconnectAttempts \in Nat /\ AttemptCap \in Nat
      /\ maxReconnectAttempts < AttemptCap
  BY TsClientAssumption DEF TypeOK, AttemptInv
<1>1. ASSUME NEW armed \in BOOLEAN, NEW socks,
             armed => (reconnectTimer /\ ~connected),
             ScheduleReconnect(armed, socks), dials' = dials
      PROVE  AttemptInv'
  BY <1>0, <1>1 DEF AttemptInv, ScheduleReconnect, Exhausted, Saturated
<1>2. ASSUME NEW socks, HandleClose(socks) PROVE AttemptInv'
  <2>1. dials' = dials
    BY <1>2 DEF HandleClose
  <2>2. CASE ScheduleReconnect(FALSE, socks)
    BY <1>1, <2>1, <2>2
  <2>3. CASE ~reconnectTimer' /\ reconnectAttempts' = reconnectAttempts
    BY <1>0, <2>1, <2>3 DEF AttemptInv
  <2> QED
    BY <1>2, <2>2, <2>3 DEF HandleClose
<1>3. ASSUME NEW s \in Sockets, SocketFailed(s) PROVE AttemptInv'
  <2>1. CASE ~connected /\ ScheduleReconnect(reconnectTimer, Closing(s))
    BY <1>1, <1>3, <2>1 DEF SocketFailed, TypeOK
  <2>2. CASE UNCHANGED <<reconnectTimer, reconnectAttempts>>
    BY <1>0, <1>3, <2>2 DEF SocketFailed, AttemptInv
  <2> QED
    BY <1>3, <2>1, <2>2 DEF SocketFailed, Closing
<1>4. ASSUME NEW s \in Sockets, UserConnect(s) \/ SocketEnds(s)
                                  \/ ReceiveBadMagic(s)
      PROVE  AttemptInv'
  BY <1>0, <1>4 DEF UserConnect, SocketEnds, ReceiveBadMagic,
                    session, timers, counters, AttemptInv
<1>5. ASSUME NEW s \in Sockets, SocketConnected(s) \/ SocketRefused(s) PROVE AttemptInv'
  BY <1>0, <1>5 DEF SocketConnected, SocketRefused, AttemptInv
<1>6. CASE TimerFires
  BY <1>0, <1>6 DEF TimerFires, Saturated, AttemptInv
<1>7. CASE Send \/ Disconnect \/ UNCHANGED vars
  BY <1>0, <1>7 DEF Send, Disconnect, vars, session, timers, counters, AttemptInv
<1> QED
  BY <1>2, <1>3, <1>4, <1>5, <1>6, <1>7
     DEF Next, SocketEvent, SocketClose, ReceiveClose

(***************************************************************************)
(* The limit is kept for every limit and every interleaving of "error",    *)
(* "close", the timer and the calls of the program.                        *)
(***************************************************************************)
THEOREM Bounded == Spec => []AttemptsBounded
<1>1. Init => AttemptInv
  BY TsClientAssumption DEF Init, AttemptInv
<1>2. AttemptInv => AttemptsBounded
  BY DEF AttemptInv, AttemptsBounded
<1> QED
  BY <1>1, <1>2, AttemptStep, Typed, PTL DEF Spec

LEMMA HasSocketStep ==
  ASSUME TypeOK, ConnectedHasSocket, [Next]_vars
  PROVE  ConnectedHasSocket'
<1> USE DEF ConnectedHasSocket
<1>1. ASSUME NEW socks, HandleClose(socks) PROVE ConnectedHasSocket'
  BY <1>1 DEF HandleClose
<1>2. ASSUME NEW s \in Sockets, SocketConnected(s) PROVE ConnectedHasSocket'
  BY <1>2 DEF SocketConnected, TypeOK
<1>3. CASE Disconnect \/ \E s \in Sockets : SocketRefused(s)
  BY <1>3 DEF Disconnect, SocketRefused
<1>4. ASSUME connected' = connected,
             \A s \in Sockets : sock[s] \in {"open", "closing"} =>
                                  sock'[s] \in {"open", "closing"}
      PROVE  ConnectedHasSocket'
  BY <1>4
<1>5. ASSUME NEW s \in Sockets, SocketFailed(s) PROVE ConnectedHasSocket'
  <2>1. CASE connected
    BY <1>4, <1>5, <2>1 DEF SocketFailed, TypeOK
  <2>2. CASE ~connected
    BY <1>5, <2>2 DEF SocketFailed
  <2> QED
    BY <2>1, <2>2
<1>6. ASSUME NEW s \in Sockets, UserConnect(s) \/ SocketEnds(s)
      PROVE  ConnectedHasSocket'
  BY <1>4, <1>6 DEF UserConnect, Dial, SocketEnds, session, TypeOK
<1>7. ASSUME NEW s \in Sockets, ReceiveBadMagic(s) PROVE ConnectedHasSocket'
  BY <1>4, <1>7 DEF ReceiveBadMagic, Destroyed, session, TypeOK
<1>8. CASE TimerFires
  <2>1. CASE connected
    BY <1>4, <1>8, <2>1 DEF TimerFires, network
  <2>2. CASE ~connected
    BY <1>8, <2>2 DEF TimerFires
  <2> QED
    BY <2>1, <2>2
<1>9. CASE Send \/ UNCHANGED vars
  BY <1>4, <1>9 DEF Send, vars, session, network
<1> QED
  BY <1>1, <1>2, <1>3, <1>5, <1>6, <1>7, <1>8, <1>9
     DEF Next, SocketEvent, SocketClose, ReceiveClose

\* isConnected is true only while there is a TCP connection, whoever calls what.
THEOREM ConnectedIsReal == Spec => []ConnectedHasSocket
<1>1. Init => ConnectedHasSocket
  BY DEF Init, ConnectedHasSocket
<1> QED
  BY <1>1, HasSocketStep, Typed, PTL DEF Spec

LEMMA StrandedStep ==
  ASSUME TypeOK, NeverStranded, [Next]_vars
  PROVE  NeverStranded'
<1> USE DEF NeverStranded
<1> DEFINE Pending == \E s \in Sockets : sock[s] \in {"connecting", "closing"}
<1>1. ASSUME NEW armed \in BOOLEAN, NEW socks, ScheduleReconnect(armed, socks)
      PROVE  NeverStranded'
  BY <1>1 DEF ScheduleReconnect
<1>2. ASSUME NEW socks, HandleClose(socks) PROVE NeverStranded'
  <2>1. CASE ScheduleReconnect(FALSE, socks)
    BY <1>1, <2>1
  <2>2. CASE ~autoReconnect'
    BY <2>2
  <2> QED
    BY <1>2, <2>1, <2>2 DEF HandleClose
<1>3. ASSUME Pending' PROVE NeverStranded'
  BY <1>3
<1>4. ASSUME NEW s \in Sockets, UserConnect(s) \/ SocketFailed(s) \/ SocketEnds(s)
      PROVE  NeverStranded'
  <2>1. CASE UserConnect(s)
    BY <1>3, <2>1 DEF UserConnect, Dial, TypeOK
  <2>2. CASE SocketFailed(s)
    <3>1. CASE ScheduleReconnect(reconnectTimer, Closing(s))
      BY <1>1, <3>1 DEF TypeOK
    <3>2. CASE sock' = Closing(s)
      BY <1>3, <2>2, <3>2 DEF Closing, TypeOK
    <3> QED
      BY <2>2, <3>1, <3>2 DEF SocketFailed, Closing
  <2>3. CASE SocketEnds(s)
    BY <1>3, <2>3 DEF SocketEnds, TypeOK
  <2> QED
    BY <1>4, <2>1, <2>2, <2>3
<1>5. ASSUME NEW s \in Sockets, SocketConnected(s) PROVE NeverStranded'
  BY <1>5 DEF SocketConnected
<1>6. CASE TimerFires
  <2>1. CASE connected
    BY <1>6, <2>1 DEF TimerFires
  <2>2. CASE ~connected
    <3>1. PICK s \in Sockets : Dial(s, "timer")
      BY <1>6, <2>2 DEF TimerFires
    <3>2. sock'[s] = "connecting"
      BY <3>1 DEF Dial, TypeOK
    <3> QED
      BY <1>3, <3>2
  <2> QED
    BY <2>1, <2>2
<1>7. CASE Disconnect \/ \E s \in Sockets : SocketRefused(s)
  BY <1>7 DEF Disconnect, SocketRefused
<1>8. ASSUME UNCHANGED <<session, timers, counters>>, Pending => Pending'
      PROVE  NeverStranded'
  BY <1>8 DEF session, timers, counters
<1>9. ASSUME NEW s \in Sockets, ReceiveBadMagic(s) PROVE NeverStranded'
  BY <1>8, <1>9 DEF ReceiveBadMagic, Destroyed, TypeOK
<1>10. CASE Send \/ UNCHANGED vars
  BY <1>8, <1>10 DEF Send, vars, network
<1> QED
  BY <1>2, <1>4, <1>5, <1>6, <1>7, <1>9, <1>10
     DEF Next, SocketEvent, SocketClose, ReceiveClose

(***************************************************************************)
(* No interleaving of callbacks and calls leaves a client that should      *)
(* reconnect without a timer, an event to come or the error that it gave   *)
(* up.                                                                     *)
(***************************************************************************)
THEOREM NotStranded == Spec => []NeverStranded
<1>1. Init => NeverStranded
  BY DEF Init, NeverStranded
<1> QED
  BY <1>1, StrandedStep, Typed, PTL DEF Spec

\* A connected client has written to its socket: first HELLO, or what a
\* listener sent just before.
GreetInv ==
  /\ GreetedFirst
  /\ (connected /\ socket # None) => hello[socket] # "nothing"

LEMMA GreetStep ==
  ASSUME TypeOK, GreetInv, [Next]_vars
  PROVE  GreetInv'
<1> USE DEF GreetInv, GreetedFirst
<1>1. ASSUME NEW socks, HandleClose(socks) PROVE GreetInv'
  BY <1>1 DEF HandleClose
<1>2. ASSUME NEW s \in Sockets, NEW caller, ~connected, Dial(s, caller),
             connected' = connected
      PROVE  GreetInv'
  BY <1>2 DEF Dial, TypeOK
<1>3. ASSUME NEW s \in Sockets, UserConnect(s) PROVE GreetInv'
  BY <1>2, <1>3 DEF UserConnect
<1>4. CASE TimerFires
  <2>1. CASE connected
    BY <1>4, <2>1 DEF TimerFires, network
  <2>2. CASE ~connected
    BY <1>2, <1>4, <2>2 DEF TimerFires
  <2> QED
    BY <2>1, <2>2
<1>5. ASSUME NEW s \in Sockets, SocketConnected(s) PROVE GreetInv'
  <2>1. hello' = AfterHello /\ socket' = socket
    BY <1>5 DEF SocketConnected
  <2>2. \A t \in Sockets : hello'[t] # "other"
    BY <2>1 DEF AfterHello, TypeOK, Ids
  <2>3. socket # None => hello'[socket] # "nothing"
    BY <2>1 DEF AfterHello, TypeOK, Ids
  <2> QED
    BY <2>1, <2>2, <2>3
<1>6. ASSUME NEW s \in Sockets, SocketFailed(s) PROVE GreetInv'
  <2>1. hello' = hello /\ connected' = connected
    BY <1>6 DEF SocketFailed
  <2>2. CASE connected
    BY <1>6, <2>1, <2>2 DEF SocketFailed
  <2>3. CASE ~connected
    BY <2>1, <2>3
  <2> QED
    BY <2>2, <2>3
<1>7. CASE Disconnect \/ \E s \in Sockets : SocketRefused(s)
  BY <1>7 DEF Disconnect, SocketRefused
<1>8. CASE Send
  BY <1>8 DEF Send, session, TypeOK
<1>9. CASE \/ UNCHANGED vars
           \/ \E s \in Sockets : SocketEnds(s) \/ ReceiveBadMagic(s)
  BY <1>9 DEF vars, SocketEnds, ReceiveBadMagic, session, network
<1> QED
  BY <1>1, <1>3, <1>4, <1>5, <1>6, <1>7, <1>8, <1>9
     DEF Next, SocketEvent, SocketClose, ReceiveClose

(***************************************************************************)
(* Nothing but the frame of a "connect" listener comes before HELLO,       *)
(* however calls of connect(), old closes and listeners overlap: what the  *)
(* client sends when connected reaches no socket that was not greeted.     *)
(***************************************************************************)
THEOREM HelloBeforeAll == Spec => []GreetedFirst
<1>1. Init => GreetInv
  BY DEF Init, GreetInv, GreetedFirst
<1>2. GreetInv => GreetedFirst
  BY DEF GreetInv
<1> QED
  BY <1>1, <1>2, GreetStep, Typed, PTL DEF Spec

-----------------------------------------------------------------------------
(***************************************************************************)
(* When connect() is called on a client at rest and old connections end    *)
(* before the delay is over, one socket lives at a time: what connects or  *)
(* is open is this.socket, and the timer is not armed meanwhile.           *)
(***************************************************************************)

Calm == ~OverlapConnects /\ ~LateClose

Alone(s) ==
  /\ \A t \in Sockets : sock[t] # "free" => t = s
  /\ sock[s] \in {"connecting", "open"} => socket = s
  /\ sock[s] = "connecting" => ~connected /\ ~reconnectTimer

CalmInv ==
  /\ \A s \in Sockets : sock[s] # "free" => Alone(s)
  /\ \A s \in Sockets :
       (promise[s] # "settled" /\ sock[s] # "connecting") => ~autoReconnect
  /\ connected => ~reconnectTimer
  /\ ConnectedOnCurrent
  /\ OnePingInterval

\* What the sockets become when nothing but an end of their life happens.
LEMMA FewerSockets ==
  ASSUME TypeOK, CalmInv,
         \A t \in Sockets : sock'[t] # sock[t] => sock'[t] \in {"free", "closing"},
         \A t \in Sockets : sock[t] = "free" => sock'[t] = "free",
         \A t \in Sockets : sock[t] \in {"connecting", "open"} =>
            socket' = socket \/ sock'[t] \in {"free", "closing"},
         \A t \in Sockets : sock'[t] = "connecting" => ~connected' /\ ~reconnectTimer'
  PROVE  \A t \in Sockets : sock'[t] # "free" => Alone(t)'
BY DEF CalmInv, Alone

LEMMA CloseCalm ==
  ASSUME TypeOK, CalmInv, NEW s \in Sockets, sock[s] \in {"open", "closing"},
         NEW socks, socks \in {sock, Freed(s)}, HandleClose(socks)
  PROVE  CalmInv'
<1>1. \A t \in Sockets : sock[t] \notin {"connecting"}
  BY DEF CalmInv, Alone
<1>2. \A t \in Sockets : /\ socks[t] # "connecting"
                         /\ socks[t] # sock[t] => socks[t] = "free"
                         /\ sock[t] = "free" => socks[t] = "free"
  BY <1>1 DEF Freed, TypeOK
<1>3. /\ \A t \in Sockets : sock'[t] # "connecting"
      /\ \A t \in Sockets : sock'[t] # sock[t] => sock'[t] \in {"free", "closing"}
      /\ \A t \in Sockets : sock[t] = "free" => sock'[t] = "free"
      /\ \A t \in Sockets : sock[t] = "open" =>
           socket' = socket \/ sock'[t] \in {"free", "closing"}
      /\ autoReconnect' => autoReconnect
  <2>1. CASE sock' = socks /\ socket' = socket /\ autoReconnect' = autoReconnect
    BY <1>2, <2>1
  <2>2. CASE sock' = Destroyed(socks) /\ socket' = None /\ autoReconnect' = FALSE
    <3>1. \A t \in Sockets : sock'[t] = IF t = socket /\ socks[t] \in {"connecting", "open"}
                                           THEN "closing" ELSE socks[t]
      BY <2>2 DEF Destroyed
    <3>2. \A t \in Sockets : sock[t] = "open" => t = socket
      BY DEF CalmInv, Alone
    <3> QED
      BY <1>2, <2>2, <3>1, <3>2
  <2> QED
    BY <2>1, <2>2 DEF HandleClose, ScheduleReconnect
<1>4. \A t \in Sockets : sock'[t] # "free" => Alone(t)'
  BY <1>1, <1>3, FewerSockets DEF HandleClose
<1>5. /\ connected' = FALSE /\ pingTimer' = FALSE
      /\ promise' = promise /\ orphanPing' = orphanPing
  BY DEF HandleClose
<1>6. ConnectedOnCurrent' /\ OnePingInterval'
  BY <1>5 DEF ConnectedOnCurrent, OnePingInterval, CalmInv
<1>7. \A t \in Sockets :
        (promise'[t] # "settled" /\ sock'[t] # "connecting") => ~autoReconnect'
  BY <1>1, <1>3, <1>5 DEF CalmInv
<1> QED
  BY <1>4, <1>5, <1>6, <1>7 DEF CalmInv

LEMMA DialCalm ==
  ASSUME TypeOK, CalmInv, Idle, ~connected, NEW s \in Sockets,
         NEW caller \in {"program", "timer"}, Dial(s, caller),
         connected' = connected, ~reconnectTimer', pingTimer' = pingTimer,
         orphanPing' = orphanPing, autoReconnect' = autoReconnect
  PROVE  CalmInv'
<1>1. /\ \A t \in Sockets : sock'[t] = IF t = s THEN "connecting" ELSE "free"
      /\ socket' = s
      /\ \A t \in Sockets : t # s => promise'[t] = promise[t]
  BY DEF Dial, Idle, TypeOK
<1>2. \A t \in Sockets : sock'[t] # "free" => Alone(t)'
  BY <1>1 DEF Alone
<1>3. \A t \in Sockets :
        (promise'[t] # "settled" /\ sock'[t] # "connecting") => ~autoReconnect'
  BY <1>1 DEF CalmInv, Idle
<1> QED
  BY <1>2, <1>3 DEF CalmInv, ConnectedOnCurrent, OnePingInterval

LEMMA ConnectedCalm ==
  ASSUME TypeOK, CalmInv, NEW s \in Sockets, SocketConnected(s)
  PROVE  CalmInv'
<1>1. /\ \A t \in Sockets : t # s => sock[t] = "free"
      /\ socket = s /\ ~connected /\ ~reconnectTimer
  BY DEF CalmInv, Alone, SocketConnected
<1>2. /\ \A t \in Sockets : sock'[t] = IF t = s THEN "open" ELSE "free"
      /\ socket' = s /\ socket' # None /\ connected' = TRUE
      /\ reconnectTimer' = reconnectTimer /\ autoReconnect' = autoReconnect
      /\ promise'[s] = "settled"
      /\ \A t \in Sockets : t # s => promise'[t] = promise[t]
  BY <1>1, TsClientAssumption DEF SocketConnected, TypeOK
<1>4. \A t \in Sockets : sock'[t] # "free" => Alone(t)'
  BY <1>2 DEF Alone
<1>5. ConnectedOnCurrent'
  BY <1>2 DEF ConnectedOnCurrent
<1>6. OnePingInterval'
  BY <1>1, TsClientAssumption DEF SocketConnected, OnePingInterval, CalmInv
<1>7. \A t \in Sockets :
        (promise'[t] # "settled" /\ sock'[t] # "connecting") => ~autoReconnect'
  BY <1>1, <1>2 DEF CalmInv
<1> QED
  BY <1>1, <1>2, <1>4, <1>5, <1>6, <1>7 DEF CalmInv

LEMMA RefusedCalm ==
  ASSUME TypeOK, CalmInv, NEW s \in Sockets, SocketRefused(s)
  PROVE  CalmInv'
<1>1. /\ \A t \in Sockets : t # s => sock[t] = "free"
      /\ socket = s /\ ~connected
  BY DEF CalmInv, Alone, SocketRefused
<1>2. /\ \A t \in Sockets : sock'[t] = IF t = s THEN "closing" ELSE "free"
      /\ autoReconnect' = FALSE /\ connected' = FALSE /\ pingTimer' = FALSE
  BY <1>1 DEF SocketRefused, Destroyed, TypeOK
<1>3. ~orphanPing'
  BY <1>1 DEF SocketRefused, CalmInv, OnePingInterval
<1>4. \A t \in Sockets : sock'[t] # "free" => Alone(t)'
  BY <1>2 DEF Alone
<1> QED
  BY <1>2, <1>3, <1>4 DEF CalmInv, ConnectedOnCurrent, OnePingInterval

LEMMA FailedCalm ==
  ASSUME TypeOK, CalmInv, NEW s \in Sockets, SocketFailed(s)
  PROVE  CalmInv'
<1>1. /\ \A t \in Sockets : t # s => sock[t] = "free"
      /\ socket = s /\ ~connected /\ sock[s] = "connecting"
  BY DEF CalmInv, Alone, SocketFailed
<1>2. \A t \in Sockets : Closing(s)[t] = IF t = s THEN "closing" ELSE "free"
  BY <1>1 DEF Closing, TypeOK
<1>3. /\ \A t \in Sockets : sock'[t] = IF t = s THEN "closing" ELSE "free"
      /\ autoReconnect' => autoReconnect
  <2>1. CASE sock' = Closing(s) /\ autoReconnect' = autoReconnect
    BY <1>2, <2>1
  <2>2. CASE sock' = Destroyed(Closing(s)) /\ autoReconnect' = FALSE
    BY <1>2, <2>2 DEF Destroyed
  <2> QED
    BY <2>1, <2>2 DEF SocketFailed, ScheduleReconnect, Closing
<1>4. /\ connected' = FALSE /\ pingTimer' = pingTimer /\ orphanPing' = orphanPing
      /\ promise' = [promise EXCEPT ![s] = "settled"]
  BY <1>1 DEF SocketFailed, TypeOK
<1>5. \A t \in Sockets : sock'[t] # "free" => Alone(t)'
  BY <1>3 DEF Alone
<1>6. \A t \in Sockets :
        (promise'[t] # "settled" /\ sock'[t] # "connecting") => ~autoReconnect'
  BY <1>1, <1>3, <1>4 DEF CalmInv, TypeOK
<1> QED
  BY <1>1, <1>4, <1>5, <1>6 DEF CalmInv, ConnectedOnCurrent, OnePingInterval

\* disconnect(), and a wrong magic number, destroy this.socket.
LEMMA DestroyCalm ==
  ASSUME TypeOK, CalmInv, Disconnect \/ \E s \in Sockets : ReceiveBadMagic(s)
  PROVE  CalmInv'
<1>1. \A t \in Sockets : sock'[t] = IF t = socket /\ sock[t] \in {"connecting", "open"}
                                       THEN "closing" ELSE sock[t]
  BY DEF Disconnect, ReceiveBadMagic, Destroyed
<1>2. \A t \in Sockets : sock'[t] \notin {"connecting", "open"}
  BY <1>1 DEF CalmInv, Alone
<1>3. /\ \A t \in Sockets : sock'[t] # sock[t] => sock'[t] = "closing"
      /\ \A t \in Sockets : sock[t] = "free" => sock'[t] = "free"
  BY <1>1
<1>4. hello' = hello /\ promise' = promise /\ orphanPing' = orphanPing
  BY DEF Disconnect, ReceiveBadMagic, timers
<1>5. \A t \in Sockets : sock'[t] # "free" => Alone(t)'
  BY <1>2, <1>3, <1>4, FewerSockets
<1>6. CASE Disconnect
  <2>1. autoReconnect' = FALSE /\ connected' = FALSE /\ pingTimer' = FALSE
    BY <1>6 DEF Disconnect
  <2> QED
    BY <1>4, <1>5, <2>1 DEF CalmInv, ConnectedOnCurrent, OnePingInterval
<1>7. CASE \E s \in Sockets : ReceiveBadMagic(s)
  <2>1. UNCHANGED <<session, timers>>
    BY <1>7 DEF ReceiveBadMagic
  <2>2. \A t \in Sockets : sock[t] # "connecting"
    BY <1>7 DEF ReceiveBadMagic, CalmInv, Alone
  <2>3. ConnectedOnCurrent'
    BY <1>1, <2>1 DEF CalmInv, ConnectedOnCurrent, session, TypeOK
  <2>4. \A t \in Sockets :
          (promise'[t] # "settled" /\ sock'[t] # "connecting") => ~autoReconnect'
    BY <1>4, <2>1, <2>2 DEF CalmInv, session
  <2> QED
    BY <1>5, <2>1, <2>3, <2>4 DEF CalmInv, OnePingInterval, session, timers
<1> QED
  BY <1>6, <1>7

LEMMA CalmStep ==
  ASSUME Calm, TypeOK, CalmInv, [Next]_vars
  PROVE  CalmInv'
<1>1. ASSUME NEW s \in Sockets, UserConnect(s) PROVE CalmInv'
  BY <1>1, DialCalm DEF Calm, UserConnect, timers
<1>2. ASSUME NEW s \in Sockets, SocketEnds(s) PROVE CalmInv'
  <2>1. /\ \A t \in Sockets : sock'[t] = IF t = s THEN "closing" ELSE sock[t]
        /\ \A t \in Sockets : sock[t] # "connecting"
        /\ sock[s] = "open" /\ UNCHANGED <<session, timers, promise>>
    BY <1>2 DEF SocketEnds, TypeOK, CalmInv, Alone
  <2>2. \A t \in Sockets : sock'[t] # "free" => Alone(t)'
    BY <2>1, FewerSockets DEF session
  <2>3. ConnectedOnCurrent'
    BY <2>1 DEF CalmInv, ConnectedOnCurrent, session, TypeOK
  <2> QED
    BY <2>1, <2>2, <2>3 DEF CalmInv, OnePingInterval, session, timers
<1>3. ASSUME NEW s \in Sockets, SocketClose(s) \/ ReceiveClose(s) PROVE CalmInv'
  BY <1>3, CloseCalm DEF SocketClose, ReceiveClose, Freed
<1>4. CASE TimerFires
  <2>1. ~connected /\ Idle
    BY <1>4 DEF TimerFires, Calm, CalmInv
  <2> QED
    BY <1>4, <2>1, DialCalm DEF TimerFires
<1>5. CASE Send
  <2>1. UNCHANGED <<session, timers, sock, promise>>
    BY <1>5 DEF Send
  <2>2. \A t \in Sockets : sock'[t] # "free" => Alone(t)'
    BY <2>1 DEF CalmInv, Alone, session, timers
  <2> QED
    BY <2>1, <2>2
       DEF CalmInv, ConnectedOnCurrent, OnePingInterval, session, timers
<1>6. CASE UNCHANGED vars
  BY <1>6 DEF vars, session, timers, network, CalmInv, Alone,
              ConnectedOnCurrent, OnePingInterval
<1> QED
  BY <1>1, <1>2, <1>3, <1>4, <1>5, <1>6, ConnectedCalm, RefusedCalm, FailedCalm,
     DestroyCalm DEF Next, SocketEvent

LEMMA CalmAlways == Calm => (Spec => []CalmInv)
<1> SUFFICES ASSUME Calm PROVE Spec => []CalmInv
  OBVIOUS
<1>1. Init => CalmInv
  BY DEF Init, CalmInv, ConnectedOnCurrent, OnePingInterval
<1> QED
  BY <1>1, CalmStep, Typed, PTL DEF Spec

(***************************************************************************)
(* A connected client has a socket that has connected: neither a call of   *)
(* the program nor the ping interval throws.                               *)
(***************************************************************************)
THEOREM WritesReachASocket == Calm => (Spec => []ConnectedOnCurrent)
BY CalmAlways, PTL DEF CalmInv

\* One ping interval lives while the client is connected, and none otherwise.
THEOREM OneInterval == Calm => (Spec => []OnePingInterval)
BY CalmAlways, PTL DEF CalmInv

\* Only disconnect() leaves the promise of a connect() pending for ever.
THEOREM PromisesSettle == Calm => (Spec => []AbandonedOnlyByDisconnect)
<1>1. CalmInv => AbandonedOnlyByDisconnect
  BY DEF CalmInv, AbandonedOnlyByDisconnect
<1> QED
  BY <1>1, CalmAlways, PTL

(***************************************************************************)
(* disconnect() leaves neither a timer nor a socket that could be used.    *)
(***************************************************************************)
THEOREM NothingLeft ==
  Calm /\ ~QuitInReconnecting => (Spec => []DisconnectStops)
<1> SUFFICES ASSUME Calm, ~QuitInReconnecting PROVE Spec => []DisconnectStops
  OBVIOUS
<1>1. TypeOK /\ CalmInv /\ NoReconnectAfterDisconnect => DisconnectStops
  BY TsClientAssumption
     DEF TypeOK, SockStates, CalmInv, Alone, NoReconnectAfterDisconnect,
         ConnectedOnCurrent, OnePingInterval, DisconnectStops
<1> QED
  BY <1>1, CalmAlways, DisconnectIsFinal, Typed, PTL

-----------------------------------------------------------------------------
(* The client implements Session. *)

\* A reconnection is counted, within the limit, or none; a listener may disconnect.
LEMMA CountStep ==
  ASSUME TypeOK, NEW armed \in BOOLEAN, NEW socks, ScheduleReconnect(armed, socks),
         autoReconnect
  PROVE  /\ Life!Counted \/ UNCHANGED reconnectAttempts
         /\ UNCHANGED <<socket, autoReconnect>> \/ autoReconnect' = FALSE
<1>1. CASE armed \/ Exhausted
  BY <1>1 DEF ScheduleReconnect
<1>2. CASE ~armed /\ ~Exhausted
  <2>1. /\ reconnectAttempts' = Saturated(reconnectAttempts)
        /\ UNCHANGED <<socket, autoReconnect>> \/ autoReconnect' = FALSE
    BY <1>2 DEF ScheduleReconnect
  <2>2. maxReconnectAttempts = 0 \/ reconnectAttempts < maxReconnectAttempts
    BY <1>2, TsClientAssumption DEF Exhausted, TypeOK
  <2> QED
    BY <2>1, <2>2 DEF Saturated, Life!Counted
<1> QED
  BY <1>1, <1>2

LEMMA LifeStep ==
  ASSUME TypeOK, Calm => CalmInv, [Next]_vars
  PROVE  [Life!Next]_(Life!vars)
<1> USE DEF Life!Next, Life!vars
<1>1. ASSUME NEW s \in Sockets, NEW caller, Dial(s, caller), ~connected,
             UNCHANGED <<connected, autoReconnect, reconnectAttempts>>
      PROVE  [Life!Next]_(Life!vars)
  BY <1>1 DEF Dial, Life!Dial
<1>2. ASSUME NEW s \in Sockets, UserConnect(s) PROVE [Life!Next]_(Life!vars)
  BY <1>1, <1>2 DEF UserConnect, counters
<1>3. CASE TimerFires
  BY <1>1, <1>3 DEF TimerFires
<1>4. ASSUME NEW s \in Sockets, SocketConnected(s) PROVE [Life!Next]_(Life!vars)
  <2>1. (OverlapConnects \/ LateClose) \/ ~connected
    BY <1>4 DEF SocketConnected, Calm, CalmInv, Alone
  <2> QED
    BY <1>4, <2>1 DEF SocketConnected, Life!Establish
<1>11. ASSUME NEW s \in Sockets, SocketRefused(s) PROVE [Life!Next]_(Life!vars)
  <2>1. (OverlapConnects \/ LateClose) \/ ~connected
    BY <1>11 DEF SocketRefused, Calm, CalmInv, Alone
  <2> QED
    BY <1>11, <2>1 DEF SocketRefused, Life!Establish
<1>5. ASSUME NEW socks, HandleClose(socks) PROVE [Life!Next]_(Life!vars)
  <2>1. connected' = FALSE /\ connected \in BOOLEAN
    BY <1>5 DEF HandleClose, TypeOK
  <2>2. CASE UNCHANGED <<socket, autoReconnect, reconnectAttempts>>
    BY <2>1, <2>2 DEF Life!Lose
  <2>4. CASE autoReconnect' = FALSE /\ UNCHANGED reconnectAttempts
    BY <2>1, <2>4 DEF Life!Revoke
  <2>3. CASE autoReconnect /\ ScheduleReconnect(FALSE, socks)
    <3>1. /\ Life!Counted \/ UNCHANGED reconnectAttempts
          /\ UNCHANGED <<socket, autoReconnect>> \/ autoReconnect' = FALSE
      BY <2>3, CountStep
    <3>2. CASE autoReconnect' = FALSE
      BY <2>1, <3>1, <3>2 DEF Life!Revoke
    <3>3. CASE connected /\ UNCHANGED <<socket, autoReconnect>>
      BY <2>1, <3>1, <3>3 DEF Life!Lose
    <3>4. CASE ~connected /\ UNCHANGED <<socket, autoReconnect>>
      <4>1. connected' = connected
        BY <2>1, <3>4
      <4> QED
        BY <3>1, <3>4, <4>1 DEF Life!Count
    <3> QED
      BY <3>1, <3>2, <3>3, <3>4
  <2> QED
    BY <1>5, <2>2, <2>3, <2>4 DEF HandleClose
<1>6. ASSUME NEW s \in Sockets, SocketFailed(s) PROVE [Life!Next]_(Life!vars)
  <2>1. CASE ~connected /\ autoReconnect
             /\ ScheduleReconnect(reconnectTimer, Closing(s))
    <3>1. reconnectTimer \in BOOLEAN /\ connected' = connected
      BY <1>6 DEF SocketFailed, TypeOK
    <3>2. /\ Life!Counted \/ UNCHANGED reconnectAttempts
          /\ UNCHANGED <<socket, autoReconnect>> \/ autoReconnect' = FALSE
      BY <2>1, <3>1, CountStep
    <3> QED
      BY <2>1, <3>1, <3>2 DEF Life!Count, Life!Revoke
  <2>2. CASE UNCHANGED <<socket, autoReconnect, reconnectAttempts>>
    BY <1>6, <2>2 DEF SocketFailed
  <2> QED
    BY <1>6, <2>1, <2>2 DEF SocketFailed, Closing
<1>7. CASE Disconnect
  BY <1>7 DEF Disconnect, counters, Life!Revoke
<1>8. CASE UNCHANGED <<session, counters>>
  BY <1>8 DEF session, counters
<1>9. ASSUME NEW s \in Sockets, SocketEnds(s) \/ ReceiveBadMagic(s)
      PROVE  [Life!Next]_(Life!vars)
  BY <1>8, <1>9 DEF SocketEnds, ReceiveBadMagic
<1>10. CASE Send \/ UNCHANGED vars
  BY <1>8, <1>10 DEF Send, vars
<1> QED
  BY <1>2, <1>3, <1>4, <1>5, <1>6, <1>7, <1>9, <1>10, <1>11
     DEF Next, SocketEvent, SocketClose, ReceiveClose

(***************************************************************************)
(* Whatever the program, its listeners and the network do, the client      *)
(* implements Session, with its limit for the limit; where connect() is    *)
(* called at rest and no close is late, the one in which nothing overlaps. *)
(***************************************************************************)
THEOREM ImplementsSession == Spec => LifeSpec
<1> SUFFICES Spec => Life!Spec
  BY DEF LifeSpec
<1>1. Init => Life!Init
  BY DEF Init, Life!Init
<1>2. TypeOK /\ (Calm => CalmInv) /\ [Next]_vars => [Life!Next]_(Life!vars)
  BY LifeStep
<1>3. Spec => [](Calm => CalmInv)
  <2>1. CASE Calm
    BY <2>1, CalmAlways, PTL
  <2>2. CASE ~Calm
    <3>1. Calm => CalmInv
      BY <2>2
    <3> QED
      BY <3>1, PTL
  <2> QED
    BY <2>1, <2>2
<1> QED
  BY <1>1, <1>2, <1>3, Typed, PTL DEF Spec, Life!Spec

=============================================================================
