--------------------------- MODULE DispatchProofs ---------------------------
(***************************************************************************)
(* Proofs about the callbacks of the Rust client, for any number of        *)
(* connections and of callbacks, whatever events they are for.             *)
(***************************************************************************)
EXTENDS Dispatch, SequenceTheorems, WellFoundedInduction, TLAPS

USE DispatchAssumption

-----------------------------------------------------------------------------
(* Queues. *)

LEMMA WithoutIsQueue ==
  ASSUME NEW s \in Seq(Actors), NEW a
  PROVE  Without(s, a) \in Seq(Actors)
<1> DEFINE at == {i \in DOMAIN s : s[i] = a}
           i == CHOOSE i \in at : TRUE
<1>1. CASE at = {}
  BY <1>1 DEF Without
<1>2. CASE at # {}
  <2>1. i \in 1..Len(s)
    BY <1>2
  <2> HIDE DEF i
  <2>2. Len(s) \in Nat /\ \A j \in 1..Len(s) : s[j] \in Actors
    OBVIOUS
  <2>3. SubSeq(s, 1, i - 1) \in Seq(Actors)
    BY <2>1, <2>2, SubSeqProperties
  <2>4. SubSeq(s, i + 1, Len(s)) \in Seq(Actors)
    BY <2>1, <2>2, SubSeqProperties
  <2>5. SubSeq(s, 1, i - 1) \o SubSeq(s, i + 1, Len(s)) \in Seq(Actors)
    BY <2>3, <2>4, ConcatProperties
  <2> QED
    BY <1>2, <2>5 DEF Without, i
<1> QED
  BY <1>1, <1>2

LEMMA OwedIsLists ==
  /\ \A kind \in DOMAIN Owed : Owed[kind] \in Seq(Events)
  /\ \A e \in Events : <<e>> \in Seq(Events)
<1>1. /\ "frame" \in Events /\ "event" \in Events /\ "message" \in Events
      /\ "ack" \in Events /\ "pong" \in Events /\ "error" \in Events
  BY DEF Events
<1>2. \A e, f, g \in Events :
        /\ <<e>> \in Seq(Events) /\ <<e, f>> \in Seq(Events) /\ <<e, f, g>> \in Seq(Events)
  OBVIOUS
<1>3. DOMAIN Owed = {"event", "publish", "ack", "pong", "error", "other"}
  BY DEF Owed
<1>4. Owed["event"] \in Seq(Events) /\ Owed["publish"] \in Seq(Events)
  BY <1>1, <1>2 DEF Owed
<1>5. Owed["ack"] \in Seq(Events) /\ Owed["pong"] \in Seq(Events)
  BY <1>1, <1>2 DEF Owed
<1>6. Owed["error"] \in Seq(Events) /\ Owed["other"] \in Seq(Events)
  BY <1>1, <1>2 DEF Owed
<1> QED
  BY <1>2, <1>3, <1>4, <1>5, <1>6

-----------------------------------------------------------------------------
(* The locks. *)

Queues == [Locks -> Seq(Actors)]

LEMMA Asked ==
  ASSUME waiting \in Queues, NEW l \in Locks, NEW a \in Actors, Ask(l, a)
  PROVE  waiting' \in Queues
BY DEF Ask, Queues

LEMMA TurnTaken ==
  ASSUME waiting \in Queues, NEW l \in Locks, NEW a \in Actors, Turn(l, a), Answered(l)
  PROVE  waiting' \in Queues
BY DEF Turn, Answered, Queues

LEMMA TurnTakenAsked ==
  ASSUME waiting \in Queues, NEW l \in Locks, NEW m \in Locks, NEW a \in Actors,
         Turn(l, a), AnsweredAsks(l, m, a), l # m
  PROVE  waiting' \in Queues
<1>1. Tail(waiting[l]) \in Seq(Actors) /\ Append(waiting[m], a) \in Seq(Actors)
  BY DEF Turn, Queues
<1> QED
  BY <1>1 DEF AnsweredAsks, Queues

LEMMA Given == "callbacks" \in Locks /\ "options" \in Locks /\ Program \in Actors
               /\ Conns \subseteq Actors
BY DEF Locks, Actors

-----------------------------------------------------------------------------
(* Types. *)

\* A connection is established where there is room, and has a read task then.
FreshInv ==
  /\ main \in {"addressing", "dialing"} => conn < MaxConns
  /\ \A c \in Conns : c > conn => reader[c] = "none"

TypeInv == TypeOK /\ FreshInv

\* The locks hold nobody who does not need them.
HeldInv ==
  /\ Program \in holds["callbacks"] => main = "naming"
  /\ \A c \in holds["callbacks"] \ {Program} : reader[c] \in Calling
  /\ \A c \in holds["options"] : c # Program /\ reader[c] \in {"announcing", "exhausted"}

LEMMA TypeInit == Init => TypeInv
<1> SUFFICES ASSUME Init PROVE TypeInv
  OBVIOUS
<1>1. todo \in [Conns -> Seq(Events)] /\ waiting \in Queues
  BY DEF Init, Queues
<1>2. lists \in [Events -> 0..MaxCallbacks]
  BY DEF Init, NoCallbacks
<1>3. /\ holds \in [Locks -> SUBSET Actors] /\ conn \in 0..MaxConns /\ attempts \in Nat
      /\ aborted \subseteq Conns
  BY DEF Init
<1>4. FreshInv
  BY DEF Init, FreshInv
<1> QED
  BY <1>1, <1>2, <1>3, <1>4 DEF Init, TypeInv, TypeOK, Queues, Conns

TodoOK == todo \in [Conns -> Seq(Events)]

RestOK ==
  /\ lists \in [Events -> 0..MaxCallbacks]
  /\ connected \in BOOLEAN /\ running \in BOOLEAN /\ auto_reconnect \in BOOLEAN
  /\ attempts \in Nat
  /\ main \in {"idle", "registering", "addressing", "dialing", "spawning",
               "emitting", "naming", "revoking", "closing", "dropped"}
  /\ conn \in 0..MaxConns
  /\ reader \in [Conns -> Calling \cup {"none", "looping", "reading", "handling",
                                        "ended", "deciding", "sleeping", "done"}]
  /\ aborted \subseteq Conns
  /\ holds \in [Locks -> SUBSET Actors]
  /\ FreshInv

LEMMA Parts == TypeInv <=> waiting \in Queues /\ TodoOK /\ RestOK
BY DEF TypeInv, TypeOK, RestOK, TodoOK, Queues

LEMMA PartsLater ==
  TypeInv' <=> waiting' \in Queues /\ TodoOK' /\ RestOK'
BY DEF TypeInv, TypeOK, RestOK, TodoOK, Queues

LEMMA QueuesStep ==
  ASSUME waiting \in Queues, [Next]_vars PROVE waiting' \in Queues
<1>1. CASE Register
  BY <1>1, Asked, Given DEF Register, locks
<1>2. ASSUME NEW e \in Registrable, Registered(e) PROVE waiting' \in Queues
  BY <1>2, TurnTaken, Given DEF Registered, locks
<1>3. CASE Connect
  BY <1>3, Asked, Given DEF Connect, locks
<1>4. CASE Dial
  BY <1>4, TurnTaken, Given DEF Dial, locks
<1>5. CASE DialFails
  BY <1>5 DEF DialFails, locks
<1>6. CASE Established
  BY <1>6, Asked, Given DEF Established, locks
<1>7. CASE Spawned
  BY <1>7, TurnTakenAsked, Given DEF Spawned, locks
<1>8. CASE EmitConnect
  BY <1>8, TurnTakenAsked, Given DEF EmitConnect, locks
<1>9. CASE Greet
  BY <1>9, TurnTaken, Given DEF Greet, locks
<1>10. CASE Disconnect
  BY <1>10, Asked, Given DEF Disconnect, locks
<1>11. CASE Revoke
  BY <1>11, TurnTaken, Given DEF Revoke, locks
<1>12. CASE Cleanup
  BY <1>12 DEF Cleanup, locks
<1>13. CASE Drop
  BY <1>13 DEF Drop, locks
<1>14. ASSUME NEW c \in Conns, Loop(c) PROVE waiting' \in Queues
  BY <1>14 DEF Loop, locks
<1>15. ASSUME NEW c \in Conns, NEW kind \in DOMAIN Owed, Frame(c, kind) PROVE waiting' \in Queues
  BY <1>15, Asked, Given DEF Frame, AskToCall, locks
<1>16. ASSUME NEW c \in Conns, ReadFails(c) PROVE waiting' \in Queues
  BY <1>16, Asked, Given DEF ReadFails, AskToCall, locks
<1>27. ASSUME NEW c \in Conns, BadHeader(c) PROVE waiting' \in Queues
  BY <1>27, Asked, Given DEF BadHeader, AskToCall, locks
<1>17. ASSUME NEW c \in Conns, ReadEnds(c) PROVE waiting' \in Queues
  BY <1>17 DEF ReadEnds, locks
<1>18. ASSUME NEW c \in Conns, Swap(c) PROVE waiting' \in Queues
  BY <1>18, Asked, Given DEF Swap, AskToCall, locks
<1>19. ASSUME NEW c \in Conns, Decide(c) PROVE waiting' \in Queues
  BY <1>19, TurnTaken, TurnTakenAsked, Given DEF Decide, locks
<1>20. ASSUME NEW c \in Conns, GetIn(c) PROVE waiting' \in Queues
  BY <1>20, TurnTaken, Given DEF GetIn, locks
<1>21. ASSUME NEW c \in Conns, Call(c) PROVE waiting' \in Queues
  BY <1>21 DEF Call, locks
<1>22. ASSUME NEW c \in Conns, Called(c) PROVE waiting' \in Queues
  BY <1>22, Asked, Given DEF Called, locks
<1>23. ASSUME NEW c \in Conns, SleepEnds(c) PROVE waiting' \in Queues
  BY <1>23 DEF SleepEnds, locks
<1>24. ASSUME NEW c \in Conns, Aborted(c) PROVE waiting' \in Queues
  BY <1>24, WithoutIsQueue DEF Aborted, Gone, Queues, locks
<1>25. ASSUME NEW c \in Conns, Panics(c) PROVE waiting' \in Queues
  BY <1>25, WithoutIsQueue DEF Panics, Gone, Queues, locks
<1>26. CASE UNCHANGED vars
  BY <1>26 DEF vars, locks
<1> QED
  BY <1>1, <1>2, <1>3, <1>4, <1>5, <1>6, <1>7, <1>8, <1>9, <1>10, <1>11, <1>12,
     <1>13, <1>14, <1>15, <1>16, <1>17, <1>18, <1>19, <1>20, <1>21, <1>22, <1>23,
     <1>24, <1>25, <1>26, <1>27 DEF Next, Caller, Reader

LEMMA TodoStep ==
  ASSUME TodoOK, [Next]_vars PROVE TodoOK'
<1>1. CASE Register
  BY <1>1 DEF Register, tasks, TodoOK
<1>2. ASSUME NEW e \in Registrable, Registered(e) PROVE TodoOK'
  BY <1>2 DEF Registered, tasks, TodoOK
<1>3. CASE Connect
  BY <1>3 DEF Connect, tasks, TodoOK
<1>4. CASE Dial
  BY <1>4 DEF Dial, tasks, TodoOK
<1>5. CASE DialFails
  BY <1>5 DEF DialFails, tasks, TodoOK
<1>6. CASE Established
  BY <1>6 DEF Established, tasks, TodoOK
<1>7. CASE Spawned
  BY <1>7 DEF Spawned, tasks, TodoOK
<1>8. CASE EmitConnect
  BY <1>8 DEF EmitConnect, tasks, TodoOK
<1>9. CASE Greet
  BY <1>9 DEF Greet, tasks, TodoOK
<1>10. CASE Disconnect
  BY <1>10 DEF Disconnect, tasks, TodoOK
<1>11. CASE Revoke
  BY <1>11 DEF Revoke, tasks, TodoOK
<1>12. CASE Cleanup
  BY <1>12 DEF Cleanup, tasks, TodoOK
<1>13. CASE Drop
  BY <1>13 DEF Drop, tasks, TodoOK
<1>14. ASSUME NEW c \in Conns, Loop(c) PROVE TodoOK'
  BY <1>14 DEF Loop, tasks, TodoOK
<1>15. ASSUME NEW c \in Conns, NEW kind \in DOMAIN Owed, Frame(c, kind) PROVE TodoOK'
  BY <1>15, OwedIsLists DEF Frame, AskToCall, tasks, TodoOK
<1>16. ASSUME NEW c \in Conns, ReadFails(c) PROVE TodoOK'
  BY <1>16 DEF ReadFails, AskToCall, Events, tasks, TodoOK
<1>27. ASSUME NEW c \in Conns, BadHeader(c) PROVE TodoOK'
  BY <1>27 DEF BadHeader, AskToCall, Events, tasks, TodoOK
<1>17. ASSUME NEW c \in Conns, ReadEnds(c) PROVE TodoOK'
  BY <1>17 DEF ReadEnds, tasks, TodoOK
<1>18. ASSUME NEW c \in Conns, Swap(c) PROVE TodoOK'
  <2>1. <<"disconnect">> \in Seq(Events)
    BY OwedIsLists DEF Events
  <2> QED
    BY <1>18, <2>1 DEF Swap, AskToCall, tasks, TodoOK
<1>19. ASSUME NEW c \in Conns, Decide(c) PROVE TodoOK'
  <2>1. <<"reconnecting">> \in Seq(Events) /\ <<"error">> \in Seq(Events)
    BY OwedIsLists DEF Events
  <2> QED
    BY <1>19, <2>1 DEF Decide, tasks, TodoOK
<1>20. ASSUME NEW c \in Conns, GetIn(c) PROVE TodoOK'
  BY <1>20 DEF GetIn, tasks, TodoOK
<1>21. ASSUME NEW c \in Conns, Call(c) PROVE TodoOK'
  BY <1>21 DEF Call, tasks, TodoOK
<1>22. ASSUME NEW c \in Conns, Called(c) PROVE TodoOK'
  BY <1>22 DEF Called, tasks, TodoOK
<1>23. ASSUME NEW c \in Conns, SleepEnds(c) PROVE TodoOK'
  BY <1>23 DEF SleepEnds, tasks, TodoOK
<1>24. ASSUME NEW c \in Conns, Aborted(c) PROVE TodoOK'
  BY <1>24 DEF Aborted, Gone, tasks, TodoOK
<1>25. ASSUME NEW c \in Conns, Panics(c) PROVE TodoOK'
  BY <1>25 DEF Panics, Gone, tasks, TodoOK
<1>26. CASE UNCHANGED vars
  BY <1>26 DEF vars, tasks, TodoOK
<1> QED
  BY <1>1, <1>2, <1>3, <1>4, <1>5, <1>6, <1>7, <1>8, <1>9, <1>10, <1>11, <1>12,
     <1>13, <1>14, <1>15, <1>16, <1>17, <1>18, <1>19, <1>20, <1>21, <1>22, <1>23,
     <1>24, <1>25, <1>26, <1>27 DEF Next, Caller, Reader

LEMMA RestStep ==
  ASSUME RestOK, HeldInv, [Next]_vars PROVE RestOK'
<1>1. CASE Register
  BY <1>1 DEF Register, RestOK, FreshInv, Conns, flags, locks, tasks
<1>2. ASSUME NEW e \in Registrable, Registered(e) PROVE RestOK'
  BY <1>2 DEF Registered, RestOK, FreshInv, Conns, flags, locks, tasks
<1>3. CASE Connect
  BY <1>3 DEF Connect, RestOK, FreshInv, Conns, flags, locks, tasks
<1>4. CASE Dial
  BY <1>4 DEF Dial, RestOK, FreshInv, Conns, flags, locks, tasks
<1>5. CASE DialFails
  BY <1>5 DEF DialFails, RestOK, FreshInv, Conns, flags, locks, tasks
<1>6. CASE Established
  BY <1>6 DEF Established, RestOK, FreshInv, Conns, flags, locks, tasks
<1>7. CASE Spawned
  BY <1>7 DEF Spawned, RestOK, FreshInv, Conns, flags, locks, tasks
<1>8. CASE EmitConnect
  BY <1>8, Given DEF EmitConnect, Enter, RestOK, FreshInv, Conns, flags, locks, tasks
<1>9. CASE Greet
  BY <1>9 DEF Greet, Leave, RestOK, FreshInv, Conns, flags, locks, tasks
<1>10. CASE Disconnect
  BY <1>10 DEF Disconnect, RestOK, FreshInv, Conns, flags, locks, tasks
<1>11. CASE Revoke
  BY <1>11 DEF Revoke, RestOK, FreshInv, Conns, flags, locks, tasks
<1>12. CASE Cleanup
  <2>1. aborted \cup ({conn} \ {0}) \subseteq Conns
    BY DEF RestOK, Conns
  <2> QED
    BY <1>12, <2>1 DEF Cleanup, RestOK, FreshInv, flags, locks, tasks
<1>13. CASE Drop
  BY <1>13 DEF Drop, RestOK, FreshInv, Conns, flags, locks, tasks
<1>14. ASSUME NEW c \in Conns, Loop(c) PROVE RestOK'
  BY <1>14 DEF Loop, RestOK, FreshInv, Conns, flags, locks, tasks
<1>15. ASSUME NEW c \in Conns, NEW kind \in DOMAIN Owed, Frame(c, kind) PROVE RestOK'
  BY <1>15 DEF Frame, AskToCall, RestOK, FreshInv, Conns, flags, locks, tasks, Calling
<1>16. ASSUME NEW c \in Conns, ReadFails(c) PROVE RestOK'
  BY <1>16 DEF ReadFails, AskToCall, RestOK, FreshInv, Conns, flags, locks, tasks,
     Calling
<1>27. ASSUME NEW c \in Conns, BadHeader(c) PROVE RestOK'
  BY <1>27 DEF BadHeader, AskToCall, RestOK, FreshInv, Conns, flags, locks, tasks,
     Calling
<1>17. ASSUME NEW c \in Conns, ReadEnds(c) PROVE RestOK'
  BY <1>17 DEF ReadEnds, RestOK, FreshInv, Conns, flags, locks, tasks
<1>18. ASSUME NEW c \in Conns, Swap(c) PROVE RestOK'
  BY <1>18 DEF Swap, AskToCall, RestOK, FreshInv, Conns, flags, locks, tasks, Calling
<1>19. ASSUME NEW c \in Conns, Decide(c) PROVE RestOK'
  <2>1. /\ attempts' \in Nat /\ holds' \in [Locks -> SUBSET Actors]
    <3>1. attempts \in Nat /\ holds \in [Locks -> SUBSET Actors] /\ c \in Actors
      BY Given DEF RestOK
    <3> QED
      BY <1>19, <3>1 DEF Decide, Enter
  <2>2. \E state \in {"announcing", "exhausted", "done"} :
          reader' = [reader EXCEPT ![c] = state]
    BY <1>19 DEF Decide
  <2>3. reader[c] # "none"
    BY <1>19 DEF Decide
  <2>4. UNCHANGED <<lists, connected, running, auto_reconnect, main, conn, aborted>>
    BY <1>19 DEF Decide
  <2> QED
    BY <2>1, <2>2, <2>3, <2>4 DEF RestOK, FreshInv, Conns, Calling
<1>20. ASSUME NEW c \in Conns, GetIn(c) PROVE RestOK'
  BY <1>20, Given DEF GetIn, Enter, RestOK, FreshInv, Conns, flags, locks, tasks
<1>21. ASSUME NEW c \in Conns, Call(c) PROVE RestOK'
  BY <1>21 DEF Call, RestOK, FreshInv, Conns, flags, locks, tasks
<1>22. ASSUME NEW c \in Conns, Called(c) PROVE RestOK'
  BY <1>22 DEF Called, Leave, RestOK, FreshInv, Conns, flags, locks, tasks
<1>23. ASSUME NEW c \in Conns, SleepEnds(c) PROVE RestOK'
  BY <1>23 DEF SleepEnds, RestOK, FreshInv, Conns, flags, locks, tasks
<1>24. ASSUME NEW c \in Conns, Aborted(c) PROVE RestOK'
  <2>1. reader[c] # "none"
    BY <1>24 DEF Aborted, Calling, HeldInv, Conns, Program
  <2>2. holds' \in [Locks -> SUBSET Actors]
    BY <1>24 DEF Aborted, Gone, RestOK
  <2>3. /\ reader' = [reader EXCEPT ![c] = "done"]
        /\ UNCHANGED <<lists, flags, main, conn, aborted>>
    BY <1>24 DEF Aborted, Gone
  <2> QED
    BY <2>1, <2>2, <2>3 DEF RestOK, FreshInv, Conns, flags
<1>25. ASSUME NEW c \in Conns, Panics(c) PROVE RestOK'
  <2>1. reader[c] # "none"
    BY <1>25 DEF Panics, Calling, HeldInv, Conns, Program
  <2>2. holds' \in [Locks -> SUBSET Actors]
    BY <1>25 DEF Panics, Gone, RestOK
  <2>3. /\ reader' = [reader EXCEPT ![c] = "done"]
        /\ UNCHANGED <<lists, flags, main, conn, aborted>>
    BY <1>25 DEF Panics, Gone
  <2> QED
    BY <2>1, <2>2, <2>3 DEF RestOK, FreshInv, Conns, flags
<1>26. CASE UNCHANGED vars
  BY <1>26 DEF vars, RestOK, FreshInv, Conns, flags, locks, tasks
<1> QED
  BY <1>1, <1>2, <1>3, <1>4, <1>5, <1>6, <1>7, <1>8, <1>9, <1>10, <1>11, <1>12,
     <1>13, <1>14, <1>15, <1>16, <1>17, <1>18, <1>19, <1>20, <1>21, <1>22, <1>23,
     <1>24, <1>25, <1>26, <1>27 DEF Next, Caller, Reader

-----------------------------------------------------------------------------
(* Who is in which lock. *)

\* What a read task does under a lock it does while it is in; and the locks hold
\* nobody else.
LockInv ==
  /\ \A c \in Conns : /\ reader[c] \in {"announcing", "exhausted"} => c \in holds["options"]
                      /\ WithinAFrame(c) => c \in holds["callbacks"]
  /\ HeldInv
  /\ RevokedIsSilent

LEMMA LockInit == Init => LockInv
BY DEF Init, LockInv, HeldInv, RevokedIsSilent, WithinAFrame, Locks, Calling

LEMMA LockStep ==
  ASSUME RestOK, TodoOK, LockInv, [Next]_vars PROVE LockInv'
<1>1. CASE Register
  BY <1>1 DEF Register, LockInv, HeldInv, RevokedIsSilent, WithinAFrame,
     RestOK, TodoOK, FreshInv, Conns, Program, Locks, Calling, flags, locks, tasks
<1>2. ASSUME NEW e \in Registrable, Registered(e) PROVE LockInv'
  BY <1>2 DEF Registered, NobodyInside, LockInv, HeldInv, RevokedIsSilent,
     WithinAFrame, RestOK, TodoOK, FreshInv, Conns, Program, Locks, Calling, flags,
     locks, tasks
<1>3. CASE Connect
  BY <1>3 DEF Connect, LockInv, HeldInv, RevokedIsSilent, WithinAFrame,
     RestOK, TodoOK, FreshInv, Conns, Program, Locks, Calling, flags, locks, tasks
<1>4. CASE Dial
  BY <1>4 DEF Dial, LockInv, HeldInv, RevokedIsSilent, WithinAFrame,
     RestOK, TodoOK, FreshInv, Conns, Program, Locks, Calling, flags, locks, tasks
<1>5. CASE DialFails
  BY <1>5 DEF DialFails, LockInv, HeldInv, RevokedIsSilent, WithinAFrame,
     RestOK, TodoOK, FreshInv, Conns, Program, Locks, Calling, flags, locks, tasks
<1>6. CASE Established
  <2>1. /\ reader' = [reader EXCEPT ![conn + 1] = "looping"] /\ main' = "spawning"
        /\ main = "dialing" /\ UNCHANGED <<auto_reconnect, todo, holds>>
    BY <1>6 DEF Established
  <2>2. \A d \in Conns : \/ reader'[d] = reader[d]
                         \/ reader[d] = "none" /\ reader'[d] = "looping"
    BY <2>1 DEF RestOK, FreshInv, Conns
  <2>3. \A d \in Conns : WithinAFrame(d)' => WithinAFrame(d)
    BY <2>1, <2>2 DEF WithinAFrame
  <2>4. \A l \in Locks : \A a \in holds[l] \ {Program} : a \in Conns
    BY DEF RestOK, Actors
  <2>5. HeldInv'
    BY <2>1, <2>2, <2>4 DEF LockInv, HeldInv, Calling, Locks
  <2>6. /\ RevokedIsSilent'
        /\ \A d \in Conns : reader'[d] \in {"announcing", "exhausted"} => d \in holds'["options"]
    BY <2>1, <2>2 DEF LockInv, RevokedIsSilent
  <2> QED
    BY <2>1, <2>3, <2>5, <2>6 DEF LockInv
<1>7. CASE Spawned
  BY <1>7 DEF Spawned, LockInv, HeldInv, RevokedIsSilent, WithinAFrame,
     RestOK, TodoOK, FreshInv, Conns, Program, Locks, Calling, flags, locks, tasks
<1>8. CASE EmitConnect
  BY <1>8 DEF EmitConnect, Enter, LockInv, HeldInv, RevokedIsSilent,
     WithinAFrame, RestOK, TodoOK, FreshInv, Conns, Program, Locks, Calling, flags,
     locks, tasks
<1>9. CASE Greet
  BY <1>9 DEF Greet, Leave, LockInv, HeldInv, RevokedIsSilent,
     WithinAFrame, RestOK, TodoOK, FreshInv, Conns, Program, Locks, Calling, flags,
     locks, tasks
<1>10. CASE Disconnect
  BY <1>10 DEF Disconnect, LockInv, HeldInv, RevokedIsSilent,
     WithinAFrame, RestOK, TodoOK, FreshInv, Conns, Program, Locks, Calling, flags,
     locks, tasks
<1>11. CASE Revoke
  BY <1>11 DEF Revoke, NobodyInside, LockInv, HeldInv, RevokedIsSilent,
     WithinAFrame, RestOK, TodoOK, FreshInv, Conns, Program, Locks, Calling, flags,
     locks, tasks
<1>12. CASE Cleanup
  BY <1>12 DEF Cleanup, LockInv, HeldInv, RevokedIsSilent, WithinAFrame,
     RestOK, TodoOK, FreshInv, Conns, Program, Locks, Calling, flags, locks, tasks
<1>13. CASE Drop
  BY <1>13 DEF Drop, LockInv, HeldInv, RevokedIsSilent, WithinAFrame,
     RestOK, TodoOK, FreshInv, Conns, Program, Locks, Calling, flags, locks, tasks
<1>14. ASSUME NEW c \in Conns, Loop(c) PROVE LockInv'
  BY <1>14 DEF Loop, LockInv, HeldInv, RevokedIsSilent, WithinAFrame,
     RestOK, TodoOK, FreshInv, Conns, Program, Locks, Calling, flags, locks, tasks
<1>15. ASSUME NEW c \in Conns, NEW kind \in DOMAIN Owed, Frame(c, kind) PROVE LockInv'
  <2>1. /\ todo' = [todo EXCEPT ![c] = Owed[kind]] /\ reader' = [reader EXCEPT ![c] = "frame"]
        /\ UNCHANGED <<auto_reconnect, main, holds>>
        /\ reader[c] \notin Calling /\ c # Program
    BY <1>15 DEF Frame, AskToCall, flags, Calling, Conns, Program
  <2>2. ~WithinAFrame(c)'
    BY <2>1 DEF WithinAFrame, TodoOK
  <2>3. \A d \in Conns \ {c} : reader'[d] = reader[d] /\ todo'[d] = todo[d]
    BY <2>1 DEF RestOK, TodoOK
  <2>4. reader'[c] = "frame"
    BY <2>1 DEF RestOK
  <2>5. \A d \in Conns : WithinAFrame(d)' => d \in holds'["callbacks"]
    BY <2>1, <2>2, <2>3 DEF LockInv, WithinAFrame
  <2> QED
    BY <2>1, <2>3, <2>4, <2>5 DEF LockInv, HeldInv, RevokedIsSilent, Calling,
       Conns, Program, RestOK, Actors
<1>16. ASSUME NEW c \in Conns, ReadFails(c) PROVE LockInv'
  BY <1>16 DEF ReadFails, AskToCall, LockInv, HeldInv, RevokedIsSilent,
     WithinAFrame, RestOK, TodoOK, FreshInv, Conns, Program, Locks, Calling, flags,
     locks, tasks
<1>27. ASSUME NEW c \in Conns, BadHeader(c) PROVE LockInv'
  BY <1>27 DEF BadHeader, AskToCall, LockInv, HeldInv, RevokedIsSilent,
     WithinAFrame, RestOK, TodoOK, FreshInv, Conns, Program, Locks, Calling, flags,
     locks, tasks
<1>17. ASSUME NEW c \in Conns, ReadEnds(c) PROVE LockInv'
  BY <1>17 DEF ReadEnds, LockInv, HeldInv, RevokedIsSilent, WithinAFrame,
     RestOK, TodoOK, FreshInv, Conns, Program, Locks, Calling, flags, locks, tasks
<1>18. ASSUME NEW c \in Conns, Swap(c) PROVE LockInv'
  <2>1. /\ \E state \in {"falling", "deciding"} : reader' = [reader EXCEPT ![c] = state]
        /\ reader[c] = "ended"
        /\ UNCHANGED <<auto_reconnect, main, holds>>
    BY <1>18 DEF Swap, AskToCall
  <2>2. \A d \in Conns \ {c} : todo'[d] = todo[d]
    BY <1>18 DEF Swap, AskToCall, TodoOK
  <2> QED
    BY <2>1, <2>2 DEF LockInv, HeldInv, RevokedIsSilent, WithinAFrame,
       Calling,
       Conns, Program, RestOK, Locks, Actors
<1>19. ASSUME NEW c \in Conns, Decide(c) PROVE LockInv'
  <2>1. reader[c] = "deciding" /\ UNCHANGED <<auto_reconnect, main>>
    BY <1>19 DEF Decide
  <2>2. \A d \in Conns \ {c} : todo'[d] = todo[d]
    BY <1>19 DEF Decide, TodoOK
  <2>3. CASE auto_reconnect /\ running
    <3>1. /\ \E state \in {"announcing", "exhausted"} : reader' = [reader EXCEPT ![c] = state]
          /\ holds' = [holds EXCEPT !["options"] = @ \cup {c}]
      BY <1>19, <2>3 DEF Decide, Enter
    <3> QED
      BY <2>1, <2>2, <2>3, <3>1 DEF LockInv, HeldInv, RevokedIsSilent,
         WithinAFrame, Calling, Conns, Program, RestOK, Locks, Actors
  <2>4. CASE ~(auto_reconnect /\ running)
    <3>1. reader' = [reader EXCEPT ![c] = "done"] /\ UNCHANGED holds
      BY <1>19, <2>4 DEF Decide
    <3> QED
      BY <2>1, <2>2, <3>1 DEF LockInv, HeldInv, RevokedIsSilent,
         WithinAFrame, Calling, Conns, Program, RestOK, Locks, Actors
  <2> QED
    BY <2>3, <2>4
<1>20. ASSUME NEW c \in Conns, GetIn(c) PROVE LockInv'
  <2>1. /\ reader[c] \in Calling
        /\ holds' = [holds EXCEPT !["callbacks"] = @ \cup {c}]
        /\ UNCHANGED <<auto_reconnect, main, reader, todo>>
    BY <1>20 DEF GetIn, Enter, flags
  <2> QED
    BY <2>1 DEF LockInv, HeldInv, RevokedIsSilent, WithinAFrame, Calling,
       Conns, Program, RestOK, Locks, Actors
<1>21. ASSUME NEW c \in Conns, Call(c) PROVE LockInv'
  BY <1>21 DEF Call, LockInv, HeldInv, RevokedIsSilent, WithinAFrame,
     RestOK, TodoOK, FreshInv, Conns, Program, Locks, Calling, flags, locks, tasks
<1>22. ASSUME NEW c \in Conns, Called(c) PROVE LockInv'
  <2>1. UNCHANGED <<auto_reconnect, main, todo>>
    BY <1>22 DEF Called, flags
  <2>2. CASE reader[c] \in {"frame", "bad", "failed", "falling"}
    <3>1. /\ \E state \in {"handling", "ended", "deciding"} :
               reader' = [reader EXCEPT ![c] = state]
          /\ holds' = [holds EXCEPT !["callbacks"] = @ \ {c}]
      BY <1>22, <2>2 DEF Called, Leave
    <3> QED
      BY <2>1, <2>2, <3>1 DEF LockInv, HeldInv, RevokedIsSilent,
         WithinAFrame, Calling, Conns, Program, RestOK, Locks, Actors
  <2>3. CASE reader[c] \in {"announcing", "exhausted"}
    <3>1. /\ \E state \in {"sleeping", "done"} : reader' = [reader EXCEPT ![c] = state]
          /\ holds' = [l \in Locks |-> holds[l] \ {c}]
      BY <1>22, <2>3 DEF Called
    <3> QED
      BY <2>1, <2>3, <3>1 DEF LockInv, HeldInv, RevokedIsSilent,
         WithinAFrame, Calling, Conns, Program, RestOK, Locks, Actors
  <2> QED
    BY <1>22, <2>2, <2>3 DEF Called
<1>23. ASSUME NEW c \in Conns, SleepEnds(c) PROVE LockInv'
  BY <1>23 DEF SleepEnds, LockInv, HeldInv, RevokedIsSilent, WithinAFrame,
     RestOK, TodoOK, FreshInv, Conns, Program, Locks, Calling, flags, locks, tasks
<1>24. ASSUME NEW c \in Conns, Aborted(c) PROVE LockInv'
  BY <1>24 DEF Aborted, Gone, LockInv, HeldInv, RevokedIsSilent,
     WithinAFrame, RestOK, TodoOK, FreshInv, Conns, Program, Locks, Calling, flags,
     locks, tasks
<1>25. ASSUME NEW c \in Conns, Panics(c) PROVE LockInv'
  BY <1>25 DEF Panics, Gone, LockInv, HeldInv, RevokedIsSilent,
     WithinAFrame, RestOK, TodoOK, FreshInv, Conns, Program, Locks, Calling, flags,
     locks, tasks
<1>26. CASE UNCHANGED vars
  BY <1>26 DEF vars, LockInv, HeldInv, RevokedIsSilent, WithinAFrame,
     RestOK, TodoOK, FreshInv, Conns, Program, Locks, Calling, flags, locks, tasks
<1> QED
  BY <1>1, <1>2, <1>3, <1>4, <1>5, <1>6, <1>7, <1>8, <1>9, <1>10, <1>11, <1>12,
     <1>13, <1>14, <1>15, <1>16, <1>17, <1>18, <1>19, <1>20, <1>21, <1>22, <1>23,
     <1>24, <1>25, <1>26, <1>27 DEF Next, Caller, Reader

-----------------------------------------------------------------------------
(* Who waits for which lock. *)

\* The queue s holds exactly the members of W, once each.
Line(s, W) ==
  /\ {s[i] : i \in DOMAIN s} = W
  /\ \A i, j \in DOMAIN s : s[i] = s[j] => i = j

LineInv == \A l \in Locks : Line(waiting[l], Wanting(l))

LEMMA AppendLine ==
  ASSUME NEW s \in Seq(Actors), NEW W, Line(s, W), NEW a \in Actors, a \notin W
  PROVE  Line(Append(s, a), W \cup {a})
<1>1. /\ DOMAIN s = 1..Len(s) /\ Len(s) \in Nat
      /\ DOMAIN Append(s, a) = 1..(Len(s) + 1)
      /\ \A i \in 1..Len(s) : Append(s, a)[i] = s[i]
      /\ Append(s, a)[Len(s) + 1] = a
  BY AppendProperties
<1>2. \A i \in 1..(Len(s) + 1) : i \in 1..Len(s) \/ i = Len(s) + 1
  BY <1>1
<1>3. \A i \in 1..Len(s) : i \in 1..(Len(s) + 1) /\ s[i] # a
  BY <1>1 DEF Line
<1>4. Len(s) + 1 \in 1..(Len(s) + 1)
  BY <1>1
<1>5. {Append(s, a)[i] : i \in DOMAIN Append(s, a)} = W \cup {a}
  BY <1>1, <1>2, <1>3, <1>4 DEF Line
<1>6. ASSUME NEW i \in DOMAIN Append(s, a), NEW j \in DOMAIN Append(s, a),
             Append(s, a)[i] = Append(s, a)[j]
      PROVE  i = j
  BY <1>1, <1>2, <1>3, <1>6 DEF Line
<1> QED
  BY <1>5, <1>6 DEF Line

LEMMA TailLine ==
  ASSUME NEW s \in Seq(Actors), NEW W, Line(s, W), s # <<>>
  PROVE  Line(Tail(s), W \ {Head(s)})
<1>1. /\ DOMAIN s = 1..Len(s) /\ Len(s) \in Nat /\ Len(s) > 0
      /\ DOMAIN Tail(s) = 1..(Len(s) - 1)
      /\ \A i \in 1..(Len(s) - 1) : Tail(s)[i] = s[i + 1]
      /\ Head(s) = s[1]
  BY HeadTailProperties
<1>2. \A i \in 1..(Len(s) - 1) : i + 1 \in 1..Len(s) /\ i + 1 # 1 /\ i \in Int
  BY <1>1
<1>3. \A i \in 1..Len(s) : i = 1 \/ (i - 1 \in 1..(Len(s) - 1) /\ (i - 1) + 1 = i)
  BY <1>1
<1>4. 1 \in 1..Len(s)
  BY <1>1
<1>5. \A i \in 1..(Len(s) - 1) : s[i + 1] # s[1]
  BY <1>1, <1>2, <1>4 DEF Line
<1>6. \A x : x \in {Tail(s)[i] : i \in DOMAIN Tail(s)}
               <=> \E i \in 1..(Len(s) - 1) : x = s[i + 1]
  BY <1>1
<1>7. \A x : x \in W <=> \E i \in 1..Len(s) : x = s[i]
  BY <1>1 DEF Line
<1>8. {Tail(s)[i] : i \in DOMAIN Tail(s)} = W \ {Head(s)}
  <2>1. ASSUME NEW x, x \in W, x # s[1]
        PROVE  \E i \in 1..(Len(s) - 1) : x = s[i + 1]
    BY <1>3, <1>7, <2>1
  <2>2. ASSUME NEW x, NEW i \in 1..(Len(s) - 1), x = s[i + 1]
        PROVE  x \in W /\ x # s[1]
    BY <1>2, <1>5, <1>7, <2>2
  <2>3. \A x : (\E i \in 1..(Len(s) - 1) : x = s[i + 1]) <=> x \in W /\ x # s[1]
    BY <2>1, <2>2
  <2>4. Head(s) = s[1]
    BY <1>1
  <2> QED
    BY <1>6, <2>3, <2>4, Zenon
<1>9. ASSUME NEW i \in DOMAIN Tail(s), NEW j \in DOMAIN Tail(s), Tail(s)[i] = Tail(s)[j]
      PROVE  i = j
  <2>1. i + 1 = j + 1
    BY <1>1, <1>2, <1>9 DEF Line
  <2> QED
    BY <1>1, <1>2, <2>1
<1> QED
  BY <1>8, <1>9 DEF Line

LEMMA WithoutLine ==
  ASSUME NEW s \in Seq(Actors), NEW W, Line(s, W), NEW a
  PROVE  Line(Without(s, a), W \ {a})
<1> DEFINE at == {i \in DOMAIN s : s[i] = a}
           n == CHOOSE i \in at : TRUE
           r == Without(s, a)
<1>0. DOMAIN s = 1..Len(s) /\ Len(s) \in Nat /\ \A i \in 1..Len(s) : s[i] \in Actors
  OBVIOUS
<1>1. CASE at = {}
  <2>1. r = s /\ a \notin W
    BY <1>1 DEF Without, Line
  <2> QED
    BY <2>1 DEF Line
<1>2. CASE at # {}
  <2>1. n \in 1..Len(s) /\ s[n] = a
    BY <1>2
  <2>2. r = SubSeq(s, 1, n - 1) \o SubSeq(s, n + 1, Len(s))
    BY <1>2 DEF Without
  <2> HIDE DEF n, r
  <2>3. /\ SubSeq(s, 1, n - 1) \in Seq(Actors)
        /\ Len(SubSeq(s, 1, n - 1)) = n - 1
        /\ \A i \in 1..(n - 1) : SubSeq(s, 1, n - 1)[i] = s[i]
    BY <1>0, <2>1, SubSeqProperties
  <2>4. /\ SubSeq(s, n + 1, Len(s)) \in Seq(Actors)
        /\ Len(SubSeq(s, n + 1, Len(s))) = Len(s) - n
        /\ \A i \in 1..(Len(s) - n) : SubSeq(s, n + 1, Len(s))[i] = s[n + i]
    <3>1. \A i \in (n + 1)..Len(s) : s[i] \in Actors
      BY <1>0, <2>1
    <3>2. /\ SubSeq(s, n + 1, Len(s)) \in Seq(Actors)
          /\ Len(SubSeq(s, n + 1, Len(s)))
               = IF n + 1 <= Len(s) THEN Len(s) - (n + 1) + 1 ELSE 0
          /\ \A i \in 1..(Len(s) - (n + 1) + 1) :
               SubSeq(s, n + 1, Len(s))[i] = s[(n + 1) + i - 1]
      BY <1>0, <2>1, <3>1, SubSeqProperties
    <3>3. /\ (IF n + 1 <= Len(s) THEN Len(s) - (n + 1) + 1 ELSE 0) = Len(s) - n
          /\ Len(s) - (n + 1) + 1 = Len(s) - n
      <4>1. \A k \in Nat : \A m \in 1..k :
              /\ k - (m + 1) + 1 = k - m
              /\ (IF m + 1 <= k THEN k - (m + 1) + 1 ELSE 0) = k - m
        OBVIOUS
      <4> QED
        BY <1>0, <2>1, <4>1, Zenon
    <3>4. \A i \in 1..(Len(s) - n) : (n + 1) + i - 1 = n + i
      BY <1>0, <2>1
    <3>5. \A i \in 1..(Len(s) - n) : SubSeq(s, n + 1, Len(s))[i] = s[n + i]
      <4> SUFFICES ASSUME NEW i \in 1..(Len(s) - n)
                   PROVE  SubSeq(s, n + 1, Len(s))[i] = s[n + i]
        OBVIOUS
      <4>1. i \in 1..(Len(s) - (n + 1) + 1) /\ (n + 1) + i - 1 = n + i
        BY <3>3, <3>4
      <4> QED
        BY <3>2, <4>1, Zenon
    <3> QED
      BY <3>2, <3>3, <3>5, Zenon
  <2>5. /\ DOMAIN r = 1..(Len(s) - 1)
        /\ \A i \in 1..(Len(s) - 1) : r[i] = IF i < n THEN s[i] ELSE s[i + 1]
    <3>1. /\ r \in Seq(Actors) /\ Len(r) = (n - 1) + (Len(s) - n)
          /\ \A i \in 1..((n - 1) + (Len(s) - n)) :
               r[i] = IF i <= n - 1 THEN SubSeq(s, 1, n - 1)[i]
                      ELSE SubSeq(s, n + 1, Len(s))[i - (n - 1)]
      BY <2>2, <2>3, <2>4, ConcatProperties
    <3>2. Len(r) = Len(s) - 1 /\ DOMAIN r = 1..(Len(s) - 1)
      BY <1>0, <2>1, <3>1
    <3>3. ASSUME NEW i \in 1..(Len(s) - 1)
          PROVE  r[i] = IF i < n THEN s[i] ELSE s[i + 1]
      <4>1. CASE i < n
        <5>1. i \in 1..(n - 1) /\ i <= n - 1 /\ i \in 1..((n - 1) + (Len(s) - n))
          BY <1>0, <2>1, <4>1
        <5> QED
          BY <2>3, <3>1, <4>1, <5>1
      <4>2. CASE ~(i < n)
        <5>1. /\ i - (n - 1) \in 1..(Len(s) - n) /\ ~(i <= n - 1)
              /\ i \in 1..((n - 1) + (Len(s) - n)) /\ n + (i - (n - 1)) = i + 1
          BY <1>0, <2>1, <4>2
        <5> QED
          BY <2>4, <3>1, <4>2, <5>1
      <4> QED
        BY <4>1, <4>2
    <3> QED
      BY <3>2, <3>3
  \* Position i of the rest is position Place(i) of the queue.
  <2> DEFINE Place(i) == IF i < n THEN i ELSE i + 1
  <2>6. \A i \in 1..(Len(s) - 1) : /\ Place(i) \in 1..Len(s) /\ Place(i) # n
                                   /\ r[i] = s[Place(i)]
    BY <1>0, <2>1, <2>5
  <2>7. \A k \in 1..Len(s) : k # n => \E i \in 1..(Len(s) - 1) : Place(i) = k
    <3> SUFFICES ASSUME NEW k \in 1..Len(s), k # n
                 PROVE  \E i \in 1..(Len(s) - 1) : Place(i) = k
      OBVIOUS
    <3>1. CASE k < n
      <4>1. k \in 1..(Len(s) - 1) /\ Place(k) = k
        BY <1>0, <2>1, <3>1
      <4> QED
        BY <4>1
    <3>2. CASE k > n
      <4>1. k - 1 \in 1..(Len(s) - 1) /\ Place(k - 1) = k
        BY <1>0, <2>1, <3>2
      <4> QED
        BY <4>1
    <3> QED
      BY <1>0, <2>1, <3>1, <3>2
  <2>8. \A i, j \in 1..(Len(s) - 1) : Place(i) = Place(j) => i = j
    BY <1>0, <2>1
  <2> HIDE DEF Place
  <2>9. \A k \in 1..Len(s) : s[k] = a => k = n
    BY <1>0, <2>1 DEF Line
  <2>10. {r[i] : i \in DOMAIN r} = W \ {a}
    <3>1. \A x : x \in W <=> \E k \in 1..Len(s) : x = s[k]
      BY <1>0 DEF Line
    <3>2. \A x : x \in W \ {a} => \E i \in 1..(Len(s) - 1) : x = r[i]
      <4> SUFFICES ASSUME NEW x \in W \ {a}
                   PROVE  \E i \in 1..(Len(s) - 1) : x = r[i]
        OBVIOUS
      <4>1. PICK k \in 1..Len(s) : x = s[k]
        BY <3>1
      <4>2. PICK i \in 1..(Len(s) - 1) : Place(i) = k
        BY <2>1, <2>7, <4>1
      <4>3. x = r[i]
        BY <2>6, <4>1, <4>2
      <4> QED
        BY <4>3
    <3>3. \A i \in 1..(Len(s) - 1) : r[i] \in W \ {a}
      BY <2>6, <2>9, <3>1
    <3> QED
      BY <2>5, <3>2, <3>3
  <2>11. \A i, j \in DOMAIN r : r[i] = r[j] => i = j
    BY <1>0, <2>5, <2>6, <2>8 DEF Line
  <2> QED
    BY <2>10, <2>11 DEF Line, r
<1> QED
  BY <1>1, <1>2

\* What the actions do to the queues.
LEMMA AskLine ==
  ASSUME waiting \in Queues, LineInv, NEW l \in Locks, NEW a \in Actors, Ask(l, a),
         a \notin Wanting(l), Wanting(l)' = Wanting(l) \cup {a},
         \A m \in Locks \ {l} : Wanting(m)' = Wanting(m)
  PROVE  LineInv'
<1>1. waiting'[l] = Append(waiting[l], a)
      /\ \A m \in Locks \ {l} : waiting'[m] = waiting[m]
  BY DEF Ask, Queues
<1>2. Line(waiting'[l], Wanting(l)')
  BY <1>1, AppendLine DEF LineInv, Queues
<1>3. \A m \in Locks \ {l} : Line(waiting'[m], Wanting(m)')
  BY <1>1 DEF LineInv
<1> QED
  BY <1>2, <1>3 DEF LineInv, Line

LEMMA AnsweredLine ==
  ASSUME waiting \in Queues, LineInv, NEW l \in Locks, NEW a, Turn(l, a), Answered(l),
         Wanting(l)' = Wanting(l) \ {a},
         \A m \in Locks \ {l} : Wanting(m)' = Wanting(m)
  PROVE  LineInv'
<1>1. waiting'[l] = Tail(waiting[l]) /\ waiting[l] # <<>> /\ Head(waiting[l]) = a
      /\ \A m \in Locks \ {l} : waiting'[m] = waiting[m]
  BY DEF Answered, Turn, Queues
<1>2. Line(waiting'[l], Wanting(l)')
  BY <1>1, TailLine DEF LineInv, Queues
<1>3. \A m \in Locks \ {l} : Line(waiting'[m], Wanting(m)')
  BY <1>1 DEF LineInv
<1> QED
  BY <1>2, <1>3 DEF LineInv, Line

LEMMA AnsweredAsksLine ==
  ASSUME waiting \in Queues, LineInv, NEW l \in Locks, NEW m \in Locks, l # m,
         NEW a \in Actors, Turn(l, a), AnsweredAsks(l, m, a),
         Wanting(l)' = Wanting(l) \ {a},
         a \notin Wanting(m), Wanting(m)' = Wanting(m) \cup {a}
  PROVE  LineInv'
<1>1. /\ waiting'[l] = Tail(waiting[l]) /\ waiting[l] # <<>> /\ Head(waiting[l]) = a
      /\ waiting'[m] = Append(waiting[m], a)
  BY DEF AnsweredAsks, Turn, Queues
<1>2. Line(waiting'[l], Wanting(l)')
  BY <1>1, TailLine DEF LineInv, Queues
<1>3. Line(waiting'[m], Wanting(m)')
  BY <1>1, AppendLine DEF LineInv, Queues
<1>4. \A k \in Locks : k = l \/ k = m
  BY DEF Locks
<1> QED
  BY <1>2, <1>3, <1>4 DEF LineInv, Line

LEMMA SameLine ==
  ASSUME LineInv, waiting' = waiting, \A l \in Locks : Wanting(l)' = Wanting(l)
  PROVE  LineInv'
BY DEF LineInv, Line

LEMMA GoneLine ==
  ASSUME waiting \in Queues, RestOK, HeldInv, LineInv, NEW c \in Conns, Gone(c)
  PROVE  LineInv'
<1>1. \A l \in Locks : waiting'[l] = Without(waiting[l], c)
  BY DEF Gone
<1>2. /\ reader' = [reader EXCEPT ![c] = "done"] /\ main' = main
      /\ \A l \in Locks : holds'[l] = holds[l] \ {c}
  BY DEF Gone
<1>3. \A l \in Locks : Wanting(l)' = Wanting(l) \ {c}
  BY <1>2 DEF Wanting, Locks, Calling, Program, Conns, RestOK
<1>4. \A l \in Locks : Line(waiting'[l], Wanting(l)')
  BY <1>1, <1>3, WithoutLine DEF LineInv, Queues
<1> QED
  BY <1>4 DEF LineInv, Line

LEMMA LineInit == Init => LineInv
BY DEF Init, LineInv, Line, Wanting, Locks, Calling

LEMMA LineStep ==
  ASSUME waiting \in Queues, RestOK, HeldInv, LineInv, [Next]_vars PROVE LineInv'
<1> USE DEF Wanting, Locks, Calling, Program, Conns
<1>1. CASE Register
  <2>1. Ask("callbacks", Program) /\ Program \notin Wanting("callbacks")
    BY <1>1 DEF Register, RestOK, FreshInv, Enter, Leave, locks, tasks
  <2>2. Wanting("callbacks")' = Wanting("callbacks") \cup {Program} /\ Wanting("options")' = Wanting("options")
    BY <1>1 DEF Register, RestOK, FreshInv, Enter, Leave, locks, tasks
  <2> QED
    BY <2>1, <2>2, AskLine, Given
<1>2. ASSUME NEW e \in Registrable, Registered(e) PROVE LineInv'
  <2>1. Turn("callbacks", Program) /\ Answered("callbacks")
    BY <1>2 DEF Registered, RestOK, FreshInv, Enter, Leave, locks, tasks
  <2>2. Wanting("callbacks")' = Wanting("callbacks") \ {Program} /\ Wanting("options")' = Wanting("options")
    BY <1>2 DEF Registered, RestOK, FreshInv, Enter, Leave, locks, tasks
  <2> QED
    BY <2>1, <2>2, AnsweredLine, Given
<1>3. CASE Connect
  <2>1. Ask("options", Program) /\ Program \notin Wanting("options")
    BY <1>3 DEF Connect, RestOK, FreshInv, Enter, Leave, locks, tasks
  <2>2. Wanting("options")' = Wanting("options") \cup {Program} /\ Wanting("callbacks")' = Wanting("callbacks")
    BY <1>3 DEF Connect, RestOK, FreshInv, Enter, Leave, locks, tasks
  <2> QED
    BY <2>1, <2>2, AskLine, Given
<1>4. CASE Dial
  <2>1. Turn("options", Program) /\ Answered("options")
    BY <1>4 DEF Dial, RestOK, FreshInv, Enter, Leave, locks, tasks
  <2>2. Wanting("options")' = Wanting("options") \ {Program} /\ Wanting("callbacks")' = Wanting("callbacks")
    BY <1>4 DEF Dial, RestOK, FreshInv, Enter, Leave, locks, tasks
  <2> QED
    BY <2>1, <2>2, AnsweredLine, Given
<1>5. CASE DialFails
  <2>1. waiting' = waiting /\ \A l \in Locks : Wanting(l)' = Wanting(l)
    BY <1>5 DEF DialFails, RestOK, FreshInv, Enter, Leave, locks, tasks
  <2> QED
    BY <2>1, SameLine
<1>6. CASE Established
  <2>1. Ask("options", Program) /\ Program \notin Wanting("options")
    BY <1>6 DEF Established, RestOK, FreshInv, Enter, Leave, locks, tasks
  <2>2. Wanting("options")' = Wanting("options") \cup {Program} /\ Wanting("callbacks")' = Wanting("callbacks")
    BY <1>6 DEF Established, RestOK, FreshInv, Enter, Leave, locks, tasks
  <2> QED
    BY <2>1, <2>2, AskLine, Given
<1>7. CASE Spawned
  <2>1. Turn("options", Program) /\ AnsweredAsks("options", "callbacks", Program) /\ Program \notin Wanting("callbacks")
    BY <1>7 DEF Spawned, RestOK, FreshInv, Enter, Leave, locks, tasks
  <2>2. Wanting("options")' = Wanting("options") \ {Program} /\ Wanting("callbacks")' = Wanting("callbacks") \cup {Program}
    BY <1>7 DEF Spawned, RestOK, FreshInv, Enter, Leave, locks, tasks
  <2> QED
    BY <2>1, <2>2, AnsweredAsksLine, Given
<1>8. CASE EmitConnect
  <2>1. Turn("callbacks", Program) /\ AnsweredAsks("callbacks", "options", Program) /\ Program \notin Wanting("options")
    BY <1>8 DEF EmitConnect, RestOK, FreshInv, Enter, Leave, locks, tasks
  <2>2. Wanting("callbacks")' = Wanting("callbacks") \ {Program} /\ Wanting("options")' = Wanting("options") \cup {Program}
    BY <1>8 DEF EmitConnect, RestOK, FreshInv, Enter, Leave, locks, tasks
  <2> QED
    BY <2>1, <2>2, AnsweredAsksLine, Given
<1>9. CASE Greet
  <2>1. Turn("options", Program) /\ Answered("options")
    BY <1>9 DEF Greet, RestOK, FreshInv, Enter, Leave, locks, tasks
  <2>2. Wanting("options")' = Wanting("options") \ {Program} /\ Wanting("callbacks")' = Wanting("callbacks")
    BY <1>9 DEF Greet, RestOK, FreshInv, Enter, Leave, locks, tasks
  <2> QED
    BY <2>1, <2>2, AnsweredLine, Given
<1>10. CASE Disconnect
  <2>1. Ask("options", Program) /\ Program \notin Wanting("options")
    BY <1>10 DEF Disconnect, RestOK, FreshInv, Enter, Leave, locks, tasks
  <2>2. Wanting("options")' = Wanting("options") \cup {Program} /\ Wanting("callbacks")' = Wanting("callbacks")
    BY <1>10 DEF Disconnect, RestOK, FreshInv, Enter, Leave, locks, tasks
  <2> QED
    BY <2>1, <2>2, AskLine, Given
<1>11. CASE Revoke
  <2>1. Turn("options", Program) /\ Answered("options")
    BY <1>11 DEF Revoke, RestOK, FreshInv, Enter, Leave, locks, tasks
  <2>2. Wanting("options")' = Wanting("options") \ {Program} /\ Wanting("callbacks")' = Wanting("callbacks")
    BY <1>11 DEF Revoke, RestOK, FreshInv, Enter, Leave, locks, tasks
  <2> QED
    BY <2>1, <2>2, AnsweredLine, Given
<1>12. CASE Cleanup
  <2>1. waiting' = waiting /\ \A l \in Locks : Wanting(l)' = Wanting(l)
    BY <1>12 DEF Cleanup, RestOK, FreshInv, Enter, Leave, locks, tasks
  <2> QED
    BY <2>1, SameLine
<1>13. CASE Drop
  <2>1. waiting' = waiting /\ \A l \in Locks : Wanting(l)' = Wanting(l)
    BY <1>13 DEF Drop, RestOK, FreshInv, Enter, Leave, locks, tasks
  <2> QED
    BY <2>1, SameLine
<1>14. ASSUME NEW c \in Conns, Loop(c) PROVE LineInv'
  <2>1. waiting' = waiting /\ \A l \in Locks : Wanting(l)' = Wanting(l)
    BY <1>14 DEF Loop, AskToCall, RestOK, HeldInv, FreshInv, Enter, Leave, locks, tasks
  <2> QED
    BY <2>1, SameLine
<1>15. ASSUME NEW c \in Conns, NEW kind \in DOMAIN Owed, Frame(c, kind) PROVE LineInv'
  <2>1. Ask("callbacks", c) /\ c \notin Wanting("callbacks")
    BY <1>15 DEF Frame, AskToCall, RestOK, HeldInv, FreshInv, Enter, Leave, locks, tasks
  <2>2. /\ Wanting("callbacks")' = Wanting("callbacks") \cup {c}
        /\ Wanting("options")' = Wanting("options")
    BY <1>15 DEF Frame, AskToCall, RestOK, HeldInv, FreshInv, Enter, Leave, locks, tasks
  <2> QED
    BY <2>1, <2>2, AskLine, Given
<1>16. ASSUME NEW c \in Conns, ReadFails(c) PROVE LineInv'
  <2>1. Ask("callbacks", c) /\ c \notin Wanting("callbacks")
    BY <1>16 DEF ReadFails, AskToCall, RestOK, HeldInv, FreshInv, Enter, Leave, locks, tasks
  <2>2. /\ Wanting("callbacks")' = Wanting("callbacks") \cup {c}
        /\ Wanting("options")' = Wanting("options")
    BY <1>16 DEF ReadFails, AskToCall, RestOK, HeldInv, FreshInv, Enter, Leave, locks, tasks
  <2> QED
    BY <2>1, <2>2, AskLine, Given
<1>27. ASSUME NEW c \in Conns, BadHeader(c) PROVE LineInv'
  <2>1. Ask("callbacks", c) /\ c \notin Wanting("callbacks")
    BY <1>27 DEF BadHeader, AskToCall, RestOK, HeldInv, FreshInv, Enter, Leave, locks, tasks
  <2>2. /\ Wanting("callbacks")' = Wanting("callbacks") \cup {c}
        /\ Wanting("options")' = Wanting("options")
    BY <1>27 DEF BadHeader, AskToCall, RestOK, HeldInv, FreshInv, Enter, Leave, locks, tasks
  <2> QED
    BY <2>1, <2>2, AskLine, Given
<1>17. ASSUME NEW c \in Conns, ReadEnds(c) PROVE LineInv'
  <2>1. waiting' = waiting /\ \A l \in Locks : Wanting(l)' = Wanting(l)
    BY <1>17 DEF ReadEnds, AskToCall, RestOK, HeldInv, FreshInv, Enter, Leave, locks, tasks
  <2> QED
    BY <2>1, SameLine
<1>18. ASSUME NEW c \in Conns, Swap(c) PROVE LineInv'
  <2>1. CASE connected
    <3>1. Ask("callbacks", c) /\ c \notin Wanting("callbacks")
      BY <1>18, <2>1 DEF Swap, AskToCall, RestOK, HeldInv, FreshInv, Enter, Leave, locks, tasks
    <3>2. /\ Wanting("callbacks")' = Wanting("callbacks") \cup {c}
          /\ Wanting("options")' = Wanting("options")
      BY <1>18, <2>1 DEF Swap, AskToCall, RestOK, HeldInv, FreshInv, Enter, Leave, locks, tasks
    <3> QED
      BY <3>1, <3>2, AskLine, Given
  <2>2. CASE ~connected
    <3>1. Ask("options", c) /\ c \notin Wanting("options")
      BY <1>18, <2>2 DEF Swap, AskToCall, RestOK, HeldInv, FreshInv, Enter, Leave, locks, tasks
    <3>2. /\ Wanting("options")' = Wanting("options") \cup {c}
          /\ Wanting("callbacks")' = Wanting("callbacks")
      BY <1>18, <2>2 DEF Swap, AskToCall, RestOK, HeldInv, FreshInv, Enter, Leave, locks, tasks
    <3> QED
      BY <3>1, <3>2, AskLine, Given
  <2> QED
    BY <2>1, <2>2
<1>19. ASSUME NEW c \in Conns, Decide(c) PROVE LineInv'
  <2>1. Turn("options", c) /\ reader[c] = "deciding" /\ main' = main
    BY <1>19 DEF Decide
  <2>2. CASE auto_reconnect /\ running
    <3>1. /\ AnsweredAsks("options", "callbacks", c)
          /\ \E state \in {"announcing", "exhausted"} : reader' = [reader EXCEPT ![c] = state]
          /\ holds'["callbacks"] = holds["callbacks"]
      BY <1>19, <2>2 DEF Decide, Enter, RestOK
    <3>2. c \notin Wanting("callbacks") /\ c \notin holds["callbacks"]
      BY <2>1 DEF HeldInv
    <3>3. /\ Wanting("callbacks")' = Wanting("callbacks") \cup {c}
          /\ Wanting("options")' = Wanting("options") \ {c}
      BY <2>1, <3>1, <3>2 DEF RestOK
    <3> QED
      BY <2>1, <3>1, <3>2, <3>3, AnsweredAsksLine, Given
  <2>3. CASE ~(auto_reconnect /\ running)
    <3>1. /\ Answered("options") /\ reader' = [reader EXCEPT ![c] = "done"]
          /\ holds' = holds
      BY <1>19, <2>3 DEF Decide
    <3>2. /\ Wanting("options")' = Wanting("options") \ {c}
          /\ Wanting("callbacks")' = Wanting("callbacks")
      BY <2>1, <3>1 DEF RestOK
    <3> QED
      BY <2>1, <3>1, <3>2, AnsweredLine, Given
  <2> QED
    BY <2>2, <2>3
<1>20. ASSUME NEW c \in Conns, GetIn(c) PROVE LineInv'
  <2>1. Turn("callbacks", c) /\ Answered("callbacks")
    BY <1>20 DEF GetIn, AskToCall, RestOK, HeldInv, FreshInv, Enter, Leave, locks, tasks
  <2>2. /\ Wanting("callbacks")' = Wanting("callbacks") \ {c}
        /\ Wanting("options")' = Wanting("options")
    BY <1>20 DEF GetIn, AskToCall, RestOK, HeldInv, FreshInv, Enter, Leave, locks, tasks
  <2> QED
    BY <2>1, <2>2, AnsweredLine, Given
<1>21. ASSUME NEW c \in Conns, Call(c) PROVE LineInv'
  <2>1. waiting' = waiting /\ \A l \in Locks : Wanting(l)' = Wanting(l)
    BY <1>21 DEF Call, AskToCall, RestOK, HeldInv, FreshInv, Enter, Leave, locks, tasks
  <2> QED
    BY <2>1, SameLine
<1>22. ASSUME NEW c \in Conns, Called(c) PROVE LineInv'
  <2>1. c \in holds["callbacks"] /\ main' = main
    BY <1>22 DEF Called
  <2>2. CASE reader[c] \in {"frame", "bad", "failed"}
    <3>1. /\ waiting' = waiting
          /\ \E state \in {"handling", "ended"} : reader' = [reader EXCEPT ![c] = state]
          /\ holds'["callbacks"] = holds["callbacks"] \ {c}
      BY <1>22, <2>2 DEF Called, Leave, RestOK
    <3>2. \A d \in Conns :
            /\ (reader'[d] \in Calling /\ d \notin holds'["callbacks"])
                 <=> (reader[d] \in Calling /\ d \notin holds["callbacks"])
            /\ reader'[d] = "deciding" <=> reader[d] = "deciding"
      BY <2>1, <2>2, <3>1 DEF RestOK
    <3>3. \A l \in Locks : Wanting(l)' = Wanting(l)
      BY <2>1, <3>2
    <3> QED
      BY <3>1, <3>3, SameLine
  <2>3. CASE reader[c] = "falling"
    <3>1. /\ Ask("options", c)
          /\ reader' = [reader EXCEPT ![c] = "deciding"]
          /\ holds'["callbacks"] = holds["callbacks"] \ {c}
      BY <1>22, <2>3 DEF Called, Leave, RestOK
    <3>2. /\ Wanting("options")' = Wanting("options") \cup {c}
          /\ Wanting("callbacks")' = Wanting("callbacks")
          /\ c \notin Wanting("options")
      BY <2>1, <2>3, <3>1 DEF RestOK
    <3> QED
      BY <3>1, <3>2, AskLine, Given
  <2>4. CASE reader[c] \in {"announcing", "exhausted"}
    <3>1. /\ waiting' = waiting
          /\ \E state \in {"sleeping", "done"} : reader' = [reader EXCEPT ![c] = state]
          /\ holds'["callbacks"] = holds["callbacks"] \ {c}
      BY <1>22, <2>4 DEF Called
    <3>2. \A d \in Conns :
            /\ (reader'[d] \in Calling /\ d \notin holds'["callbacks"])
                 <=> (reader[d] \in Calling /\ d \notin holds["callbacks"])
            /\ reader'[d] = "deciding" <=> reader[d] = "deciding"
      BY <2>1, <2>4, <3>1 DEF RestOK
    <3>3. \A l \in Locks : Wanting(l)' = Wanting(l)
      BY <2>1, <3>2
    <3> QED
      BY <3>1, <3>3, SameLine
  <2> QED
    BY <1>22, <2>2, <2>3, <2>4 DEF Called
<1>23. ASSUME NEW c \in Conns, SleepEnds(c) PROVE LineInv'
  <2>1. waiting' = waiting /\ \A l \in Locks : Wanting(l)' = Wanting(l)
    BY <1>23 DEF SleepEnds, AskToCall, RestOK, HeldInv, FreshInv, Enter, Leave, locks, tasks
  <2> QED
    BY <2>1, SameLine
<1>24. ASSUME NEW c \in Conns, Aborted(c) PROVE LineInv'
  BY <1>24, GoneLine DEF Aborted
<1>25. ASSUME NEW c \in Conns, Panics(c) PROVE LineInv'
  BY <1>25, GoneLine DEF Panics
<1>26. CASE UNCHANGED vars
  BY <1>26, SameLine DEF vars, tasks, locks
<1> QED
  BY <1>1, <1>2, <1>3, <1>4, <1>5, <1>6, <1>7, <1>8, <1>9, <1>10, <1>11, <1>12, <1>13,
     <1>14, <1>15, <1>16, <1>17, <1>18, <1>19, <1>20, <1>21, <1>22, <1>23, <1>24, <1>25, <1>26, <1>27 DEF Next, Caller, Reader

LEMMA Invariant == Spec => [](TypeInv /\ LockInv /\ LineInv)
<1>1. TypeInv /\ LockInv /\ LineInv /\ [Next]_vars => (TypeInv /\ LockInv /\ LineInv)'
  BY Parts, PartsLater, QueuesStep, TodoStep, RestStep, LockStep, LineStep DEF LockInv
<1>2. Init => TypeInv /\ LockInv /\ LineInv
  BY TypeInit, LockInit, LineInit
<1> QED
  BY <1>1, <1>2, PTL DEF Spec

(***************************************************************************)
(* Every variable has its type: no more connections than there may be, and *)
(* nobody but the program and the read tasks at the locks.                 *)
(***************************************************************************)
THEOREM Typed == Spec => []TypeOK
<1>1. TypeInv => TypeOK
  BY DEF TypeInv
<1> QED
  BY <1>1, Invariant, PTL

(***************************************************************************)
(* After disconnect() no reconnection is announced, by whichever task.     *)
(***************************************************************************)
THEOREM SilentAfterRevoke == Spec => []RevokedIsSilent
<1>1. LockInv => RevokedIsSilent
  BY DEF LockInv
<1> QED
  BY <1>1, Invariant, PTL

(***************************************************************************)
(* No lock is held across a read, a delay or the end of a call or a task,  *)
(* and nobody waits for one without a place in its queue, or has two.      *)
(***************************************************************************)
THEOREM LocksAreLetGo == Spec => []NoLockIsForgotten
<1>1. LockInv /\ LineInv => NoLockIsForgotten
  BY DEF LockInv, HeldInv, LineInv, Line, NoLockIsForgotten, Queued
<1> QED
  BY <1>1, Invariant, PTL

(***************************************************************************)
(* The lists that a frame is passed through are of one moment.             *)
(***************************************************************************)
THEOREM OneRegistration == Spec => FrameSeesOneRegistration
<1>1. TypeInv /\ LockInv /\ [Next]_vars =>
        [lists' # lists => \A c \in Conns : ~WithinAFrame(c)]_vars
  <2> SUFFICES ASSUME LockInv, [Next]_vars, lists' # lists, NEW c \in Conns, WithinAFrame(c)
               PROVE  FALSE
    OBVIOUS
  <2>1. c \in holds["callbacks"]
    BY DEF LockInv
  <2>2. \E e \in Registrable : Registered(e)
    BY DEF Next, Caller, Reader, Register, Connect, Dial, DialFails, Established,
           Spawned, EmitConnect, Greet, Disconnect, Revoke, Cleanup, Drop, Loop,
           Frame, BadHeader, ReadFails, ReadEnds, Swap, Decide, GetIn, Call, Called, SleepEnds,
           Aborted, Panics, Gone, vars
  <2> QED
    BY <2>1, <2>2 DEF Registered, NobodyInside
<1> QED
  BY <1>1, Invariant, PTL DEF Spec, FrameSeesOneRegistration

-----------------------------------------------------------------------------
(* Nobody waits in a circle. *)

LEMMA LeastNatural ==
  ASSUME NEW T \in SUBSET Nat, T # {}
  PROVE  \E x \in T : \A y \in T : ~(y < x)
<1> DEFINE R == {p \in Nat \X Nat : p[1] < p[2]}
<1>1. IsWellFoundedOn(R, Nat)
  BY NatLessThanWellFounded DEF OpToRel
<1>2. \A x, y \in Nat : <<y, x>> \in R <=> y < x
  OBVIOUS
<1> HIDE DEF R
<1>3. PICK x \in T : \A y \in T : ~(<<y, x>> \in R)
  BY <1>1, WFMin
<1>4. \A y \in T : ~(y < x)
  BY <1>2, <1>3
<1> QED
  BY <1>4

\* How far a is from getting in: the queue of the callbacks comes before that of
\* the options, since who has the options may wait for the callbacks, and nobody
\* who has the callbacks keeps one out that waits for them.
Distance(a) ==
  IF a \in Wanting("callbacks")
    THEN CHOOSE i \in DOMAIN waiting["callbacks"] : waiting["callbacks"][i] = a
    ELSE IF a \in Wanting("options")
           THEN Len(waiting["callbacks"])
                  + CHOOSE i \in DOMAIN waiting["options"] : waiting["options"][i] = a
           ELSE 0

\* Nobody wants both locks at a time.
LEMMA WantsOne ==
  ASSUME NEW a \in Wanting("callbacks")
  PROVE  a \notin Wanting("options")
BY DEF Wanting, Calling, Conns, Program

LEMMA Places ==
  ASSUME waiting \in Queues, LineInv
  PROVE  /\ \A l \in Locks : DOMAIN waiting[l] = 1..Len(waiting[l]) /\ Len(waiting[l]) \in Nat
         /\ \A i \in DOMAIN waiting["callbacks"] :
              /\ waiting["callbacks"][i] \in Wanting("callbacks")
              /\ Distance(waiting["callbacks"][i]) = i
         /\ \A i \in DOMAIN waiting["options"] :
              /\ waiting["options"][i] \in Wanting("options")
              /\ Distance(waiting["options"][i]) = Len(waiting["callbacks"]) + i
         /\ \A a : a \notin Wanting("callbacks") /\ a \notin Wanting("options")
                     => Distance(a) = 0
<1>1. \A l \in Locks : DOMAIN waiting[l] = 1..Len(waiting[l]) /\ Len(waiting[l]) \in Nat
  BY DEF Queues
<1>2. ASSUME NEW i \in DOMAIN waiting["callbacks"]
      PROVE  /\ waiting["callbacks"][i] \in Wanting("callbacks")
             /\ Distance(waiting["callbacks"][i]) = i
  <2>1. Line(waiting["callbacks"], Wanting("callbacks"))
    BY Given DEF LineInv
  <2>2. waiting["callbacks"][i] \in Wanting("callbacks")
    BY <2>1 DEF Line
  <2>3. \A j \in DOMAIN waiting["callbacks"] :
          waiting["callbacks"][j] = waiting["callbacks"][i] => j = i
    BY <2>1 DEF Line
  <2>4. (CHOOSE j \in DOMAIN waiting["callbacks"] :
           waiting["callbacks"][j] = waiting["callbacks"][i]) = i
    BY <2>3
  <2> QED
    BY <2>2, <2>4 DEF Distance
<1>3. ASSUME NEW i \in DOMAIN waiting["options"]
      PROVE  /\ waiting["options"][i] \in Wanting("options")
             /\ Distance(waiting["options"][i]) = Len(waiting["callbacks"]) + i
  <2>1. Line(waiting["options"], Wanting("options"))
    BY Given DEF LineInv
  <2>2. waiting["options"][i] \in Wanting("options")
    BY <2>1 DEF Line
  <2>3. \A j \in DOMAIN waiting["options"] :
          waiting["options"][j] = waiting["options"][i] => j = i
    BY <2>1 DEF Line
  <2>4. (CHOOSE j \in DOMAIN waiting["options"] :
           waiting["options"][j] = waiting["options"][i]) = i
    BY <2>3
  <2>5. waiting["options"][i] \notin Wanting("callbacks")
    BY <2>2, WantsOne
  <2> QED
    BY <2>2, <2>4, <2>5 DEF Distance
<1>4. \A a : a \notin Wanting("callbacks") /\ a \notin Wanting("options") => Distance(a) = 0
  BY DEF Distance
<1> QED
  BY <1>1, <1>2, <1>3, <1>4

LEMMA DistanceIsNatural ==
  ASSUME waiting \in Queues, LineInv, NEW a
  PROVE  Distance(a) \in Nat
<1>1. CASE a \in Wanting("callbacks")
  <2>1. PICK i \in DOMAIN waiting["callbacks"] : waiting["callbacks"][i] = a
    BY <1>1, Given DEF LineInv, Line
  <2> QED
    BY <2>1, Places, Given
<1>2. CASE a \in Wanting("options")
  <2>1. PICK i \in DOMAIN waiting["options"] : waiting["options"][i] = a
    BY <1>2, Given DEF LineInv, Line
  <2> QED
    BY <2>1, Places, Given
<1>3. CASE a \notin Wanting("callbacks") /\ a \notin Wanting("options")
  BY <1>3, Places
<1> QED
  BY <1>1, <1>2, <1>3

LEMMA WaitsForNearer ==
  ASSUME waiting \in Queues, HeldInv, LineInv, NEW a, NEW b \in Actors, WaitsFor(a, b)
  PROVE  Distance(b) < Distance(a)
<1>0. PICK l \in Locks : \E i \in DOMAIN waiting[l] :
        /\ waiting[l][i] = a
        /\ \/ \E j \in 1..(i - 1) : waiting[l][j] = b
           \/ b \in holds[l] /\ \E j \in 1..i : Writes(l, waiting[l][j])
  BY DEF WaitsFor
<1>1. PICK i \in DOMAIN waiting[l] :
        /\ waiting[l][i] = a
        /\ \/ \E j \in 1..(i - 1) : waiting[l][j] = b
           \/ b \in holds[l] /\ \E j \in 1..i : Writes(l, waiting[l][j])
  BY <1>0
<1>2. i \in 1..Len(waiting[l]) /\ Len(waiting["callbacks"]) \in Nat
      /\ Len(waiting[l]) \in Nat
  BY Places, Given
<1>3. ASSUME NEW j \in 1..(i - 1), waiting[l][j] = b
      PROVE  Distance(b) < Distance(a)
  <2>1. j < i /\ j \in DOMAIN waiting[l] /\ j \in Nat /\ i \in Nat
    BY <1>2, Places
  <2>2. CASE l = "callbacks"
    BY <1>1, <1>3, <2>1, <2>2, Places
  <2>3. CASE l = "options"
    <3>1. /\ Distance(a) = Len(waiting["callbacks"]) + i
          /\ Distance(b) = Len(waiting["callbacks"]) + j
      BY <1>1, <1>3, <2>1, <2>3, Places
    <3> QED
      BY <1>2, <2>1, <3>1
  <2> QED
    BY <2>2, <2>3 DEF Locks
<1>4. ASSUME b \in holds[l], NEW j \in 1..i, Writes(l, waiting[l][j])
      PROVE  Distance(b) < Distance(a)
  <2>1. CASE l = "callbacks"
    <3>1. main = "registering"
      BY <1>4, <2>1 DEF Writes
    <3>2. b \in Conns /\ reader[b] \in Calling
      BY <1>4, <2>1, <3>1 DEF HeldInv, Actors, Program
    <3>3. b \notin Wanting("callbacks") /\ b \notin Wanting("options")
      BY <1>4, <2>1, <3>2 DEF Wanting, Calling, Conns, Program
    <3>4. Distance(b) = 0 /\ Distance(a) = i
      BY <1>1, <2>1, <3>3, Places
    <3> QED
      BY <1>2, <3>4
  <2>2. CASE l = "options"
    <3>1. b # Program /\ reader[b] \in {"announcing", "exhausted"}
      BY <1>4, <2>2 DEF HeldInv
    <3>2. b \notin Wanting("options")
      BY <3>1 DEF Wanting
    <3>3. Distance(a) = Len(waiting["callbacks"]) + i
      BY <1>1, <2>2, Places
    <3>4. CASE b \in Wanting("callbacks")
      <4>1. PICK k \in DOMAIN waiting["callbacks"] : waiting["callbacks"][k] = b
        BY <3>4, Given DEF LineInv, Line
      <4>2. Distance(b) = k /\ k \in 1..Len(waiting["callbacks"])
        BY <4>1, Places, Given
      <4> QED
        BY <1>2, <3>3, <4>2
    <3>5. CASE b \notin Wanting("callbacks")
      <4>1. Distance(b) = 0
        BY <3>2, <3>5, Places
      <4> QED
        BY <1>2, <3>3, <4>1
    <3> QED
      BY <3>4, <3>5
  <2> QED
    BY <2>1, <2>2 DEF Locks
<1> QED
  BY <1>1, <1>3, <1>4

(***************************************************************************)
(* The two locks never lead the program and the read tasks, however many,  *)
(* into a deadlock: among any of them there is one that waits for none of  *)
(* the others.                                                             *)
(***************************************************************************)
THEOREM NoCircle == Spec => []NobodyWaitsInACircle
<1>1. TypeInv /\ LockInv /\ LineInv => NobodyWaitsInACircle
  <2> SUFFICES ASSUME waiting \in Queues, HeldInv, LineInv,
                      NEW S \in SUBSET Actors, S # {}
               PROVE  \E a \in S : \A b \in S : ~WaitsFor(a, b)
    BY Parts DEF LockInv, NobodyWaitsInACircle
  <2> DEFINE T == {Distance(a) : a \in S}
  <2>1. T \in SUBSET Nat /\ T # {}
    BY DistanceIsNatural
  <2>2. PICK x \in T : \A y \in T : ~(y < x)
    BY <2>1, LeastNatural
  <2>3. PICK a \in S : x = Distance(a)
    BY <2>2
  <2>4. \A b \in S : ~(Distance(b) < Distance(a))
    BY <2>2, <2>3
  <2> QED
    BY <2>3, <2>4, WaitsForNearer
<1> QED
  BY <1>1, Invariant, PTL

=============================================================================
