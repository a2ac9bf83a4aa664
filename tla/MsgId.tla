-------------------------------- MODULE MsgId --------------------------------
(***************************************************************************)
(* Message identifiers.  The three clients number a frame the same way:    *)
(* a counter is advanced, the wall clock is read, and the identifier is    *)
(* the clock, scaled, plus the counter.                                    *)
(*                                                                         *)
(*   Rust        fetch_add on an AtomicU64, then SystemTime in microseconds*)
(*   Python      self._msg_id_counter += 1, then time.time() * 1000000     *)
(*   TypeScript  this.msgIdCounter++, then Date.now() * 1000000n           *)
(*                                                                         *)
(* Advancing the counter and reading the clock are two steps.  In Rust the *)
(* callers of send_frame (which takes shared references) and the ping task *)
(* run on different threads, so that the steps of two generations can      *)
(* interleave; the other clients have one thread.                          *)
(***************************************************************************)
EXTENDS Integers, Sequences

CONSTANTS
  Threads,      \* threads of a program that uses the Rust client
  Main,         \* the one thread of the other clients
  Millisecond,  \* what a millisecond adds to an identifier: 1000000
  SetBackFor,   \* the clients during whose life the wall clock may be set back
  MaxIds,       \* bound: identifiers generated
  MaxClock      \* bound: clock ticks

Clients == {"rust", "python", "ts"}

ASSUME MsgIdAssumption ==
  /\ Main \in Threads
  /\ Millisecond \in Nat \ {0}
  /\ SetBackFor \subseteq Clients
  /\ MaxIds \in Nat
  /\ MaxClock \in Nat

VARIABLES
  client,       \* which client
  clock,        \* the wall clock, in ticks
  counter,      \* msg_id_counter
  pc,           \* "idle", or "stamping" between the counter and the clock
  count,        \* the count a stamping thread has taken
  began,        \* how many identifiers were complete when it took it
  log           \* history: the identifiers, in the order they were completed

vars == <<client, clock, counter, pc, count, began, log>>

\* What a tick of the clock adds: the other clients count microseconds.
Scale == IF client = "ts" THEN Millisecond ELSE 1

\* The count of the first identifier: fetch_add returns what was there before.
First == IF client = "rust" THEN 0 ELSE 1

Callers == IF client = "rust" THEN Threads ELSE {Main}

ClockSteps == client \in SetBackFor

Entries == [id : Nat, count : Nat, stamp : Nat, began : Nat]

TypeOK ==
  /\ client \in Clients
  /\ clock \in Nat
  /\ counter \in Nat
  /\ pc \in [Threads -> {"idle", "stamping"}]
  /\ count \in [Threads -> Nat]
  /\ began \in [Threads -> Nat]
  /\ log \in Seq(Entries)

Init ==
  /\ client \in Clients
  /\ clock = 0
  /\ counter = 0
  /\ pc = [t \in Threads |-> "idle"]
  /\ count = [t \in Threads |-> 0]
  /\ began = [t \in Threads |-> 0]
  /\ log = <<>>

-----------------------------------------------------------------------------
(* Plausible bugs, for the checks that show the properties can fail. *)

\* The counter is read and never advanced.
BugTakeWithoutAdvance(t) ==
  /\ pc[t] = "idle"
  /\ Len(log) < MaxIds
  /\ pc' = [pc EXCEPT ![t] = "stamping"]
  /\ count' = [count EXCEPT ![t] = counter + First]
  /\ began' = [began EXCEPT ![t] = Len(log)]
  /\ UNCHANGED <<client, counter, clock, log>>

\* The identifier is the clock alone.
BugIdentifierIsClock(stamp, n) == Scale * stamp

-----------------------------------------------------------------------------

Identifier(stamp, n) == Scale * stamp + n

\* let count = counter.fetch_add(1)  /  self._msg_id_counter += 1
Take(t) ==
  /\ pc[t] = "idle"
  /\ counter < MaxIds
  /\ pc' = [pc EXCEPT ![t] = "stamping"]
  /\ count' = [count EXCEPT ![t] = counter + First]
  /\ counter' = counter + 1
  /\ began' = [began EXCEPT ![t] = Len(log)]
  /\ UNCHANGED <<client, clock, log>>

\* Read the clock, add, return.
Stamp(t) ==
  /\ pc[t] = "stamping"
  /\ pc' = [pc EXCEPT ![t] = "idle"]
  /\ log' = Append(log, [id    |-> Identifier(clock, count[t]),
                         count |-> count[t],
                         stamp |-> clock,
                         began |-> began[t]])
  /\ UNCHANGED <<client, clock, counter, count, began>>

Tick ==
  /\ clock < MaxClock
  /\ clock' = clock + 1
  /\ UNCHANGED <<client, counter, pc, count, began, log>>

\* An administrator or a time daemon sets the wall clock back.
SetBack ==
  /\ ClockSteps
  /\ \E c \in 0..(clock - 1) : clock' = c
  /\ UNCHANGED <<client, counter, pc, count, began, log>>

Next ==
  \/ \E t \in Callers : Take(t) \/ Stamp(t)
  \/ Tick
  \/ SetBack

Spec == Init /\ [][Next]_vars

-----------------------------------------------------------------------------

Distinct == \A i, j \in DOMAIN log : i # j => log[i].id # log[j].id

(***************************************************************************)
(* No two frames of a client with one thread carry the same identifier, so *)
(* that an ACK is never ambiguous: in TypeScript even when the clock is    *)
(* set back, since a millisecond has room for a million counts.            *)
(***************************************************************************)
UniqueIds == client # "rust" => Distinct

(***************************************************************************)
(* An identifier that is requested after another one has been returned is  *)
(* greater, whichever threads asked, as long as the clock is not set back: *)
(* the order a caller can observe is the order of the identifiers.         *)
(***************************************************************************)
RealTimeOrder ==
  ~ClockSteps =>
    \A i, j \in DOMAIN log : i <= log[j].began => log[i].id < log[j].id

=============================================================================
