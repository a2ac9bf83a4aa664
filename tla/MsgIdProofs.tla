----------------------------- MODULE MsgIdProofs -----------------------------
(***************************************************************************)
(* Proofs about the message identifiers of the three clients, for any      *)
(* number of threads and any bounds.                                       *)
(***************************************************************************)
EXTENDS MsgId, TLAPS

(***************************************************************************)
(* The counts that are taken are pairwise different, below the counter,    *)
(* and grow with the order in which generations follow one another; with a *)
(* clock that is never set back, so do the stamps.                         *)
(***************************************************************************)
StampingInv(t) ==
  /\ count[t] < counter + First
  /\ began[t] <= Len(log)
  /\ \A i \in DOMAIN log : log[i].count # count[t]
  /\ \A i \in DOMAIN log : i <= began[t] => log[i].count < count[t]

EntryInv(i) ==
  /\ log[i].id = Identifier(log[i].stamp, log[i].count)
  /\ log[i].count < counter + First
  /\ ~ClockSteps => log[i].stamp <= clock
  /\ log[i].began < i

PairInv(i, j) ==
  /\ i # j => log[i].count # log[j].count
  /\ i <= log[j].began => /\ log[i].count < log[j].count
                          /\ ~ClockSteps => log[i].stamp <= log[j].stamp

IInv ==
  /\ TypeOK
  /\ counter <= MaxIds
  /\ \A t \in Threads : pc[t] = "stamping" => StampingInv(t)
  /\ \A t, u \in Threads :
       (t # u /\ pc[t] = "stamping" /\ pc[u] = "stamping") => count[t] # count[u]
  /\ \A i \in DOMAIN log : EntryInv(i)
  /\ \A i, j \in DOMAIN log : PairInv(i, j)

-----------------------------------------------------------------------------

LEMMA InitIInv == Init => IInv
BY MsgIdAssumption DEF Init, IInv, TypeOK, StampingInv, EntryInv, PairInv

\* What a tick and the first count are worth is known of every client, and a
\* client stays what it is.
LEMMA Worth == Scale \in Nat \ {0} /\ First \in {0, 1} /\ Callers \subseteq Threads
BY MsgIdAssumption DEF Scale, First, Callers

LEMMA SameClient ==
  [Next]_vars => /\ client' = client /\ Scale' = Scale /\ First' = First
                 /\ Callers' = Callers /\ ClockSteps' = ClockSteps
BY DEF Next, vars, Take, Stamp, Tick, SetBack, Scale, First, Callers, ClockSteps

LEMMA IdentifierNat ==
  ASSUME NEW a \in Nat, NEW n \in Nat
  PROVE  Identifier(a, n) \in Nat
BY Worth DEF Identifier

LEMMA TypeStep == TypeOK /\ [Next]_vars => TypeOK'
<1> SUFFICES ASSUME TypeOK, [Next]_vars PROVE TypeOK'
  OBVIOUS
<1> USE MsgIdAssumption, Worth DEF TypeOK
<1>1. ASSUME NEW t \in Callers, Take(t) PROVE TypeOK'
  BY <1>1 DEF Take
<1>2. ASSUME NEW t \in Callers, Stamp(t) PROVE TypeOK'
  <2> DEFINE e == [id |-> Identifier(clock, count[t]), count |-> count[t],
                   stamp |-> clock, began |-> began[t]]
  <2>1. e \in Entries
    BY IdentifierNat DEF Entries
  <2>2. log' = Append(log, e)
    BY <1>2 DEF Stamp
  <2> HIDE DEF e
  <2>3. log' \in Seq(Entries)
    BY <2>1, <2>2
  <2> QED
    BY <1>2, <2>3 DEF Stamp
<1>3. CASE Tick
  BY <1>3 DEF Tick
<1>4. CASE SetBack
  BY <1>4 DEF SetBack
<1>5. CASE UNCHANGED vars
  BY <1>5 DEF vars
<1> QED
  BY <1>1, <1>2, <1>3, <1>4, <1>5 DEF Next

LEMMA TakeStep ==
  ASSUME IInv, NEW t \in Callers, Take(t)
  PROVE  IInv'
<1>0. /\ client' = client /\ First' = First /\ Scale' = Scale /\ ClockSteps' = ClockSteps
      /\ First \in {0, 1} /\ t \in Threads
  BY SameClient, Worth DEF Next
<1> USE <1>0, MsgIdAssumption DEF Take
<1>1. TypeOK'
  BY TypeStep DEF IInv, Next
<1>2. counter' <= MaxIds'
  BY DEF IInv, TypeOK
<1>3. ASSUME NEW i \in DOMAIN log PROVE EntryInv(i)'
  <2>1. EntryInv(i) /\ log[i] \in Entries
    BY <1>3 DEF IInv, TypeOK
  <2>2. log' = log /\ clock' = clock /\ counter' = counter + 1 /\ counter \in Nat
    BY DEF IInv, TypeOK
  <2> QED
    BY <2>1, <2>2 DEF EntryInv, Entries, Identifier
<1>4. ASSUME NEW i \in DOMAIN log, NEW j \in DOMAIN log PROVE PairInv(i, j)'
  BY <1>4 DEF IInv, PairInv
<1>5. ASSUME NEW u \in Threads, pc'[u] = "stamping" PROVE StampingInv(u)'
  <2>1. \A i \in DOMAIN log : log[i] \in Entries /\ log[i].count < counter + First
    BY DEF IInv, TypeOK, EntryInv
  <2>2. CASE u = t
    BY <2>1, <2>2 DEF IInv, TypeOK, StampingInv, Entries
  <2>3. CASE u # t
    BY <1>5, <2>3 DEF IInv, TypeOK, StampingInv
  <2> QED
    BY <2>2, <2>3
<1>6. ASSUME NEW u \in Threads, NEW v \in Threads, u # v,
             pc'[u] = "stamping", pc'[v] = "stamping"
      PROVE  count'[u] # count'[v]
  BY <1>6 DEF IInv, TypeOK, StampingInv
<1> QED
  BY <1>1, <1>2, <1>3, <1>4, <1>5, <1>6 DEF IInv

LEMMA StampStep ==
  ASSUME IInv, NEW t \in Callers, Stamp(t)
  PROVE  IInv'
<1> DEFINE e == [id |-> Identifier(clock, count[t]), count |-> count[t],
                 stamp |-> clock, began |-> began[t]]
<1>0. /\ client' = client /\ First' = First /\ Scale' = Scale /\ ClockSteps' = ClockSteps
      /\ First \in {0, 1} /\ t \in Threads
  BY SameClient, Worth DEF Next
<1> USE <1>0, MsgIdAssumption
<1>1. TypeOK'
  BY TypeStep DEF IInv, Next
<1>2. StampingInv(t) /\ pc[t] = "stamping"
  BY DEF IInv, Stamp
<1>3. /\ log' = Append(log, e)
      /\ e.id = Identifier(clock, count[t]) /\ e.count = count[t]
      /\ e.stamp = clock /\ e.began = began[t]
  BY DEF Stamp
<1>4. /\ counter' = counter /\ clock' = clock
      /\ count' = count /\ began' = began
      /\ pc' = [pc EXCEPT ![t] = "idle"]
  BY DEF Stamp
<1> HIDE DEF e
<1>5. /\ log \in Seq(Entries)
      /\ Len(log') = Len(log) + 1 /\ DOMAIN log' = 1..(Len(log) + 1)
      /\ \A i \in DOMAIN log : log'[i] = log[i] /\ log[i] \in Entries
      /\ log'[Len(log) + 1] = e
  BY <1>1, <1>3 DEF IInv, TypeOK
<1>6. DOMAIN log = 1..Len(log) /\ Len(log) \in Nat
  BY <1>5
<1>7. ASSUME NEW i \in DOMAIN log' PROVE EntryInv(i)'
  <2>1. CASE i \in DOMAIN log
    BY <1>4, <1>5, <2>1 DEF IInv, EntryInv, Identifier
  <2>2. CASE i = Len(log) + 1
    BY <1>2, <1>3, <1>4, <1>5, <1>6, <2>2
       DEF IInv, TypeOK, EntryInv, StampingInv, Identifier
  <2> QED
    BY <1>5, <1>6, <2>1, <2>2
<1>8. ASSUME NEW i \in DOMAIN log', NEW j \in DOMAIN log' PROVE PairInv(i, j)'
  <2>1. CASE i \in DOMAIN log /\ j \in DOMAIN log
    BY <1>4, <1>5, <2>1 DEF IInv, PairInv
  <2>2. CASE i \in DOMAIN log /\ j = Len(log) + 1
    BY <1>2, <1>3, <1>4, <1>5, <1>6, <2>2
       DEF IInv, PairInv, StampingInv, EntryInv
  <2>3. CASE i = Len(log) + 1 /\ j \in DOMAIN log
    <3>1. log[j].began < j /\ log[j].began \in Nat
      BY <1>5, <2>3 DEF IInv, EntryInv, Entries
    <3>2. log[j].count # count[t]
      BY <1>2, <2>3 DEF StampingInv
    <3> QED
      BY <1>3, <1>5, <1>6, <2>3, <3>1, <3>2 DEF PairInv
  <2>4. CASE i = Len(log) + 1 /\ j = Len(log) + 1
    BY <1>2, <1>3, <1>5, <1>6, <2>4 DEF PairInv, StampingInv, IInv, TypeOK
  <2> QED
    BY <1>5, <1>6, <2>1, <2>2, <2>3, <2>4
<1>9. ASSUME NEW u \in Threads, pc'[u] = "stamping" PROVE StampingInv(u)'
  <2>1. u # t /\ pc[u] = "stamping"
    BY <1>4, <1>9 DEF IInv, TypeOK
  <2>2. StampingInv(u) /\ count[u] # count[t]
    BY <1>2, <2>1 DEF IInv
  <2>3. \A i \in DOMAIN log' : log'[i].count # count[u]
    BY <1>3, <1>5, <1>6, <2>2 DEF StampingInv
  <2>4. \A i \in DOMAIN log' : i <= began[u] => log'[i].count < count[u]
    BY <1>5, <1>6, <2>2 DEF StampingInv, IInv, TypeOK
  <2> QED
    BY <1>4, <1>5, <1>6, <2>2, <2>3, <2>4 DEF StampingInv, IInv, TypeOK
<1>10. ASSUME NEW u \in Threads, NEW v \in Threads, u # v,
              pc'[u] = "stamping", pc'[v] = "stamping"
       PROVE  count'[u] # count'[v]
  BY <1>4, <1>10 DEF IInv, TypeOK
<1>11. counter' <= MaxIds'
  BY <1>4 DEF IInv
<1> QED
  BY <1>1, <1>7, <1>8, <1>9, <1>10, <1>11 DEF IInv

LEMMA ClockStep ==
  ASSUME IInv, Tick \/ SetBack
  PROVE  IInv'
<1>0. /\ client' = client /\ First' = First /\ Scale' = Scale /\ ClockSteps' = ClockSteps
      /\ First \in {0, 1}
  BY SameClient, Worth DEF Next
<1> USE <1>0, MsgIdAssumption
<1>1. TypeOK'
  BY TypeStep DEF IInv, Next
<1>2. /\ counter' = counter /\ pc' = pc /\ count' = count
      /\ began' = began /\ log' = log
      /\ ~ClockSteps => clock <= clock'
  BY DEF Tick, SetBack, ClockSteps, IInv, TypeOK
<1>3. ASSUME NEW i \in DOMAIN log PROVE EntryInv(i)'
  <2>1. EntryInv(i) /\ log[i] \in Entries
    BY DEF IInv, TypeOK
  <2>2. clock \in Nat /\ clock' \in Nat
    BY <1>1 DEF IInv, TypeOK
  <2> QED
    BY <1>2, <2>1, <2>2 DEF EntryInv, Identifier, Entries
<1> QED
  BY <1>1, <1>2, <1>3 DEF IInv, StampingInv, PairInv

LEMMA StepIInv == IInv /\ [Next]_vars => IInv'
<1> SUFFICES ASSUME IInv, [Next]_vars PROVE IInv'
  OBVIOUS
<1>1. CASE \E t \in Callers : Take(t) \/ Stamp(t)
  BY <1>1, TakeStep, StampStep
<1>2. CASE Tick \/ SetBack
  BY <1>2, ClockStep
<1>3. CASE UNCHANGED vars
  BY <1>3 DEF vars, IInv, TypeOK, StampingInv, EntryInv, PairInv, Identifier,
              Scale, First, ClockSteps
<1> QED
  BY <1>1, <1>2, <1>3 DEF Next

\* The inductive invariant holds: what a thread that stamps, an identifier, and two
\* identifiers say of the counter and the clock.
THEOREM Invariant == Spec => []IInv
BY InitIInv, StepIInv, PTL DEF Spec

-----------------------------------------------------------------------------
(* What the identifiers are worth. *)

\* Scaling keeps the order of the stamps.
LEMMA ScaleMonotone ==
  ASSUME NEW a \in Nat, NEW b \in Nat, a <= b
  PROVE  Scale * a <= Scale * b
<1>1. PICK d \in Nat : b = a + d
  BY b - a \in Nat
<1>2. Scale * b = Scale * a + Scale * d
  BY <1>1, Worth
<1>3. Scale * d \in Nat /\ Scale * a \in Nat
  BY Worth
<1> QED
  BY <1>2, <1>3

\* A later stamp is ahead by at least one tick's worth of counts.
LEMMA ScaleGap ==
  ASSUME NEW a \in Nat, NEW b \in Nat, a < b
  PROVE  Scale * a + Scale <= Scale * b
<1>1. Scale * (a + 1) = Scale * a + Scale
  BY Worth
<1> QED
  BY <1>1, ScaleMonotone, a + 1 <= b, a + 1 \in Nat

\* Every variable has its type in every reachable state of every client.
THEOREM Typed == Spec => []TypeOK
BY Invariant, PTL DEF IInv

(***************************************************************************)
(* As long as the clock is not set back, an identifier that is requested   *)
(* after another one has been returned is greater: what the Rust client's  *)
(* fetch_add before the clock reading guarantees to any number of threads. *)
(***************************************************************************)
THEOREM RealTimeOrdered == Spec => []RealTimeOrder
<1>1. IInv => RealTimeOrder
  <2> SUFFICES ASSUME IInv, ~ClockSteps,
                      NEW i \in DOMAIN log, NEW j \in DOMAIN log,
                      i <= log[j].began
               PROVE  log[i].id < log[j].id
    BY DEF RealTimeOrder
  <2>1. log[i] \in Entries /\ log[j] \in Entries
    BY DEF IInv, TypeOK
  <2>2. log[i].count < log[j].count /\ log[i].stamp <= log[j].stamp
    BY DEF IInv, PairInv
  <2>3. Scale * log[i].stamp <= Scale * log[j].stamp
    BY <2>1, <2>2, ScaleMonotone DEF Entries
  <2>4. Scale * log[i].stamp \in Nat /\ Scale * log[j].stamp \in Nat
    BY <2>1, Worth DEF Entries
  <2>5. /\ log[i].id = Scale * log[i].stamp + log[i].count
        /\ log[j].id = Scale * log[j].stamp + log[j].count
    BY DEF IInv, EntryInv, Identifier
  <2>6. log[i].count \in Nat /\ log[j].count \in Nat
    BY <2>1 DEF Entries
  <2> QED
    BY <2>2, <2>3, <2>4, <2>5, <2>6
<1> QED
  BY <1>1, Invariant, PTL

\* While fewer counts are taken than one tick is worth, identifiers differ,
\* whatever the clock does and however many threads there are.
LEMMA FittingCounts ==
  ASSUME IInv, MaxIds + First <= Scale
  PROVE  Distinct
<1> SUFFICES ASSUME NEW i \in DOMAIN log, NEW j \in DOMAIN log,
                    i # j, log[i].id = log[j].id
             PROVE  FALSE
  BY DEF Distinct
<1> DEFINE a == log[i].stamp
           b == log[j].stamp
           m == log[i].count
           n == log[j].count
<1>0. log[i] \in Entries /\ log[j] \in Entries
  BY DEF IInv, TypeOK
<1>1. a \in Nat /\ b \in Nat /\ m \in Nat /\ n \in Nat
  BY <1>0 DEF Entries
<1>2. m # n /\ m < Scale /\ n < Scale
  BY <1>1, Worth, MsgIdAssumption DEF IInv, TypeOK, PairInv, EntryInv
<1>3. Scale * a + m = Scale * b + n
  BY DEF IInv, EntryInv, Identifier
<1> HIDE DEF a, b, m, n
<1>4. Scale * a \in Nat /\ Scale * b \in Nat /\ Scale \in Nat
  BY <1>1, Worth
<1>5. CASE a = b
  BY <1>1, <1>2, <1>3, <1>4, <1>5
<1>6. CASE a < b
  BY <1>1, <1>2, <1>3, <1>4, <1>6, ScaleGap
<1>7. CASE b < a
  BY <1>1, <1>2, <1>3, <1>4, <1>7, ScaleGap
<1> QED
  BY <1>1, <1>5, <1>6, <1>7

-----------------------------------------------------------------------------
(* One thread: no generation begins before the previous one has ended. *)

SoloInv ==
  client # "rust" =>
    /\ \A t \in Threads : pc[t] = "stamping" => t = Main /\ began[t] = Len(log)
    /\ \A j \in DOMAIN log : log[j].began = j - 1

LEMMA SoloStep ==
  ASSUME TypeOK, SoloInv, [Next]_vars
  PROVE  SoloInv'
<1> SUFFICES ASSUME client # "rust" PROVE SoloInv'
  BY SameClient DEF SoloInv
<1>0. Callers = {Main} /\ Main \in Threads
  BY MsgIdAssumption DEF Callers
<1>1. CASE Take(Main)
  BY <1>0, <1>1 DEF SoloInv, Take, TypeOK
<1>2. CASE Stamp(Main)
  <2> DEFINE e == [id |-> Identifier(clock, count[Main]), count |-> count[Main],
                   stamp |-> clock, began |-> began[Main]]
  <2>1. /\ log' = Append(log, e) /\ e.began = began[Main]
        /\ began[Main] = Len(log)
        /\ \A u \in Threads : pc'[u] # "stamping"
    BY <1>0, <1>2 DEF Stamp, SoloInv, TypeOK
  <2> HIDE DEF e
  <2>2. /\ Len(log') = Len(log) + 1 /\ DOMAIN log' = 1..(Len(log) + 1)
        /\ \A i \in DOMAIN log : log'[i] = log[i]
        /\ log'[Len(log) + 1] = e
        /\ DOMAIN log = 1..Len(log) /\ Len(log) \in Nat
    BY <2>1 DEF TypeOK
  <2> QED
    BY <2>1, <2>2 DEF SoloInv
<1>3. CASE Tick \/ SetBack \/ UNCHANGED vars
  BY <1>3 DEF Tick, SetBack, vars, SoloInv
<1> QED
  BY <1>0, <1>1, <1>2, <1>3 DEF Next

\* One thread and a clock that only goes on: the order of the calls is total.
LEMMA SoloDistinct ==
  ASSUME TypeOK, SoloInv, RealTimeOrder, client # "rust", ~ClockSteps
  PROVE  Distinct
<1>1. ASSUME NEW i \in DOMAIN log, NEW j \in DOMAIN log, i < j
      PROVE  log[i].id # log[j].id
  <2>1. i \in Nat /\ j \in Nat /\ i <= log[j].began
    BY <1>1 DEF TypeOK, SoloInv
  <2>2. log[i] \in Entries /\ log[j] \in Entries
    BY DEF TypeOK
  <2>3. log[i].id \in Nat /\ log[j].id \in Nat
    BY <2>2 DEF Entries
  <2> QED
    BY <2>1, <2>3 DEF RealTimeOrder
<1>2. \A i, j \in DOMAIN log : i = j \/ i < j \/ j < i
  BY DEF TypeOK
<1> QED
  BY <1>1, <1>2 DEF Distinct

(***************************************************************************)
(* The identifiers of a client with one thread are unique: in TypeScript   *)
(* for the first million frames, whatever the clock does, since a tick is  *)
(* worth a million; in Python for any number of frames, as long as the     *)
(* clock is not set back.                                                  *)
(***************************************************************************)
THEOREM UniqueOnOneThread ==
  MaxIds < Millisecond /\ "python" \notin SetBackFor => (Spec => []UniqueIds)
<1> SUFFICES ASSUME MaxIds < Millisecond, "python" \notin SetBackFor
             PROVE  Spec => []UniqueIds
  OBVIOUS
<1>1. Init => SoloInv
  BY DEF Init, SoloInv
<1>2. TypeOK /\ SoloInv /\ [Next]_vars => SoloInv'
  BY SoloStep
<1>3. IInv /\ SoloInv /\ RealTimeOrder => UniqueIds
  <2> SUFFICES ASSUME IInv, SoloInv, RealTimeOrder, client # "rust"
               PROVE  Distinct
    BY DEF UniqueIds
  <2>1. CASE client = "ts"
    <3>1. MaxIds + First <= Scale
      BY <2>1, MsgIdAssumption DEF First, Scale
    <3> QED
      BY <3>1, FittingCounts
  <2>2. CASE client = "python"
    BY <2>2, SoloDistinct DEF IInv, ClockSteps
  <2> QED
    BY <2>1, <2>2 DEF IInv, TypeOK, Clients
<1> QED
  BY <1>1, <1>2, <1>3, Invariant, Typed, RealTimeOrdered, PTL DEF Spec

=============================================================================
