------------------------------- MODULE Session -------------------------------
(***************************************************************************)
(* What the three clients promise of the life of their connections,        *)
(* whatever their sockets, tasks and timers do.                            *)
(*                                                                         *)
(* A reconnection is counted only by a client that was not told to         *)
(* disconnect, up to a limit; only a connection makes the count start      *)
(* again.  A client that was told to disconnect stays told.  Where nothing *)
(* overlaps, a connection that is up is not replaced by another one, and   *)
(* reconnections are counted only by a client that has no connection.      *)
(***************************************************************************)
EXTENDS Integers

CONSTANTS
  Limit,      \* what the count may reach: 0 means that there is no limit
  Overlaps    \* TRUE if attempts to connect may overlap each other, or the end
              \* of the connection before

VARIABLES
  up,         \* the client says that it is connected
  line,       \* the connection it has, or had, or tries to make
  wanted,     \* it is to reconnect
  tries       \* the reconnections counted since the last connection

vars == <<up, line, wanted, tries>>

Init == up = FALSE /\ wanted = TRUE /\ tries = 0

Counted ==
  /\ wanted
  /\ Limit = 0 \/ tries < Limit
  /\ tries' = tries + 1

Dial ==
  /\ ~up
  /\ line' # line
  /\ UNCHANGED <<up, wanted, tries>>

\* The connection is there: the one that was dialed, or one of its own.  The
\* program may say disconnect() as it is told.
Establish ==
  /\ Overlaps \/ ~up
  /\ tries' = 0
  /\ \/ up' = TRUE /\ UNCHANGED wanted
     \/ up' = FALSE /\ wanted' = FALSE

\* The connection is lost, and the first reconnection perhaps counted at once.
Lose ==
  /\ up
  /\ up' = FALSE
  /\ Counted \/ UNCHANGED tries
  /\ UNCHANGED <<line, wanted>>

Count ==
  /\ Overlaps \/ ~up
  /\ Counted
  /\ UNCHANGED <<up, line, wanted>>

\* disconnect() or the end of the client, perhaps when it is told of a
\* reconnection; the connection may end with it.
Revoke ==
  /\ wanted' = FALSE
  /\ up' => up /\ line' = line
  /\ Counted \/ UNCHANGED tries

Next == Dial \/ Establish \/ Lose \/ Count \/ Revoke

Spec == Init /\ [][Next]_vars

=============================================================================
