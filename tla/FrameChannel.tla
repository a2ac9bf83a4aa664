---------------------------- MODULE FrameChannel ----------------------------
(***************************************************************************)
(* What a client promises of the frames of a connection.  Its callbacks    *)
(* get the frames the server sent, each once and in order, until an error  *)
(* is reported; what they get behind an error is still in order, but there *)
(* may be gaps.  A new connection begins anew.                             *)
(***************************************************************************)
EXTENDS Naturals, Sequences

VARIABLES
  sent,       \* frames the server has sent on this connection
  delivered,  \* the numbers of the frames the callbacks got
  broken      \* TRUE iff an error was reported

Init == sent = 0 /\ delivered = <<>> /\ broken = FALSE

Send == sent' = sent + 1 /\ UNCHANGED <<delivered, broken>>

\* The callback that gets a frame may find an error in it.
Deliver ==
  \E k \in 1..sent :
    /\ ~broken => k = Len(delivered) + 1
    /\ \A i \in DOMAIN delivered : delivered[i] < k
    /\ delivered' = Append(delivered, k)
    /\ broken' = broken \/ broken' = TRUE
    /\ UNCHANGED sent

Break == broken' = TRUE /\ UNCHANGED <<sent, delivered>>

Replace == sent' = 0 /\ delivered' = <<>> /\ broken' = FALSE

Next == Send \/ Deliver \/ Break \/ Replace

Spec == Init /\ [][Next]_<<sent, delivered, broken>>

=============================================================================
