----------------------------- MODULE BoundedFifo -----------------------------
(***************************************************************************)
(* What the send queue of the C client promises: at most Capacity messages *)
(* wait, in the order they were accepted; a message that does not fit is   *)
(* refused, and one that was accepted leaves at the front or when the      *)
(* queue is thrown away.                                                   *)
(***************************************************************************)
EXTENDS Naturals, Sequences

CONSTANTS Capacity, Message

VARIABLES
  queue,
  thrown   (* it has been thrown away, for good                            *)

FifoInit == queue = <<>> /\ thrown = FALSE

Accept ==
  /\ Len(queue) < Capacity
  /\ \E m \in Message : queue' = Append(queue, m)
  /\ UNCHANGED thrown

Leave == queue # <<>> /\ queue' = Tail(queue) /\ UNCHANGED thrown

ThrowAway == queue' = <<>> /\ thrown' = TRUE

FifoNext == ~thrown /\ (Accept \/ Leave \/ ThrowAway)

FifoSpec == FifoInit /\ [][FifoNext]_<<queue, thrown>>

=============================================================================
