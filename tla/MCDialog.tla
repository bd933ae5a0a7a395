------------------------------ MODULE MCDialog ------------------------------
(***************************************************************************)
(* DialogFsm with a history variable, so that one run can tell what holds  *)
(* under every interleaving from what holds only while no script has been  *)
(* interrupted by another task.                                            *)
(***************************************************************************)
EXTENDS DialogFsm

VARIABLE overlapped   \* two scripts have run interleaved

(* One task begins a script, or runs an operation of it, while another is  *)
(* in the middle of one.                                                   *)
Overlap ==
  \E t, u \in Task : t # u /\ todo[t] # <<>> /\ todo'[t] = todo[t] /\ todo'[u] # todo[u]

MCInit == Init /\ overlapped = FALSE

MCNext == Next /\ overlapped' = (overlapped \/ Overlap)

MCSpec ==
  /\ MCInit
  /\ [][MCNext]_<<vars, overlapped>>
  /\ Fairness

(* ModeMatchesState (DialogFsm), as long as every script has run in one    *)
(* piece: what the code relies on, and what the races break.               *)
SerialModeMatchesState == ~overlapped => ModeMatchesState

(* ReadyHasNoSession (DialogFsm), likewise. *)
SerialReadyHasNoSession == ~overlapped => ReadyHasNoSession

=============================================================================
