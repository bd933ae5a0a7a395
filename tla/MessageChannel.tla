---------------------------- MODULE MessageChannel ----------------------------
(***************************************************************************)
(* What the receive side of the WebSocket client promises its callback:    *)
(* the server's messages, whole, in order and at most once.  A fault (a    *)
(* connection lost in the middle of a message, an allocation that fails)   *)
(* may lose messages, and hands over at most one block that is no message. *)
(***************************************************************************)
EXTENDS Naturals

VARIABLES
  sent,     (* messages the server has sent, numbered from 1               *)
  last,     (* the last of them the callback was given whole               *)
  damaged,  (* blocks it was given that are no message                     *)
  faults    (* faults so far                                               *)

channelVars == <<sent, last, damaged, faults>>

ChannelInit == sent = 0 /\ last = 0 /\ damaged = 0 /\ faults = 0

Send == sent' = sent + 1 /\ UNCHANGED <<last, damaged, faults>>

Deliver ==
  /\ last' \in (last + 1)..sent
  /\ UNCHANGED <<sent, damaged, faults>>

Damage ==
  /\ damaged < faults
  /\ damaged' = damaged + 1
  /\ UNCHANGED <<sent, last, faults>>

Fault == faults' = faults + 1 /\ UNCHANGED <<sent, last, damaged>>

ChannelNext == Send \/ Deliver \/ Damage \/ Fault

ChannelSpec == ChannelInit /\ [][ChannelNext]_channelVars

=============================================================================
