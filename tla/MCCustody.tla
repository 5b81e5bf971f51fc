----------------------------- MODULE MCCustody -----------------------------
(* Custody on a small instance: calls are interchangeable.                   *)
(* overlapped remembers that two calls have been in flight together: the     *)
(* Serial properties are what the handlers promise as long as that has not   *)
(* happened.                                                                 *)
EXTENDS Custody, TLC

VARIABLE overlapped

\* Two of the calls are in flight together.
Together(calls) == \E r, s \in Requests : r # s /\ calls[r] # NoCall /\ calls[s] # NoCall

MCVars == <<vars, overlapped>>
MCInit == Init /\ overlapped = FALSE
MCNext == Next /\ overlapped' = (overlapped \/ Together(req'))
MCSpec == MCInit /\ [][MCNext]_MCVars

CallSymmetry == Permutations(Requests)

\* One call at a time: item, token and raffle agree on the card's stage.
SerialStagesAgree == ~overlapped => StagesAgree

=============================================================================
