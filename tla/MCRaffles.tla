------------------------------ MODULE MCRaffles ------------------------------
(* A small raffle for TLC: three tickets at 3 units with a 25 % fee, so that *)
(* the fee is truncated; wallets that can pay for some purchases and not for  *)
(* others; one account suspended.  overlapped remembers that two calls have   *)
(* been in flight together: the Serial properties are what the handlers       *)
(* promise as long as that has not happened.                                  *)
EXTENDS Raffles, TLC

CONSTANTS ann, bob, cat

VARIABLE overlapped

MCUsers   == {ann, bob, cat}
MCOpening == [u \in MCUsers |-> IF u = bob THEN 9 ELSE 6]

\* Two of the calls are in flight together.
Together(calls) == \E r, s \in Requests : r # s /\ calls[r] # Idle /\ calls[s] # Idle

MCVars == <<vars, overlapped>>
MCInit == Init /\ overlapped = FALSE
MCNext == Next /\ overlapped' = (overlapped \/ Together(req'))
MCSpec == MCInit /\ [][MCNext]_MCVars

CallSymmetry == Permutations(Requests)

\* One call at a time: cancelling leaves every player whole.
SerialCancelRefundsAll == ~overlapped => CancelRefundsAll

=============================================================================
