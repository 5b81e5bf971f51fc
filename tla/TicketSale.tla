----------------------------- MODULE TicketSale -----------------------------
(***************************************************************************)
(* What a raffle promises its players, whatever calls race: tickets are    *)
(* sold in order and never beyond the supply, a sold ticket never changes  *)
(* hands, and the prize goes once, to a ticket holder, after the last      *)
(* ticket is sold.  Raffles implements it.                                 *)
(***************************************************************************)
EXTENDS Naturals, Sequences

CONSTANTS Users, NoUser, Supply

VARIABLES
    holders,        \* the owner of each ticket sold, in order
    prize           \* the account that won, or NoUser

Init == holders = <<>> /\ prize = NoUser

Sell(u, q) ==
    /\ Len(holders) + q <= Supply
    /\ holders' = holders \o [i \in 1..q |-> u]
    /\ UNCHANGED prize

Award(u) ==
    /\ prize = NoUser
    /\ Len(holders) = Supply
    /\ \E i \in 1..Len(holders) : holders[i] = u
    /\ prize' = u
    /\ UNCHANGED holders

Next ==
    \/ \E u \in Users, q \in 1..Supply : Sell(u, q)
    \/ \E u \in Users : Award(u)

Spec == Init /\ [][Next]_<<holders, prize>>
=============================================================================
