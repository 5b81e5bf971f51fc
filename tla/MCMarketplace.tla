--------------------------- MODULE MCMarketplace ---------------------------
(* The two ways to sell a card: to another user (Marketplace, MCSpec) or    *)
(* back to the house (Treasury, TreasurySpec).  Either runs on its own: the *)
(* trades of Treasury are the marketplace's sales as a buyback sees them.   *)
(*   market    a seller, a buyer and a member of staff, one card, two       *)
(*             listings of it and two keys.  A price of 8 is the FMV; 20 is *)
(*             held for review.                                             *)
(*   treasury  two users, a card, two quotes and one funding that covers    *)
(*             one payout above the floor but not two.                      *)
(* overlapped remembers that two calls have been in flight together, or     *)
(* that an operator's call or a trade of the card came under a buyback: the *)
(* Serial properties are what the handlers promise as long as that has not  *)
(* happened.                                                                *)
EXTENDS Marketplace, TLC

CONSTANTS
    ann, bob, ops, card,
    House, Values, PercentBps, Floor, Funding, MaxFundings, Quotes

VARIABLES overlapped, quote, lapsed, holder, fmv, paused, treasury, proceeds, fundings, payout, treq

\* holder is the owner of each card that Treasury sees.
T == INSTANCE Treasury WITH FirstFmv <- Fmv, owner <- holder, req <- treq

\* What the deployment sets for the buybacks.
ASSUME HouseAssumption == House \notin Users
ASSUME BuybackAssumption ==
    /\ Values \subseteq Nat \ {0}
    /\ PercentBps \in Nat /\ Floor \in Nat /\ Funding \in Nat \ {0} /\ MaxFundings \in Nat
    /\ Quotes # {}

MCUsers   == {ann, bob, ops}
MCOwner   == [c \in {card} |-> ann]
MCFmv     == [c \in {card} |-> 8]
MCNoFmv   == [c \in {card} |-> 0]
MCNoMoney == [u \in {ann, bob} |-> 0]
MCOpening == [u \in MCUsers |-> IF u = ann THEN 0 ELSE 8]

\* Two of the calls are in flight together.
Together(calls) == \E r, s \in Requests : r # s /\ calls[r].at # "idle" /\ calls[s].at # "idle"

\* An operator's call or a trade of a card is one step, under the buyback in flight.
OperatorIntervenes ==
    /\ \E r \in Requests : treq[r].at # "idle"
    /\ treq' = treq /\ <<holder, paused, fundings>>' # <<holder, paused, fundings>>

MCVars == <<vars, T!vars, overlapped>>
MCInit == Init /\ T!Init /\ overlapped = FALSE

MCNext ==
    /\ Next
    /\ overlapped' = (overlapped \/ Together(req'))
    /\ UNCHANGED <<quote, lapsed, holder, fmv, paused, treasury, proceeds, fundings, payout, treq>>
MCSpec == MCInit /\ [][MCNext]_MCVars

TreasuryNext ==
    /\ T!Next
    /\ overlapped' = (overlapped \/ Together(treq') \/ OperatorIntervenes)
    /\ UNCHANGED vars
TreasurySpec     == MCInit /\ [][TreasuryNext]_MCVars
FairTreasurySpec == TreasurySpec /\ T!Fairness

Interchangeable == Permutations(Requests) \cup Permutations(Listings) \cup Permutations(Keys)

\* One call at a time sells a listing once.
SerialSoldOnce == ~overlapped => SoldOnce

\* A buyback that is accepted twice, or again after a crash, is paid once, and to
\* the user it was offered to: the treasury holds its funding less those payouts.
PayoutsMatchQuotes == T!PayoutsMatchQuotes

\* One call at a time: a payout leaves the treasury at or above the floor (accept).
SerialPayoutAboveFloor == [][~overlapped' => (treasury' < treasury => treasury' >= Floor)]_(T!vars)

\* No quote stays open for ever: somebody takes it, or the worker's sweep expires it.
QuoteEnds == T!QuoteEnds

=============================================================================
