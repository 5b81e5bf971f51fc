------------------------------ MODULE Custody ------------------------------
(***************************************************************************)
(* The life of one card: the VaultItem row, its Token, and everything that *)
(* can move, lock or burn it: VaultService (startAuthentication, setGrade, *)
(* vault), listings and purchases of MarketplaceService, a pack's pool and *)
(* its reveals, BuybackService.accept, raffles, RedeemService.redeem.      *)
(* Items share none of these rows, so one item shows every interleaving.   *)
(* Money is left to other modules; a pack holds this card alone; a raffle  *)
(* is its status and whether any ticket is sold.                           *)
(*                                                                         *)
(* A handler reads, then commits: req[r] is what call r has read so far.   *)
(***************************************************************************)
EXTENDS Integers, FiniteSets

CONSTANTS
    Users,          \* the accounts
    Treasury,       \* the treasury's account
    OnHold,         \* the accounts whose hold is not NONE
    Suspended,      \* those of them that are SUSPENDED
    Listings,       \* Listing ids
    Openings,       \* PackOpening ids
    NoId,           \* neither a listing nor an opening
    MaxMints,       \* bound: on-chain mints modelled
    Requests        \* the calls that can be in flight

ASSUME AccountsAssumption ==
    Treasury \in Users /\ OnHold \subseteq Users /\ Suspended \subseteq OnHold
ASSUME IdsAssumption == NoId \notin Listings \cup Openings /\ MaxMints \in Nat

VARIABLES
    item,           \* the VaultItem row: state, ownerId
    token,          \* its Token row: status ("NONE": not created), ownerId
    minted,         \* the cNFTs minted on chain for the card
    listing,        \* the Listing rows of the item
    raffle,         \* the Raffle row, whether it has tickets, and its order keys
    pool,           \* the PackPoolItem row: "NONE", "POOLED" or "CONSUMED"
    opening,        \* the PackOpening rows of the card's pack
    redeemed,       \* the Redemption row exists
    req             \* the calls in flight

rows == <<item, token, minted, listing, raffle, pool, opening, redeemed>>
vars == <<rows, req>>

ItemStates == {"INTAKE", "AUTHENTICATING", "GRADED", "VAULTED", "RESERVED", "RELEASED"}

CallSteps == {"idle", "authenticate", "grade", "mint", "vault", "list", "review", "cancel",
              "buy", "addToPool", "reveal", "buyback", "raffle", "tickets", "draw",
              "cancelRaffle", "redeem"}

\* user: whom the card goes to, or who lists it.  on: the listing or opening.
\* yes: approve, not reject; the listing is HELD; tickets to refund were seen.
CallState == [at : CallSteps, user : Users, on : Listings \cup Openings \cup {NoId},
              yes : BOOLEAN]

NoCall == [at |-> "idle", user |-> Treasury, on |-> NoId, yes |-> FALSE]

TypeOK ==
    /\ item \in [state : ItemStates, owner : Users]
    /\ token \in [status : {"NONE", "ACTIVE", "BURNED"}, owner : Users]
    /\ minted \in Nat
    /\ listing \in [Listings -> [status : {"NONE", "ACTIVE", "HELD", "SOLD", "CANCELLED"},
                                 seller : Users]]
    /\ raffle \in [status : {"NONE", "ACTIVE", "SOLD_OUT", "SETTLED", "CANCELLED"},
                   tickets : BOOLEAN, drawn : BOOLEAN, refunded : BOOLEAN]
    /\ pool \in {"NONE", "POOLED", "CONSUMED"}
    /\ opening \in [Openings -> [status : {"NONE", "COMMITTED", "SETTLED"}, user : Users]]
    /\ redeemed \in BOOLEAN
    /\ req \in [Requests -> CallState]

Init ==
    /\ item \in [state : {"INTAKE"}, owner : Users]
    /\ token = [status |-> "NONE", owner |-> Treasury]
    /\ minted = 0
    /\ listing = [l \in Listings |-> [status |-> "NONE", seller |-> Treasury]]
    /\ raffle = [status |-> "NONE", tickets |-> FALSE, drawn |-> FALSE, refunded |-> FALSE]
    /\ pool = "NONE"
    /\ opening = [o \in Openings |-> [status |-> "NONE", user |-> Treasury]]
    /\ redeemed = FALSE
    /\ req = [r \in Requests |-> NoCall]

-----------------------------------------------------------------------------
Start(r, call) == req[r] = NoCall /\ req' = [req EXCEPT ![r] = call] /\ UNCHANGED rows
Finish(r)      == req' = [req EXCEPT ![r] = NoCall]

\* Mutant of Tradeable: the gate opens at GRADED, before the mint.
TradeableOnceGraded == item.state \in {"GRADED", "VAULTED"}

\* The gate of every handler that trades the card.
Tradeable == item.state = "VAULTED" /\ token.status = "ACTIVE"

\* The partial unique index Listing_one_active_per_vaultItem lets l be ACTIVE.
NoOtherActive(l) == \A k \in Listings \ {l} : listing[k].status # "ACTIVE"

\* Mutant of MoveTo: the token's owner is forgotten.
MoveItemTo(u) == item' = [item EXCEPT !.owner = u] /\ UNCHANGED token

\* token and vaultItem get their new owner in one transaction.
MoveTo(u) == item' = [item EXCEPT !.owner = u] /\ token' = [token EXCEPT !.owner = u]

(* Intake: the state is checked against ALLOWED, then overwritten. *)
AuthenticateRead(r) ==
    /\ item.state = "INTAKE"
    /\ Start(r, [NoCall EXCEPT !.at = "authenticate"])

AuthenticateCommit(r) ==
    /\ req[r].at = "authenticate"
    /\ item' = [item EXCEPT !.state = "AUTHENTICATING"]
    /\ Finish(r)
    /\ UNCHANGED <<token, minted, listing, raffle, pool, opening, redeemed>>

GradeRead(r) ==
    /\ item.state = "AUTHENTICATING"
    /\ Start(r, [NoCall EXCEPT !.at = "grade"])

GradeCommit(r) ==
    /\ req[r].at = "grade"
    /\ item' = [item EXCEPT !.state = "GRADED"]
    /\ Finish(r)
    /\ UNCHANGED <<token, minted, listing, raffle, pool, opening, redeemed>>

(* vault: mint on chain for the owner that was read, then record the token *)
(* and VAULTED; when the token exists already (P2002), only VAULTED.       *)
VaultRead(r) ==
    /\ token.status = "NONE"
    /\ item.state = "GRADED"
    /\ Start(r, [NoCall EXCEPT !.at = "mint", !.user = item.owner])

VaultMint(r) ==
    /\ req[r].at = "mint"
    /\ minted < MaxMints
    /\ minted' = minted + 1
    /\ req' = [req EXCEPT ![r].at = "vault"]
    /\ UNCHANGED <<item, token, listing, raffle, pool, opening, redeemed>>

\* Mutant of Recorded: an upsert overwrites the token that is there.
RecordedAgain(u) == [status |-> "ACTIVE", owner |-> u]

\* token.create: vaultItemId is unique, so a token that is there stays.
Recorded(u) == IF token.status = "NONE" THEN [status |-> "ACTIVE", owner |-> u] ELSE token

VaultCommit(r) ==
    /\ req[r].at = "vault"
    /\ token' = Recorded(req[r].user)
    /\ item' = [item EXCEPT !.state = "VAULTED"]
    /\ Finish(r)
    /\ UNCHANGED <<minted, listing, raffle, pool, opening, redeemed>>

-----------------------------------------------------------------------------
(* createListing: ACTIVE, or HELD when the price is far from FMV. *)
ListRead(r, u, held) ==
    /\ u \notin OnHold
    /\ item.owner = u
    /\ Tradeable
    /\ Start(r, [NoCall EXCEPT !.at = "list", !.user = u, !.yes = held])

ListCommit(r, l) ==
    /\ req[r].at = "list"
    /\ listing[l].status = "NONE"
    /\ ~req[r].yes => NoOtherActive(l)
    /\ listing' = [listing EXCEPT
           ![l] = [status |-> IF req[r].yes THEN "HELD" ELSE "ACTIVE", seller |-> req[r].user]]
    /\ Finish(r)
    /\ UNCHANGED <<item, token, minted, raffle, pool, opening, redeemed>>

(* reviewListing: ops approve or reject a HELD listing. *)
ReviewRead(r, l, approve) ==
    /\ listing[l].status = "HELD"
    /\ Start(r, [NoCall EXCEPT !.at = "review", !.on = l, !.yes = approve])

ReviewCommit(r) ==
    LET l == req[r].on
    IN  /\ req[r].at = "review"
        /\ req[r].yes => NoOtherActive(l)
        /\ listing' = [listing EXCEPT
               ![l].status = IF req[r].yes THEN "ACTIVE" ELSE "CANCELLED"]
        /\ Finish(r)
        /\ UNCHANGED <<item, token, minted, raffle, pool, opening, redeemed>>

(* cancelListing: the seller's, or ops'. *)
CancelRead(r, l) ==
    /\ listing[l].status = "ACTIVE"
    /\ Start(r, [NoCall EXCEPT !.at = "cancel", !.on = l])

CancelCommit(r) ==
    /\ req[r].at = "cancel"
    /\ listing' = [listing EXCEPT ![req[r].on].status = "CANCELLED"]
    /\ Finish(r)
    /\ UNCHANGED <<item, token, minted, raffle, pool, opening, redeemed>>

(* buy: listing and item are read; the transaction closes the listing and  *)
(* moves the card without looking at either again.                         *)
BuyRead(r, u, l) ==
    /\ u \notin Suspended
    /\ listing[l].status = "ACTIVE"
    /\ listing[l].seller # u
    /\ Tradeable
    /\ Start(r, [NoCall EXCEPT !.at = "buy", !.user = u, !.on = l])

BuyCommit(r) ==
    /\ req[r].at = "buy"
    /\ listing' = [listing EXCEPT ![req[r].on].status = "SOLD"]
    /\ MoveTo(req[r].user)
    /\ Finish(r)
    /\ UNCHANGED <<minted, raffle, pool, opening, redeemed>>

-----------------------------------------------------------------------------
(* addPoolItem: ops put any tradeable card in the pack, whoever owns it. *)
PoolRead(r) ==
    /\ Tradeable
    /\ Start(r, [NoCall EXCEPT !.at = "addToPool"])

PoolCommit(r) ==
    /\ req[r].at = "addToPool"
    /\ pool = "NONE"
    /\ pool' = "POOLED"
    /\ Finish(r)
    /\ UNCHANGED <<item, token, minted, listing, raffle, opening, redeemed>>

(* commit: a paid opening of the pack. *)
OpenPack(u, o) ==
    /\ u \notin Suspended
    /\ pool = "POOLED"
    /\ opening[o].status = "NONE"
    /\ opening' = [opening EXCEPT ![o] = [status |-> "COMMITTED", user |-> u]]
    /\ UNCHANGED <<item, token, minted, listing, raffle, pool, redeemed, req>>

(* reveal: the opening wins the card; resultVaultItemId is unique.  The    *)
(* card's state and owner are not looked at.                               *)
RevealRead(r, o) ==
    /\ opening[o].status = "COMMITTED"
    /\ pool = "POOLED"
    /\ Start(r, [NoCall EXCEPT !.at = "reveal", !.user = opening[o].user, !.on = o])

RevealCommit(r) ==
    LET o == req[r].on
    IN  /\ req[r].at = "reveal"
        /\ \A p \in Openings \ {o} : opening[p].status # "SETTLED"
        /\ pool' = "CONSUMED"
        /\ opening' = [opening EXCEPT ![o].status = "SETTLED"]
        /\ MoveTo(req[r].user)
        /\ Finish(r)
        /\ UNCHANGED <<minted, listing, raffle, redeemed>>

(* BuybackService.accept of a live quote. *)
BuybackRead(r, u) ==
    /\ item.owner = u
    /\ Tradeable
    /\ Start(r, [NoCall EXCEPT !.at = "buyback"])

BuybackCommit(r) ==
    /\ req[r].at = "buyback"
    /\ MoveTo(Treasury)
    /\ Finish(r)
    /\ UNCHANGED <<minted, listing, raffle, pool, opening, redeemed>>

-----------------------------------------------------------------------------
(* The raffle: create reserves the card; buyTickets overwrites the status; *)
(* draw settles under a unique key; cancel refunds under another.          *)
RaffleRead(r, u) ==
    /\ item.owner = u
    /\ Tradeable
    /\ Start(r, [NoCall EXCEPT !.at = "raffle"])

RaffleCommit(r) ==
    /\ req[r].at = "raffle"
    /\ raffle.status = "NONE"
    /\ item' = [item EXCEPT !.state = "RESERVED"]
    /\ raffle' = [raffle EXCEPT !.status = "ACTIVE"]
    /\ Finish(r)
    /\ UNCHANGED <<token, minted, listing, pool, opening, redeemed>>

\* Mutant of TicketsRead: the raffle's status is not checked.
TicketsReadAnyStatus(r) ==
    /\ raffle.status # "NONE"
    /\ Start(r, [NoCall EXCEPT !.at = "tickets"])

TicketsRead(r) ==
    /\ raffle.status = "ACTIVE"
    /\ Start(r, [NoCall EXCEPT !.at = "tickets"])

TicketsCommit(r) ==
    /\ req[r].at = "tickets"
    /\ \E last \in BOOLEAN :
          raffle' = [raffle EXCEPT !.tickets = TRUE,
                                   !.status = IF last THEN "SOLD_OUT" ELSE "ACTIVE"]
    /\ Finish(r)
    /\ UNCHANGED <<item, token, minted, listing, pool, opening, redeemed>>

DrawRead(r, u) ==
    /\ raffle.status = "SOLD_OUT"
    /\ u \notin Suspended
    /\ Start(r, [NoCall EXCEPT !.at = "draw", !.user = u])

DrawCommit(r) ==
    /\ req[r].at = "draw"
    /\ ~raffle.drawn
    /\ item' = [state |-> "VAULTED", owner |-> req[r].user]
    /\ token' = [token EXCEPT !.owner = req[r].user]
    /\ raffle' = [raffle EXCEPT !.status = "SETTLED", !.drawn = TRUE]
    /\ Finish(r)
    /\ UNCHANGED <<minted, listing, pool, opening, redeemed>>

CancelRaffleRead(r) ==
    /\ raffle.status \in {"ACTIVE", "SOLD_OUT"}
    /\ Start(r, [NoCall EXCEPT !.at = "cancelRaffle", !.yes = raffle.tickets])

CancelRaffleCommit(r) ==
    /\ req[r].at = "cancelRaffle"
    /\ req[r].yes => ~raffle.refunded
    /\ item' = [item EXCEPT !.state = "VAULTED"]
    /\ raffle' = [raffle EXCEPT !.status = "CANCELLED", !.refunded = @ \/ req[r].yes]
    /\ Finish(r)
    /\ UNCHANGED <<token, minted, listing, pool, opening, redeemed>>

-----------------------------------------------------------------------------
(* redeem: burn on minted, best effort, then BURNED, RELEASED and the       *)
(* unique Redemption.                                                      *)
RedeemRead(r, u) ==
    /\ item.owner = u
    /\ Tradeable
    /\ \A l \in Listings : listing[l].status # "ACTIVE"
    /\ Start(r, [NoCall EXCEPT !.at = "redeem"])

RedeemCommit(r) ==
    /\ req[r].at = "redeem"
    /\ ~redeemed
    /\ token' = [token EXCEPT !.status = "BURNED"]
    /\ item' = [item EXCEPT !.state = "RELEASED"]
    /\ redeemed' = TRUE
    /\ Finish(r)
    /\ UNCHANGED <<minted, listing, raffle, pool, opening>>

(* A unique index aborts the transaction, or the process dies: what was    *)
(* done on chain stays.                                                    *)
Abort(r) ==
    /\ req[r].at # "idle"
    /\ Finish(r)
    /\ UNCHANGED rows

-----------------------------------------------------------------------------
Intake(r) ==
    \/ AuthenticateRead(r) \/ AuthenticateCommit(r)
    \/ GradeRead(r) \/ GradeCommit(r)
    \/ VaultRead(r) \/ VaultMint(r) \/ VaultCommit(r)

Market(r) ==
    \/ \E u \in Users, held \in BOOLEAN : ListRead(r, u, held)
    \/ \E l \in Listings : ListCommit(r, l)
    \/ \E l \in Listings, approve \in BOOLEAN : ReviewRead(r, l, approve)
    \/ ReviewCommit(r)
    \/ \E l \in Listings : CancelRead(r, l)
    \/ CancelCommit(r)
    \/ \E u \in Users, l \in Listings : BuyRead(r, u, l)
    \/ BuyCommit(r)

PackAndBuyback(r) ==
    \/ PoolRead(r) \/ PoolCommit(r)
    \/ \E o \in Openings : RevealRead(r, o)
    \/ RevealCommit(r)
    \/ \E u \in Users : BuybackRead(r, u)
    \/ BuybackCommit(r)

Raffle(r) ==
    \/ \E u \in Users : RaffleRead(r, u)
    \/ RaffleCommit(r)
    \/ TicketsRead(r) \/ TicketsCommit(r)
    \/ \E u \in Users : DrawRead(r, u)
    \/ DrawCommit(r)
    \/ CancelRaffleRead(r) \/ CancelRaffleCommit(r)

Redeem(r) ==
    \/ \E u \in Users : RedeemRead(r, u)
    \/ RedeemCommit(r)

Next ==
    \/ \E r \in Requests : Intake(r) \/ Market(r) \/ PackAndBuyback(r) \/ Raffle(r)
                            \/ Redeem(r) \/ Abort(r)
    \/ \E u \in Users, o \in Openings : OpenPack(u, o)

Spec == Init /\ [][Next]_vars

-----------------------------------------------------------------------------
\* The two ownership records agree: from the mint on, Token.ownerId is the
\* VaultItem's ownerId, whichever of the six handlers that move a card race.
OwnersAgree == token.status # "NONE" => token.owner = item.owner

\* The custody gate: nothing is listed, pooled, raffled or redeemed before the
\* card's token exists, and no token exists that was not minted on chain.
CustodyGate ==
    /\ token.status # "NONE" => minted > 0
    /\ \/ \E l \in Listings : listing[l].status # "NONE"
       \/ raffle.status # "NONE"
       \/ pool # "NONE"
       \/ redeemed
       => token.status # "NONE"

\* A card is never on sale twice, though a HELD listing can be approved while
\* another one is created.
OneActiveListing ==
    \A k, l \in Listings :
        listing[k].status = "ACTIVE" /\ listing[l].status = "ACTIVE" => k = l

\* A burn is for ever and belongs to the one redemption of the card, although
\* a late vault call finds the token there and writes the item again.
BurnedIffRedeemed == token.status = "BURNED" <=> redeemed

\* The three records of a card's stage agree between calls: a token exists from
\* VAULTED on, it is burned exactly when the card is RELEASED, and the card is
\* RESERVED exactly while its raffle runs.
StagesAgree ==
    (\A r \in Requests : req[r] = NoCall) =>
        /\ token.status = "NONE" <=> item.state \in {"INTAKE", "AUTHENTICATING", "GRADED"}
        /\ token.status = "BURNED" <=> item.state = "RELEASED"
        /\ item.state = "RESERVED" <=> raffle.status \in {"ACTIVE", "SOLD_OUT"}

=============================================================================
