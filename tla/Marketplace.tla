---------------------------- MODULE Marketplace ----------------------------
(***************************************************************************)
(* The money of the marketplace: MarketplaceService's createListing,       *)
(* reviewListing, cancelListing, buy and creditBalance, with the ledger    *)
(* accounts, the orders and their idempotency keys.  The cards are         *)
(* vaulted and hold an active token; Custody has what else can happen to   *)
(* a card.                                                                 *)
(*                                                                         *)
(* As in Raffles a call reads outside its transaction and commits later,   *)
(* and req[r] is what the call r has read.  A purchase commits twice: the  *)
(* transaction leaves its order PROCESSING, and after the (best-effort)    *)
(* transfer on chain a second write completes it.                          *)
(***************************************************************************)
EXTENDS Integers, FiniteSets, Functions

CONSTANTS
    Users,          \* the accounts
    Staff,          \* those with the role ADMIN or OPS
    OnHold,         \* those whose hold is not NONE
    Suspended,      \* those whose hold is SUSPENDED
    Cards,          \* the vault items
    FirstOwner,     \* who owns a card at first
    Fmv,            \* the latest FMV snapshot of a card, 0 when there is none
    DeviationBps,   \* LISTING_FMV_DEVIATION_BPS
    Prices,         \* prices a seller may ask, in the ledger's smallest unit
    FeeBps,         \* MARKETPLACE_FEE_BPS
    Opening,        \* the wallet balances at the start
    Credit,         \* what creditBalance credits
    MaxCredits,     \* how often it is called, at most
    Listings,       \* ids of Listing rows
    Keys,           \* idempotency keys buyers send
    NoListing,      \* "no listing": the order of an unused key
    Requests        \* the calls that can be in flight

ASSUME PeopleAssumption == /\ Staff \subseteq Users
                           /\ Suspended \subseteq OnHold
                           /\ OnHold \subseteq Users
                           /\ FirstOwner \in [Cards -> Users]
ASSUME PriceAssumption  == /\ Prices \subseteq Nat \ {0}
                           /\ FeeBps \in 0..10000
                           /\ DeviationBps \in Nat
                           /\ Fmv \in [Cards -> Nat]
                           /\ Opening \in [Users -> Nat]
                           /\ Credit \in Nat \ {0}
                           /\ MaxCredits \in Nat
ASSUME IdAssumption     == /\ NoListing \notin Listings
                           /\ Cards # {} /\ Listings # {} /\ Keys # {}

VARIABLES
    listing,        \* the Listing rows; status "NONE": not created
    owner,          \* VaultItem.ownerId, and Token.ownerId with it
    order,          \* the MARKETPLACE_BUY orders by their idempotency key
    wallet,         \* USER_WALLET balances
    feeRevenue,     \* FEE_REVENUE balance
    credited,       \* the users of the DEPOSIT orders creditBalance has made, by number
    reputation,     \* User.reputationScore
    req             \* the calls in flight

books == <<order, wallet, feeRevenue, credited, reputation>>
vars  == <<listing, owner, books, req>>

ListingStatuses == {"NONE", "ACTIVE", "HELD", "SOLD", "CANCELLED"}
Steps == {"idle", "list", "review", "cancel", "buyBalance", "buyCommit", "settle"}

\* held: heldReason is not null.
ListingRow == [status : ListingStatuses, card : Cards, seller : Users, price : Nat, held : BOOLEAN]
OrderRow   == [status : {"NONE", "PROCESSING", "COMPLETED"}, buyer : Users, seller : Users,
               listing : Listings \cup {NoListing}, price : Nat]

\* user: the caller.  row: the listing as the call has read it, or will insert it.
RequestState == [at : Steps, user : Users, listing : Listings, row : ListingRow,
                 key : Keys, approve : BOOLEAN]

NoRow   == [status |-> "NONE", card |-> CHOOSE c \in Cards : TRUE,
            seller |-> CHOOSE u \in Users : TRUE, price |-> 0, held |-> FALSE]
NoOrder == [status |-> "NONE", buyer |-> CHOOSE u \in Users : TRUE,
            seller |-> CHOOSE u \in Users : TRUE, listing |-> NoListing, price |-> 0]
Idle    == [at |-> "idle", user |-> CHOOSE u \in Users : TRUE,
            listing |-> CHOOSE l \in Listings : TRUE, row |-> NoRow,
            key |-> CHOOSE k \in Keys : TRUE, approve |-> FALSE]

TypeOK ==
    /\ listing \in [Listings -> ListingRow]
    /\ owner \in [Cards -> Users]
    /\ order \in [Keys -> OrderRow]
    /\ wallet \in [Users -> Int]
    /\ feeRevenue \in Nat
    /\ \E n \in 0..MaxCredits : credited \in [1..n -> Users]
    /\ reputation \in [Users -> Nat]
    /\ req \in [Requests -> RequestState]

Init ==
    /\ listing = [l \in Listings |-> NoRow]
    /\ owner = FirstOwner
    /\ order = [k \in Keys |-> NoOrder]
    /\ wallet = Opening
    /\ feeRevenue = 0
    /\ credited = [n \in {} |-> CHOOSE u \in Users : TRUE]
    /\ reputation = [u \in Users |-> 0]
    /\ req = [r \in Requests |-> Idle]

-----------------------------------------------------------------------------
Begin(r, call) == req[r].at = "idle" /\ req' = [req EXCEPT ![r] = call]
Done(r)        == req' = [req EXCEPT ![r] = Idle]

Distance(p, q) == IF p > q THEN p - q ELSE q - p

\* The price is farther from the FMV than the anti-manipulation limit.
Deviates(c, p) == Fmv[c] > 0 /\ Distance(p, Fmv[c]) * 10000 > DeviationBps * Fmv[c]

\* The partial unique index: no other ACTIVE listing of the card.
NoOtherActive(l, c) == \A m \in Listings \ {l} : ~(listing[m].status = "ACTIVE" /\ listing[m].card = c)

(* createListing: hold, ownership and FMV are read; the insert follows.    *)
ListRead(r, u, l, c, p) ==
    /\ u \notin OnHold
    /\ owner[c] = u
    /\ Begin(r, [Idle EXCEPT !.at = "list", !.user = u, !.listing = l,
                    !.row = [status |-> IF Deviates(c, p) THEN "HELD" ELSE "ACTIVE",
                             card |-> c, seller |-> u, price |-> p, held |-> Deviates(c, p)]])
    /\ UNCHANGED <<listing, owner, books>>

ListCommit(r) ==
    LET l == req[r].listing IN
    /\ req[r].at = "list"
    /\ listing[l].status = "NONE"
    /\ req[r].row.status = "ACTIVE" => NoOtherActive(l, req[r].row.card)
    /\ listing' = [listing EXCEPT ![l] = req[r].row]
    /\ Done(r)
    /\ UNCHANGED <<owner, books>>

(* reviewListing and cancelListing read the row, then overwrite its status. *)
ReviewRead(r, l, ok) ==
    /\ listing[l].status = "HELD"
    /\ Begin(r, [Idle EXCEPT !.at = "review", !.listing = l, !.row = listing[l], !.approve = ok])
    /\ UNCHANGED <<listing, owner, books>>

\* Mutant of Reviewed: an approved listing keeps its heldReason.
ReviewedStillHeld(row, ok) == [status |-> IF ok THEN "ACTIVE" ELSE "CANCELLED", held |-> row.held]

\* What a review writes; row is the listing as it was read.
Reviewed(row, ok) == [status |-> IF ok THEN "ACTIVE" ELSE "CANCELLED", held |-> ~ok /\ row.held]

ReviewCommit(r) ==
    LET l   == req[r].listing
        new == Reviewed(req[r].row, req[r].approve)
    IN  /\ req[r].at = "review"
        /\ new.status = "ACTIVE" => NoOtherActive(l, listing[l].card)
        /\ listing' = [listing EXCEPT ![l].status = new.status, ![l].held = new.held]
        /\ Done(r)
        /\ UNCHANGED <<owner, books>>

CancelRead(r, u, l) ==
    /\ listing[l].status = "ACTIVE"
    /\ u = listing[l].seller \/ u \in Staff
    /\ Begin(r, [Idle EXCEPT !.at = "cancel", !.user = u, !.listing = l])
    /\ UNCHANGED <<listing, owner, books>>

CancelCommit(r) ==
    /\ req[r].at = "cancel"
    /\ listing' = [listing EXCEPT ![req[r].listing].status = "CANCELLED"]
    /\ Done(r)
    /\ UNCHANGED <<owner, books>>

(* buy: the key, the listing, the balance; the transaction; the completion. *)
(* A key that has an order ends the call: it is returned, whatever listing  *)
(* it was for.                                                              *)
\* Mutant of BuyRead: the listing's status is not checked.
BuyReadAnyStatus(r, u, l, k) ==
    /\ u \notin Suspended
    /\ order[k].status = "NONE"
    /\ listing[l].status # "NONE"
    /\ listing[l].seller # u
    /\ Begin(r, [Idle EXCEPT !.at = "buyBalance", !.user = u, !.listing = l, !.row = listing[l], !.key = k])
    /\ UNCHANGED <<listing, owner, books>>

BuyRead(r, u, l, k) ==
    /\ u \notin Suspended
    /\ order[k].status = "NONE"
    /\ listing[l].status = "ACTIVE"
    /\ listing[l].seller # u
    /\ Begin(r, [Idle EXCEPT !.at = "buyBalance", !.user = u, !.listing = l, !.row = listing[l], !.key = k])
    /\ UNCHANGED <<listing, owner, books>>

Affordable(u, price) == wallet[u] >= price

BuyBalance(r) ==
    /\ req[r].at = "buyBalance"
    /\ Affordable(req[r].user, req[r].row.price)
    /\ req' = [req EXCEPT ![r].at = "buyCommit"]
    /\ UNCHANGED <<listing, owner, books>>

Fee(price) == (price * FeeBps) \div 10000

\* The CHECK on LedgerEntry: a purchase whose fee truncates to 0 cannot commit.
Postable(price) == Fee(price) > 0 /\ price > Fee(price)

\* Mutant of KeyUnused: idempotencyKey is not unique.
KeyUnusedUnchecked(k) == k \in Keys

\* Order.idempotencyKey is unique.
KeyUnused(k) == order[k].status = "NONE"

\* Mutant of NewOwner: the card is moved when the order completes, not here.
NewOwnerUnmoved(c, u) == owner[c]

\* Who owns the card once u has bought it.
NewOwner(c, u) == u

BuyCommit(r) ==
    LET row == req[r].row
        u   == req[r].user
    IN  /\ req[r].at = "buyCommit"
        /\ KeyUnused(req[r].key)
        /\ Postable(row.price)
        /\ order' = [order EXCEPT ![req[r].key] =
                        [status |-> "PROCESSING", buyer |-> u, seller |-> row.seller,
                         listing |-> req[r].listing, price |-> row.price]]
        /\ wallet' = [wallet EXCEPT ![u] = @ - row.price,
                                    ![row.seller] = @ + (row.price - Fee(row.price))]
        /\ feeRevenue' = feeRevenue + Fee(row.price)
        /\ listing' = [listing EXCEPT ![req[r].listing].status = "SOLD"]
        /\ owner' = [owner EXCEPT ![row.card] = NewOwner(row.card, u)]
        /\ reputation' = [reputation EXCEPT ![row.seller] = @ + 1]
        /\ req' = [req EXCEPT ![r].at = "settle"]
        /\ UNCHANGED credited

Settle(r) ==
    /\ req[r].at = "settle"
    /\ order' = [order EXCEPT ![req[r].key].status = "COMPLETED"]
    /\ Done(r)
    /\ UNCHANGED <<listing, owner, wallet, feeRevenue, credited, reputation>>

\* creditBalance, in one transaction of its own.
CreditBalance(u) ==
    LET n == Cardinality(DOMAIN credited) + 1 IN
    /\ n <= MaxCredits
    /\ credited' = [i \in 1..n |-> IF i = n THEN u ELSE credited[i]]
    /\ wallet' = [wallet EXCEPT ![u] = @ + Credit]
    /\ UNCHANGED <<listing, owner, order, feeRevenue, reputation, req>>

\* A guard or a unique index fails, or the process dies: the call ends where it
\* is, with its order PROCESSING when that was after the transaction.
Abort(r) ==
    /\ req[r].at # "idle"
    /\ Done(r)
    /\ UNCHANGED <<listing, owner, books>>

Step(r) ==
    \/ \E u \in Users, l \in Listings, c \in Cards, p \in Prices : ListRead(r, u, l, c, p)
    \/ ListCommit(r)
    \/ \E l \in Listings, ok \in BOOLEAN : ReviewRead(r, l, ok)
    \/ ReviewCommit(r)
    \/ \E u \in Users, l \in Listings : CancelRead(r, u, l)
    \/ CancelCommit(r)
    \/ \E u \in Users, l \in Listings, k \in Keys : BuyRead(r, u, l, k)
    \/ BuyBalance(r)
    \/ BuyCommit(r)
    \/ Settle(r)
    \/ Abort(r)

Next == (\E r \in Requests : Step(r)) \/ (\E u \in Users : CreditBalance(u))

Spec == Init /\ [][Next]_vars

-----------------------------------------------------------------------------
Orders == {k \in Keys : order[k].status # "NONE"}
Bought(u) == {k \in Orders : order[k].buyer = u}
Sold(u)   == {k \in Orders : order[k].seller = u}

Charges  == [k \in Keys |-> order[k].price]
Fees     == [k \in Keys |-> Fee(order[k].price)]
Proceeds == [k \in Keys |-> order[k].price - Fee(order[k].price)]

CreditsOf(u) == {n \in DOMAIN credited : credited[n] = u}

\* Every balance is what the orders say: each order charged its buyer its price
\* once, paid its seller the price less the truncated fee, and paid the fee, and
\* raised the seller's reputation by one.  Retries of a key, two calls with one
\* key in flight and a crash before the completion post nothing twice.
BooksMatchOrders ==
    /\ \A u \in Users :
          /\ wallet[u] = Opening[u] + Credit * Cardinality(CreditsOf(u))
                         - SumFunctionOnSet(Charges, Bought(u)) + SumFunctionOnSet(Proceeds, Sold(u))
          /\ reputation[u] = Cardinality(Sold(u))
    /\ feeRevenue = SumFunctionOnSet(Fees, Orders)

\* A card changes hands only to a buyer whose order is created in the same step
\* for a listing of that card, and every such order moves it to its buyer.
CardFollowsPayment ==
    [][/\ \A c \in Cards : owner'[c] # owner[c] =>
              \E k \in Keys \ Orders : /\ order'[k].buyer = owner'[c]
                                       /\ order'[k].status = "PROCESSING"
                                       /\ listing[order'[k].listing].card = c
       /\ \A k \in Keys \ Orders : order'[k].status # "NONE" =>
              owner'[listing[order'[k].listing].card] = order'[k].buyer]_vars

\* A listing with a heldReason is never on sale: one priced away from the FMV
\* starts HELD, and however two reviews, a cancellation and a purchase of it race,
\* only the write of an approval, which clears the reason, makes it ACTIVE.
HeldIsNotOnSale == \A l \in Listings : listing[l].held => listing[l].status # "ACTIVE"

\* A listing is sold once: no two buyers pay for it.
SoldOnce ==
    \A j, k \in Orders : order[j].listing = order[k].listing => j = k

=============================================================================
