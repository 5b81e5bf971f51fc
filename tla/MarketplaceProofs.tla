------------------------- MODULE MarketplaceProofs -------------------------
(***************************************************************************)
(* The marketplace and the treasury, for any users, cards, prices, keys,   *)
(* quotes and number of calls in flight: types, no listing that is held    *)
(* for review is on sale, a card changes hands in the step that makes its  *)
(* buyer's order, and only then, and the books are what the orders say;    *)
(* payouts are those of quotes that were accepted.  Until two calls        *)
(* overlap, a listing is sold once, and a payout leaves the treasury above *)
(* its floor.                                                              *)
(*                                                                         *)
(* A purchase and an insert act on a listing as it was read or computed    *)
(* one or two steps ago.  CallsKnow says what is still true of it: a held  *)
(* row is not inserted as ACTIVE; a listing that was read to be bought is  *)
(* another user's and keeps its card, which is written once, by the        *)
(* insert; and an order that a call is about to complete exists.           *)
(* OffersKnow is the same of the quotes.                                   *)
(***************************************************************************)
EXTENDS MCMarketplace, Sums, FiniteSetTheorems, TLAPS

\* What the row in a call says of the listing it is for.
CallKnows(call, rows, orders) ==
    /\ call.at = "settle" => orders[call.key].status # "NONE"
    /\ call.at = "list" /\ call.row.held => call.row.status # "ACTIVE"
    /\ call.at \in {"buyBalance", "buyCommit"} =>
           /\ rows[call.listing].status # "NONE"
           /\ rows[call.listing].card = call.row.card
           /\ call.row.seller # call.user

CallsKnow == \A r \in Requests : CallKnows(req[r], listing, order)

IInv == TypeOK /\ HeldIsNotOnSale /\ CallsKnow

-----------------------------------------------------------------------------
\* The fee of a price is a number of units, and no more than the price (buy).
LEMMA FeeIsPart ==
    ASSUME NEW price \in Nat
    PROVE  Fee(price) \in Nat /\ price * FeeBps \in Nat
  <1>1. FeeBps \in Nat
    BY PriceAssumption
  <1>2. price * FeeBps \in Nat
    BY <1>1
  <1>3. \A n \in Nat : n \div 10000 \in Nat
    OBVIOUS
  <1> QED
    BY <1>2, <1>3 DEF Fee

\* The first rows and the idle call have their types, as there are cards, listings
\* and keys.
LEMMA InitialRows == NoRow \in ListingRow /\ NoOrder \in OrderRow /\ Idle \in RequestState
  <1>1. /\ (CHOOSE d \in Cards : TRUE) \in Cards
        /\ (CHOOSE m \in Listings : TRUE) \in Listings
        /\ (CHOOSE j \in Keys : TRUE) \in Keys
    BY IdAssumption
  <1>2. (CHOOSE u \in Users : TRUE) \in Users
    <2>1. \E u : u \in Users
      BY IdAssumption, PeopleAssumption
    <2> QED
      BY <2>1
  <1>3. NoRow \in ListingRow
    BY <1>1, <1>2 DEF NoRow, ListingRow, ListingStatuses
  <1>4. NoOrder \in OrderRow
    BY <1>2 DEF NoOrder, OrderRow
  <1> QED
    BY <1>1, <1>2, <1>3, <1>4 DEF Idle, RequestState, Steps

LEMMA InitInv == Init => IInv
  <1> SUFFICES ASSUME Init PROVE IInv
    OBVIOUS
  <1>1. 0 \in 0 .. MaxCredits /\ 1 .. 0 = {}
    BY PriceAssumption
  <1>2. credited \in [1 .. 0 -> Users]
    BY <1>1 DEF Init
  <1>3. \E n \in 0 .. MaxCredits : credited \in [1 .. n -> Users]
    BY <1>1, <1>2
  <1>4. TypeOK
    <2>1. wallet \in [Users -> Int]
      BY PriceAssumption DEF Init
    <2>2. reputation \in [Users -> Nat] /\ feeRevenue \in Nat
      BY DEF Init
    <2>3. /\ listing \in [Listings -> ListingRow] /\ order \in [Keys -> OrderRow]
          /\ req \in [Requests -> RequestState] /\ owner \in [Cards -> Users]
      BY InitialRows, PeopleAssumption DEF Init
    <2> QED
      BY <1>3, <2>1, <2>2, <2>3 DEF TypeOK
  <1>5. HeldIsNotOnSale /\ CallsKnow
    BY DEF Init, HeldIsNotOnSale, CallsKnow, CallKnows, NoRow, Idle
  <1> QED
    BY <1>4, <1>5 DEF IInv

-----------------------------------------------------------------------------
\* Listings that keep their card and are not undone, and orders that are not undone,
\* leave the calls what they know.
Kept(rows, orders) ==
    /\ \A l \in Listings : listing[l].status # "NONE" => rows[l].status # "NONE" /\ rows[l].card = listing[l].card
    /\ \A k \in Keys : order[k].status # "NONE" => orders[k].status # "NONE"

\* What the calls know after one of them has changed itself.
LEMMA OthersKnow ==
    ASSUME IInv, NEW r \in Requests, NEW call \in RequestState,
           Kept(listing', order'), req' = [req EXCEPT ![r] = call], CallKnows(call, listing', order')
    PROVE  CallsKnow' /\ req' \in [Requests -> RequestState]
  <1>1. \A s \in Requests : req'[s] = IF s = r THEN call ELSE req[s]
    BY DEF IInv, TypeOK
  <1>2. SUFFICES ASSUME NEW s \in Requests PROVE CallKnows(req[s], listing, order)'
    BY DEF CallsKnow, IInv, TypeOK
  <1>3. CASE s = r
    BY <1>1, <1>3 DEF CallKnows
  <1>4. CASE s # r
    <2>1. CallKnows(req[s], listing, order) /\ req'[s] = req[s] /\ req[s].listing \in Listings /\ req[s].key \in Keys
      BY <1>1, <1>4 DEF IInv, CallsKnow, TypeOK, RequestState
    <2> QED
      BY <2>1 DEF CallKnows, Kept
  <1> QED
    BY <1>3, <1>4

\* A call that changes only itself keeps the invariant.
LEMMA ReadInv ==
    ASSUME IInv, NEW r \in Requests, NEW call \in RequestState,
           UNCHANGED <<listing, owner, books>>,
           req' = [req EXCEPT ![r] = call], CallKnows(call, listing, order)
    PROVE  IInv'
  <1>1. CallsKnow' /\ req' \in [Requests -> RequestState]
    BY OthersKnow DEF Kept, books
  <1>2. TypeOK' /\ HeldIsNotOnSale'
    BY <1>1 DEF IInv, TypeOK, HeldIsNotOnSale, books
  <1> QED
    BY <1>1, <1>2 DEF IInv

\* A call that writes one listing, keeping its card if it had one, and no books.
LEMMA WriteInv ==
    ASSUME IInv, NEW r \in Requests, NEW l \in Listings, NEW row \in ListingRow,
           listing' = [listing EXCEPT ![l] = row],
           row.held => row.status # "ACTIVE",
           listing[l].status # "NONE" => row.status # "NONE" /\ row.card = listing[l].card,
           Done(r), UNCHANGED <<owner, books>>
    PROVE  IInv'
  <1>1. \A m \in Listings : listing'[m] = IF m = l THEN row ELSE listing[m]
    BY DEF IInv, TypeOK
  <1>2. CallKnows(Idle, listing', order')
    BY DEF CallKnows, Idle
  <1>3. CallsKnow' /\ req' \in [Requests -> RequestState]
    BY <1>1, <1>2, InitialRows, OthersKnow DEF Kept, Done, books
  <1>4. TypeOK'
    BY <1>3 DEF IInv, TypeOK, books
  <1>5. HeldIsNotOnSale'
    BY <1>1 DEF IInv, HeldIsNotOnSale
  <1> QED
    BY <1>3, <1>4, <1>5 DEF IInv

\* The reads of the four handlers, the balance check, and the end of a call.
LEMMA ReadsInv ==
    ASSUME IInv, NEW r \in Requests,
           \/ \E u \in Users, l \in Listings, c \in Cards, p \in Prices : ListRead(r, u, l, c, p)
           \/ \E l \in Listings, ok \in BOOLEAN : ReviewRead(r, l, ok)
           \/ \E u \in Users, l \in Listings : CancelRead(r, u, l)
           \/ \E u \in Users, l \in Listings, k \in Keys : BuyRead(r, u, l, k)
           \/ BuyBalance(r)
           \/ Abort(r)
    PROVE  IInv'
  <1> USE InitialRows
  <1>0. req[r] \in RequestState /\ CallKnows(req[r], listing, order) /\ listing \in [Listings -> ListingRow]
    BY DEF IInv, TypeOK, CallsKnow
  <1>1. ASSUME NEW u \in Users, NEW l \in Listings, NEW c \in Cards, NEW p \in Prices, ListRead(r, u, l, c, p)
        PROVE  IInv'
    <2> DEFINE row  == [status |-> IF Deviates(c, p) THEN "HELD" ELSE "ACTIVE",
                        card |-> c, seller |-> u, price |-> p, held |-> Deviates(c, p)]
               call == [Idle EXCEPT !.at = "list", !.user = u, !.listing = l, !.row = row]
    <2>1. Deviates(c, p) \in BOOLEAN
      BY DEF Deviates
    <2>2. row \in ListingRow /\ (row.held => row.status # "ACTIVE")
      BY <2>1, PriceAssumption DEF ListingRow, ListingStatuses
    <2>3. req' = [req EXCEPT ![r] = call] /\ UNCHANGED <<listing, owner, books>>
      BY <1>1 DEF ListRead, Begin
    <2> HIDE DEF row
    <2>4. call \in RequestState /\ call.at = "list" /\ call.row = row
      BY <2>2 DEF RequestState, Steps
    <2>5. CallKnows(call, listing, order)
      BY <2>2, <2>4 DEF CallKnows
    <2> HIDE DEF call
    <2> QED
      BY <2>3, <2>4, <2>5, ReadInv
  <1>2. ASSUME NEW l \in Listings, NEW ok \in BOOLEAN, ReviewRead(r, l, ok) PROVE IInv'
    <2> DEFINE call == [Idle EXCEPT !.at = "review", !.listing = l, !.row = listing[l], !.approve = ok]
    <2>1. call \in RequestState /\ CallKnows(call, listing, order)
      BY <1>0 DEF RequestState, Steps, CallKnows
    <2>2. req' = [req EXCEPT ![r] = call] /\ UNCHANGED <<listing, owner, books>>
      BY <1>2 DEF ReviewRead, Begin
    <2> HIDE DEF call
    <2> QED
      BY <2>1, <2>2, ReadInv
  <1>3. ASSUME NEW u \in Users, NEW l \in Listings, CancelRead(r, u, l) PROVE IInv'
    <2> DEFINE call == [Idle EXCEPT !.at = "cancel", !.user = u, !.listing = l]
    <2>1. call \in RequestState /\ CallKnows(call, listing, order)
      BY DEF RequestState, Steps, CallKnows
    <2>2. req' = [req EXCEPT ![r] = call] /\ UNCHANGED <<listing, owner, books>>
      BY <1>3 DEF CancelRead, Begin
    <2> HIDE DEF call
    <2> QED
      BY <2>1, <2>2, ReadInv
  <1>4. ASSUME NEW u \in Users, NEW l \in Listings, NEW k \in Keys, BuyRead(r, u, l, k) PROVE IInv'
    <2> DEFINE call == [Idle EXCEPT !.at = "buyBalance", !.user = u, !.listing = l, !.row = listing[l], !.key = k]
    <2>1. call \in RequestState /\ call.row = listing[l] /\ call.listing = l /\ call.at = "buyBalance" /\ call.user = u
      BY <1>0 DEF RequestState, Steps
    <2>2. CallKnows(call, listing, order)
      BY <1>4, <2>1 DEF CallKnows, BuyRead
    <2>3. req' = [req EXCEPT ![r] = call] /\ UNCHANGED <<listing, owner, books>>
      BY <1>4 DEF BuyRead, Begin
    <2> HIDE DEF call
    <2> QED
      BY <2>1, <2>2, <2>3, ReadInv
  <1>5. CASE BuyBalance(r)
    <2> DEFINE call == [req[r] EXCEPT !.at = "buyCommit"]
    <2>1. /\ call \in RequestState /\ call.at = "buyCommit"
          /\ call.listing = req[r].listing /\ call.row = req[r].row /\ call.user = req[r].user
      BY <1>0 DEF RequestState, Steps
    <2>2. CallKnows(call, listing, order)
      BY <1>0, <1>5, <2>1 DEF CallKnows, BuyBalance
    <2>3. req' = [req EXCEPT ![r] = call] /\ UNCHANGED <<listing, owner, books>>
      BY <1>5 DEF BuyBalance
    <2> HIDE DEF call
    <2> QED
      BY <2>1, <2>2, <2>3, ReadInv
  <1>6. CASE Abort(r)
    <2>1. CallKnows(Idle, listing, order)
      BY DEF CallKnows, Idle
    <2> QED
      BY <1>6, <2>1, ReadInv DEF Abort, Done
  <1> QED
    BY <1>1, <1>2, <1>3, <1>4, <1>5, <1>6

\* The writes of createListing, reviewListing and cancelListing.
LEMMA WritesInv ==
    ASSUME IInv, NEW r \in Requests, ListCommit(r) \/ ReviewCommit(r) \/ CancelCommit(r)
    PROVE  IInv'
  <1> DEFINE l == req[r].listing
  <1>0. /\ l \in Listings /\ req[r].row \in ListingRow /\ req[r].approve \in BOOLEAN
        /\ listing[l] \in ListingRow
        /\ CallKnows(req[r], listing, order)
        /\ listing[l].held => listing[l].status # "ACTIVE"
    BY DEF IInv, TypeOK, RequestState, CallsKnow, HeldIsNotOnSale
  <1> HIDE DEF l
  <1>1. CASE ListCommit(r)
    <2>1. /\ listing' = [listing EXCEPT ![l] = req[r].row]
          /\ listing[l].status = "NONE"
          /\ req[r].row.held => req[r].row.status # "ACTIVE"
          /\ Done(r) /\ UNCHANGED <<owner, books>>
      BY <1>0, <1>1 DEF ListCommit, l, CallKnows
    <2> QED
      BY <1>0, <2>1, WriteInv
  <1>2. CASE ReviewCommit(r)
    <2> DEFINE new == Reviewed(req[r].row, req[r].approve)
               row == [listing[l] EXCEPT !.status = new.status, !.held = new.held]
    <2>1. /\ new.status \in {"ACTIVE", "CANCELLED"} /\ new.held \in BOOLEAN
          /\ new.held => new.status = "CANCELLED"
      BY <1>0 DEF Reviewed, ListingRow
    <2>2. listing' = [listing EXCEPT ![l] = row] /\ Done(r) /\ UNCHANGED <<owner, books>>
      BY <1>2 DEF ReviewCommit, l
    <2> HIDE DEF new
    <2>3. /\ row \in ListingRow /\ row.status # "NONE" /\ row.card = listing[l].card
          /\ row.held => row.status # "ACTIVE"
      BY <1>0, <2>1 DEF ListingRow, ListingStatuses
    <2> HIDE DEF row
    <2> QED
      BY <1>0, <2>2, <2>3, WriteInv
  <1>3. CASE CancelCommit(r)
    <2> DEFINE row == [listing[l] EXCEPT !.status = "CANCELLED"]
    <2>1. listing' = [listing EXCEPT ![l] = row] /\ Done(r) /\ UNCHANGED <<owner, books>>
      BY <1>3 DEF CancelCommit, l
    <2>2. row \in ListingRow /\ row.status = "CANCELLED" /\ row.card = listing[l].card
      BY <1>0 DEF ListingRow, ListingStatuses
    <2> HIDE DEF row
    <2> QED
      BY <1>0, <2>1, <2>2, WriteInv
  <1> QED
    BY <1>1, <1>2, <1>3

-----------------------------------------------------------------------------
\* What a purchase finds: the listing it has read is there, of the same card.
LEMMA PurchaseFinds ==
    ASSUME IInv, NEW r \in Requests, req[r].at = "buyCommit"
    PROVE  /\ req[r] \in RequestState /\ req[r].user \in Users /\ req[r].key \in Keys
           /\ req[r].listing \in Listings /\ listing[req[r].listing] \in ListingRow
           /\ listing[req[r].listing].card = req[r].row.card
           /\ listing[req[r].listing].status # "NONE"
           /\ req[r].row.seller # req[r].user
           /\ req[r].row.card \in Cards /\ req[r].row.seller \in Users /\ req[r].row.price \in Nat
  <1>1. req[r] \in RequestState /\ CallKnows(req[r], listing, order)
    BY DEF IInv, TypeOK, CallsKnow
  <1>2. req[r].row \in ListingRow /\ req[r].listing \in Listings
    BY <1>1 DEF RequestState
  <1> QED
    BY <1>1, <1>2 DEF RequestState, ListingRow, CallKnows, IInv, TypeOK

\* Two postings to the wallets leave balances.
LEMMA TransferIsBalance ==
    ASSUME NEW w \in [Users -> Int], NEW u \in Users, NEW v \in Users, NEW a \in Int, NEW b \in Int
    PROVE  [w EXCEPT ![u] = @ - a, ![v] = @ + b] \in [Users -> Int]
  <1>1. [w EXCEPT ![u] = @ - a] \in [Users -> Int]
    OBVIOUS
  <1> QED
    BY <1>1

LEMMA PurchaseInv ==
    ASSUME IInv, NEW r \in Requests, BuyCommit(r)
    PROVE  IInv'
  <1> DEFINE l      == req[r].listing
             price  == req[r].row.price
             seller == req[r].row.seller
             u      == req[r].user
             row    == [listing[l] EXCEPT !.status = "SOLD"]
             new    == [status |-> "PROCESSING", buyer |-> u, seller |-> seller, listing |-> l, price |-> price]
             call   == [req[r] EXCEPT !.at = "settle"]
  <1>0. req[r].at = "buyCommit"
    BY DEF BuyCommit
  <1>1. /\ req[r] \in RequestState /\ u \in Users /\ req[r].key \in Keys
        /\ l \in Listings /\ listing[l] \in ListingRow
        /\ req[r].row.card \in Cards /\ seller \in Users /\ price \in Nat
    BY <1>0, PurchaseFinds
  <1>2. new \in OrderRow
    BY <1>1 DEF OrderRow
  <1>3. row \in ListingRow /\ row.status = "SOLD" /\ row.card = listing[l].card
    BY <1>1 DEF ListingRow, ListingStatuses
  <1>4. /\ call \in RequestState /\ call.at = "settle" /\ call.key = req[r].key
        /\ new.status = "PROCESSING"
    BY <1>1 DEF RequestState, Steps
  <1>5. /\ order' = [order EXCEPT ![req[r].key] = new]
        /\ wallet' = [wallet EXCEPT ![u] = @ - price, ![seller] = @ + (price - Fee(price))]
        /\ feeRevenue' = feeRevenue + Fee(price)
        /\ listing' = [listing EXCEPT ![l] = row]
        /\ owner' = [owner EXCEPT ![req[r].row.card] = u]
        /\ reputation' = [reputation EXCEPT ![seller] = @ + 1]
        /\ req' = [req EXCEPT ![r] = call] /\ credited' = credited
    BY DEF BuyCommit, NewOwner
  <1> HIDE DEF row, new, call
  <1>6. order' \in [Keys -> OrderRow] /\ owner' \in [Cards -> Users]
    BY <1>1, <1>2, <1>5 DEF IInv, TypeOK
  <1>7. Fee(price) \in Nat
    BY <1>1, FeeIsPart
  <1>8. wallet' \in [Users -> Int] /\ feeRevenue' \in Nat
    <2>1. wallet \in [Users -> Int] /\ feeRevenue \in Nat
      BY DEF IInv, TypeOK
    <2>2. price - Fee(price) \in Int /\ price \in Int
      BY <1>1, <1>7
    <2>3. wallet' \in [Users -> Int]
      BY <1>1, <1>5, <2>1, <2>2, TransferIsBalance
    <2> QED
      BY <1>5, <1>7, <2>1, <2>3
  <1>9. reputation' \in [Users -> Nat]
    <2>1. reputation \in [Users -> Nat]
      BY DEF IInv, TypeOK
    <2>2. reputation' = [reputation EXCEPT ![seller] = @ + 1]
      BY <1>5
    <2> QED
      BY <1>1, <2>1, <2>2
  <1>10. \A m \in Listings : listing'[m] = IF m = l THEN row ELSE listing[m]
    BY <1>5 DEF IInv, TypeOK
  <1>11. CallsKnow' /\ req' \in [Requests -> RequestState]
    <2>0. \A k \in Keys : order'[k] = IF k = req[r].key THEN new ELSE order[k]
      BY <1>1, <1>5 DEF IInv, TypeOK
    <2>1. Kept(listing', order')
      BY <1>3, <1>4, <1>10, <2>0 DEF Kept
    <2>2. CallKnows(call, listing', order')
      BY <1>1, <1>4, <2>0 DEF CallKnows
    <2> QED
      BY <1>4, <1>5, <2>1, <2>2, OthersKnow
  <1>12. listing' \in [Listings -> ListingRow]
    BY <1>3, <1>5 DEF IInv, TypeOK
  <1>13. TypeOK'
    BY <1>5, <1>6, <1>8, <1>9, <1>11, <1>12 DEF IInv, TypeOK
  <1>14. HeldIsNotOnSale'
    BY <1>3, <1>10 DEF IInv, HeldIsNotOnSale
  <1> QED
    BY <1>11, <1>13, <1>14 DEF IInv

\* The completion of an order changes its status.
LEMMA SettleInv ==
    ASSUME IInv, NEW r \in Requests, Settle(r)
    PROVE  IInv'
  <1>1. req[r].key \in Keys /\ order[req[r].key] \in OrderRow
    BY DEF IInv, TypeOK, RequestState
  <1>2. [order[req[r].key] EXCEPT !.status = "COMPLETED"] \in OrderRow
    BY <1>1 DEF OrderRow
  <1>3. /\ order' \in [Keys -> OrderRow]
        /\ \A k \in Keys : order'[k].status = IF k = req[r].key THEN "COMPLETED" ELSE order[k].status
    BY <1>1, <1>2 DEF Settle, IInv, TypeOK
  <1>4. CallKnows(Idle, listing', order')
    BY DEF CallKnows, Idle
  <1>5. CallsKnow' /\ req' \in [Requests -> RequestState]
    <2>1. Kept(listing', order')
      BY <1>3 DEF Settle, Kept
    <2>2. req' = [req EXCEPT ![r] = Idle]
      BY DEF Settle, Done
    <2> QED
      BY <1>4, <2>1, <2>2, InitialRows, OthersKnow
  <1>6. TypeOK' /\ HeldIsNotOnSale'
    BY <1>3, <1>5 DEF Settle, IInv, TypeOK, HeldIsNotOnSale
  <1> QED
    BY <1>5, <1>6 DEF IInv

\* creditBalance touches a wallet and the list of credits.
LEMMA CreditInv ==
    ASSUME IInv, NEW u \in Users, CreditBalance(u)
    PROVE  IInv'
  <1>1. PICK m \in 0 .. MaxCredits : credited \in [1 .. m -> Users]
    BY DEF IInv, TypeOK
  <1>2. Cardinality(DOMAIN credited) = m
    <2>1. DOMAIN credited = 1 .. m /\ m \in Nat
      BY <1>1, PriceAssumption
    <2> QED
      BY <2>1, FS_Interval
  <1>3. m + 1 \in 0 .. MaxCredits /\ credited' = [i \in 1 .. (m + 1) |-> IF i = m + 1 THEN u ELSE credited[i]]
    BY <1>1, <1>2, PriceAssumption DEF CreditBalance
  <1>4. credited' \in [1 .. (m + 1) -> Users]
    <2>1. \A i \in 1 .. (m + 1) : i # m + 1 => i \in 1 .. m
      BY <1>1
    <2> QED
      BY <1>1, <1>3, <2>1
  <1>5. wallet' \in [Users -> Int]
    <2>1. wallet \in [Users -> Int] /\ Credit \in Int
      BY PriceAssumption DEF IInv, TypeOK
    <2>2. wallet' = [wallet EXCEPT ![u] = @ + Credit]
      BY DEF CreditBalance
    <2> QED
      BY <2>1, <2>2
  <1>6. UNCHANGED <<listing, owner, order, feeRevenue, reputation, req>>
    BY DEF CreditBalance
  <1>7. TypeOK'
    BY <1>3, <1>4, <1>5, <1>6 DEF IInv, TypeOK
  <1>8. HeldIsNotOnSale' /\ CallsKnow'
    BY <1>6 DEF IInv, HeldIsNotOnSale, CallsKnow
  <1> QED
    BY <1>7, <1>8 DEF IInv

\* Every step keeps the invariant.
LEMMA StepInv == IInv /\ [Next]_vars => IInv'
  <1> SUFFICES ASSUME IInv, [Next]_vars PROVE IInv'
    OBVIOUS
  <1>1. CASE UNCHANGED vars
    BY <1>1 DEF vars, books, IInv, TypeOK, HeldIsNotOnSale, CallsKnow
  <1>2. ASSUME NEW r \in Requests, Step(r) PROVE IInv'
    BY <1>2, ReadsInv, WritesInv, PurchaseInv, SettleInv DEF Step
  <1>3. ASSUME NEW u \in Users, CreditBalance(u) PROVE IInv'
    BY <1>3, CreditInv
  <1> QED
    BY <1>1, <1>2, <1>3 DEF Next

-----------------------------------------------------------------------------
\* One step keeps every card with its owner unless it makes an order, and an order
\* it makes gives its card to its buyer.
Payments ==
    /\ \A c \in Cards : owner'[c] # owner[c] =>
           \E k \in Keys \ Orders : /\ order'[k].buyer = owner'[c]
                                    /\ order'[k].status = "PROCESSING"
                                    /\ listing[order'[k].listing].card = c
    /\ \A k \in Keys \ Orders : order'[k].status # "NONE" =>
           owner'[listing[order'[k].listing].card] = order'[k].buyer

LEMMA PurchasePays ==
    ASSUME IInv, NEW r \in Requests, BuyCommit(r)
    PROVE  Payments
  <1> DEFINE key    == req[r].key
             bought == req[r].row.card
             new    == [status |-> "PROCESSING", buyer |-> req[r].user, seller |-> req[r].row.seller,
                        listing |-> req[r].listing, price |-> req[r].row.price]
  <1>1. /\ req[r].user \in Users /\ key \in Keys /\ bought \in Cards
        /\ listing[req[r].listing].card = bought
    BY PurchaseFinds DEF BuyCommit
  <1>2. /\ order' = [order EXCEPT ![key] = new] /\ order[key].status = "NONE"
        /\ owner' = [owner EXCEPT ![bought] = req[r].user]
    BY DEF BuyCommit, KeyUnused, NewOwner
  <1>3. new.status = "PROCESSING" /\ new.buyer = req[r].user /\ listing[new.listing].card = bought
    BY <1>1
  <1> HIDE DEF new, key, bought
  <1>4. /\ \A k \in Keys : order'[k] = IF k = key THEN new ELSE order[k]
        /\ \A c \in Cards : owner'[c] = IF c = bought THEN req[r].user ELSE owner[c]
    BY <1>1, <1>2 DEF IInv, TypeOK
  <1>5. key \in Keys \ Orders
    BY <1>1, <1>2 DEF Orders
  <1>6. \A k \in Keys \ Orders : order'[k].status # "NONE" => k = key
    BY <1>4 DEF Orders
  <1>7. \A c \in Cards : owner'[c] # owner[c] => c = bought
    BY <1>4
  <1> QED
    BY <1>1, <1>3, <1>4, <1>5, <1>6, <1>7 DEF Payments

\* Every other step leaves the owners alone and makes no order.
LEMMA OthersPayNothing ==
    ASSUME IInv, [Next]_vars, \A r \in Requests : ~BuyCommit(r)
    PROVE  Payments
  <1>1. owner' = owner
    BY DEF Next, Step, ListRead, ListCommit, ReviewRead, ReviewCommit, CancelRead, CancelCommit, BuyRead,
           BuyBalance, Settle, Abort, CreditBalance, vars
  <1>2. \A k \in Keys : order[k].status = "NONE" => order'[k].status = "NONE"
    <2>1. CASE order' = order
      BY <2>1
    <2>2. ASSUME NEW r \in Requests, Settle(r)
          PROVE  \A k \in Keys : order[k].status = "NONE" => order'[k].status = "NONE"
      <3>1. order[req[r].key].status # "NONE" /\ req[r].key \in Keys
        BY <2>2 DEF Settle, IInv, TypeOK, CallsKnow, CallKnows, RequestState
      <3> QED
        BY <2>2, <3>1 DEF Settle, IInv, TypeOK
    <2> QED
      BY <2>1, <2>2 DEF Next, Step, ListRead, ListCommit, ReviewRead, ReviewCommit, CancelRead, CancelCommit,
                       BuyRead, BuyBalance, Abort, CreditBalance, vars, books
  <1> QED
    BY <1>1, <1>2 DEF Payments, Orders

\* A card changes hands only to who has just paid for it.
LEMMA StepPays == IInv /\ [Next]_vars => [Payments]_vars
  <1> SUFFICES ASSUME IInv, [Next]_vars PROVE Payments
    OBVIOUS
  <1> QED
    BY PurchasePays, OthersPayNothing

-----------------------------------------------------------------------------
\* The invariant holds of every reachable state.
THEOREM InvariantHolds == Spec => []IInv
  <1> QED
    BY InitInv, StepInv, PTL DEF Spec

\* Every variable keeps its type: balances are whole units, prices are natural
\* numbers, a listing has one of the statuses (the rows the handlers write).
THEOREM TypeCorrect == Spec => []TypeOK
  <1>1. IInv => TypeOK
    BY DEF IInv
  <1> QED
    BY <1>1, InvariantHolds, PTL

\* A listing with a heldReason is never on sale, whatever reviews, cancellations and
\* purchases of it race (createListing, reviewListing).
THEOREM HeldListingsAreOffSale == Spec => []HeldIsNotOnSale
  <1>1. IInv => HeldIsNotOnSale
    BY DEF IInv
  <1> QED
    BY <1>1, InvariantHolds, PTL

\* A card changes hands only to a buyer whose order is made in the same step, for a
\* listing of that card, and every order made moves it, although a purchase acts on
\* a listing it has read two steps ago (buy).
THEOREM CardsFollowPayments == Spec => CardFollowsPayment
  <1> QED
    BY InvariantHolds, StepPays, PTL DEF Spec, CardFollowsPayment, Payments

-----------------------------------------------------------------------------
\* The books: the orders so far are finitely many, so their sums are sums.
BooksInv == IInv /\ IsFiniteSet(Orders) /\ BooksMatchOrders

\* The amounts of the orders are numbers.
LEMMA AmountsAreNumbers ==
    ASSUME IInv
    PROVE  \A k \in Keys : Charges[k] \in Int /\ Fees[k] \in Int /\ Proceeds[k] \in Int
  <1> SUFFICES ASSUME NEW k \in Keys PROVE Charges[k] \in Int /\ Fees[k] \in Int /\ Proceeds[k] \in Int
    OBVIOUS
  <1>1. order[k].price \in Nat
    BY DEF IInv, TypeOK, OrderRow
  <1>2. Fee(order[k].price) \in Nat
    BY <1>1, FeeIsPart
  <1> QED
    BY <1>1, <1>2 DEF Charges, Fees, Proceeds

\* A step that leaves accounts, credits and the amounts of the orders alone.
LEMMA BooksStay ==
    ASSUME BooksInv, UNCHANGED <<wallet, feeRevenue, credited, reputation>>,
           \A k \in Keys : /\ order'[k].price = order[k].price /\ order'[k].buyer = order[k].buyer
                           /\ order'[k].seller = order[k].seller
                           /\ (order'[k].status = "NONE") = (order[k].status = "NONE")
    PROVE  IsFiniteSet(Orders') /\ BooksMatchOrders'
  <1>1. Orders' = Orders
    BY DEF Orders
  <1>2. Charges' = Charges /\ Fees' = Fees /\ Proceeds' = Proceeds
    BY DEF Charges, Fees, Proceeds
  <1>3. \A u \in Users : Bought(u)' = Bought(u) /\ Sold(u)' = Sold(u) /\ CreditsOf(u)' = CreditsOf(u)
    BY <1>1 DEF Bought, Sold, CreditsOf, Orders
  <1> QED
    BY <1>1, <1>2, <1>3 DEF BooksInv, BooksMatchOrders

\* What the postings of a purchase change of a balance: no one buys from himself.
LEMMA TransferAt ==
    ASSUME NEW w \in [Users -> Int], NEW u \in Users, NEW v \in Users, NEW a \in Int, NEW b \in Int, NEW x \in Users
    PROVE  u # v => [w EXCEPT ![u] = @ - a, ![v] = @ + b][x]
                        = w[x] - (IF x = u THEN a ELSE 0) + (IF x = v THEN b ELSE 0)
  OBVIOUS

\* A purchase adds one order to what its buyer has bought and its seller has sold.
LEMMA PurchaseBooks ==
    ASSUME BooksInv, NEW r \in Requests, BuyCommit(r)
    PROVE  IsFiniteSet(Orders') /\ BooksMatchOrders'
  <1>0. /\ req[r].at = "buyCommit" /\ order[req[r].key].status = "NONE"
        /\ IInv /\ IsFiniteSet(Orders) /\ BooksMatchOrders
    BY DEF BuyCommit, KeyUnused, BooksInv
  <1>1. PICK b \in Users, s \in Users, key \in Keys, price \in Nat :
           b = req[r].user /\ s = req[r].row.seller /\ key = req[r].key /\ price = req[r].row.price /\ b # s
    BY <1>0, PurchaseFinds
  <1>2. PICK fee \in Nat : fee = Fee(price)
    BY FeeIsPart
  <1>3. PICK new : new = [status |-> "PROCESSING", buyer |-> b, seller |-> s,
                          listing |-> req[r].listing, price |-> price]
    OBVIOUS
  <1>4. /\ order' = [order EXCEPT ![key] = new]
        /\ wallet' = [wallet EXCEPT ![b] = @ - price, ![s] = @ + (price - fee)]
        /\ feeRevenue' = feeRevenue + fee
        /\ reputation' = [reputation EXCEPT ![s] = @ + 1]
        /\ credited' = credited
    BY <1>1, <1>2, <1>3 DEF BuyCommit
  <1>5. /\ \A k \in Keys : order'[k] = IF k = key THEN new ELSE order[k]
        /\ wallet \in [Users -> Int] /\ feeRevenue \in Nat /\ reputation \in [Users -> Nat]
        /\ \A u \in Users : Opening[u] \in Int
    <2>1. /\ order \in [Keys -> OrderRow]
          /\ wallet \in [Users -> Int] /\ feeRevenue \in Nat /\ reputation \in [Users -> Nat]
      BY <1>0 DEF IInv, TypeOK
    <2>2. order' = [order EXCEPT ![key] = new]
      BY <1>4
    <2>3. \A k \in Keys : order'[k] = IF k = key THEN new ELSE order[k]
      BY <2>1, <2>2
    <2>4. \A u \in Users : Opening[u] \in Int
      BY PriceAssumption
    <2> QED
      BY <2>1, <2>3, <2>4
  <1>6. new.status = "PROCESSING" /\ new.buyer = b /\ new.seller = s /\ new.price = price
    BY <1>3
  <1>7. key \notin Orders /\ Orders \subseteq Keys
    BY <1>0, <1>1 DEF Orders
  <1>8. Orders' = Orders \cup {key}
    BY <1>5, <1>6, <1>7 DEF Orders
  <1>9. /\ \A k \in Orders : Charges'[k] = Charges[k] /\ Fees'[k] = Fees[k] /\ Proceeds'[k] = Proceeds[k]
        /\ Charges'[key] = price /\ Fees'[key] = fee /\ Proceeds'[key] = price - fee
    BY <1>2, <1>5, <1>6, <1>7 DEF Charges, Fees, Proceeds
  <1>10. \A k \in Orders : Charges[k] \in Int /\ Fees[k] \in Int /\ Proceeds[k] \in Int
    BY <1>0, <1>7, AmountsAreNumbers
  <1>11. ASSUME NEW u \in Users
         PROVE  /\ Bought(u)' = IF u = b THEN Bought(u) \cup {key} ELSE Bought(u)
                /\ Sold(u)' = IF u = s THEN Sold(u) \cup {key} ELSE Sold(u)
                /\ CreditsOf(u)' = CreditsOf(u)
                /\ Bought(u) \subseteq Orders /\ Sold(u) \subseteq Orders
    BY <1>4, <1>5, <1>6, <1>7, <1>8 DEF Bought, Sold, CreditsOf
  <1>12. ASSUME NEW u \in Users PROVE IsFiniteSet(Bought(u)) /\ IsFiniteSet(Sold(u))
    BY <1>0, <1>11, FS_Subset
  <1>13. SumFunctionOnSet(Fees', Orders') = SumFunctionOnSet(Fees, Orders) + fee
    BY <1>0, <1>7, <1>8, <1>9, <1>10, SumInsert
  <1>14. ASSUME NEW u \in Users
         PROVE  SumFunctionOnSet(Charges', Bought(u)')
                    = SumFunctionOnSet(Charges, Bought(u)) + (IF u = b THEN price ELSE 0)
    <2>1. \A k \in Bought(u) : Charges[k] \in Int /\ Charges'[k] = Charges[k]
      BY <1>9, <1>10, <1>11
    <2>2. CASE u = b
      <3>1. SumFunctionOnSet(Charges', Bought(u) \cup {key}) = SumFunctionOnSet(Charges, Bought(u)) + Charges'[key]
        BY <1>7, <1>9, <1>11, <1>12, <2>1, SumInsert
      <3> QED
        BY <1>9, <1>11, <2>2, <3>1
    <2>3. CASE u # b
      <3>1. SumFunctionOnSet(Charges', Bought(u)) = SumFunctionOnSet(Charges, Bought(u))
        BY <1>12, <2>1, SumEqual
      <3>2. SumFunctionOnSet(Charges, Bought(u)) \in Int
        BY <1>12, <2>1, SumPick
      <3> QED
        BY <1>11, <2>3, <3>1, <3>2
    <2> QED
      BY <2>2, <2>3
  <1>15. ASSUME NEW u \in Users
         PROVE  SumFunctionOnSet(Proceeds', Sold(u)')
                    = SumFunctionOnSet(Proceeds, Sold(u)) + (IF u = s THEN price - fee ELSE 0)
    <2>1. \A k \in Sold(u) : Proceeds[k] \in Int /\ Proceeds'[k] = Proceeds[k]
      BY <1>9, <1>10, <1>11
    <2>2. CASE u = s
      <3>1. SumFunctionOnSet(Proceeds', Sold(u) \cup {key}) = SumFunctionOnSet(Proceeds, Sold(u)) + Proceeds'[key]
        BY <1>7, <1>9, <1>11, <1>12, <2>1, SumInsert
      <3> QED
        BY <1>9, <1>11, <2>2, <3>1
    <2>3. CASE u # s
      <3>1. SumFunctionOnSet(Proceeds', Sold(u)) = SumFunctionOnSet(Proceeds, Sold(u))
        BY <1>12, <2>1, SumEqual
      <3>2. SumFunctionOnSet(Proceeds, Sold(u)) \in Int
        BY <1>12, <2>1, SumPick
      <3> QED
        BY <1>11, <2>3, <3>1, <3>2
    <2> QED
      BY <2>2, <2>3
  <1>16. ASSUME NEW u \in Users
         PROVE  /\ wallet'[u] = Opening[u] + Credit * Cardinality(CreditsOf(u)')
                                - SumFunctionOnSet(Charges', Bought(u)') + SumFunctionOnSet(Proceeds', Sold(u)')
                /\ reputation'[u] = Cardinality(Sold(u)')
    <2>1. wallet'[u] = wallet[u] - (IF u = b THEN price ELSE 0) + (IF u = s THEN price - fee ELSE 0)
      <3>1. price - fee \in Int /\ price \in Int /\ wallet \in [Users -> Int]
        BY <1>5
      <3>2. wallet' = [wallet EXCEPT ![b] = @ - price, ![s] = @ + (price - fee)]
        BY <1>4
      <3> QED
        BY <1>1, <3>1, <3>2, TransferAt
    <2>2. /\ SumFunctionOnSet(Charges, Bought(u)) \in Int /\ SumFunctionOnSet(Proceeds, Sold(u)) \in Int
      BY <1>10, <1>11, <1>12, SumPick
    <2>3. Credit * Cardinality(CreditsOf(u)) \in Int
      <3>1. PICK m \in 0 .. MaxCredits : credited \in [1 .. m -> Users]
        BY <1>0 DEF IInv, TypeOK
      <3>2. m \in Int /\ DOMAIN credited = 1 .. m
        BY <3>1, PriceAssumption
      <3>3. IsFiniteSet(1 .. m)
        BY <3>2, FS_Interval
      <3>4. Cardinality(CreditsOf(u)) \in Nat
        BY <3>2, <3>3, FS_Subset, FS_CardinalityType DEF CreditsOf
      <3> QED
        BY <3>4, PriceAssumption
    <2>4. wallet[u] = Opening[u] + Credit * Cardinality(CreditsOf(u))
                      - SumFunctionOnSet(Charges, Bought(u)) + SumFunctionOnSet(Proceeds, Sold(u))
      BY <1>0 DEF BooksMatchOrders
    <2>5. wallet'[u] = Opening[u] + Credit * Cardinality(CreditsOf(u)')
                       - SumFunctionOnSet(Charges', Bought(u)') + SumFunctionOnSet(Proceeds', Sold(u)')
      <3> DEFINE c  == Credit * Cardinality(CreditsOf(u))
                 p  == SumFunctionOnSet(Charges, Bought(u))
                 q  == SumFunctionOnSet(Proceeds, Sold(u))
                 dp == IF u = b THEN price ELSE 0
                 dq == IF u = s THEN price - fee ELSE 0
      <3>1. /\ c \in Int /\ p \in Int /\ q \in Int /\ dp \in Int /\ dq \in Int /\ Opening[u] \in Int
            /\ wallet[u] = Opening[u] + c - p + q
            /\ wallet'[u] = wallet[u] - dp + dq
        BY <1>5, <2>1, <2>2, <2>3, <2>4
      <3>2. /\ Credit * Cardinality(CreditsOf(u)') = c
            /\ SumFunctionOnSet(Charges', Bought(u)') = p + dp
            /\ SumFunctionOnSet(Proceeds', Sold(u)') = q + dq
        BY <1>11, <1>14, <1>15
      <3> HIDE DEF c, p, q, dp, dq
      <3>3. wallet'[u] = Opening[u] + c - (p + dp) + (q + dq)
        BY <3>1
      <3> QED
        BY <3>2, <3>3
    <2>6. reputation'[u] = Cardinality(Sold(u)')
      <3>1. reputation[u] = Cardinality(Sold(u)) /\ reputation'[u] = IF u = s THEN reputation[u] + 1 ELSE reputation[u]
        BY <1>0, <1>4, <1>5 DEF BooksMatchOrders
      <3>2. Cardinality(Sold(u) \cup {key}) = Cardinality(Sold(u)) + 1
        BY <1>7, <1>11, <1>12, FS_AddElement
      <3> QED
        BY <1>11, <3>1, <3>2
    <2> QED
      BY <2>5, <2>6
  <1>17. feeRevenue' = SumFunctionOnSet(Fees', Orders')
    BY <1>0, <1>4, <1>13 DEF BooksMatchOrders
  <1>18. IsFiniteSet(Orders')
    BY <1>0, <1>8, FS_AddElement
  <1> QED
    BY <1>16, <1>17, <1>18 DEF BooksMatchOrders

\* A credit adds one to those of its user.
LEMMA CreditBooks ==
    ASSUME BooksInv, NEW b \in Users, CreditBalance(b)
    PROVE  IsFiniteSet(Orders') /\ BooksMatchOrders'
  <1>1. PICK m \in 0 .. MaxCredits : credited \in [1 .. m -> Users]
    BY DEF BooksInv, IInv, TypeOK
  <1>2. m \in Nat /\ m \in Int /\ m + 1 \notin 1 .. m /\ DOMAIN credited = 1 .. m
    BY <1>1, PriceAssumption
  <1>3. IsFiniteSet(1 .. m) /\ Cardinality(1 .. m) = m
    BY <1>2, FS_Interval
  <1>4. credited' = [i \in 1 .. (m + 1) |-> IF i = m + 1 THEN b ELSE credited[i]]
    BY <1>2, <1>3 DEF CreditBalance
  <1>5. /\ wallet' = [wallet EXCEPT ![b] = @ + Credit]
        /\ UNCHANGED <<order, feeRevenue, reputation>>
    BY DEF CreditBalance
  <1>6. /\ Orders' = Orders /\ Charges' = Charges /\ Fees' = Fees /\ Proceeds' = Proceeds
        /\ \A u \in Users : Bought(u)' = Bought(u) /\ Sold(u)' = Sold(u)
    BY <1>5 DEF Orders, Charges, Fees, Proceeds, Bought, Sold
  <1>7. ASSUME NEW u \in Users
        PROVE  wallet'[u] = Opening[u] + Credit * Cardinality(CreditsOf(u)')
                            - SumFunctionOnSet(Charges, Bought(u)) + SumFunctionOnSet(Proceeds, Sold(u))
    <2>1. PICK k \in Nat : k = Cardinality(CreditsOf(u))
      BY <1>2, <1>3, FS_Subset, FS_CardinalityType DEF CreditsOf
    <2>2. Cardinality(CreditsOf(u)') = IF u = b THEN k + 1 ELSE k
      <3>1. DOMAIN credited' = 1 .. m \cup {m + 1}
        BY <1>2, <1>4
      <3>2. /\ \A i \in 1 .. m : credited'[i] = credited[i]
            /\ credited'[m + 1] = b
        BY <1>2, <1>4
      <3>3. CreditsOf(u)' = IF u = b THEN CreditsOf(u) \cup {m + 1} ELSE CreditsOf(u)
        BY <1>2, <3>1, <3>2 DEF CreditsOf
      <3>4. IsFiniteSet(CreditsOf(u)) /\ m + 1 \notin CreditsOf(u)
        BY <1>2, <1>3, FS_Subset DEF CreditsOf
      <3> QED
        BY <2>1, <3>3, <3>4, FS_AddElement
    <2>3. /\ SumFunctionOnSet(Charges, Bought(u)) \in Int /\ SumFunctionOnSet(Proceeds, Sold(u)) \in Int
      <3>1. IsFiniteSet(Bought(u)) /\ IsFiniteSet(Sold(u))
        BY FS_Subset DEF BooksInv, Bought, Sold
      <3>2. \A j \in Keys : Charges[j] \in Int /\ Proceeds[j] \in Int
        BY AmountsAreNumbers DEF BooksInv
      <3>3. Bought(u) \subseteq Keys /\ Sold(u) \subseteq Keys
        BY DEF Bought, Sold, Orders
      <3> QED
        BY <3>1, <3>2, <3>3, SumPick
    <2>4. wallet[u] = Opening[u] + Credit * k - SumFunctionOnSet(Charges, Bought(u))
                      + SumFunctionOnSet(Proceeds, Sold(u))
      BY <2>1 DEF BooksInv, BooksMatchOrders
    <2>5. wallet'[u] = IF u = b THEN wallet[u] + Credit ELSE wallet[u]
      BY <1>5 DEF BooksInv, IInv, TypeOK
    <2>6. Credit \in Int /\ Credit * k \in Int /\ Credit * (k + 1) = Credit * k + Credit /\ Opening[u] \in Int
      BY <2>1, PriceAssumption
    <2> DEFINE p == SumFunctionOnSet(Charges, Bought(u))
               q == SumFunctionOnSet(Proceeds, Sold(u))
    <2>7. p \in Int /\ q \in Int /\ wallet[u] = Opening[u] + Credit * k - p + q
      BY <2>3, <2>4
    <2> HIDE DEF p, q
    <2>8. wallet'[u] = Opening[u] + Credit * Cardinality(CreditsOf(u)') - p + q
      <3>1. CASE u = b
        BY <2>2, <2>5, <2>6, <2>7, <3>1
      <3>2. CASE u # b
        BY <2>2, <2>5, <2>7, <3>2
      <3> QED
        BY <3>1, <3>2
    <2> QED
      BY <2>8 DEF p, q
  <1> QED
    BY <1>5, <1>6, <1>7 DEF BooksInv, BooksMatchOrders

LEMMA BooksStep == BooksInv /\ [Next]_vars => BooksInv'
  <1> SUFFICES ASSUME BooksInv, [Next]_vars PROVE BooksInv'
    OBVIOUS
  <1>1. IInv'
    BY StepInv DEF BooksInv
  <1>2. CASE order' = order /\ UNCHANGED <<wallet, feeRevenue, credited, reputation>>
    BY <1>1, <1>2, BooksStay DEF BooksInv
  <1>3. ASSUME NEW r \in Requests, Settle(r) PROVE BooksInv'
    <2>1. /\ req[r].key \in Keys /\ order \in [Keys -> OrderRow]
          /\ order[req[r].key].status # "NONE"
      BY <1>3 DEF Settle, BooksInv, IInv, TypeOK, CallsKnow, CallKnows, RequestState
    <2>2. /\ order' = [order EXCEPT ![req[r].key].status = "COMPLETED"]
          /\ UNCHANGED <<wallet, feeRevenue, credited, reputation>>
      BY <1>3 DEF Settle
    <2>3. \A k \in Keys : /\ order'[k].price = order[k].price /\ order'[k].buyer = order[k].buyer
                          /\ order'[k].seller = order[k].seller
                          /\ (order'[k].status = "NONE") = (order[k].status = "NONE")
      BY <2>1, <2>2 DEF OrderRow
    <2> QED
      BY <1>1, <2>2, <2>3, BooksStay DEF BooksInv
  <1>4. ASSUME NEW r \in Requests, BuyCommit(r) PROVE BooksInv'
    BY <1>1, <1>4, PurchaseBooks DEF BooksInv
  <1>5. ASSUME NEW u \in Users, CreditBalance(u) PROVE BooksInv'
    BY <1>1, <1>5, CreditBooks DEF BooksInv
  <1> QED
    BY <1>2, <1>3, <1>4, <1>5 DEF Next, Step, ListRead, ListCommit, ReviewRead, ReviewCommit, CancelRead,
       CancelCommit, BuyRead, BuyBalance, Abort, vars, books

\* Every wallet, every reputation and the fee revenue are at all times what the orders
\* and credits say, for any number of calls, keys, retries and crashes: nothing is
\* posted twice and nothing is lost (buy, creditBalance).
THEOREM BooksAreTheOrders == Spec => []BooksMatchOrders
  <1>1. Init => BooksInv
    <2> SUFFICES ASSUME Init PROVE BooksInv
      OBVIOUS
    <2>1. IInv
      BY InitInv
    <2>2. Orders = {}
      BY DEF Init, Orders, NoOrder
    <2>3. \A u \in Users : Bought(u) = {} /\ Sold(u) = {} /\ CreditsOf(u) = {}
      BY <2>2 DEF Init, Bought, Sold, CreditsOf
    <2>4. Cardinality({}) = 0 /\ IsFiniteSet({})
      BY FS_EmptySet
    <2>5. ASSUME NEW u \in Users
          PROVE  /\ wallet[u] = Opening[u] + Credit * Cardinality(CreditsOf(u))
                                - SumFunctionOnSet(Charges, Bought(u)) + SumFunctionOnSet(Proceeds, Sold(u))
                 /\ reputation[u] = Cardinality(Sold(u))
      <3>1. SumFunctionOnSet(Charges, Bought(u)) = 0 /\ SumFunctionOnSet(Proceeds, Sold(u)) = 0
        BY <2>3, SumEmpty
      <3>2. Credit * Cardinality(CreditsOf(u)) = 0
        BY <2>3, <2>4, PriceAssumption
      <3>3. wallet[u] = Opening[u] /\ reputation[u] = 0 /\ Opening[u] \in Int
        BY PriceAssumption DEF Init
      <3>4. Cardinality(Sold(u)) = 0
        BY <2>3, <2>4
      <3> QED
        BY <3>1, <3>2, <3>3, <3>4
    <2>6. feeRevenue = SumFunctionOnSet(Fees, Orders)
      BY <2>2, SumEmpty DEF Init
    <2> QED
      BY <2>1, <2>2, <2>4, <2>5, <2>6 DEF BooksInv, BooksMatchOrders
  <1>2. BooksInv => BooksMatchOrders
    BY DEF BooksInv
  <1> QED
    BY <1>1, <1>2, BooksStep, PTL DEF Spec

-----------------------------------------------------------------------------
\* A call that is alone has read the listing as it is, and a listing that has an
\* order has been sold.
SeesCurrent(r) ==
    /\ req[r].at = "review" => listing[req[r].listing].status = "HELD"
    /\ req[r].at \in {"cancel", "buyBalance", "buyCommit"} => listing[req[r].listing].status = "ACTIVE"

OrderedAreSold ==
    \A k \in Orders : order[k].listing \in Listings /\ listing[order[k].listing].status = "SOLD"

MarketSerial ==
    /\ ~Together(req)
    /\ \A r \in Requests : SeesCurrent(r)
    /\ OrderedAreSold
    /\ SoldOnce

SerialInv == IInv /\ (~overlapped => MarketSerial)

\* Every step of a call is that of one call.
LEMMA OneCallSteps ==
    ASSUME NEW r \in Requests, Step(r)
    PROVE  \E q : req' = [req EXCEPT ![r] = q] /\ (req[r].at # "idle" \/ q.at # "idle")
  <1> USE DEF Begin, Done
  <1>1. ASSUME NEW u \in Users, NEW l \in Listings, NEW c \in Cards, NEW p \in Prices, ListRead(r, u, l, c, p)
        PROVE \E q : req' = [req EXCEPT ![r] = q] /\ (req[r].at # "idle" \/ q.at # "idle")
    <2> DEFINE row == [status |-> IF Deviates(c, p) THEN "HELD" ELSE "ACTIVE",
                       card |-> c, seller |-> u, price |-> p, held |-> Deviates(c, p)]
    <2>1. [Idle EXCEPT !.at = "list", !.user = u, !.listing = l, !.row = row].at = "list"
      BY DEF Idle
    <2> QED
      BY <1>1, <2>1 DEF ListRead
  <1>2. ASSUME NEW l \in Listings, NEW ok \in BOOLEAN, ReviewRead(r, l, ok)
        PROVE \E q : req' = [req EXCEPT ![r] = q] /\ (req[r].at # "idle" \/ q.at # "idle")
    <2>1. [Idle EXCEPT !.at = "review", !.listing = l, !.row = listing[l], !.approve = ok].at = "review"
      BY DEF Idle
    <2> QED
      BY <1>2, <2>1 DEF ReviewRead
  <1>3. ASSUME NEW u \in Users, NEW l \in Listings, CancelRead(r, u, l)
        PROVE \E q : req' = [req EXCEPT ![r] = q] /\ (req[r].at # "idle" \/ q.at # "idle")
    <2>1. [Idle EXCEPT !.at = "cancel", !.user = u, !.listing = l].at = "cancel"
      BY DEF Idle
    <2> QED
      BY <1>3, <2>1 DEF CancelRead
  <1>4. ASSUME NEW u \in Users, NEW l \in Listings, NEW k \in Keys, BuyRead(r, u, l, k)
        PROVE \E q : req' = [req EXCEPT ![r] = q] /\ (req[r].at # "idle" \/ q.at # "idle")
    <2>1. [Idle EXCEPT !.at = "buyBalance", !.user = u, !.listing = l, !.row = listing[l], !.key = k].at = "buyBalance"
      BY DEF Idle
    <2> QED
      BY <1>4, <2>1 DEF BuyRead
  <1>5. ASSUME ListCommit(r) \/ ReviewCommit(r) \/ CancelCommit(r) \/ BuyBalance(r) \/ BuyCommit(r)
               \/ Settle(r) \/ Abort(r)
        PROVE \E q : req' = [req EXCEPT ![r] = q] /\ (req[r].at # "idle" \/ q.at # "idle")
    BY <1>5 DEF ListCommit, ReviewCommit, CancelCommit, BuyBalance, BuyCommit, Settle, Abort
  <1> QED
    BY <1>1, <1>2, <1>3, <1>4, <1>5 DEF Step

\* As long as calls have not overlapped, the call that steps is alone.
LEMMA Alone ==
    ASSUME SerialInv, NEW r \in Requests, Step(r), overlapped' = (overlapped \/ Together(req')), ~overlapped'
    PROVE  /\ MarketSerial /\ ~Together(req')
           /\ \A s \in Requests \ {r} : req'[s].at = "idle"
  <1>1. MarketSerial /\ ~Together(req) /\ ~Together(req')
    BY DEF SerialInv, MarketSerial
  <1>2. PICK q : req' = [req EXCEPT ![r] = q] /\ (req[r].at # "idle" \/ q.at # "idle")
    BY OneCallSteps
  <1>3. req \in [Requests -> RequestState]
    BY DEF SerialInv, IInv, TypeOK
  <1>4. req'[r] = q /\ \A s \in Requests \ {r} : req'[s] = req[s]
    BY <1>2, <1>3
  <1> QED
    BY <1>1, <1>2, <1>4 DEF Together

\* A step of the one call in flight keeps MarketSerial if the call itself still sees
\* its listing and orders and listings agree.
LEMMA AloneKeeps ==
    ASSUME SerialInv, NEW r \in Requests, Step(r), overlapped' = (overlapped \/ Together(req')), ~overlapped',
           SeesCurrent(r)', OrderedAreSold', SoldOnce'
    PROVE  MarketSerial'
  <1>1. ~Together(req') /\ \A s \in Requests \ {r} : req'[s].at = "idle"
    BY Alone
  <1>2. \A s \in Requests : SeesCurrent(s)'
    BY <1>1 DEF SeesCurrent
  <1> QED
    BY <1>1, <1>2 DEF MarketSerial

\* A step that makes no order and does not touch what is sold.
LEMMA SoldStay ==
    ASSUME MarketSerial, IInv,
           \A k \in Keys : /\ order'[k].listing = order[k].listing
                           /\ (order'[k].status = "NONE") = (order[k].status = "NONE"),
           \A l \in Listings : listing[l].status = "SOLD" => listing'[l].status = "SOLD"
    PROVE  OrderedAreSold' /\ SoldOnce'
  <1>1. Orders' = Orders /\ Orders \subseteq Keys
    BY DEF Orders
  <1> QED
    BY <1>1 DEF MarketSerial, OrderedAreSold, SoldOnce

\* The insert, the review and the cancellation of a call that is alone.
LEMMA WritesAlone ==
    ASSUME SerialInv, NEW r \in Requests, ListCommit(r) \/ ReviewCommit(r) \/ CancelCommit(r),
           overlapped' = (overlapped \/ Together(req')), ~overlapped'
    PROVE  MarketSerial'
  <1> DEFINE l == req[r].listing
  <1>0. Step(r)
    BY DEF Step
  <1>1. MarketSerial /\ IInv
    BY <1>0, Alone DEF SerialInv
  <1>2. l \in Listings /\ listing \in [Listings -> ListingRow]
    BY <1>1 DEF IInv, TypeOK, RequestState
  <1>3. listing[l].status # "SOLD"
    <2>1. SeesCurrent(r)
      BY <1>1 DEF MarketSerial
    <2> QED
      BY <2>1 DEF SeesCurrent, ListCommit, ReviewCommit, CancelCommit
  <1>4. /\ order' = order /\ req' = [req EXCEPT ![r] = Idle]
        /\ \A m \in Listings \ {l} : listing'[m] = listing[m]
    BY <1>2 DEF ListCommit, ReviewCommit, CancelCommit, Done, books
  <1>5. OrderedAreSold' /\ SoldOnce'
    <2>1. \A m \in Listings : listing[m].status = "SOLD" => listing'[m].status = "SOLD"
      BY <1>2, <1>3, <1>4
    <2> QED
      BY <1>1, <1>4, <2>1, SoldStay
  <1>6. SeesCurrent(r)'
    BY <1>1, <1>4 DEF SeesCurrent, Idle, IInv, TypeOK
  <1> QED
    BY <1>0, <1>5, <1>6, AloneKeeps

\* The reads of a call that is alone, its completion and its end.
LEMMA ReadsAlone ==
    ASSUME SerialInv, NEW r \in Requests, Step(r), overlapped' = (overlapped \/ Together(req')), ~overlapped',
           ~ListCommit(r), ~ReviewCommit(r), ~CancelCommit(r), ~BuyCommit(r)
    PROVE  MarketSerial'
  <1> USE DEF Begin, Done
  <1>1. MarketSerial /\ IInv
    BY Alone DEF SerialInv
  <1>2. req \in [Requests -> RequestState] /\ order \in [Keys -> OrderRow] /\ SeesCurrent(r)
    BY <1>1 DEF IInv, TypeOK, MarketSerial
  <1>3. listing' = listing
    BY DEF Step, ListRead, ReviewRead, CancelRead, BuyRead, BuyBalance, Settle, Abort
  <1>4. \A k \in Keys : /\ order'[k].listing = order[k].listing
                        /\ (order'[k].status = "NONE") = (order[k].status = "NONE")
    <2>1. CASE order' = order
      BY <2>1
    <2>2. CASE Settle(r)
      <3>1. req[r].key \in Keys /\ order[req[r].key].status # "NONE"
        BY <1>1, <1>2, <2>2 DEF Settle, RequestState, IInv, CallsKnow, CallKnows
      <3>2. order' = [order EXCEPT ![req[r].key].status = "COMPLETED"]
        BY <2>2 DEF Settle
      <3> QED
        BY <1>2, <3>1, <3>2 DEF OrderRow
    <2> QED
      BY <2>1, <2>2 DEF Step, ListRead, ReviewRead, CancelRead, BuyRead, BuyBalance, Abort, books
  <1>5. OrderedAreSold' /\ SoldOnce'
    BY <1>1, <1>3, <1>4, SoldStay
  <1>6. SeesCurrent(r)'
    <2>1. ASSUME NEW u \in Users, NEW l \in Listings, NEW c \in Cards, NEW p \in Prices, ListRead(r, u, l, c, p)
          PROVE  SeesCurrent(r)'
      <3> DEFINE row == [status |-> IF Deviates(c, p) THEN "HELD" ELSE "ACTIVE",
                         card |-> c, seller |-> u, price |-> p, held |-> Deviates(c, p)]
      <3>1. req' = [req EXCEPT ![r] = [Idle EXCEPT !.at = "list", !.user = u, !.listing = l, !.row = row]]
        BY <2>1 DEF ListRead
      <3> HIDE DEF row
      <3>2. req'[r].at = "list"
        BY <1>2, <3>1 DEF Idle
      <3> QED
        BY <3>2 DEF SeesCurrent
    <2>2. ASSUME NEW l \in Listings, NEW ok \in BOOLEAN, ReviewRead(r, l, ok) PROVE SeesCurrent(r)'
      BY <1>2, <1>3, <2>2 DEF ReviewRead, SeesCurrent, Idle
    <2>3. ASSUME NEW u \in Users, NEW l \in Listings, CancelRead(r, u, l) PROVE SeesCurrent(r)'
      BY <1>2, <1>3, <2>3 DEF CancelRead, SeesCurrent, Idle
    <2>4. ASSUME NEW u \in Users, NEW l \in Listings, NEW k \in Keys, BuyRead(r, u, l, k) PROVE SeesCurrent(r)'
      BY <1>2, <1>3, <2>4 DEF BuyRead, SeesCurrent, Idle
    <2>5. CASE BuyBalance(r)
      BY <1>2, <1>3, <2>5 DEF BuyBalance, SeesCurrent, RequestState
    <2>6. CASE Settle(r) \/ Abort(r)
      BY <1>2, <2>6 DEF Settle, Abort, SeesCurrent, Idle
    <2> QED
      BY <2>1, <2>2, <2>3, <2>4, <2>5, <2>6 DEF Step
  <1> QED
    BY <1>5, <1>6, AloneKeeps

\* The purchase of a call that is alone finds its listing ACTIVE: nobody has bought it.
LEMMA PurchaseAlone ==
    ASSUME SerialInv, NEW r \in Requests, BuyCommit(r), overlapped' = (overlapped \/ Together(req')), ~overlapped'
    PROVE  MarketSerial'
  <1> DEFINE l   == req[r].listing
             key == req[r].key
             new == [status |-> "PROCESSING", buyer |-> req[r].user, seller |-> req[r].row.seller,
                     listing |-> l, price |-> req[r].row.price]
  <1>0. Step(r) /\ req[r].at = "buyCommit"
    BY DEF Step, BuyCommit
  <1>1. MarketSerial /\ IInv
    BY <1>0, Alone DEF SerialInv
  <1>2. /\ l \in Listings /\ listing \in [Listings -> ListingRow] /\ key \in Keys
        /\ order \in [Keys -> OrderRow] /\ req \in [Requests -> RequestState]
    BY <1>0, <1>1, PurchaseFinds DEF IInv, TypeOK
  <1>3. listing[l].status = "ACTIVE"
    BY <1>0, <1>1 DEF MarketSerial, SeesCurrent
  <1>4. \A k \in Orders : order[k].listing # l
    BY <1>1, <1>3 DEF MarketSerial, OrderedAreSold
  <1>5. /\ order' = [order EXCEPT ![key] = new]
        /\ listing' = [listing EXCEPT ![l].status = "SOLD"]
        /\ req' = [req EXCEPT ![r].at = "settle"]
    BY DEF BuyCommit
  <1>6. new.listing = l
    OBVIOUS
  <1> HIDE DEF new, l, key
  <1>7. \A k \in Keys : order'[k] = IF k = key THEN new ELSE order[k]
    BY <1>2, <1>5
  <1>8. /\ \A m \in Listings : m # l => listing'[m] = listing[m]
        /\ listing'[l].status = "SOLD"
    BY <1>2, <1>5 DEF ListingRow
  <1>9. \A k \in Orders' : k = key \/ k \in Orders
    BY <1>7 DEF Orders
  <1>10. Orders \subseteq Keys /\ Orders' \subseteq Keys
    BY DEF Orders
  <1>11. OrderedAreSold'
    <2> SUFFICES ASSUME NEW k \in Orders'
                 PROVE  order'[k].listing \in Listings /\ listing'[order'[k].listing].status = "SOLD"
      BY DEF OrderedAreSold
    <2>1. CASE k = key
      BY <1>2, <1>6, <1>7, <1>8, <2>1
    <2>2. CASE k # key
      <3>1. k \in Orders /\ order'[k] = order[k]
        BY <1>7, <1>9, <1>10, <2>2
      <3>2. order[k].listing \in Listings /\ listing[order[k].listing].status = "SOLD"
        BY <1>1, <3>1 DEF MarketSerial, OrderedAreSold
      <3> QED
        BY <1>4, <1>8, <3>1, <3>2
    <2> QED
      BY <2>1, <2>2
  <1>12. SoldOnce'
    <2> SUFFICES ASSUME NEW j \in Orders', NEW k \in Orders', order'[j].listing = order'[k].listing
                 PROVE  j = k
      BY DEF SoldOnce
    <2>1. CASE j = key \/ k = key
      BY <1>4, <1>6, <1>7, <1>9, <1>10, <2>1
    <2>2. CASE j # key /\ k # key
      BY <1>1, <1>7, <1>9, <1>10, <2>2 DEF MarketSerial, SoldOnce
    <2> QED
      BY <2>1, <2>2
  <1>13. SeesCurrent(r)'
    BY <1>2, <1>5 DEF SeesCurrent, RequestState
  <1> QED
    BY <1>0, <1>11, <1>12, <1>13, AloneKeeps

\* Until two calls have overlapped nobody pays for a listing that has been sold (buy
\* sets SOLD without looking at the status it overwrites).
THEOREM ListingsAreSoldOnce == MCSpec => []SerialSoldOnce
  <1>1. MCInit => SerialInv
    <2> SUFFICES ASSUME MCInit PROVE SerialInv
      OBVIOUS
    <2>1. Init /\ IInv
      BY InitInv DEF MCInit
    <2>2. Orders = {} /\ \A r \in Requests : req[r].at = "idle"
      BY <2>1 DEF Init, Orders, NoOrder, Idle
    <2> QED
      BY <2>1, <2>2 DEF SerialInv, MarketSerial, Together, SeesCurrent, OrderedAreSold, SoldOnce
  <1>2. SerialInv /\ [MCNext]_MCVars => SerialInv'
    <2> SUFFICES ASSUME SerialInv, [MCNext]_MCVars PROVE SerialInv'
      OBVIOUS
    <2>1. [Next]_vars /\ IInv
      BY DEF MCNext, MCVars, SerialInv
    <2>2. IInv'
      BY <2>1, StepInv
    <2>3. CASE UNCHANGED MCVars
      BY <2>2, <2>3 DEF MCVars, vars, books, SerialInv, MarketSerial, Together, SeesCurrent, OrderedAreSold, SoldOnce,
                        Orders
    <2>4. ASSUME NEW u \in Users, CreditBalance(u), overlapped' = (overlapped \/ Together(req')) PROVE SerialInv'
      <3>1. UNCHANGED <<listing, order, req>>
        BY <2>4 DEF CreditBalance
      <3> QED
        BY <2>2, <2>4, <3>1 DEF SerialInv, MarketSerial, Together, SeesCurrent, OrderedAreSold, SoldOnce, Orders
    <2>5. ASSUME NEW r \in Requests, Step(r), overlapped' = (overlapped \/ Together(req')) PROVE SerialInv'
      <3>1. ASSUME ~overlapped' PROVE MarketSerial'
        BY <2>5, <3>1, WritesAlone, ReadsAlone, PurchaseAlone
      <3> QED
        BY <2>2, <3>1 DEF SerialInv
    <2> QED
      BY <2>3, <2>4, <2>5 DEF MCNext, Next
  <1>3. SerialInv => SerialSoldOnce
    BY DEF SerialInv, MarketSerial, SerialSoldOnce
  <1> QED
    BY <1>1, <1>2, <1>3, PTL DEF MCSpec

-----------------------------------------------------------------------------
(* The buyback.  A call pays the quote as it read it some steps ago.  A     *)
(* quote's card, user and amount are written once, by the insert, so what   *)
(* the call has read of them is still so (OffersKnow), whatever became of   *)
(* the quote's status.                                                      *)
Accepting == {"expire", "pause", "floor", "pay"}

\* row offers what the quote in the table does.
SameOffer(row, quoted) ==
    /\ quoted.status # "NONE"
    /\ row.card = quoted.card /\ row.user = quoted.user /\ row.usdc = quoted.usdc

OfferKnows(call, rows) ==
    /\ call.at = "quote" => call.row.status = "QUOTED"
    /\ call.at \in Accepting => SameOffer(call.row, rows[call.quote])

OffersKnow == \A r \in Requests : OfferKnows(treq[r], quote)

PaidExist == IsFiniteSet(payout) /\ \A q \in payout : quote[q].status # "NONE"

TInv == T!TypeOK /\ OffersKnow /\ PaidExist /\ PayoutsMatchQuotes

\* The offer of a value is a number of units (quote).
LEMMA OffersAreNumbers ==
    ASSUME NEW value \in Nat
    PROVE  T!Offer(value) \in Nat
  <1>1. value * PercentBps \in Nat
    BY BuybackAssumption
  <1>2. \A n \in Nat : n \div 10000 \in Nat
    OBVIOUS
  <1> QED
    BY <1>1, <1>2 DEF T!Offer

LEMMA InitialQuotes == T!NoQuote \in T!QuoteRow /\ T!Idle \in T!RequestState
  <1>1. (CHOOSE c \in Cards : TRUE) \in Cards /\ (CHOOSE q \in Quotes : TRUE) \in Quotes
    BY IdAssumption, BuybackAssumption
  <1>2. (CHOOSE u \in Users : TRUE) \in Users
    <2>1. \E u : u \in Users
      BY IdAssumption, PeopleAssumption
    <2> QED
      BY <2>1
  <1>3. T!NoQuote \in T!QuoteRow
    BY <1>1, <1>2 DEF T!NoQuote, T!QuoteRow, T!Statuses
  <1> QED
    BY <1>1, <1>3 DEF T!Idle, T!RequestState, T!Steps

\* The sum is the same operator in the instance.
LEMMA PaidIsSum ==
    ASSUME NEW S
    PROVE  T!Paid(S) = SumFunctionOnSet(T!Amounts, S) /\ T!Paid(S)' = SumFunctionOnSet(T!Amounts', S)
  BY DEF T!Paid, T!SumFunctionOnSet, T!FoldFunctionOnSet, T!MapThenFoldSet,
         SumFunctionOnSet, FoldFunctionOnSet, MapThenFoldSet

LEMMA InitTreasury == MCInit => TInv
  <1> SUFFICES ASSUME T!Init PROVE TInv
    BY DEF MCInit
  <1>1. T!TypeOK
    <2>1. quote \in [Quotes -> T!QuoteRow] /\ treq \in [Requests -> T!RequestState]
      BY InitialQuotes DEF T!Init
    <2>2. holder \in [Cards -> Users \cup {House}] /\ fmv \in [Cards -> Nat]
      BY PeopleAssumption, PriceAssumption DEF T!Init
    <2>3. fundings \in 0..MaxFundings /\ proceeds \in [Users -> Nat]
      BY BuybackAssumption DEF T!Init
    <2>4. treasury \in Int /\ lapsed \subseteq Quotes /\ payout \subseteq Quotes
      BY DEF T!Init
    <2>5. paused \in BOOLEAN
      BY DEF T!Init
    <2> QED
      BY <2>1, <2>2, <2>3, <2>4, <2>5 DEF T!TypeOK
  <1>2. OffersKnow
    BY DEF T!Init, OffersKnow, OfferKnows, Accepting, T!Idle
  <1>3. PaidExist
    BY FS_EmptySet DEF T!Init, PaidExist
  <1>4. PayoutsMatchQuotes
    <2>1. payout = {} /\ treasury = 0 /\ fundings = 0 /\ \A u \in Users : proceeds[u] = 0
      BY DEF T!Init
    <2>2. T!Paid({}) = 0
      BY SumEmpty, PaidIsSum
    <2>3. Funding * 0 = 0
      BY BuybackAssumption
    <2>4. \A u \in Users : {q \in payout : quote[q].user = u} = {}
      BY <2>1
    <2> QED
      BY <2>1, <2>2, <2>3, <2>4 DEF PayoutsMatchQuotes, T!PayoutsMatchQuotes
  <1> QED
    BY <1>1, <1>2, <1>3, <1>4 DEF TInv

\* Rows that offer what they did keep what the calls know, and the sums.
Offered(rows) == \A q \in Quotes : quote[q].status # "NONE" => SameOffer(rows[q], quote[q]) /\ rows[q].status # "NONE"

LEMMA OffersKept ==
    ASSUME TInv, NEW rows \in [Quotes -> T!QuoteRow], Offered(rows), quote' = rows, payout' = payout,
           treasury' = treasury, fundings' = fundings, proceeds' = proceeds
    PROVE  PaidExist' /\ PayoutsMatchQuotes'
  <1>1. /\ quote \in [Quotes -> T!QuoteRow] /\ payout \subseteq Quotes /\ IsFiniteSet(payout)
        /\ \A q \in payout : quote[q].status # "NONE"
    BY DEF TInv, T!TypeOK, PaidExist
  <1>2. \A q \in payout : /\ rows[q].status # "NONE"
                          /\ rows[q].user = quote[q].user /\ rows[q].usdc = quote[q].usdc /\ quote[q].usdc \in Nat
    BY <1>1 DEF Offered, SameOffer, T!QuoteRow
  <1>3. \A q \in payout : T!Amounts[q] \in Int /\ T!Amounts'[q] = T!Amounts[q]
    BY <1>1, <1>2 DEF T!Amounts
  <1>4. ASSUME NEW S \in SUBSET payout PROVE T!Paid(S)' = T!Paid(S)
    <2>1. IsFiniteSet(S) /\ \A q \in S : T!Amounts[q] \in Int /\ T!Amounts'[q] = T!Amounts[q]
      BY <1>1, <1>3, FS_Subset
    <2> QED
      BY <2>1, SumEqual, PaidIsSum
  <1> QED
    BY <1>1, <1>2, <1>4 DEF TInv, PaidExist, PayoutsMatchQuotes, T!PayoutsMatchQuotes

\* A call's step that pays nothing keeps the invariant.
LEMMA UnpaidStep ==
    ASSUME TInv, NEW r \in Requests, NEW call \in T!RequestState, treq' = [treq EXCEPT ![r] = call],
           NEW rows \in [Quotes -> T!QuoteRow], Offered(rows), quote' = rows, OfferKnows(call, rows),
           UNCHANGED <<lapsed, holder, fmv, paused, treasury, proceeds, fundings, payout>>
    PROVE  TInv'
  <1>1. T!TypeOK'
    BY DEF TInv, T!TypeOK
  <1>2. ASSUME NEW s \in Requests PROVE OfferKnows(treq'[s], quote')
    <2>1. treq \in [Requests -> T!RequestState] /\ OfferKnows(treq[s], quote) /\ treq[s].quote \in Quotes
      BY DEF TInv, T!TypeOK, OffersKnow, T!RequestState
    <2>2. treq'[s] = IF s = r THEN call ELSE treq[s]
      BY <2>1
    <2>3. OfferKnows(treq[s], rows)
      BY <2>1 DEF OfferKnows, Offered, SameOffer
    <2> QED
      BY <2>2, <2>3
  <1>3. PaidExist' /\ PayoutsMatchQuotes'
    BY OffersKept
  <1> QED
    BY <1>1, <1>2, <1>3 DEF TInv, OffersKnow

\* The steps of quote and accept that pay nothing.
LEMMA UnpaidSteps ==
    ASSUME TInv, NEW r \in Requests,
           \/ \E u \in Users, q \in Quotes, c \in Cards : T!QuoteRead(r, u, q, c)
           \/ T!QuoteCommit(r)
           \/ \E q \in Quotes : T!AcceptRead(r, q)
           \/ T!AcceptExpire(r)
           \/ T!AcceptPause(r)
           \/ T!AcceptFloor(r)
           \/ T!Abort(r)
    PROVE  TInv'
  <1>1. /\ quote \in [Quotes -> T!QuoteRow] /\ fmv \in [Cards -> Nat]
        /\ treq[r] \in T!RequestState /\ OfferKnows(treq[r], quote)
        /\ T!Idle \in T!RequestState /\ OfferKnows(T!Idle, quote)
    BY InitialQuotes DEF TInv, T!TypeOK, OffersKnow, T!Idle, OfferKnows, Accepting
  <1>2. treq[r].quote \in Quotes /\ treq[r].row \in T!QuoteRow
    BY <1>1 DEF T!RequestState
  <1>3. Offered(quote)
    BY DEF Offered, SameOffer
  <1>4. ASSUME NEW u \in Users, NEW q \in Quotes, NEW c \in Cards, T!QuoteRead(r, u, q, c) PROVE TInv'
    <2> DEFINE row == [status |-> "QUOTED", card |-> c, user |-> u, usdc |-> T!Offer(fmv[c])]
               call == [at |-> "quote", quote |-> q, row |-> row]
    <2>1. fmv[c] \in Nat
      BY <1>1
    <2>2. T!Offer(fmv[c]) \in Nat
      BY <2>1, OffersAreNumbers
    <2>3. call \in T!RequestState /\ OfferKnows(call, quote)
      BY <2>2 DEF T!RequestState, T!Steps, T!QuoteRow, T!Statuses, OfferKnows, Accepting
    <2>4. treq' = [treq EXCEPT ![r] = call] /\ quote' = quote
          /\ UNCHANGED <<lapsed, holder, fmv, paused, treasury, proceeds, fundings, payout>>
      BY <1>4 DEF T!QuoteRead
    <2> HIDE DEF call
    <2> QED
      BY <1>1, <1>3, <2>3, <2>4, UnpaidStep
  <1>5. ASSUME T!QuoteCommit(r) PROVE TInv'
    <2> DEFINE rows == [quote EXCEPT ![treq[r].quote] = treq[r].row]
    <2>1. /\ treq' = [treq EXCEPT ![r] = T!Idle] /\ quote' = rows
          /\ UNCHANGED <<lapsed, holder, fmv, paused, treasury, proceeds, fundings, payout>>
          /\ quote[treq[r].quote].status = "NONE"
      BY <1>5 DEF T!QuoteCommit, T!Done
    <2>2. rows \in [Quotes -> T!QuoteRow] /\ Offered(rows)
      BY <1>1, <1>2, <2>1 DEF Offered, SameOffer
    <2>3. OfferKnows(T!Idle, rows)
      BY DEF OfferKnows, T!Idle, Accepting
    <2> HIDE DEF rows
    <2> QED
      BY <1>1, <2>1, <2>2, <2>3, UnpaidStep
  <1>6. ASSUME NEW q \in Quotes, T!AcceptRead(r, q) PROVE TInv'
    <2> DEFINE call == [at |-> IF q \in lapsed THEN "expire" ELSE "pause", quote |-> q, row |-> quote[q]]
    <2>1. quote[q] \in T!QuoteRow /\ quote[q].status = "QUOTED"
      BY <1>1, <1>6 DEF T!AcceptRead
    <2>2. call \in T!RequestState
      BY <2>1 DEF T!RequestState, T!Steps
    <2>3. OfferKnows(call, quote)
      BY <2>1 DEF OfferKnows, SameOffer
    <2>4. treq' = [treq EXCEPT ![r] = call] /\ quote' = quote
          /\ UNCHANGED <<lapsed, holder, fmv, paused, treasury, proceeds, fundings, payout>>
      BY <1>6 DEF T!AcceptRead
    <2> HIDE DEF call
    <2> QED
      BY <1>1, <1>3, <2>2, <2>3, <2>4, UnpaidStep
  <1>7. ASSUME T!AcceptExpire(r) PROVE TInv'
    <2> DEFINE rows == [quote EXCEPT ![treq[r].quote].status = "EXPIRED"]
    <2>1. /\ treq' = [treq EXCEPT ![r] = T!Idle] /\ quote' = rows
          /\ UNCHANGED <<lapsed, holder, fmv, paused, treasury, proceeds, fundings, payout>>
      BY <1>7 DEF T!AcceptExpire, T!Done
    <2>2. rows \in [Quotes -> T!QuoteRow] /\ Offered(rows)
      BY <1>1, <1>2 DEF Offered, SameOffer, T!QuoteRow, T!Statuses
    <2>3. OfferKnows(T!Idle, rows)
      BY DEF OfferKnows, T!Idle, Accepting
    <2> HIDE DEF rows
    <2> QED
      BY <1>1, <2>1, <2>2, <2>3, UnpaidStep
  <1>8. ASSUME T!AcceptPause(r) \/ T!AcceptFloor(r) PROVE TInv'
    <2>1. PICK step \in {"floor", "pay"} :
             /\ treq' = [treq EXCEPT ![r].at = step] /\ quote' = quote /\ treq[r].at \in Accepting
             /\ UNCHANGED <<lapsed, holder, fmv, paused, treasury, proceeds, fundings, payout>>
      BY <1>8 DEF T!AcceptPause, T!AcceptFloor, T!Goto, Accepting
    <2> DEFINE call == [treq[r] EXCEPT !.at = step]
    <2>2. /\ call \in T!RequestState /\ call.at = step
          /\ call.row = treq[r].row /\ call.quote = treq[r].quote
      BY <1>1 DEF T!RequestState, T!Steps
    <2>3. OfferKnows(call, quote)
      BY <1>1, <2>1, <2>2 DEF OfferKnows
    <2>4. treq' = [treq EXCEPT ![r] = call]
      BY <2>1
    <2> HIDE DEF call
    <2> QED
      BY <1>1, <1>3, <2>1, <2>2, <2>3, <2>4, UnpaidStep
  <1>9. ASSUME T!Abort(r) PROVE TInv'
    <2>1. /\ treq' = [treq EXCEPT ![r] = T!Idle] /\ quote' = quote
          /\ UNCHANGED <<lapsed, holder, fmv, paused, treasury, proceeds, fundings, payout>>
      BY <1>9 DEF T!Abort, T!Done
    <2> QED
      BY <1>1, <1>3, <2>1, UnpaidStep
  <1> QED
    BY <1>4, <1>5, <1>6, <1>7, <1>8, <1>9

\* A payout takes its quote's amount from the treasury to the quote's user.
LEMMA PayInv ==
    ASSUME TInv, NEW r \in Requests, T!AcceptPay(r)
    PROVE  TInv'
  <1>1. PICK q \in Quotes, row \in T!QuoteRow : q = treq[r].quote /\ row = treq[r].row
    BY DEF TInv, T!TypeOK, T!RequestState
  <1>2. /\ q \notin payout /\ payout' = payout \cup {q}
        /\ treasury' = treasury - row.usdc
        /\ proceeds' = [proceeds EXCEPT ![row.user] = @ + row.usdc]
        /\ holder' = [holder EXCEPT ![row.card] = House]
        /\ quote' = [quote EXCEPT ![q].status = "PAID"]
        /\ treq' = [treq EXCEPT ![r] = T!Idle]
        /\ UNCHANGED <<lapsed, fmv, paused, fundings>>
    BY <1>1 DEF T!AcceptPay, T!NotPaid, T!Post, T!Seller, T!Done
  <1>3. /\ quote \in [Quotes -> T!QuoteRow] /\ payout \subseteq Quotes /\ IsFiniteSet(payout)
        /\ holder \in [Cards -> Users \cup {House}] /\ treq \in [Requests -> T!RequestState]
        /\ treasury \in Int /\ proceeds \in [Users -> Nat] /\ fundings \in Nat
        /\ \A p \in payout : quote[p].status # "NONE"
    BY BuybackAssumption DEF TInv, T!TypeOK, PaidExist
  <1>4. SameOffer(row, quote[q])
    <2>1. OfferKnows(treq[r], quote) /\ treq[r].at = "pay"
      BY DEF TInv, OffersKnow, T!AcceptPay
    <2> QED
      BY <1>1, <2>1 DEF OfferKnows, Accepting
  <1>5. row.card \in Cards /\ row.user \in Users /\ row.usdc \in Nat
    BY <1>1 DEF T!QuoteRow
  <1>6. \A p \in Quotes : /\ quote'[p] \in T!QuoteRow
                          /\ quote'[p].status = IF p = q THEN "PAID" ELSE quote[p].status
                          /\ quote'[p].card = quote[p].card /\ quote'[p].user = quote[p].user
                          /\ quote'[p].usdc = quote[p].usdc
    BY <1>2, <1>3 DEF T!QuoteRow, T!Statuses
  <1>7. T!TypeOK'
    <2>1. quote' \in [Quotes -> T!QuoteRow] /\ treq' \in [Requests -> T!RequestState]
      BY <1>2, <1>3, <1>6, InitialQuotes
    <2>2. holder' \in [Cards -> Users \cup {House}] /\ proceeds' \in [Users -> Nat] /\ treasury' \in Int
      BY <1>2, <1>3, <1>5
    <2>3. payout' \subseteq Quotes
      BY <1>2, <1>3
    <2> QED
      BY <1>2, <2>1, <2>2, <2>3 DEF TInv, T!TypeOK
  <1>8. OffersKnow'
    <2>1. ASSUME NEW s \in Requests PROVE OfferKnows(treq'[s], quote')
      <3>1. OfferKnows(treq[s], quote) /\ treq[s].quote \in Quotes
        BY <1>3 DEF TInv, OffersKnow, T!RequestState
      <3>2. treq'[s] = IF s = r THEN T!Idle ELSE treq[s]
        BY <1>2, <1>3
      <3>3. OfferKnows(treq[s], quote')
        BY <1>6, <3>1 DEF OfferKnows, SameOffer
      <3>4. OfferKnows(T!Idle, quote')
        BY DEF OfferKnows, T!Idle, Accepting
      <3> QED
        BY <3>2, <3>3, <3>4
    <2> QED
      BY <2>1 DEF OffersKnow
  <1>9. PaidExist'
    <2>1. IsFiniteSet(payout')
      BY <1>2, <1>3, FS_AddElement
    <2> QED
      BY <1>2, <1>3, <1>6, <2>1 DEF PaidExist
  <1>10. \A p \in Quotes : /\ T!Amounts[p] \in Int /\ T!Amounts[p] = quote[p].usdc
                           /\ T!Amounts'[p] = T!Amounts[p]
    BY <1>3, <1>6 DEF T!Amounts, T!QuoteRow
  <1>11. T!Amounts'[q] = row.usdc
    BY <1>4, <1>10 DEF SameOffer
  <1>12. ASSUME NEW S \in SUBSET payout
         PROVE  /\ T!Paid(S) \in Int
                /\ T!Paid(S)' = T!Paid(S)
                /\ T!Paid(S \cup {q})' = T!Paid(S) + row.usdc
    <2>1. IsFiniteSet(S) /\ (\A p \in S : T!Amounts[p] \in Int /\ T!Amounts'[p] = T!Amounts[p]) /\ q \notin S
      BY <1>2, <1>3, <1>10, FS_Subset
    <2>2. SumFunctionOnSet(T!Amounts, S) \in Int /\ SumFunctionOnSet(T!Amounts', S) = SumFunctionOnSet(T!Amounts, S)
      BY <2>1, SumEqual, SumPick
    <2>3. SumFunctionOnSet(T!Amounts', S \cup {q}) = SumFunctionOnSet(T!Amounts, S) + T!Amounts'[q]
      BY <1>5, <1>11, <2>1, SumInsert
    <2> QED
      BY <1>11, <2>2, <2>3, PaidIsSum
  <1>13. PayoutsMatchQuotes'
    <2> DEFINE Of(u) == {p \in payout : quote[p].user = u}
    <2>1. treasury' = Funding * fundings' - T!Paid(payout)'
      <3>1. treasury = Funding * fundings - T!Paid(payout) /\ Funding * fundings \in Int
        BY <1>3, BuybackAssumption DEF TInv, PayoutsMatchQuotes, T!PayoutsMatchQuotes
      <3>2. PICK S \in SUBSET payout : S = payout
        OBVIOUS
      <3>3. payout' = S \cup {q}
        BY <1>2, <3>2
      <3>4. T!Paid(payout)' = T!Paid(S \cup {q})'
        BY <3>3 DEF T!Paid
      <3> QED
        BY <1>2, <1>5, <1>12, <3>1, <3>2, <3>4
    <2>2. ASSUME NEW u \in Users
          PROVE  proceeds'[u] = T!Paid({p \in payout : quote[p].user = u})'
      <3>1. PICK S \in SUBSET payout : S = Of(u)
        OBVIOUS
      <3>2. proceeds[u] = T!Paid(S) /\ proceeds[u] \in Nat
        BY <1>3, <3>1 DEF TInv, PayoutsMatchQuotes, T!PayoutsMatchQuotes
      <3>3. Of(u)' = IF u = row.user THEN S \cup {q} ELSE S
        BY <1>2, <1>3, <1>4, <1>6, <3>1 DEF SameOffer
      <3>4. T!Paid({p \in payout : quote[p].user = u})' = IF u = row.user THEN T!Paid(S \cup {q})' ELSE T!Paid(S)'
        BY <3>3 DEF T!Paid
      <3>5. proceeds'[u] = IF u = row.user THEN proceeds[u] + row.usdc ELSE proceeds[u]
        BY <1>2, <1>3, <1>5
      <3> QED
        BY <1>12, <3>2, <3>4, <3>5
    <2> QED
      BY <2>1, <2>2 DEF PayoutsMatchQuotes, T!PayoutsMatchQuotes
  <1> QED
    BY <1>7, <1>8, <1>9, <1>13 DEF TInv

\* What operators, the clock, trades and the worker's sweep do.
LEMMA OperateInv ==
    ASSUME TInv, T!Operate
    PROVE  TInv'
  <1>1. /\ quote \in [Quotes -> T!QuoteRow] /\ fmv \in [Cards -> Nat] /\ holder \in [Cards -> Users \cup {House}]
        /\ treasury \in Int /\ fundings \in 0..MaxFundings /\ payout \subseteq Quotes
    BY DEF TInv, T!TypeOK
  <1>2. ASSUME UNCHANGED <<quote, payout, treasury, proceeds, fundings, treq>>, T!TypeOK'
        PROVE  TInv'
    <2>1. Offered(quote)
      BY DEF Offered, SameOffer
    <2>2. PaidExist' /\ PayoutsMatchQuotes'
      BY <1>1, <1>2, <2>1, OffersKept
    <2> QED
      BY <1>2, <2>2 DEF TInv, OffersKnow
  <1>3. ASSUME NEW on \in BOOLEAN, T!SetPaused(on) PROVE TInv'
    <2>1. paused' \in BOOLEAN /\ UNCHANGED <<quote, lapsed, holder, fmv, treasury, proceeds, fundings, payout, treq>>
      BY <1>3 DEF T!SetPaused
    <2>2. T!TypeOK'
      BY <2>1 DEF TInv, T!TypeOK
    <2> QED
      BY <1>2, <2>1, <2>2
  <1>4. ASSUME NEW c \in Cards, NEW value \in Values, T!SetFmv(c, value) PROVE TInv'
    <2>1. fmv' \in [Cards -> Nat] /\ UNCHANGED <<quote, lapsed, holder, paused, treasury, proceeds, fundings, payout, treq>>
      BY <1>1, <1>4, BuybackAssumption DEF T!SetFmv
    <2>2. T!TypeOK'
      BY <2>1 DEF TInv, T!TypeOK
    <2> QED
      BY <1>2, <2>1, <2>2
  <1>5. ASSUME NEW c \in Cards, NEW u \in Users, T!Trade(c, u) PROVE TInv'
    <2>1. /\ holder' \in [Cards -> Users \cup {House}]
          /\ UNCHANGED <<quote, lapsed, fmv, paused, treasury, proceeds, fundings, payout, treq>>
      BY <1>1, <1>5 DEF T!Trade
    <2>2. T!TypeOK'
      BY <2>1 DEF TInv, T!TypeOK
    <2> QED
      BY <1>2, <2>1, <2>2
  <1>6. ASSUME NEW q \in Quotes, T!Lapse(q) PROVE TInv'
    <2>1. /\ lapsed' = lapsed \cup {q}
          /\ UNCHANGED <<quote, holder, fmv, paused, treasury, proceeds, fundings, payout, treq>>
      BY <1>6 DEF T!Lapse
    <2>2. T!TypeOK'
      BY <2>1 DEF TInv, T!TypeOK
    <2> QED
      BY <1>2, <2>1, <2>2
  <1>7. ASSUME T!CreditTreasury PROVE TInv'
    <2>1. /\ fundings' = fundings + 1 /\ treasury' = treasury + Funding /\ fundings < MaxFundings
          /\ UNCHANGED <<quote, lapsed, holder, fmv, paused, proceeds, payout, treq>>
      BY <1>7 DEF T!CreditTreasury
    <2>2. Funding \in Nat /\ MaxFundings \in Nat
      BY BuybackAssumption
    <2>3. T!TypeOK'
      <3>1. fundings' \in 0..MaxFundings /\ treasury' \in Int
        BY <1>1, <2>1, <2>2
      <3> QED
        BY <2>1, <3>1 DEF TInv, T!TypeOK
    <2>4. T!Paid(payout) \in Int
      <3>1. IsFiniteSet(payout) /\ \A q \in payout : T!Amounts[q] \in Int
        BY <1>1 DEF TInv, PaidExist, T!Amounts, T!QuoteRow
      <3> QED
        BY <3>1, PaidIsSum, SumPick
    <2>5. Funding * fundings' = Funding * fundings + Funding /\ Funding * fundings \in Int
      BY <1>1, <2>1, <2>2
    <2>6. /\ T!Paid(payout)' = T!Paid(payout)
          /\ \A u \in Users : T!Paid({q \in payout : quote[q].user = u})' = T!Paid({q \in payout : quote[q].user = u})
      BY <2>1 DEF T!Paid, T!Amounts
    <2>7. PayoutsMatchQuotes'
      <3>1. treasury = Funding * fundings - T!Paid(payout)
        BY DEF TInv, PayoutsMatchQuotes, T!PayoutsMatchQuotes
      <3>2. treasury' = Funding * fundings' - T!Paid(payout)'
        BY <1>1, <2>1, <2>2, <2>4, <2>5, <2>6, <3>1
      <3>3. \A u \in Users : proceeds'[u] = T!Paid({q \in payout : quote[q].user = u})'
        BY <2>1, <2>6 DEF TInv, PayoutsMatchQuotes, T!PayoutsMatchQuotes
      <3> QED
        BY <3>2, <3>3 DEF PayoutsMatchQuotes, T!PayoutsMatchQuotes
    <2> QED
      BY <2>1, <2>3, <2>7 DEF TInv, OffersKnow, PaidExist
  <1>8. ASSUME T!Sweep PROVE TInv'
    <2>1. /\ quote' = [q \in Quotes |-> IF q \in T!Due THEN [quote[q] EXCEPT !.status = "EXPIRED"] ELSE quote[q]]
          /\ UNCHANGED <<lapsed, holder, fmv, paused, treasury, proceeds, fundings, payout, treq>>
      BY <1>8 DEF T!Sweep
    <2>2. \A q \in Quotes : /\ quote'[q] \in T!QuoteRow
                            /\ quote'[q].status = IF q \in T!Due THEN "EXPIRED" ELSE quote[q].status
                            /\ quote'[q].card = quote[q].card /\ quote'[q].user = quote[q].user
                            /\ quote'[q].usdc = quote[q].usdc
      BY <1>1, <2>1 DEF T!QuoteRow, T!Statuses
    <2>3. quote' \in [Quotes -> T!QuoteRow]
      BY <2>1, <2>2
    <2>4. PICK rows \in [Quotes -> T!QuoteRow] : rows = quote'
      BY <2>3
    <2>5. Offered(rows)
      BY <2>2, <2>4 DEF Offered, SameOffer
    <2>6. PaidExist' /\ PayoutsMatchQuotes'
      BY <2>1, <2>4, <2>5, OffersKept
    <2>7. T!TypeOK'
      BY <2>1, <2>3 DEF TInv, T!TypeOK
    <2>8. OffersKnow'
      <3>1. ASSUME NEW s \in Requests PROVE OfferKnows(treq[s], quote')
        <4>1. OfferKnows(treq[s], quote) /\ treq[s].quote \in Quotes
          BY DEF TInv, T!TypeOK, OffersKnow, T!RequestState
        <4> QED
          BY <2>2, <4>1 DEF OfferKnows, SameOffer
      <3> QED
        BY <2>1, <3>1 DEF OffersKnow
    <2> QED
      BY <2>6, <2>7, <2>8 DEF TInv
  <1> QED
    BY <1>3, <1>4, <1>5, <1>6, <1>7, <1>8 DEF T!Operate

LEMMA TreasuryStep == TInv /\ [TreasuryNext]_MCVars => TInv'
  <1> SUFFICES ASSUME TInv, [TreasuryNext]_MCVars PROVE TInv'
    OBVIOUS
  <1>1. CASE UNCHANGED MCVars
    <2>1. UNCHANGED T!vars
      BY <1>1 DEF MCVars
    <2>2. UNCHANGED <<quote, lapsed, holder, fmv, paused, treasury, proceeds, fundings, payout, treq>>
      BY <2>1 DEF T!vars
    <2>3. Offered(quote) /\ quote \in [Quotes -> T!QuoteRow]
      BY DEF Offered, SameOffer, TInv, T!TypeOK
    <2>4. PaidExist' /\ PayoutsMatchQuotes'
      BY <2>2, <2>3, OffersKept
    <2> QED
      BY <2>2, <2>4 DEF TInv, T!TypeOK, OffersKnow
  <1>2. ASSUME NEW r \in Requests, T!Step(r) PROVE TInv'
    BY <1>2, UnpaidSteps, PayInv DEF T!Step
  <1> QED
    BY <1>1, <1>2, OperateInv DEF TreasuryNext, T!Next

THEOREM TreasuryInvariantHolds == TreasurySpec => []TInv
  BY InitTreasury, TreasuryStep, PTL DEF TreasurySpec

\* Treasury keeps its types.
THEOREM TreasuryTypeCorrect == TreasurySpec => []T!TypeOK
  <1>1. TInv => T!TypeOK
    BY DEF TInv
  <1> QED
    BY <1>1, TreasuryInvariantHolds, PTL

\* However accepts race, whatever lapses, is sold or dies under them: each payout's
\* order took its quote's amount out of the treasury and gave it to the user the
\* quote was made to, once (accept, with the unique key buyback_<id>).
THEOREM PayoutsArePaidOnce == TreasurySpec => []PayoutsMatchQuotes
  <1>1. TInv => PayoutsMatchQuotes
    BY DEF TInv
  <1> QED
    BY <1>1, TreasuryInvariantHolds, PTL

-----------------------------------------------------------------------------
\* A call that is alone, with no operator's call or trade under it, still has the
\* balance that it compared with the floor.
FloorHolds == \A r \in Requests : treq[r].at = "pay" => treasury - treq[r].row.usdc >= Floor

TreasurySerial == ~Together(treq) /\ FloorHolds

TSerialInv == TInv /\ (~overlapped => TreasurySerial)

FloorKept == ~overlapped' => (treasury' < treasury => treasury' >= Floor)

\* The step of the one call in flight.
LEMMA BuybackAlone ==
    ASSUME TSerialInv, NEW r \in Requests, T!Step(r), ~overlapped, ~Together(treq')
    PROVE  TreasurySerial' /\ (treasury' < treasury => treasury' >= Floor)
  <1>1. treq \in [Requests -> T!RequestState] /\ FloorHolds /\ ~Together(treq)
    BY DEF TSerialInv, TInv, T!TypeOK, TreasurySerial
  <1>2. T!Idle.at = "idle"
    BY DEF T!Idle
  <1>3. \A n \in Int : ~(n < n)
    OBVIOUS
  <1>4. treasury \in Int
    BY DEF TSerialInv, TInv, T!TypeOK
  <1>5. CASE T!AcceptPay(r)
    <2>1. treasury' = treasury - treq[r].row.usdc /\ treq' = [treq EXCEPT ![r] = T!Idle] /\ treq[r].at = "pay"
      BY <1>5 DEF T!AcceptPay, T!Post, T!Done
    <2>2. treasury' >= Floor
      BY <1>1, <2>1 DEF FloorHolds
    <2>3. \A s \in Requests : treq'[s].at = "idle"
      BY <1>1, <1>2, <2>1 DEF Together
    <2> QED
      BY <2>2, <2>3 DEF TreasurySerial, FloorHolds, Together
  <1>6. CASE T!AcceptFloor(r)
    <2>1. /\ treasury - treq[r].row.usdc >= Floor /\ treasury' = treasury
          /\ treq' = [treq EXCEPT ![r].at = "pay"] /\ treq[r].at = "floor"
      BY <1>6 DEF T!AcceptFloor, T!AboveFloor, T!Goto
    <2>2. treq'[r].at = "pay" /\ treq'[r].row = treq[r].row /\ \A s \in Requests \ {r} : treq'[s] = treq[s]
      BY <1>1, <2>1 DEF T!RequestState
    <2> QED
      BY <1>1, <1>3, <1>4, <2>1, <2>2 DEF TreasurySerial, FloorHolds
  <1>7. ASSUME NEW call, treq' = [treq EXCEPT ![r] = call], call.at # "pay", treasury' = treasury
        PROVE  TreasurySerial' /\ treasury' = treasury
    <2>1. \A s \in Requests : treq'[s].at = "pay" => treq'[s] = treq[s]
      BY <1>1, <1>7
    <2> QED
      BY <1>1, <1>7, <2>1 DEF TreasurySerial, FloorHolds
  <1>8. ASSUME NEW u \in Users, NEW q \in Quotes, NEW c \in Cards, T!QuoteRead(r, u, q, c)
        PROVE  TreasurySerial' /\ treasury' = treasury
    <2> DEFINE call == [at |-> "quote", quote |-> q,
                        row |-> [status |-> "QUOTED", card |-> c, user |-> u, usdc |-> T!Offer(fmv[c])]]
    <2>1. treq' = [treq EXCEPT ![r] = call] /\ treasury' = treasury
      BY <1>8 DEF T!QuoteRead
    <2>2. call.at # "pay"
      OBVIOUS
    <2> HIDE DEF call
    <2> QED
      BY <1>7, <2>1, <2>2
  <1>9. ASSUME NEW q \in Quotes, T!AcceptRead(r, q) PROVE TreasurySerial' /\ treasury' = treasury
    <2> DEFINE call == [at |-> IF q \in lapsed THEN "expire" ELSE "pause", quote |-> q, row |-> quote[q]]
    <2>1. treq' = [treq EXCEPT ![r] = call] /\ treasury' = treasury
      BY <1>9 DEF T!AcceptRead
    <2>2. call.at # "pay"
      OBVIOUS
    <2> HIDE DEF call
    <2> QED
      BY <1>7, <2>1, <2>2
  <1>10. CASE T!AcceptPause(r)
    <2>1. treasury' = treasury /\ treq' = [treq EXCEPT ![r].at = "floor"]
      BY <1>10 DEF T!AcceptPause, T!Goto
    <2>2. [treq[r] EXCEPT !.at = "floor"].at = "floor"
      BY <1>1 DEF T!RequestState
    <2>3. treq' = [treq EXCEPT ![r] = [treq[r] EXCEPT !.at = "floor"]]
      BY <2>1
    <2> QED
      BY <1>7, <1>3, <1>4, <2>1, <2>2, <2>3
  <1>11. CASE T!QuoteCommit(r) \/ T!AcceptExpire(r) \/ T!Abort(r)
    <2>1. treasury' = treasury /\ treq' = [treq EXCEPT ![r] = T!Idle]
      BY <1>11 DEF T!QuoteCommit, T!AcceptExpire, T!Abort, T!Done
    <2> QED
      BY <1>2, <1>7, <1>3, <1>4, <2>1
  <1> QED
    BY <1>5, <1>6, <1>3, <1>4, <1>8, <1>9, <1>10, <1>11 DEF T!Step

LEMMA OperatorsAlone ==
    ASSUME TSerialInv, T!Operate, overlapped' = (overlapped \/ Together(treq') \/ OperatorIntervenes)
    PROVE  /\ treasury' >= treasury /\ treasury' \in Int /\ treasury \in Int
           /\ ~overlapped' => TreasurySerial'
  <1>1. treasury \in Int /\ treq' = treq /\ (treasury' = treasury \/ treasury' = treasury + Funding)
    BY DEF TSerialInv, TInv, T!TypeOK, T!Operate, T!SetPaused, T!SetFmv, T!CreditTreasury, T!Trade, T!Lapse, T!Sweep
  <1>2. treasury' >= treasury /\ treasury' \in Int
    BY <1>1, BuybackAssumption
  <1>3. ASSUME NEW r \in Requests, FloorHolds, treq[r].at = "pay"
        PROVE  treasury' - treq[r].row.usdc >= Floor
    <2>1. treq[r].row.usdc \in Nat /\ treasury - treq[r].row.usdc >= Floor /\ Floor \in Nat
      BY <1>3, BuybackAssumption DEF FloorHolds, TSerialInv, TInv, T!TypeOK, T!RequestState, T!QuoteRow
    <2> QED
      BY <1>1, <1>2, <2>1
  <1>4. FloorHolds => FloorHolds'
    BY <1>1, <1>3 DEF FloorHolds
  <1> QED
    BY <1>1, <1>2, <1>4 DEF TSerialInv, TreasurySerial, Together

LEMMA TreasurySerialStep == TSerialInv /\ [TreasuryNext]_MCVars => TSerialInv' /\ [FloorKept]_(T!vars)
  <1> SUFFICES ASSUME TSerialInv, [TreasuryNext]_MCVars PROVE TSerialInv' /\ [FloorKept]_(T!vars)
    OBVIOUS
  <1>1. TInv'
    BY TreasuryStep DEF TSerialInv
  <1>2. CASE UNCHANGED MCVars
    <2>1. UNCHANGED T!vars /\ overlapped' = overlapped
      BY <1>2 DEF MCVars
    <2> QED
      BY <1>1, <2>1 DEF T!vars, TSerialInv, TreasurySerial, FloorHolds, Together
  <1>3. ASSUME T!Operate, overlapped' = (overlapped \/ Together(treq') \/ OperatorIntervenes)
        PROVE  TSerialInv' /\ [FloorKept]_(T!vars)
    <2>1. /\ treasury' >= treasury /\ treasury' \in Int /\ treasury \in Int
          /\ ~overlapped' => TreasurySerial'
      BY <1>3, OperatorsAlone
    <2>2. ~(treasury' < treasury)
      BY <2>1
    <2> QED
      BY <1>1, <2>1, <2>2 DEF TSerialInv, FloorKept
  <1>4. ASSUME NEW r \in Requests, T!Step(r), overlapped' = (overlapped \/ Together(treq') \/ OperatorIntervenes)
        PROVE  TSerialInv' /\ [FloorKept]_(T!vars)
    <2>1. ~overlapped' => TreasurySerial' /\ (treasury' < treasury => treasury' >= Floor)
      BY <1>4, BuybackAlone
    <2> QED
      BY <1>1, <2>1 DEF TSerialInv, FloorKept
  <1> QED
    BY <1>2, <1>3, <1>4 DEF TreasuryNext, T!Next

\* Until a call has overlapped with another, an operator's call or a trade, no payout
\* leaves less than the floor: the balance that accept has compared is the one it
\* spends from.
THEOREM PayoutsStayAboveFloor == TreasurySpec => SerialPayoutAboveFloor
  <1>1. MCInit => TSerialInv
    <2> SUFFICES ASSUME MCInit PROVE TSerialInv
      OBVIOUS
    <2>1. \A r \in Requests : treq[r].at = "idle"
      BY DEF MCInit, T!Init, T!Idle
    <2> QED
      BY <2>1, InitTreasury DEF TSerialInv, TreasurySerial, FloorHolds, Together
  <1>2. FloorKept <=> (~overlapped' => (treasury' < treasury => treasury' >= Floor))
    BY DEF FloorKept
  <1> QED
    BY <1>1, <1>2, TreasurySerialStep, PTL DEF TreasurySpec, SerialPayoutAboveFloor
=============================================================================
