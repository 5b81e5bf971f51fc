--------------------------- MODULE CustodyProofs ---------------------------
(***************************************************************************)
(* Custody, for any accounts, listings, openings and number of calls in    *)
(* flight: types, the two ownership records agree, nothing trades before   *)
(* the mint, one active listing, and a burn is the one redemption's.       *)
(* Until two calls overlap, item, token and raffle agree on the card's     *)
(* stage.                                                                  *)
(*                                                                         *)
(* No handler looks at the card again when it commits.  What makes the     *)
(* properties inductive is what its earlier look still guarantees then     *)
(* (CallsKnow): that a token exists, or, for the vault call that will      *)
(* create it, who owns the card.                                           *)
(***************************************************************************)
EXTENDS MCCustody, TLAPS

TradeSteps == {"list", "review", "cancel", "buy", "addToPool", "reveal", "buyback", "raffle",
               "tickets", "draw", "cancelRaffle", "redeem"}

\* A call that trades the card has seen a token, and tokens are never deleted; a
\* vault call has minted, and until a token exists nobody moves the card.
CallsKnow ==
    \A r \in Requests :
        /\ req[r].at \in TradeSteps => token.status # "NONE"
        /\ req[r].at = "vault" => minted > 0
        /\ req[r].at \in {"mint", "vault"} /\ token.status = "NONE"
              => req[r].user = item.owner

Inv == OwnersAgree /\ CustodyGate /\ BurnedIffRedeemed /\ OneActiveListing

IInv == TypeOK /\ Inv /\ CallsKnow

-----------------------------------------------------------------------------
\* At intake there is a card, and nothing else.
LEMMA InitInv == Init => IInv
  <1> SUFFICES ASSUME Init PROVE IInv
    OBVIOUS
  <1>1. Treasury \in Users
    BY AccountsAssumption
  <1>2. NoCall \in CallState
    BY <1>1 DEF NoCall, CallState, CallSteps
  <1>3. TypeOK
    <2>1. item \in [state : ItemStates, owner : Users]
      BY DEF Init, ItemStates
    <2>2. /\ listing \in [Listings -> [status : {"NONE", "ACTIVE", "HELD", "SOLD", "CANCELLED"},
                                       seller : Users]]
          /\ opening \in [Openings -> [status : {"NONE", "COMMITTED", "SETTLED"}, user : Users]]
      BY <1>1 DEF Init
    <2> QED
      BY <1>1, <1>2, <2>1, <2>2 DEF Init, TypeOK
  <1>4. Inv
    BY DEF Init, Inv, OwnersAgree, CustodyGate, BurnedIffRedeemed, OneActiveListing
  <1>5. CallsKnow
    BY DEF Init, CallsKnow, NoCall, TradeSteps
  <1> QED
    BY <1>3, <1>4, <1>5 DEF IInv

\* A call that has only read keeps the invariant.
LEMMA StartInv ==
    ASSUME IInv, NEW r \in Requests, NEW call \in CallState, Start(r, call),
           call.at \in TradeSteps => token.status # "NONE",
           call.at # "vault",
           call.at = "mint" => call.user = item.owner
    PROVE  IInv'
  BY DEF IInv, Inv, TypeOK, OwnersAgree, CustodyGate, BurnedIffRedeemed, OneActiveListing,
         CallsKnow, Start, rows, TradeSteps

\* A call that ends leaves the others knowing what they know, if it deletes no
\* token, and moves no card that has none.
LEMMA FinishKnows ==
    ASSUME IInv, NEW r \in Requests, Finish(r),
           token.status # "NONE" => token'.status # "NONE",
           token'.status = "NONE" => item'.owner = item.owner,
           minted' = minted
    PROVE  req' \in [Requests -> CallState] /\ CallsKnow'
  <1>1. NoCall \in CallState
    BY AccountsAssumption DEF NoCall, CallState, CallSteps
  <1>2. req' \in [Requests -> CallState]
    BY <1>1 DEF IInv, TypeOK, Finish
  <1>3. \A s \in Requests : req'[s] = req[s] \/ req'[s].at = "idle"
    BY DEF IInv, TypeOK, Finish, NoCall
  <1> QED
    BY <1>2, <1>3 DEF IInv, CallsKnow, TradeSteps

\* Every read sees a token, or the owner of a card that has none.
LEMMA ReadsInv ==
    ASSUME IInv, NEW r \in Requests,
           \/ AuthenticateRead(r) \/ GradeRead(r) \/ VaultRead(r)
           \/ \E u \in Users, held \in BOOLEAN : ListRead(r, u, held)
           \/ \E l \in Listings, approve \in BOOLEAN : ReviewRead(r, l, approve)
           \/ \E l \in Listings : CancelRead(r, l)
           \/ \E u \in Users, l \in Listings : BuyRead(r, u, l)
           \/ PoolRead(r)
           \/ \E o \in Openings : RevealRead(r, o)
           \/ \E u \in Users : BuybackRead(r, u) \/ RaffleRead(r, u) \/ DrawRead(r, u)
           \/ TicketsRead(r) \/ CancelRaffleRead(r)
           \/ \E u \in Users : RedeemRead(r, u)
    PROVE  IInv'
  <1> USE AccountsAssumption DEF NoCall, CallState, CallSteps
  <1>1. CASE AuthenticateRead(r) \/ GradeRead(r)
    <2>1. /\ [NoCall EXCEPT !.at = "authenticate"] \in CallState
          /\ [NoCall EXCEPT !.at = "grade"] \in CallState
      OBVIOUS
    <2> QED
      BY <1>1, <2>1, StartInv DEF AuthenticateRead, GradeRead, TradeSteps
  <1>2. CASE VaultRead(r)
    <2>1. [NoCall EXCEPT !.at = "mint", !.user = item.owner] \in CallState
      BY <1>2 DEF VaultRead, IInv, TypeOK
    <2> QED
      BY <1>2, <2>1, StartInv DEF VaultRead, TradeSteps
  <1>3. ASSUME NEW u \in Users, NEW held \in BOOLEAN, ListRead(r, u, held) PROVE IInv'
    <2>1. [NoCall EXCEPT !.at = "list", !.user = u, !.yes = held] \in CallState
      OBVIOUS
    <2> QED
      BY <1>3, <2>1, StartInv DEF ListRead, Tradeable, TradeSteps
  <1>4. ASSUME NEW l \in Listings, NEW approve \in BOOLEAN, ReviewRead(r, l, approve) PROVE IInv'
    <2>1. [NoCall EXCEPT !.at = "review", !.on = l, !.yes = approve] \in CallState
      OBVIOUS
    <2> QED
      BY <1>4, <2>1, StartInv DEF ReviewRead, IInv, Inv, CustodyGate, TradeSteps
  <1>5. ASSUME NEW l \in Listings, CancelRead(r, l) PROVE IInv'
    <2>1. [NoCall EXCEPT !.at = "cancel", !.on = l] \in CallState
      OBVIOUS
    <2> QED
      BY <1>5, <2>1, StartInv DEF CancelRead, IInv, Inv, CustodyGate, TradeSteps
  <1>6. ASSUME NEW u \in Users, NEW l \in Listings, BuyRead(r, u, l) PROVE IInv'
    <2>1. [NoCall EXCEPT !.at = "buy", !.user = u, !.on = l] \in CallState
      OBVIOUS
    <2> QED
      BY <1>6, <2>1, StartInv DEF BuyRead, Tradeable, TradeSteps
  <1>7. CASE PoolRead(r)
    <2>1. [NoCall EXCEPT !.at = "addToPool"] \in CallState
      OBVIOUS
    <2> QED
      BY <1>7, <2>1, StartInv DEF PoolRead, Tradeable, TradeSteps
  <1>8. ASSUME NEW o \in Openings, RevealRead(r, o) PROVE IInv'
    <2>1. [NoCall EXCEPT !.at = "reveal", !.user = opening[o].user, !.on = o] \in CallState
      BY <1>8 DEF RevealRead, IInv, TypeOK
    <2> QED
      BY <1>8, <2>1, StartInv DEF RevealRead, IInv, Inv, CustodyGate, TradeSteps
  <1>9. ASSUME NEW u \in Users, BuybackRead(r, u) PROVE IInv'
    <2>1. [NoCall EXCEPT !.at = "buyback"] \in CallState
      OBVIOUS
    <2> QED
      BY <1>9, <2>1, StartInv DEF BuybackRead, Tradeable, TradeSteps
  <1>10. ASSUME NEW u \in Users, RaffleRead(r, u) PROVE IInv'
    <2>1. [NoCall EXCEPT !.at = "raffle"] \in CallState
      OBVIOUS
    <2> QED
      BY <1>10, <2>1, StartInv DEF RaffleRead, Tradeable, TradeSteps
  <1>11. CASE TicketsRead(r)
    <2>1. [NoCall EXCEPT !.at = "tickets"] \in CallState
      OBVIOUS
    <2> QED
      BY <1>11, <2>1, StartInv DEF TicketsRead, IInv, Inv, CustodyGate, TradeSteps
  <1>12. ASSUME NEW u \in Users, DrawRead(r, u) PROVE IInv'
    <2>1. [NoCall EXCEPT !.at = "draw", !.user = u] \in CallState
      OBVIOUS
    <2> QED
      BY <1>12, <2>1, StartInv DEF DrawRead, IInv, Inv, CustodyGate, TradeSteps
  <1>13. CASE CancelRaffleRead(r)
    <2>1. [NoCall EXCEPT !.at = "cancelRaffle", !.yes = raffle.tickets] \in CallState
      BY <1>13 DEF CancelRaffleRead, IInv, TypeOK
    <2> QED
      BY <1>13, <2>1, StartInv DEF CancelRaffleRead, IInv, Inv, CustodyGate, TradeSteps
  <1>14. ASSUME NEW u \in Users, RedeemRead(r, u) PROVE IInv'
    <2>1. [NoCall EXCEPT !.at = "redeem"] \in CallState
      OBVIOUS
    <2> QED
      BY <1>14, <2>1, StartInv DEF RedeemRead, Tradeable, TradeSteps
  <1> QED
    BY <1>1, <1>2, <1>3, <1>4, <1>5, <1>6, <1>7, <1>8, <1>9, <1>10, <1>11, <1>12, <1>13, <1>14

-----------------------------------------------------------------------------
\* Intake overwrites the state only, and of a card nobody trades.
LEMMA IntakeCommitInv ==
    ASSUME IInv, NEW r \in Requests, AuthenticateCommit(r) \/ GradeCommit(r)
    PROVE  IInv'
  <1>1. /\ Finish(r)
        /\ item' \in [state : ItemStates, owner : Users]
        /\ item'.owner = item.owner
        /\ UNCHANGED <<token, minted, listing, raffle, pool, opening, redeemed>>
    BY DEF AuthenticateCommit, GradeCommit, IInv, TypeOK, ItemStates
  <1>2. req' \in [Requests -> CallState] /\ CallsKnow'
    BY <1>1, FinishKnows
  <1> QED
    BY <1>1, <1>2 DEF IInv, TypeOK, Inv, OwnersAgree, CustodyGate, BurnedIffRedeemed, OneActiveListing

\* The mint: one more cNFT, and the same call.
LEMMA VaultMintInv ==
    ASSUME IInv, NEW r \in Requests, VaultMint(r)
    PROVE  IInv'
  <1>1. /\ req[r].at = "mint"
        /\ minted' = minted + 1
        /\ req' = [req EXCEPT ![r].at = "vault"]
        /\ UNCHANGED <<item, token, listing, raffle, pool, opening, redeemed>>
    BY DEF VaultMint
  <1>2. minted \in Nat /\ minted' \in Nat /\ minted' > 0
    BY <1>1 DEF IInv, TypeOK
  <1>3. req' \in [Requests -> CallState]
    BY <1>1 DEF IInv, TypeOK, CallState, CallSteps
  <1>4. TypeOK'
    BY <1>1, <1>2, <1>3 DEF IInv, TypeOK
  <1>5. Inv'
    BY <1>1, <1>2 DEF IInv, Inv, OwnersAgree, CustodyGate, BurnedIffRedeemed, OneActiveListing
  <1>6. /\ \A s \in Requests \ {r} : req'[s] = req[s]
        /\ req'[r].at = "vault" /\ req'[r].user = req[r].user
    <2>1. req \in [Requests -> CallState]
      BY DEF IInv, TypeOK
    <2> QED
      BY <1>1, <2>1 DEF CallState
  <1>7. CallsKnow'
    BY <1>1, <1>2, <1>6 DEF IInv, CallsKnow, TradeSteps
  <1> QED
    BY <1>4, <1>5, <1>7 DEF IInv

\* The token is created for the owner the call has read, who still is the owner.
LEMMA VaultCommitInv ==
    ASSUME IInv, NEW r \in Requests, VaultCommit(r)
    PROVE  IInv'
  <1>1. /\ req[r].at = "vault"
        /\ token' = IF token.status = "NONE" THEN [status |-> "ACTIVE", owner |-> req[r].user]
                    ELSE token
        /\ item' = [item EXCEPT !.state = "VAULTED"]
        /\ Finish(r)
        /\ UNCHANGED <<minted, listing, raffle, pool, opening, redeemed>>
    BY DEF VaultCommit, Recorded
  <1>2. req[r].user \in Users /\ minted > 0
    BY <1>1 DEF IInv, TypeOK, CallsKnow, CallState
  <1>3. item'.owner = item.owner /\ item' \in [state : ItemStates, owner : Users]
    BY <1>1 DEF IInv, TypeOK, ItemStates
  <1>4. /\ token'.status # "NONE"
        /\ token' \in [status : {"NONE", "ACTIVE", "BURNED"}, owner : Users]
        /\ token'.owner = item'.owner
        /\ token'.status = "BURNED" <=> token.status = "BURNED"
    BY <1>1, <1>2, <1>3 DEF IInv, TypeOK, Inv, OwnersAgree, CallsKnow
  <1>5. req' \in [Requests -> CallState] /\ CallsKnow'
    BY <1>1, <1>4, FinishKnows
  <1> QED
    BY <1>1, <1>2, <1>3, <1>4, <1>5
       DEF IInv, TypeOK, Inv, OwnersAgree, CustodyGate, BurnedIffRedeemed, OneActiveListing

-----------------------------------------------------------------------------
\* What a commit of a trade has to keep, besides its own rows' types: tokens are
\* not deleted, and item and token move together.
LEMMA TradeInv ==
    ASSUME IInv, NEW r \in Requests, Finish(r), token.status # "NONE",
           token'.status # "NONE", token'.owner = item'.owner,
           token'.status = "BURNED" <=> redeemed',
           minted' = minted,
           item' \in [state : ItemStates, owner : Users],
           token' \in [status : {"NONE", "ACTIVE", "BURNED"}, owner : Users],
           redeemed' \in BOOLEAN
    PROVE  /\ req' \in [Requests -> CallState] /\ CallsKnow'
           /\ OwnersAgree' /\ CustodyGate' /\ BurnedIffRedeemed'
  <1>1. req' \in [Requests -> CallState] /\ CallsKnow'
    BY FinishKnows
  <1>2. minted > 0
    BY DEF IInv, Inv, CustodyGate
  <1> QED
    BY <1>1, <1>2 DEF OwnersAgree, CustodyGate, BurnedIffRedeemed

\* A call in flight that trades knows the token.
LEMMA TokenThere ==
    ASSUME IInv, NEW r \in Requests, req[r].at \in TradeSteps
    PROVE  token.status # "NONE" /\ req[r].user \in Users
  BY DEF IInv, TypeOK, CallsKnow, CallState

ListingRow == [status : {"NONE", "ACTIVE", "HELD", "SOLD", "CANCELLED"}, seller : Users]

\* The rows of the listings are rows, in the invariant and in its type part.
LEMMA ListingRows ==
    ASSUME IInv
    PROVE  listing \in [Listings -> ListingRow]
  BY DEF IInv, TypeOK, ListingRow

\* What a handler that closes or opens listing l writes to its row.
StatusTo(l, t) == listing' = [listing EXCEPT ![l].status = t]

\* A listing's status changes and its seller does not; an id that is no listing
\* changes nothing.
LEMMA StatusChange ==
    ASSUME IInv, NEW l, NEW t \in {"ACTIVE", "SOLD", "CANCELLED"}, StatusTo(l, t)
    PROVE  /\ listing' \in [Listings -> ListingRow]
           /\ \A k \in Listings :
                 listing'[k].status = IF k = l THEN t ELSE listing[k].status
  <1>1. ASSUME NEW row \in ListingRow
        PROVE  [row EXCEPT !.status = t] \in ListingRow /\ [row EXCEPT !.status = t].status = t
    BY DEF ListingRow
  <1>2. listing' = [listing EXCEPT ![l] = [listing[l] EXCEPT !.status = t]]
    BY DEF StatusTo
  <1>3. listing' = [k \in Listings |-> IF k = l THEN [listing[l] EXCEPT !.status = t] ELSE listing[k]]
    BY <1>2, ListingRows
  <1>4. ASSUME NEW k \in Listings
        PROVE  listing'[k] \in ListingRow /\ listing'[k].status = IF k = l THEN t ELSE listing[k].status
    <2>1. CASE k = l
      <3>1. listing[l] \in ListingRow
        BY <2>1, ListingRows
      <3>2. listing'[k] = [listing[l] EXCEPT !.status = t]
        BY <1>3, <2>1
      <3> QED
        BY <1>1, <2>1, <3>1, <3>2
    <2>2. CASE k # l
      BY <1>3, <2>2, ListingRows
    <2> QED
      BY <2>1, <2>2
  <1> QED
    BY <1>3, <1>4

\* Listings are created, reviewed and cancelled without touching the card, and
\* become ACTIVE only when no other is.
LEMMA ListingCommitInv ==
    ASSUME IInv, NEW r \in Requests,
           (\E l \in Listings : ListCommit(r, l)) \/ ReviewCommit(r) \/ CancelCommit(r)
    PROVE  IInv'
  <1>1. /\ req[r].at \in TradeSteps
        /\ Finish(r)
        /\ UNCHANGED <<item, token, minted, raffle, pool, opening, redeemed>>
    BY DEF ListCommit, ReviewCommit, CancelCommit, TradeSteps
  <1>2. token.status # "NONE" /\ req[r].user \in Users
    BY <1>1, TokenThere
  <1>3. /\ req' \in [Requests -> CallState] /\ CallsKnow'
        /\ OwnersAgree' /\ CustodyGate' /\ BurnedIffRedeemed'
    BY <1>1, <1>2, TradeInv DEF IInv, TypeOK, Inv, OwnersAgree, BurnedIffRedeemed
  <1>4. /\ listing' \in [Listings -> ListingRow]
        /\ OneActiveListing'
    <2>1. ASSUME NEW l \in Listings, NEW s \in {"ACTIVE", "HELD", "CANCELLED"},
                 NEW u \in Users,
                 s = "ACTIVE" => \A k \in Listings \ {l} : listing[k].status # "ACTIVE",
                 listing' = [listing EXCEPT ![l] = [status |-> s, seller |-> u]]
          PROVE  /\ listing' \in [Listings -> ListingRow]
                 /\ OneActiveListing'
      <3>1. listing \in [Listings -> ListingRow] /\ [status |-> s, seller |-> u] \in ListingRow
        BY ListingRows DEF ListingRow
      <3>2. /\ \A k \in Listings \ {l} : listing'[k] = listing[k]
            /\ listing'[l].status = s
        BY <2>1, <3>1
      <3>3. OneActiveListing'
        BY <2>1, <3>2 DEF IInv, Inv, OneActiveListing
      <3> QED
        BY <2>1, <3>1, <3>3
    <2>2. ASSUME NEW l \in Listings, ListCommit(r, l)
          PROVE  /\ listing' \in [Listings -> ListingRow]
                 /\ OneActiveListing'
      BY <1>2, <2>1, <2>2 DEF ListCommit, NoOtherActive
    <2>3. CASE ReviewCommit(r)
      <3>1. listing' = [listing EXCEPT ![req[r].on].status = IF req[r].yes THEN "ACTIVE" ELSE "CANCELLED"]
        BY <2>3 DEF ReviewCommit
      <3>2. req[r].yes => \A k \in Listings \ {req[r].on} : listing[k].status # "ACTIVE"
        BY <2>3 DEF ReviewCommit, NoOtherActive
      <3>3. PICK t \in {"ACTIVE", "SOLD", "CANCELLED"} :
                /\ StatusTo(req[r].on, t)
                /\ t = "ACTIVE" => req[r].yes
        BY <3>1 DEF StatusTo
      <3>4. /\ listing' \in [Listings -> ListingRow]
            /\ \A k \in Listings : listing'[k].status
                                     = IF k = req[r].on THEN t ELSE listing[k].status
        BY <3>3, StatusChange
      <3>5. OneActiveListing'
        BY <3>2, <3>3, <3>4 DEF IInv, Inv, OneActiveListing
      <3> QED
        BY <3>4, <3>5
    <2>4. CASE CancelCommit(r)
      <3>1. StatusTo(req[r].on, "CANCELLED")
        BY <2>4 DEF CancelCommit, StatusTo
      <3>2. /\ listing' \in [Listings -> ListingRow]
            /\ \A k \in Listings : listing'[k].status
                                     = IF k = req[r].on THEN "CANCELLED" ELSE listing[k].status
        BY <3>1, StatusChange
      <3>3. OneActiveListing'
        BY <3>2 DEF IInv, Inv, OneActiveListing
      <3> QED
        BY <3>2, <3>3
    <2> QED
      BY <2>2, <2>3, <2>4
  <1> QED
    BY <1>1, <1>3, <1>4 DEF IInv, TypeOK, Inv, ListingRow

\* A purchase closes a listing and moves the card.
LEMMA BuyCommitInv ==
    ASSUME IInv, NEW r \in Requests, BuyCommit(r)
    PROVE  IInv'
  <1>1. /\ req[r].at \in TradeSteps
        /\ Finish(r)
        /\ MoveTo(req[r].user)
        /\ StatusTo(req[r].on, "SOLD")
        /\ UNCHANGED <<minted, raffle, pool, opening, redeemed>>
    BY DEF BuyCommit, TradeSteps, StatusTo
  <1>2. token.status # "NONE" /\ req[r].user \in Users
    BY <1>1, TokenThere
  <1>3. /\ item' \in [state : ItemStates, owner : Users]
        /\ token' \in [status : {"NONE", "ACTIVE", "BURNED"}, owner : Users]
        /\ token'.status = token.status /\ token'.owner = item'.owner
    BY <1>1, <1>2 DEF MoveTo, IInv, TypeOK
  <1>4. /\ req' \in [Requests -> CallState] /\ CallsKnow'
        /\ OwnersAgree' /\ CustodyGate' /\ BurnedIffRedeemed'
    BY <1>1, <1>2, <1>3, TradeInv DEF IInv, TypeOK, Inv, BurnedIffRedeemed
  <1>5. /\ listing' \in [Listings -> ListingRow]
        /\ \A k \in Listings : listing'[k].status
                                 = IF k = req[r].on THEN "SOLD" ELSE listing[k].status
    BY <1>1, StatusChange
  <1>6. OneActiveListing'
    BY <1>5 DEF IInv, Inv, OneActiveListing
  <1> QED
    BY <1>1, <1>3, <1>4, <1>5, <1>6 DEF IInv, TypeOK, Inv, ListingRow

\* A reveal or a buyback moves the card; neither touches a listing.
LEMMA MoveCommitInv ==
    ASSUME IInv, NEW r \in Requests, RevealCommit(r) \/ BuybackCommit(r)
    PROVE  IInv'
  <1>1. /\ req[r].at \in TradeSteps
        /\ Finish(r)
        /\ MoveTo(req[r].user) \/ MoveTo(Treasury)
        /\ UNCHANGED <<minted, listing, raffle, redeemed>>
    BY DEF RevealCommit, BuybackCommit, TradeSteps
  <1>2. token.status # "NONE" /\ req[r].user \in Users
    BY <1>1, TokenThere
  <1>3. /\ item' \in [state : ItemStates, owner : Users]
        /\ token' \in [status : {"NONE", "ACTIVE", "BURNED"}, owner : Users]
        /\ token'.status = token.status /\ token'.owner = item'.owner
    BY <1>1, <1>2, AccountsAssumption DEF MoveTo, IInv, TypeOK
  <1>4. /\ req' \in [Requests -> CallState] /\ CallsKnow'
        /\ OwnersAgree' /\ CustodyGate' /\ BurnedIffRedeemed'
    BY <1>1, <1>2, <1>3, TradeInv DEF IInv, TypeOK, Inv, BurnedIffRedeemed
  <1>5. /\ pool' \in {"NONE", "POOLED", "CONSUMED"}
        /\ opening' \in [Openings -> [status : {"NONE", "COMMITTED", "SETTLED"}, user : Users]]
    BY DEF RevealCommit, BuybackCommit, IInv, TypeOK
  <1>6. OneActiveListing'
    BY <1>1 DEF IInv, Inv, OneActiveListing
  <1> QED
    BY <1>1, <1>3, <1>4, <1>5, <1>6 DEF IInv, TypeOK, Inv

\* Pooling touches the pool's row only, buying tickets the raffle's.
LEMMA RowCommitInv ==
    ASSUME IInv, NEW r \in Requests, PoolCommit(r) \/ TicketsCommit(r)
    PROVE  IInv'
  <1>1. /\ req[r].at \in TradeSteps
        /\ Finish(r)
        /\ UNCHANGED <<item, token, minted, listing, opening, redeemed>>
    BY DEF PoolCommit, TicketsCommit, TradeSteps
  <1>2. token.status # "NONE"
    BY <1>1, TokenThere
  <1>3. /\ req' \in [Requests -> CallState] /\ CallsKnow'
        /\ OwnersAgree' /\ CustodyGate' /\ BurnedIffRedeemed'
    BY <1>1, <1>2, TradeInv DEF IInv, TypeOK, Inv, OwnersAgree, BurnedIffRedeemed
  <1>4. /\ pool' \in {"NONE", "POOLED", "CONSUMED"}
        /\ raffle' \in [status : {"NONE", "ACTIVE", "SOLD_OUT", "SETTLED", "CANCELLED"},
                        tickets : BOOLEAN, drawn : BOOLEAN, refunded : BOOLEAN]
    BY DEF PoolCommit, TicketsCommit, IInv, TypeOK
  <1>5. OneActiveListing'
    BY <1>1 DEF IInv, Inv, OneActiveListing
  <1> QED
    BY <1>1, <1>3, <1>4, <1>5 DEF IInv, TypeOK, Inv

\* A raffle reserves, releases or awards the card.
LEMMA RaffleCommitInv ==
    ASSUME IInv, NEW r \in Requests,
           RaffleCommit(r) \/ DrawCommit(r) \/ CancelRaffleCommit(r)
    PROVE  IInv'
  <1>1. /\ req[r].at \in TradeSteps
        /\ Finish(r)
        /\ UNCHANGED <<minted, listing, pool, opening, redeemed>>
    BY DEF RaffleCommit, DrawCommit, CancelRaffleCommit, TradeSteps
  <1>2. token.status # "NONE" /\ req[r].user \in Users
    BY <1>1, TokenThere
  <1>3. /\ item' \in [state : ItemStates, owner : Users]
        /\ token' \in [status : {"NONE", "ACTIVE", "BURNED"}, owner : Users]
        /\ token'.status = token.status /\ token'.owner = item'.owner
    BY <1>2 DEF RaffleCommit, DrawCommit, CancelRaffleCommit, IInv, TypeOK, ItemStates,
                Inv, OwnersAgree
  <1>4. /\ req' \in [Requests -> CallState] /\ CallsKnow'
        /\ OwnersAgree' /\ CustodyGate' /\ BurnedIffRedeemed'
    BY <1>1, <1>2, <1>3, TradeInv DEF IInv, TypeOK, Inv, BurnedIffRedeemed
  <1>5. raffle' \in [status : {"NONE", "ACTIVE", "SOLD_OUT", "SETTLED", "CANCELLED"},
                     tickets : BOOLEAN, drawn : BOOLEAN, refunded : BOOLEAN]
    <2>1. req[r].yes \in BOOLEAN
      BY DEF IInv, TypeOK, CallState
    <2> QED
      BY <2>1 DEF RaffleCommit, DrawCommit, CancelRaffleCommit, IInv, TypeOK
  <1>6. OneActiveListing'
    BY <1>1 DEF IInv, Inv, OneActiveListing
  <1> QED
    BY <1>1, <1>3, <1>4, <1>5, <1>6 DEF IInv, TypeOK, Inv

\* A redemption burns the token and is recorded in one transaction.
LEMMA RedeemCommitInv ==
    ASSUME IInv, NEW r \in Requests, RedeemCommit(r)
    PROVE  IInv'
  <1>1. /\ req[r].at \in TradeSteps
        /\ Finish(r)
        /\ token' = [token EXCEPT !.status = "BURNED"]
        /\ item' = [item EXCEPT !.state = "RELEASED"]
        /\ redeemed' = TRUE
        /\ UNCHANGED <<minted, listing, raffle, pool, opening>>
    BY DEF RedeemCommit, TradeSteps
  <1>2. token.status # "NONE"
    BY <1>1, TokenThere
  <1>3. /\ item' \in [state : ItemStates, owner : Users]
        /\ token' \in [status : {"NONE", "ACTIVE", "BURNED"}, owner : Users]
        /\ token'.status = "BURNED" /\ token'.owner = item'.owner
    BY <1>1, <1>2 DEF IInv, TypeOK, ItemStates, Inv, OwnersAgree
  <1>4. /\ req' \in [Requests -> CallState] /\ CallsKnow'
        /\ OwnersAgree' /\ CustodyGate' /\ BurnedIffRedeemed'
    BY <1>1, <1>2, <1>3, TradeInv
  <1>5. OneActiveListing'
    BY <1>1 DEF IInv, Inv, OneActiveListing
  <1> QED
    BY <1>1, <1>3, <1>4, <1>5 DEF IInv, TypeOK, Inv

\* An aborted call, and an opening that is paid, move no card and no token.
LEMMA OtherInv ==
    ASSUME IInv,
           \/ \E r \in Requests : Abort(r)
           \/ \E u \in Users, o \in Openings : OpenPack(u, o)
    PROVE  IInv'
  <1>1. ASSUME NEW r \in Requests, Abort(r) PROVE IInv'
    <2>1. req' \in [Requests -> CallState] /\ CallsKnow'
      BY <1>1, FinishKnows DEF Abort, rows
    <2> QED
      BY <1>1, <2>1 DEF Abort, rows, IInv, TypeOK, Inv, OwnersAgree, CustodyGate,
                        BurnedIffRedeemed, OneActiveListing
  <1>2. ASSUME NEW u \in Users, NEW o \in Openings, OpenPack(u, o) PROVE IInv'
    <2>1. opening' \in [Openings -> [status : {"NONE", "COMMITTED", "SETTLED"}, user : Users]]
      BY <1>2 DEF OpenPack, IInv, TypeOK
    <2> QED
      BY <1>2, <2>1 DEF OpenPack, IInv, TypeOK, Inv, OwnersAgree, CustodyGate,
                        BurnedIffRedeemed, OneActiveListing, CallsKnow
  <1> QED
    BY <1>1, <1>2

-----------------------------------------------------------------------------
LEMMA NextInv == IInv /\ [Next]_vars => IInv'
  <1> SUFFICES ASSUME IInv, [Next]_vars PROVE IInv'
    OBVIOUS
  <1>1. CASE UNCHANGED vars
    BY <1>1 DEF vars, rows, IInv, TypeOK, Inv, OwnersAgree, CustodyGate, BurnedIffRedeemed,
                OneActiveListing, CallsKnow
  <1>2. ASSUME NEW r \in Requests, Intake(r) PROVE IInv'
    BY <1>2, ReadsInv, IntakeCommitInv, VaultMintInv, VaultCommitInv DEF Intake
  <1>3. ASSUME NEW r \in Requests, Market(r) PROVE IInv'
    BY <1>3, ReadsInv, ListingCommitInv, BuyCommitInv DEF Market
  <1>4. ASSUME NEW r \in Requests, PackAndBuyback(r) PROVE IInv'
    BY <1>4, ReadsInv, RowCommitInv, MoveCommitInv DEF PackAndBuyback
  <1>5. ASSUME NEW r \in Requests, Raffle(r) PROVE IInv'
    BY <1>5, ReadsInv, RowCommitInv, RaffleCommitInv DEF Raffle
  <1>6. ASSUME NEW r \in Requests, Redeem(r) PROVE IInv'
    BY <1>6, ReadsInv, RedeemCommitInv DEF Redeem
  <1> QED
    BY <1>1, <1>2, <1>3, <1>4, <1>5, <1>6, OtherInv DEF Next

\* The invariant holds in every reachable state of the custody of a card.
THEOREM InductiveInvariant == Spec => []IInv
  BY NextInv, InitInv, PTL DEF Spec

\* Every variable keeps its type, whatever handlers race.
THEOREM TypeCorrect == Spec => []TypeOK
  BY InductiveInvariant, PTL DEF IInv

\* VaultItem.ownerId and Token.ownerId never disagree.
THEOREM OwnershipRecordsAgree == Spec => []OwnersAgree
  BY InductiveInvariant, PTL DEF IInv, Inv

\* No card is listed, pooled, raffled or redeemed before its cNFT is minted.
THEOREM NothingTradesBeforeMint == Spec => []CustodyGate
  BY InductiveInvariant, PTL DEF IInv, Inv

\* No card is on sale in two listings.
THEOREM CardListedOnce == Spec => []OneActiveListing
  BY InductiveInvariant, PTL DEF IInv, Inv

\* A token is burned exactly when the card has its redemption.
THEOREM BurnBelongsToRedemption == Spec => []BurnedIffRedeemed
  BY InductiveInvariant, PTL DEF IInv, Inv

-----------------------------------------------------------------------------
(* One call at a time.  Then what a call has read still holds when it       *)
(* commits (SeesCurrent), and the three records of the card's stage agree   *)
(* even while it is under way (Stages).                                     *)
Stages ==
    /\ token.status = "NONE" <=> item.state \in {"INTAKE", "AUTHENTICATING", "GRADED"}
    /\ token.status = "BURNED" <=> item.state = "RELEASED"
    /\ item.state = "RESERVED" <=> raffle.status \in {"ACTIVE", "SOLD_OUT"}

\* The stage on which a handler found the card.
Finds(step) ==
    /\ step = "authenticate" => item.state = "INTAKE"
    /\ step = "grade" => item.state = "AUTHENTICATING"
    /\ step \in {"mint", "vault"} => item.state = "GRADED" /\ token.status = "NONE"
    /\ step \in {"raffle", "redeem"} => Tradeable
    /\ step \in {"tickets", "draw", "cancelRaffle"} => raffle.status \in {"ACTIVE", "SOLD_OUT"}

SeesCurrent == \A r \in Requests : Finds(req[r].at)

CustodySerial == Stages /\ SeesCurrent /\ ~Together(req)

SerialInv == IInv /\ (~overlapped => CustodySerial)

\* The rows a stage is told from are the card's, the token's and the raffle's.
LEMMA StagesStay ==
    ASSUME CustodySerial, UNCHANGED <<item, token, raffle>>
    PROVE  Stages' /\ \A step : Finds(step) => Finds(step)'
  BY DEF CustodySerial, Stages, Finds, Tradeable

\* A call that starts alone, having read the stage that it asks for.
LEMMA StartsAlone ==
    ASSUME CustodySerial, IInv, NEW r \in Requests, NEW call, Start(r, call),
           ~Together(req'), Finds(call.at)
    PROVE  CustodySerial'
  <1>1. UNCHANGED <<item, token, raffle>>
    BY DEF Start, rows
  <1>2. \A s \in Requests : req'[s] = req[s] \/ req'[s] = call
    BY DEF IInv, TypeOK, Start
  <1>3. SeesCurrent'
    BY <1>1, <1>2, StagesStay DEF SeesCurrent, CustodySerial
  <1> QED
    BY <1>1, <1>3, StagesStay DEF CustodySerial

\* As long as calls have not overlapped, the call that ends is alone.
LEMMA EndsAlone ==
    ASSUME CustodySerial, IInv, NEW r \in Requests, req[r].at # "idle", Finish(r), Stages'
    PROVE  CustodySerial'
  <1>1. req \in [Requests -> CallState] /\ NoCall.at = "idle"
    BY DEF IInv, TypeOK, NoCall
  <1>2. \A s \in Requests : req'[s] = NoCall
    BY <1>1 DEF CustodySerial, Together, Finish
  <1> QED
    BY <1>1, <1>2 DEF CustodySerial, Together, SeesCurrent, Finds

LEMMA ReadsAlone ==
    ASSUME CustodySerial, IInv, NEW r \in Requests, ~Together(req'),
           \/ AuthenticateRead(r) \/ GradeRead(r) \/ VaultRead(r)
           \/ \E u \in Users, held \in BOOLEAN : ListRead(r, u, held)
           \/ \E l \in Listings, approve \in BOOLEAN : ReviewRead(r, l, approve)
           \/ \E l \in Listings : CancelRead(r, l)
           \/ \E u \in Users, l \in Listings : BuyRead(r, u, l)
           \/ PoolRead(r)
           \/ \E o \in Openings : RevealRead(r, o)
           \/ \E u \in Users : BuybackRead(r, u) \/ RaffleRead(r, u) \/ DrawRead(r, u)
           \/ TicketsRead(r) \/ CancelRaffleRead(r)
           \/ \E u \in Users : RedeemRead(r, u)
    PROVE  CustodySerial'
  <1> DEFINE Alone == Start(r, req'[r]) /\ Finds(req'[r].at)
  <1>0. req \in [Requests -> CallState]
    BY DEF IInv, TypeOK
  <1>1. ASSUME AuthenticateRead(r) \/ GradeRead(r) \/ VaultRead(r) PROVE Alone
    BY <1>0, <1>1 DEF AuthenticateRead, GradeRead, VaultRead, Start, NoCall, Finds
  <1>2. ASSUME NEW u \in Users, NEW held \in BOOLEAN, ListRead(r, u, held) PROVE Alone
    BY <1>0, <1>2 DEF ListRead, Start, NoCall, Finds
  <1>3. ASSUME NEW l \in Listings, NEW approve \in BOOLEAN, ReviewRead(r, l, approve) PROVE Alone
    BY <1>0, <1>3 DEF ReviewRead, Start, NoCall, Finds
  <1>4. ASSUME NEW l \in Listings, CancelRead(r, l) PROVE Alone
    BY <1>0, <1>4 DEF CancelRead, Start, NoCall, Finds
  <1>5. ASSUME NEW u \in Users, NEW l \in Listings, BuyRead(r, u, l) PROVE Alone
    BY <1>0, <1>5 DEF BuyRead, Start, NoCall, Finds
  <1>6. ASSUME NEW o \in Openings, RevealRead(r, o) PROVE Alone
    BY <1>0, <1>6 DEF RevealRead, Start, NoCall, Finds
  <1>7. ASSUME PoolRead(r) \/ TicketsRead(r) \/ CancelRaffleRead(r) PROVE Alone
    BY <1>0, <1>7 DEF PoolRead, TicketsRead, CancelRaffleRead, Start, NoCall, Finds
  <1>8. ASSUME NEW u \in Users, BuybackRead(r, u) \/ DrawRead(r, u) PROVE Alone
    BY <1>0, <1>8 DEF BuybackRead, DrawRead, Start, NoCall, Finds
  <1>9. ASSUME NEW u \in Users, RaffleRead(r, u) \/ RedeemRead(r, u) PROVE Alone
    BY <1>0, <1>9 DEF RaffleRead, RedeemRead, Start, NoCall, Finds
  <1>10. Alone
    BY <1>1, <1>2, <1>3, <1>4, <1>5, <1>6, <1>7, <1>8, <1>9
  <1> QED
    BY <1>10, StartsAlone

\* The commits that leave the stage alone: listings, moves of the card, its pool.
LEMMA MovesAlone ==
    ASSUME CustodySerial, IInv, NEW r \in Requests,
           \/ \E l \in Listings : ListCommit(r, l)
           \/ ReviewCommit(r) \/ CancelCommit(r) \/ BuyCommit(r)
           \/ PoolCommit(r) \/ RevealCommit(r) \/ BuybackCommit(r)
           \/ Abort(r)
    PROVE  CustodySerial'
  <1>1. req[r].at # "idle" /\ Finish(r) /\ raffle' = raffle
    BY DEF ListCommit, ReviewCommit, CancelCommit, BuyCommit, PoolCommit, RevealCommit,
           BuybackCommit, Abort, rows
  <1>2. (item' = item /\ token' = token) \/ \E u : MoveTo(u)
    BY DEF ListCommit, ReviewCommit, CancelCommit, BuyCommit, PoolCommit, RevealCommit,
           BuybackCommit, Abort, rows
  <1>3. item'.state = item.state /\ token'.status = token.status
    BY <1>2 DEF MoveTo, IInv, TypeOK
  <1> QED
    BY <1>1, <1>3, EndsAlone DEF CustodySerial, Stages

\* The commits that move the card to another stage.
LEMMA StepsAlone ==
    ASSUME CustodySerial, IInv, NEW r \in Requests,
           \/ AuthenticateCommit(r) \/ GradeCommit(r) \/ VaultCommit(r)
           \/ RaffleCommit(r) \/ TicketsCommit(r) \/ DrawCommit(r) \/ CancelRaffleCommit(r)
           \/ RedeemCommit(r)
    PROVE  CustodySerial'
  <1>0. /\ Stages /\ Finds(req[r].at)
        /\ item \in [state : ItemStates, owner : Users]
        /\ token \in [status : {"NONE", "ACTIVE", "BURNED"}, owner : Users]
        /\ raffle \in [status : {"NONE", "ACTIVE", "SOLD_OUT", "SETTLED", "CANCELLED"},
                        tickets : BOOLEAN, drawn : BOOLEAN, refunded : BOOLEAN]
    BY DEF CustodySerial, SeesCurrent, IInv, TypeOK
  <1>1. ASSUME AuthenticateCommit(r) \/ GradeCommit(r) \/ VaultCommit(r) PROVE Stages'
    BY <1>0, <1>1 DEF AuthenticateCommit, GradeCommit, VaultCommit, Recorded, Stages, Finds
  <1>2. ASSUME RaffleCommit(r) PROVE Stages'
    BY <1>0, <1>2 DEF RaffleCommit, Stages, Finds, Tradeable
  <1>3. ASSUME TicketsCommit(r) PROVE Stages'
    BY <1>0, <1>3 DEF TicketsCommit, Stages, Finds
  <1>4. ASSUME DrawCommit(r) PROVE Stages'
    BY <1>0, <1>4 DEF DrawCommit, Stages, Finds
  <1>5. ASSUME CancelRaffleCommit(r) PROVE Stages'
    BY <1>0, <1>5 DEF CancelRaffleCommit, Stages, Finds
  <1>6. ASSUME RedeemCommit(r) PROVE Stages'
    BY <1>0, <1>6 DEF RedeemCommit, Stages, Finds, Tradeable
  <1>7. req[r].at # "idle" /\ Finish(r)
    BY DEF AuthenticateCommit, GradeCommit, VaultCommit, RaffleCommit, TicketsCommit, DrawCommit,
           CancelRaffleCommit, RedeemCommit
  <1> QED
    BY <1>1, <1>2, <1>3, <1>4, <1>5, <1>6, <1>7, EndsAlone

\* The mint takes the call from one step to the next; a paid opening is no call.
LEMMA OthersAlone ==
    ASSUME CustodySerial, IInv,
           \/ \E r \in Requests : VaultMint(r)
           \/ \E u \in Users, o \in Openings : OpenPack(u, o)
    PROVE  CustodySerial'
  <1>1. ASSUME NEW r \in Requests, VaultMint(r) PROVE CustodySerial'
    <2>1. /\ \A s \in Requests \ {r} : req'[s] = req[s]
          /\ req[r].at = "mint" /\ req'[r].at = "vault"
          /\ UNCHANGED <<item, token, raffle>>
      BY <1>1 DEF VaultMint, IInv, TypeOK, CallState
    <2>2. SeesCurrent'
      BY <2>1 DEF CustodySerial, SeesCurrent, Finds, Tradeable
    <2>3. req[r] # NoCall
      BY <2>1 DEF NoCall
    <2>4. ~Together(req')
      BY <2>1, <2>3 DEF CustodySerial, Together
    <2> QED
      BY <2>1, <2>2, <2>4, StagesStay DEF CustodySerial
  <1>2. ASSUME NEW u \in Users, NEW o \in Openings, OpenPack(u, o) PROVE CustodySerial'
    BY <1>2 DEF OpenPack, CustodySerial, Together, SeesCurrent, Finds, Stages, Tradeable
  <1> QED
    BY <1>1, <1>2

LEMMA SerialInit == MCInit => SerialInv
  <1> SUFFICES ASSUME MCInit PROVE SerialInv
    OBVIOUS
  <1>1. Init /\ IInv
    BY InitInv DEF MCInit
  <1>2. Stages
    BY <1>1 DEF Init, Stages
  <1> QED
    BY <1>1, <1>2 DEF Init, SerialInv, CustodySerial, Together, SeesCurrent, Finds, NoCall

LEMMA SerialStep == SerialInv /\ [MCNext]_MCVars => SerialInv'
  <1> SUFFICES ASSUME SerialInv, [MCNext]_MCVars PROVE SerialInv'
    OBVIOUS
  <1>1. IInv /\ IInv'
    BY NextInv DEF SerialInv, MCNext, MCVars
  <1>2. CASE UNCHANGED MCVars
    BY <1>1, <1>2 DEF MCVars, vars, rows, SerialInv, CustodySerial, Together, SeesCurrent, Stages,
                      Finds, Tradeable
  <1>3. ASSUME MCNext, ~overlapped' PROVE CustodySerial'
    <2>1. CustodySerial /\ ~Together(req') /\ Next
      BY <1>3 DEF MCNext, SerialInv
    <2>2. ASSUME NEW r \in Requests, Intake(r) \/ Market(r) PROVE CustodySerial'
      BY <1>1, <2>1, <2>2, ReadsAlone, MovesAlone, StepsAlone, OthersAlone DEF Intake, Market
    <2>3. ASSUME NEW r \in Requests, PackAndBuyback(r) \/ Raffle(r) \/ Redeem(r) \/ Abort(r)
          PROVE  CustodySerial'
      BY <1>1, <2>1, <2>3, ReadsAlone, MovesAlone, StepsAlone DEF PackAndBuyback, Raffle, Redeem
    <2> QED
      BY <1>1, <2>1, <2>2, <2>3, OthersAlone DEF Next
  <1> QED
    BY <1>1, <1>2, <1>3 DEF SerialInv

\* Until two calls overlap, item, token and raffle agree on the stage of the card.
THEOREM StagesOfACardAgree == MCSpec => []SerialStagesAgree
  <1>1. SerialInv => SerialStagesAgree
    BY DEF SerialInv, CustodySerial, Stages, StagesAgree, SerialStagesAgree
  <1> QED
    BY <1>1, SerialInit, SerialStep, PTL DEF MCSpec
=============================================================================
