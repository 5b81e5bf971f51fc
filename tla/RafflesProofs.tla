--------------------------- MODULE RafflesProofs ---------------------------
(***************************************************************************)
(* Raffles, for every supply, price, fee, set of accounts and number of    *)
(* calls in flight: types, no oversell, the card moves only by the draw,   *)
(* no money appears or disappears, the refinement of TicketSale, and,      *)
(* until two calls overlap, a cancellation refunds every ticket.           *)
(*                                                                         *)
(* NoOversell is not inductive alone: a purchase about to commit could     *)
(* hold any first number.  CallsInFlight adds what a call in flight knows: *)
(* the first number it read is at most ticketsSold, which only grows, so   *)
(* the unique index lets it commit only when it is still ticketsSold.      *)
(*                                                                         *)
(* MoneyConserved is about a sum over the accounts: each commit adds       *)
(* postings that cancel out (Sums).                                        *)
(***************************************************************************)
EXTENDS MCRaffles, Sums, FiniteSetTheorems, SequenceTheorems, TLAPS

USE DEF Numbers

Row == [owner : Users, status : {"ACTIVE", "WON", "REFUNDED"}]

PurchaseInFlight(r) ==
    /\ req[r].at \in {"buyBalance", "buyRecheck", "buyCommit"} => req[r].qty >= 1
    /\ req[r].at = "buyCommit" => /\ req[r].num <= raffle.sold
                                  /\ req[r].num + req[r].qty <= Supply

DrawInFlight(r) ==
    req[r].at = "draw" => /\ req[r].num \in DOMAIN tickets
                          /\ raffle.sold = Supply

CancelInFlight(r) == req[r].seen \subseteq DOMAIN tickets

InFlight(r)   == PurchaseInFlight(r) /\ DrawInFlight(r) /\ CancelInFlight(r)
CallsInFlight == \A r \in Requests : InFlight(r)

\* A settlement order exists exactly when the raffle has a winner.
WinnerHasOrder == (raffle.winner = NoUser) <=> ("raffle_draw" \notin orderKeys)

IInv == TypeOK /\ NoOversell /\ CallsInFlight /\ WinnerHasOrder

-----------------------------------------------------------------------------
\* The initial state satisfies the inductive invariant: no ticket, no call.
LEMMA InitInv == Init => IInv
  <1> SUFFICES ASSUME Init PROVE IInv
    OBVIOUS
  <1> USE UsersAssumption, SupplyAssumption, MoneyAssumption DEF Init
  <1>1. tickets = [n \in {} |-> Idle] /\ DOMAIN tickets = {}
    OBVIOUS
  <1>2. TypeOK
    <2>1. tickets \in [DOMAIN tickets -> Row]
      BY <1>1
    <2>2. Idle \in RequestState
      BY DEF Idle, RequestState, Steps
    <2> QED
      BY <1>1, <2>1, <2>2 DEF TypeOK, Row, Statuses
  <1>3. NoOversell
    BY <1>1 DEF NoOversell
  <1>4. CallsInFlight
    BY DEF CallsInFlight, InFlight, PurchaseInFlight, DrawInFlight, CancelInFlight, Idle
  <1>5. WinnerHasOrder
    BY DEF WinnerHasOrder
  <1> QED
    BY <1>2, <1>3, <1>4, <1>5 DEF IInv

\* A step that changes no row but req keeps the invariant when the calls it
\* leaves in flight are well formed.
LEMMA RequestStep ==
    ASSUME IInv, UNCHANGED <<raffle, tickets, item, money>>,
           NEW r \in Requests, NEW q \in RequestState,
           req' = [req EXCEPT ![r] = q],
           InFlight(r)'
    PROVE  IInv'
  <1> USE DEF money
  <1>1. req' \in [Requests -> RequestState]
    BY DEF IInv, TypeOK
  <1>2. TypeOK'
    BY <1>1 DEF IInv, TypeOK
  <1>3. NoOversell' /\ WinnerHasOrder'
    BY DEF IInv, NoOversell, WinnerHasOrder
  <1>4. ASSUME NEW s \in Requests PROVE InFlight(s)'
    <2>1. CASE s = r
      BY <2>1
    <2>2. CASE s # r
      <3>1. req'[s] = req[s]
        BY <2>2 DEF IInv, TypeOK
      <3>2. InFlight(s)
        BY DEF IInv, CallsInFlight
      <3> QED
        BY <3>1, <3>2 DEF InFlight, PurchaseInFlight, DrawInFlight, CancelInFlight
    <2> QED
      BY <2>1, <2>2
  <1> QED
    BY <1>2, <1>3, <1>4 DEF IInv, CallsInFlight

\* A call that ends leaves the others well formed: ticketsSold never decreases
\* and no ticket disappears.
LEMMA CallEnds ==
    ASSUME IInv, NEW r \in Requests, Done(r),
           raffle'.sold \in Nat, raffle.sold <= raffle'.sold, raffle'.sold <= Supply,
           DOMAIN tickets \subseteq DOMAIN tickets'
    PROVE  CallsInFlight' /\ req' \in [Requests -> RequestState]
  <1> USE SupplyAssumption
  <1>1. Idle \in RequestState
    BY UsersAssumption DEF Idle, RequestState, Steps
  <1>2. req' \in [Requests -> RequestState]
    BY <1>1 DEF IInv, TypeOK, Done
  <1>3. ASSUME NEW s \in Requests PROVE InFlight(s)'
    <2>1. CASE s = r
      BY <2>1 DEF IInv, TypeOK, Done, Idle, InFlight, PurchaseInFlight, DrawInFlight, CancelInFlight
    <2>2. CASE s # r
      <3>1. req'[s] = req[s] /\ req[s] \in RequestState
        BY <2>2 DEF IInv, TypeOK, Done
      <3>2. InFlight(s)
        BY DEF IInv, CallsInFlight
      <3>3. PurchaseInFlight(s)'
        BY <3>1, <3>2 DEF InFlight, PurchaseInFlight, IInv, TypeOK, RequestState
      <3>4. DrawInFlight(s)'
        <4>1. raffle.sold = Supply => raffle'.sold = Supply
          BY DEF IInv, TypeOK
        <4> QED
          BY <3>1, <3>2, <4>1 DEF InFlight, DrawInFlight
      <3>5. CancelInFlight(s)'
        BY <3>1, <3>2 DEF InFlight, CancelInFlight
      <3> QED
        BY <3>3, <3>4, <3>5 DEF InFlight
    <2> QED
      BY <2>1, <2>2
  <1> QED
    BY <1>2, <1>3 DEF CallsInFlight

\* A posting to one account leaves every balance an integer.
LEMMA WalletUpdate ==
    ASSUME NEW accounts, NEW w \in [accounts -> Int], NEW u \in accounts, NEW c \in Int
    PROVE  /\ [w EXCEPT ![u] = @ - c] \in [accounts -> Int]
           /\ [w EXCEPT ![u] = @ + c] \in [accounts -> Int]
  OBVIOUS

\* The committed purchase: the unique index leaves only the purchase whose
\* first number is still ticketsSold.
LEMMA BuyCommitAppends ==
    ASSUME IInv, NEW r \in Requests, BuyCommit(r)
    PROVE  /\ req[r].num = raffle.sold
           /\ req[r].qty \in Nat /\ req[r].qty >= 1
           /\ raffle.sold + req[r].qty <= Supply
           /\ raffle'.sold = raffle.sold + req[r].qty
           /\ DOMAIN tickets' = 0..(raffle'.sold - 1)
  <1> USE SupplyAssumption DEF IInv, TypeOK, NoOversell
  <1>1. PurchaseInFlight(r)
    BY DEF CallsInFlight, InFlight
  <1>2. /\ req[r].num \in Nat /\ req[r].qty \in Nat /\ req[r].qty >= 1
        /\ req[r].num <= raffle.sold /\ req[r].num + req[r].qty <= Supply
        /\ raffle.sold \in Nat
    BY <1>1 DEF PurchaseInFlight, BuyCommit, RequestState
  <1>3. req[r].num \in req[r].num .. (req[r].num + req[r].qty - 1)
    BY <1>2
  <1>4. req[r].num \notin 0..(raffle.sold - 1)
    BY <1>3 DEF BuyCommit, Unsold
  <1>5. req[r].num = raffle.sold
    BY <1>2, <1>4
  <1>6. raffle'.sold = raffle.sold + req[r].qty
    BY <1>5 DEF BuyCommit
  <1>7. DOMAIN tickets' = 0..(raffle.sold - 1) \cup raffle.sold..(raffle.sold + req[r].qty - 1)
    BY <1>5 DEF BuyCommit
  <1> QED
    BY <1>2, <1>5, <1>6, <1>7

\* A committed purchase keeps the invariant.
LEMMA BuyCommitInv == ASSUME IInv, NEW r \in Requests, BuyCommit(r) PROVE IInv'
  <1>1. raffle'.sold \in Nat /\ raffle.sold <= raffle'.sold /\ raffle'.sold <= Supply
    BY BuyCommitAppends DEF IInv, TypeOK
  <1>2. DOMAIN tickets \subseteq DOMAIN tickets'
    BY DEF BuyCommit
  <1>3. CallsInFlight' /\ req' \in [Requests -> RequestState]
    BY <1>1, <1>2, CallEnds DEF BuyCommit
  <1>4. tickets' \in [DOMAIN tickets' -> Row] /\ DOMAIN tickets' \in SUBSET Nat
    <2>1. req[r].user \in Users
      BY DEF IInv, TypeOK, RequestState
    <2>2. \A n \in DOMAIN tickets : tickets[n] \in Row
      BY DEF IInv, TypeOK, Row
    <2>3. \A n \in DOMAIN tickets' : tickets'[n] \in Row
      BY <2>1, <2>2 DEF BuyCommit, Row
    <2>4. DOMAIN tickets' \in SUBSET Nat
      BY <1>1, BuyCommitAppends
    <2>5. tickets' = [n \in DOMAIN tickets' |-> tickets'[n]]
      BY DEF BuyCommit
    <2> QED
      BY <2>3, <2>4, <2>5
  <1>5. raffle' \in [status : Statuses, sold : Nat, winner : Users \cup {NoUser}]
    BY <1>1 DEF BuyCommit, IInv, TypeOK, Statuses
  <1>6. wallet' \in [Users -> Int] /\ escrow' \in Int
    <2>1. Price * req[r].qty \in Int /\ req[r].user \in Users
      BY MoneyAssumption DEF IInv, TypeOK, RequestState
    <2>2. wallet \in [Users -> Int] /\ escrow \in Int
      BY DEF IInv, TypeOK
    <2>3. wallet' = [wallet EXCEPT ![req[r].user] = @ - Price * req[r].qty]
      BY DEF BuyCommit
    <2>4. escrow' = escrow + Price * req[r].qty
      BY DEF BuyCommit
    <2>5. wallet' \in [Users -> Int]
      BY <2>1, <2>2, <2>3, WalletUpdate
    <2> QED
      BY <2>1, <2>2, <2>4, <2>5
  <1>7. TypeOK'
    BY <1>3, <1>4, <1>5, <1>6 DEF BuyCommit, IInv, TypeOK, Row
  <1>8. NoOversell'
    <2>1. raffle'.status \in {"SOLD_OUT", "SETTLED"} => raffle'.sold >= Supply
      BY DEF BuyCommit, IInv, TypeOK
    <2> QED
      BY <2>1, <1>1, BuyCommitAppends, SupplyAssumption DEF NoOversell
  <1>9. WinnerHasOrder'
    BY DEF BuyCommit, IInv, WinnerHasOrder, TypeOK
  <1> QED
    BY <1>3, <1>7, <1>8, <1>9 DEF IInv

\* Creating the raffle keeps the invariant: no ticket exists before it.
LEMMA CreateCommitInv == ASSUME IInv, NEW r \in Requests, CreateCommit(r) PROVE IInv'
  <1> USE DEF money
  <1>1. /\ raffle'.sold = raffle.sold /\ raffle'.winner = raffle.winner
        /\ raffle'.status = "ACTIVE" /\ raffle.sold \in Nat /\ raffle.sold <= Supply
    BY DEF CreateCommit, IInv, TypeOK, NoOversell
  <1>2. CallsInFlight' /\ req' \in [Requests -> RequestState]
    BY <1>1, CallEnds DEF CreateCommit
  <1>3. TypeOK'
    BY <1>2 DEF CreateCommit, IInv, TypeOK, Statuses
  <1>4. NoOversell' /\ WinnerHasOrder'
    BY <1>1 DEF CreateCommit, IInv, NoOversell, WinnerHasOrder
  <1> QED
    BY <1>2, <1>3, <1>4 DEF IInv

\* The settlement keeps the invariant: what it read of the tickets still holds.
LEMMA DrawCommitInv == ASSUME IInv, NEW r \in Requests, DrawCommit(r) PROVE IInv'
  <1>1. /\ req[r].num \in DOMAIN tickets /\ raffle.sold = Supply
        /\ req[r] \in RequestState /\ req[r].qty \in Nat /\ req[r].user \in Users
    BY DEF DrawCommit, IInv, TypeOK, CallsInFlight, InFlight, DrawInFlight, RequestState
  <1>2. tickets[req[r].num] \in Row /\ tickets[req[r].num].owner \in Users
    BY <1>1 DEF IInv, TypeOK, Row
  <1>3. /\ DOMAIN tickets' = DOMAIN tickets
        /\ tickets' \in [DOMAIN tickets -> Row]
    BY <1>1, <1>2 DEF DrawCommit, Winner, IInv, TypeOK, Row
  <1>4. /\ raffle' = [raffle EXCEPT !.status = "SETTLED", !.winner = tickets[req[r].num].owner]
        /\ raffle'.sold = raffle.sold /\ raffle'.status = "SETTLED"
        /\ raffle'.winner = tickets[req[r].num].owner
        /\ raffle' \in [status : Statuses, sold : Nat, winner : Users \cup {NoUser}]
    BY <1>2 DEF DrawCommit, Winner, IInv, TypeOK, Statuses
  <1>5. CallsInFlight' /\ req' \in [Requests -> RequestState]
    BY <1>1, <1>3, <1>4, CallEnds, SupplyAssumption DEF DrawCommit
  <1>6. wallet' \in [Users -> Int] /\ escrow' \in Int /\ feeRevenue' \in Int
    <2> DEFINE total == Price * req[r].qty
    <2>1. total \in Int
      BY <1>1, MoneyAssumption
    <2>2. Fee(total) \in Int
      BY <2>1, MoneyAssumption DEF Fee
    <2>3. total - Fee(total) \in Int
      BY <2>1, <2>2
    <2>4. wallet \in [Users -> Int] /\ escrow \in Int /\ feeRevenue \in Int
      BY DEF IInv, TypeOK
    <2>5. wallet' = [wallet EXCEPT ![req[r].user] = @ + (total - Fee(total))]
      BY DEF DrawCommit
    <2>6. escrow' = escrow - total /\ feeRevenue' = feeRevenue + Fee(total)
      BY DEF DrawCommit
    <2>7. wallet' \in [Users -> Int]
      BY <1>1, <2>3, <2>4, <2>5, WalletUpdate
    <2>8. escrow' \in Int /\ feeRevenue' \in Int
      BY <2>1, <2>2, <2>4, <2>6
    <2> QED
      BY <2>7, <2>8
  <1>7. TypeOK'
    BY <1>2, <1>3, <1>4, <1>5, <1>6 DEF DrawCommit, Winner, IInv, TypeOK, Row
  <1>8. NoOversell'
    BY <1>1, <1>3, <1>4, SupplyAssumption DEF IInv, NoOversell
  <1>9. WinnerHasOrder'
    BY <1>2, <1>4, UsersAssumption DEF DrawCommit, WinnerHasOrder
  <1> QED
    BY <1>5, <1>7, <1>8, <1>9 DEF IInv

\* A cancellation keeps the invariant: it changes no ticket's number or owner.
LEMMA CancelCommitInv == ASSUME IInv, NEW r \in Requests, CancelCommit(r) PROVE IInv'
  <1>1. /\ DOMAIN tickets' = DOMAIN tickets
        /\ tickets' \in [DOMAIN tickets -> Row]
    BY DEF CancelCommit, IInv, TypeOK, Row
  <1>2. /\ raffle'.sold = raffle.sold /\ raffle'.winner = raffle.winner
        /\ raffle'.status = "CANCELLED" /\ raffle.sold \in Nat /\ raffle.sold <= Supply
    BY DEF CancelCommit, IInv, TypeOK, NoOversell
  <1>3. CallsInFlight' /\ req' \in [Requests -> RequestState]
    BY <1>1, <1>2, CallEnds DEF CancelCommit
  <1>4. wallet' \in [Users -> Int] /\ escrow' \in Int
    <2>1. IsFiniteSet(req[r].seen)
      <3>1. raffle.sold - 1 \in Int
        BY <1>2
      <3>2. IsFiniteSet(0..(raffle.sold - 1))
        BY <3>1, FS_Interval
      <3>3. CancelInFlight(r)
        BY DEF IInv, CallsInFlight, InFlight
      <3>4. DOMAIN tickets = 0..(raffle.sold - 1)
        BY <1>2 DEF IInv, NoOversell
      <3>5. req[r].seen \subseteq 0..(raffle.sold - 1)
        BY <3>3, <3>4 DEF CancelInFlight
      <3> QED
        BY <3>2, <3>5, FS_Subset
    <2>2. ASSUME NEW u \in Users PROVE wallet[u] + Price * Cardinality(SeenOf(r, u)) \in Int
      <3>1. IsFiniteSet(SeenOf(r, u))
        BY <2>1, FS_Subset DEF SeenOf
      <3>2. Cardinality(SeenOf(r, u)) \in Nat
        BY <3>1, FS_CardinalityType
      <3>3. wallet[u] \in Int
        BY DEF IInv, TypeOK
      <3> QED
        BY <3>2, <3>3, MoneyAssumption
    <2>3. Cardinality(req[r].seen) \in Nat
      BY <2>1, FS_CardinalityType
    <2>4. escrow' \in Int
      BY <2>3, MoneyAssumption DEF CancelCommit, IInv, TypeOK
    <2> QED
      BY <2>2, <2>4 DEF CancelCommit
  <1>5. TypeOK'
    BY <1>1, <1>3, <1>4 DEF CancelCommit, IInv, TypeOK, Row, Statuses
  <1>6. NoOversell' /\ WinnerHasOrder'
    BY <1>1, <1>2 DEF CancelCommit, IInv, NoOversell, WinnerHasOrder
  <1> QED
    BY <1>3, <1>5, <1>6 DEF IInv

\* The steps of a call before its commit: they read rows and keep what they read.
LEMMA ReadStepsInv ==
    ASSUME IInv, NEW r \in Requests,
           \/ \E u \in Users : CreateRead(r, u)
           \/ \E u \in Users, q \in 1..Supply : BuyRead(r, u, q)
           \/ BuyBalance(r)
           \/ BuyRecheck(r)
           \/ \E n \in DOMAIN tickets : DrawRead(r, n)
           \/ CancelRead(r)
           \/ CancelTickets(r)
           \/ CancelMark(r)
           \/ Abort(r)
    PROVE  IInv'
  <1> DEFINE Read(q) == /\ q \in RequestState
                        /\ req' = [req EXCEPT ![r] = q]
                        /\ UNCHANGED <<raffle, tickets, item, money>>
                        /\ InFlight(r)'
  <1> USE UsersAssumption, SupplyAssumption DEF Goto, Done
  <1>0. /\ req \in [Requests -> RequestState] /\ req[r] \in RequestState
        /\ Idle \in RequestState /\ InFlight(r)
        /\ raffle.sold \in Nat /\ DOMAIN tickets \in SUBSET Nat
    BY DEF IInv, TypeOK, CallsInFlight, Idle, RequestState, Steps
  <1>1. ASSUME NEW u \in Users, CreateRead(r, u) PROVE \E q : Read(q)
    <2>1. Read([Idle EXCEPT !.at = "create", !.user = u])
      BY <1>0, <1>1 DEF CreateRead, RequestState, Steps, Idle, InFlight,
                        PurchaseInFlight, DrawInFlight, CancelInFlight
    <2> QED
      BY <2>1
  <1>2. ASSUME NEW u \in Users, NEW n \in 1..Supply, BuyRead(r, u, n) PROVE \E q : Read(q)
    <2> DEFINE q == [Idle EXCEPT !.at = "buyBalance", !.user = u, !.qty = n]
    <2>1. n \in Nat /\ n >= 1
      OBVIOUS
    <2>2. q \in RequestState
      BY <1>0, <2>1 DEF RequestState, Steps
    <2>3. req' = [req EXCEPT ![r] = q] /\ UNCHANGED <<raffle, tickets, item, money>>
      BY <1>2 DEF BuyRead
    <2>4. q.at = "buyBalance" /\ q.qty = n /\ q.seen = {}
      BY DEF Idle
    <2>5. InFlight(r)'
      BY <1>0, <2>1, <2>3, <2>4 DEF InFlight, PurchaseInFlight, DrawInFlight, CancelInFlight
    <2> QED
      BY <2>2, <2>3, <2>5
  <1>3. ASSUME BuyBalance(r) PROVE \E q : Read(q)
    <2> DEFINE q == [req[r] EXCEPT !.at = "buyRecheck"]
    <2>1. q \in RequestState
      BY <1>0 DEF RequestState, Steps
    <2>4. req' = [req EXCEPT ![r] = q]
      BY <1>3 DEF BuyBalance
    <2>2. /\ req'[r].at = "buyRecheck" /\ req'[r].qty = req[r].qty
          /\ req'[r].seen = req[r].seen /\ req[r].qty >= 1
      BY <1>0, <1>3 DEF BuyBalance, RequestState, InFlight, PurchaseInFlight
    <2>3. InFlight(r)'
      BY <1>0, <1>3, <2>2 DEF BuyBalance, InFlight, PurchaseInFlight, DrawInFlight, CancelInFlight
    <2> QED
      BY <1>3, <2>1, <2>3, <2>4 DEF BuyBalance
  <1>4. ASSUME BuyRecheck(r) PROVE \E q : Read(q)
    <2> DEFINE q == [req[r] EXCEPT !.at = "buyCommit", !.num = raffle.sold]
    <2>1. q \in RequestState /\ req' = [req EXCEPT ![r] = q]
      BY <1>0, <1>4 DEF BuyRecheck, RequestState, Steps
    <2>2. /\ req'[r].at = "buyCommit" /\ req'[r].qty = req[r].qty
          /\ req'[r].num = raffle.sold /\ req'[r].seen = req[r].seen
          /\ req[r].qty >= 1 /\ raffle.sold + req[r].qty <= Supply
      BY <1>0, <1>4 DEF BuyRecheck, RequestState, InFlight, PurchaseInFlight
    <2>3. InFlight(r)'
      BY <1>0, <1>4, <2>2 DEF BuyRecheck, InFlight, PurchaseInFlight, DrawInFlight, CancelInFlight
    <2> QED
      BY <1>4, <2>1, <2>3 DEF BuyRecheck
  <1>5. ASSUME NEW n \in DOMAIN tickets, DrawRead(r, n) PROVE \E q : Read(q)
    <2>1. raffle.sold = Supply /\ item.owner \in Users
      BY <1>5 DEF DrawRead, IInv, NoOversell, TypeOK
    <2>2. Read([Idle EXCEPT !.at = "draw", !.user = item.owner, !.qty = raffle.sold, !.num = n])
      BY <1>0, <1>5, <2>1 DEF DrawRead, RequestState, Steps, Idle, InFlight,
                        PurchaseInFlight, DrawInFlight, CancelInFlight
    <2> QED
      BY <2>2
  <1>6. ASSUME CancelRead(r) PROVE \E q : Read(q)
    <2>1. Read([Idle EXCEPT !.at = "cancelTickets"])
      BY <1>0, <1>6 DEF CancelRead, RequestState, Steps, Idle, InFlight,
                        PurchaseInFlight, DrawInFlight, CancelInFlight
    <2> QED
      BY <2>1
  <1>7. ASSUME CancelTickets(r) PROVE \E q : Read(q)
    <2>1. Read([req[r] EXCEPT !.at = "cancelMark", !.seen = DOMAIN tickets])
      BY <1>0, <1>7 DEF CancelTickets, RequestState, Steps, InFlight,
                        PurchaseInFlight, DrawInFlight, CancelInFlight
    <2> QED
      BY <2>1
  <1>8. ASSUME CancelMark(r) PROVE \E q : Read(q)
    <2>1. Read([req[r] EXCEPT !.at = "cancelCommit",
                              !.marked = IF req[r].seen = {} THEN {} ELSE DOMAIN tickets])
      BY <1>0, <1>8 DEF CancelMark, RequestState, Steps, InFlight,
                        PurchaseInFlight, DrawInFlight, CancelInFlight
    <2> QED
      BY <2>1
  <1>9. ASSUME Abort(r) PROVE \E q : Read(q)
    <2>1. Read(Idle)
      BY <1>0, <1>9 DEF Abort, Idle, InFlight, PurchaseInFlight, DrawInFlight, CancelInFlight
    <2> QED
      BY <2>1
  <1>10. PICK q : Read(q)
    BY <1>1, <1>2, <1>3, <1>4, <1>5, <1>6, <1>7, <1>8, <1>9
  <1> QED
    BY <1>10, RequestStep

\* Every step keeps the inductive invariant.
LEMMA NextInv == IInv /\ [Next]_vars => IInv'
  <1> SUFFICES ASSUME IInv, [Next]_vars PROVE IInv'
    OBVIOUS
  <1>1. CASE UNCHANGED vars
    BY <1>1 DEF vars, money, IInv, TypeOK, NoOversell, CallsInFlight, InFlight, WinnerHasOrder,
                PurchaseInFlight, DrawInFlight, CancelInFlight
  <1>2. ASSUME NEW r \in Requests, Step(r) PROVE IInv'
    <2>1. CASE CreateCommit(r)
      BY <2>1, CreateCommitInv
    <2>2. CASE BuyCommit(r)
      BY <2>2, BuyCommitInv
    <2>3. CASE DrawCommit(r)
      BY <2>3, DrawCommitInv
    <2>4. CASE CancelCommit(r)
      BY <2>4, CancelCommitInv
    <2> QED
      BY <1>2, <2>1, <2>2, <2>3, <2>4, ReadStepsInv DEF Step
  <1> QED
    BY <1>1, <1>2 DEF Next

\* The inductive invariant holds in every reachable state.
THEOREM InductiveInvariant == Spec => []IInv
  <1>1. Init => IInv
    BY InitInv
  <1>2. IInv /\ [Next]_vars => IInv'
    BY NextInv
  <1> QED
    BY <1>1, <1>2, PTL DEF Spec

\* The rows, balances and calls in flight keep their types.
THEOREM TypeCorrect == Spec => []TypeOK
  <1>1. IInv => TypeOK
    BY DEF IInv
  <1> QED
    BY <1>1, InductiveInvariant, PTL

\* The unique (raffleId, ticketNumber) index makes the unlocked re-read of
\* buyTickets safe: no raffle is oversold, for any number of concurrent calls.
THEOREM RafflesNeverOversell == Spec => []NoOversell
  <1>1. IInv => NoOversell
    BY DEF IInv
  <1> QED
    BY <1>1, InductiveInvariant, PTL

-----------------------------------------------------------------------------
\* Every step moves the card only in the settlement, to the winner's ticket.
LEMMA CardStep ==
    ASSUME IInv, [Next]_vars, item'.owner # item.owner
    PROVE  /\ "raffle_draw" \in orderKeys' \ orderKeys
           /\ \E n \in DOMAIN tickets : /\ tickets[n].owner = item'.owner
                                         /\ tickets'[n].status = "WON"
  <1>1. PICK r \in Requests : Step(r)
    BY DEF Next, vars
  <1>2. DrawCommit(r)
    <2>1. item \in [owner : Users, state : {"VAULTED", "RESERVED"}]
      BY DEF IInv, TypeOK
    <2>2. ~CreateCommit(r) /\ ~CancelCommit(r)
      BY <2>1 DEF CreateCommit, CancelCommit
    <2> QED
      BY <1>1, <2>2 DEF Step, CreateRead, BuyRead, BuyBalance, BuyRecheck, BuyCommit,
                        DrawRead, CancelRead, CancelTickets, CancelMark, Abort
  <1>3. req[r].num \in DOMAIN tickets
    BY <1>2 DEF DrawCommit, IInv, CallsInFlight, InFlight, DrawInFlight
  <1>4. tickets[req[r].num].owner = item'.owner /\ tickets'[req[r].num].status = "WON"
    <2>1. tickets[req[r].num] \in Row
      BY <1>3 DEF IInv, TypeOK, Row
    <2> QED
      BY <1>2, <1>3, <2>1 DEF DrawCommit, Winner, Row
  <1> QED
    BY <1>2, <1>3, <1>4 DEF DrawCommit, FirstDraw, Winner

\* A raffle's card changes hands at most once, in its settlement, and to a
\* ticket holder, whatever calls race.
THEOREM CardMovesOnlyToWinner == Spec => CardMovesOnlyByDraw
  <1>1. IInv /\ [Next]_vars =>
          [item'.owner # item.owner =>
              /\ "raffle_draw" \in orderKeys' \ orderKeys
              /\ \E n \in DOMAIN tickets : /\ tickets[n].owner = item'.owner
                                            /\ tickets'[n].status = "WON"]_vars
    BY CardStep
  <1> QED
    BY <1>1, InductiveInvariant, PTL DEF Spec, CardMovesOnlyByDraw

-----------------------------------------------------------------------------
\* A raffle has finitely many tickets.
LEMMA TicketsAreFinite == IInv => IsFiniteSet(DOMAIN tickets)
  <1> SUFFICES ASSUME IInv PROVE IsFiniteSet(DOMAIN tickets)
    OBVIOUS
  <1>1. raffle.sold - 1 \in Int /\ DOMAIN tickets = 0..(raffle.sold - 1)
    BY DEF IInv, TypeOK, NoOversell
  <1> QED
    BY <1>1, FS_Interval

\* A purchase moves its price from one wallet into escrow.
LEMMA BuyCommitBalances ==
    ASSUME IInv, MoneyConserved, NEW r \in Requests, BuyCommit(r)
    PROVE  MoneyConserved'
  <1> DEFINE cost == Price * req[r].qty
             u    == req[r].user
  <1>1. /\ wallet \in [Users -> Int] /\ escrow \in Int /\ feeRevenue \in Int
        /\ u \in Users /\ cost \in Int
    BY MoneyAssumption DEF IInv, TypeOK, RequestState
  <1>2. wallet' = [wallet EXCEPT ![u] = @ - cost] /\ escrow' = escrow + cost /\ feeRevenue' = feeRevenue
    BY DEF BuyCommit
  <1> HIDE DEF cost, u
  <1>3. /\ SumFunctionOnSet(wallet', Users) = SumFunctionOnSet(wallet, Users) - cost
        /\ SumFunctionOnSet(wallet, Users) \in Int
    BY <1>1, <1>2, UsersAssumption, SumPosting
  <1> QED
    BY <1>1, <1>2, <1>3 DEF MoneyConserved

\* A draw splits what escrow held between the seller and the fee.
LEMMA DrawCommitBalances ==
    ASSUME IInv, MoneyConserved, NEW r \in Requests, DrawCommit(r)
    PROVE  MoneyConserved'
  <1> DEFINE total == Price * req[r].qty
             fee   == Fee(total)
             net   == total - fee
             u     == req[r].user
  <1>1. /\ wallet \in [Users -> Int] /\ escrow \in Int /\ feeRevenue \in Int
        /\ u \in Users /\ total \in Int
    BY MoneyAssumption DEF IInv, TypeOK, RequestState
  <1>2. fee \in Int
    BY <1>1, MoneyAssumption DEF Fee
  <1>3. net \in Int
    BY <1>1, <1>2
  <1>4. /\ wallet' = [wallet EXCEPT ![u] = @ + net]
        /\ escrow' = escrow - total /\ feeRevenue' = feeRevenue + fee
    BY DEF DrawCommit
  <1>5. net = total - fee
    OBVIOUS
  <1> HIDE DEF total, fee, net, u
  <1>6. /\ SumFunctionOnSet(wallet', Users) = SumFunctionOnSet(wallet, Users) + net
        /\ SumFunctionOnSet(wallet, Users) \in Int
    BY <1>1, <1>3, <1>4, UsersAssumption, SumPosting
  <1> QED
    BY <1>1, <1>2, <1>4, <1>5, <1>6 DEF MoneyConserved

\* A cancellation pays each account what it counted for it of the tickets read,
\* and takes from escrow what it counted in all: the parts add up, because every
\* ticket read exists and has an owner (CancelInFlight).
LEMMA CancelCommitBalances ==
    ASSUME IInv, MoneyConserved, NEW r \in Requests, CancelCommit(r)
    PROVE  MoneyConserved'
  <1> DEFINE seen   == req[r].seen
             owner  == [n \in seen |-> tickets[n].owner]
             refund == [u \in Users |-> Price * Cardinality({n \in seen : owner[n] = u})]
  <1>1. IsFiniteSet(seen)
    <2>1. seen \subseteq DOMAIN tickets
      BY DEF IInv, CallsInFlight, InFlight, CancelInFlight
    <2> QED
      BY <2>1, TicketsAreFinite, FS_Subset
  <1>2. \A n \in seen : owner[n] \in Users
    BY DEF IInv, TypeOK, CallsInFlight, InFlight, CancelInFlight
  <1>3. wallet \in [Users -> Int] /\ escrow \in Int /\ feeRevenue \in Int
    BY DEF IInv, TypeOK
  <1>4. \A u \in Users : SeenOf(r, u) = {n \in seen : owner[n] = u}
    BY DEF SeenOf
  <1>5. \A u \in Users : Cardinality({n \in seen : owner[n] = u}) \in Nat
    BY <1>1, FS_Subset, FS_CardinalityType
  <1>6. \A u \in Users : wallet[u] \in Int /\ refund[u] \in Int /\ wallet'[u] = wallet[u] + refund[u]
    <2> SUFFICES ASSUME NEW u \in Users
                 PROVE  wallet[u] \in Int /\ refund[u] \in Int /\ wallet'[u] = wallet[u] + refund[u]
      OBVIOUS
    <2>1. wallet'[u] = wallet[u] + Price * Cardinality(SeenOf(r, u))
      BY DEF CancelCommit
    <2>2. refund[u] = Price * Cardinality(SeenOf(r, u))
      BY <1>4
    <2>3. Cardinality(SeenOf(r, u)) \in Nat
      BY <1>4, <1>5
    <2>4. Price * Cardinality(SeenOf(r, u)) \in Int
      BY <2>3, MoneyAssumption
    <2> QED
      BY <1>3, <2>1, <2>2, <2>4
  <1>7. escrow' = escrow - Price * Cardinality(seen) /\ feeRevenue' = feeRevenue
    BY DEF CancelCommit
  <1>8. Price * Cardinality(seen) \in Int
    BY <1>1, FS_CardinalityType, MoneyAssumption
  <1>9. SumFunctionOnSet(refund, Users) = Price * Cardinality(seen)
    <2> HIDE DEF seen, owner
    <2> QED
      BY <1>1, <1>2, UsersAssumption, MoneyAssumption, SumCount
  <1> HIDE DEF seen, refund
  <1>10. SumFunctionOnSet(wallet', Users) = SumFunctionOnSet(wallet, Users) + SumFunctionOnSet(refund, Users)
    BY <1>6, UsersAssumption, SumPlus
  <1>11. SumFunctionOnSet(wallet, Users) \in Int
    BY <1>6, UsersAssumption, SumPick
  <1> QED
    BY <1>3, <1>7, <1>8, <1>9, <1>10, <1>11 DEF MoneyConserved

\* Every step balances.
LEMMA StepBalances == IInv /\ MoneyConserved /\ [Next]_vars => MoneyConserved'
  <1> SUFFICES ASSUME IInv, MoneyConserved, [Next]_vars PROVE MoneyConserved'
    OBVIOUS
  <1>1. CASE UNCHANGED vars
    BY <1>1 DEF vars, money, MoneyConserved
  <1>2. ASSUME NEW r \in Requests, Step(r) PROVE MoneyConserved'
    <2>1. CASE BuyCommit(r)
      BY <2>1, BuyCommitBalances
    <2>2. CASE DrawCommit(r)
      BY <2>2, DrawCommitBalances
    <2>3. CASE CancelCommit(r)
      BY <2>3, CancelCommitBalances
    <2>4. CASE ~BuyCommit(r) /\ ~DrawCommit(r) /\ ~CancelCommit(r)
      <3>1. UNCHANGED <<wallet, escrow, feeRevenue>>
        BY <1>2, <2>4 DEF Step, CreateRead, CreateCommit, BuyRead, BuyBalance, BuyRecheck, DrawRead,
                          CancelRead, CancelTickets, CancelMark, Abort, money
      <3> QED
        BY <3>1 DEF MoneyConserved
    <2> QED
      BY <2>1, <2>2, <2>3, <2>4
  <1> QED
    BY <1>1, <1>2 DEF Next

\* The raffle handlers make no money and lose none: whatever calls race or die,
\* wallets, escrow and fees add up to what the wallets held at first.
THEOREM MoneyIsConserved == Spec => []MoneyConserved
  <1>1. Init => MoneyConserved
    <2> SUFFICES ASSUME Init PROVE MoneyConserved
      OBVIOUS
    <2>1. \A u \in Users : Opening[u] \in Int
      BY MoneyAssumption
    <2>2. SumFunctionOnSet(Opening, Users) \in Int
      BY <2>1, UsersAssumption, SumPick
    <2> QED
      BY <2>2 DEF Init, MoneyConserved
  <1>2. IInv /\ MoneyConserved /\ [Next]_vars => MoneyConserved'
    BY StepBalances
  <1> QED
    BY <1>1, <1>2, InductiveInvariant, PTL DEF Spec

-----------------------------------------------------------------------------
\* What TicketSale sees as holders.
Holders == [i \in 1..raffle.sold |-> tickets[i - 1].owner]

\* A function on an initial segment of the naturals is a sequence.
LEMMA Segment ==
    ASSUME NEW S, NEW n \in Nat, NEW f \in [1..n -> S]
    PROVE  f \in Seq(S) /\ Len(f) = n
  <1>1. f \in Seq(S)
    BY SeqDef
  <1>2. DOMAIN f = 1..n /\ DOMAIN f = 1..Len(f) /\ Len(f) \in Nat
    BY <1>1, LenProperties
  <1> QED
    BY <1>2

\* The holders are one account per ticket sold.
LEMMA HoldersType ==
    ASSUME IInv
    PROVE  /\ Holders \in Seq(Users) /\ Len(Holders) = raffle.sold
           /\ \A i \in 1..raffle.sold : Holders[i] = tickets[i - 1].owner
  <1>1. raffle.sold \in Nat /\ DOMAIN tickets = 0..(raffle.sold - 1)
    BY DEF IInv, TypeOK, NoOversell
  <1>2. ASSUME NEW i \in 1..raffle.sold PROVE tickets[i - 1].owner \in Users
    <2>1. i - 1 \in DOMAIN tickets
      BY <1>1
    <2> QED
      BY <2>1 DEF IInv, TypeOK
  <1>3. Holders \in [1..raffle.sold -> Users]
    BY <1>2 DEF Holders
  <1> QED
    BY <1>1, <1>3, Segment DEF Holders

\* A step that adds no ticket and changes no owner shows the same holders.
LEMMA HoldersStutter ==
    ASSUME IInv, raffle'.sold = raffle.sold,
           \A n \in DOMAIN tickets : tickets'[n].owner = tickets[n].owner
    PROVE  Holders' = Holders
  <1>1. \A i \in 1..raffle.sold : i - 1 \in DOMAIN tickets
    BY DEF IInv, TypeOK, NoOversell
  <1> QED
    BY <1>1 DEF Holders

\* A committed purchase is a sale of its tickets to its buyer.
LEMMA BuyCommitSells ==
    ASSUME IInv, NEW r \in Requests, BuyCommit(r)
    PROVE  /\ req[r].user \in Users /\ req[r].qty \in 1..Supply
           /\ Len(Holders) + req[r].qty <= Supply
           /\ Holders' = Holders \o [i \in 1..req[r].qty |-> req[r].user]
  <1> DEFINE u == req[r].user
             q == req[r].qty
             new == [i \in 1..q |-> u]
  <1>1. /\ u \in Users /\ q \in Nat /\ q >= 1 /\ raffle.sold \in Nat
        /\ req[r].num = raffle.sold /\ raffle'.sold = raffle.sold + q
        /\ raffle.sold + q <= Supply /\ DOMAIN tickets = 0..(raffle.sold - 1)
    BY BuyCommitAppends DEF IInv, TypeOK, RequestState, NoOversell
  <1>2. new \in Seq(Users) /\ Len(new) = q
    BY <1>1, Segment
  <1>3. Holders \in Seq(Users) /\ Len(Holders) = raffle.sold
    BY HoldersType
  <1>4. Holders' \in Seq(Users) /\ Len(Holders') = raffle'.sold
    <2>1. IInv'
      BY BuyCommitInv
    <2>2. /\ raffle'.sold \in Nat /\ DOMAIN tickets' = 0..(raffle'.sold - 1)
          /\ tickets' \in [DOMAIN tickets' -> Row]
      BY <2>1 DEF IInv, TypeOK, NoOversell, Row
    <2>3. ASSUME NEW i \in 1..raffle'.sold PROVE tickets'[i - 1].owner \in Users
      <3>1. i - 1 \in DOMAIN tickets'
        BY <2>2
      <3> QED
        BY <2>2, <3>1 DEF Row
    <2>4. Holders' \in [1..raffle'.sold -> Users]
      BY <2>3 DEF Holders
    <2> QED
      BY <2>2, <2>4, Segment
  <1>5. Holders \o new \in Seq(Users) /\ Len(Holders \o new) = raffle.sold + q
    BY <1>1, <1>2, <1>3, ConcatProperties
  <1>6. ASSUME NEW i \in 1..(raffle.sold + q) PROVE Holders'[i] = (Holders \o new)[i]
    <2>1. Holders'[i] = tickets'[i - 1].owner
      BY <1>1 DEF Holders
    <2>2. (Holders \o new)[i] = IF i <= raffle.sold THEN Holders[i] ELSE new[i - raffle.sold]
      BY <1>1, <1>2, <1>3, ConcatProperties
    <2>3. CASE i <= raffle.sold
      <3>1. i - 1 \in DOMAIN tickets /\ i \in 1..raffle.sold
        BY <1>1, <2>3
      <3>2. tickets'[i - 1] = tickets[i - 1]
        BY <3>1 DEF BuyCommit
      <3>3. Holders[i] = tickets[i - 1].owner
        BY <3>1 DEF Holders
      <3> QED
        BY <2>1, <2>2, <2>3, <3>2, <3>3
    <2>4. CASE ~(i <= raffle.sold)
      <3>1. /\ i - 1 \notin DOMAIN tickets
            /\ i - 1 \in raffle.sold..(raffle.sold + q - 1)
            /\ i - raffle.sold \in 1..q
        BY <1>1, <2>4
      <3>2. tickets'[i - 1] = [owner |-> u, status |-> "ACTIVE"]
        BY <1>1, <3>1 DEF BuyCommit
      <3>3. new[i - raffle.sold] = u
        BY <3>1
      <3>4. tickets'[i - 1].owner = u
        BY <3>2
      <3>5. (Holders \o new)[i] = new[i - raffle.sold]
        BY <2>2, <2>4
      <3> QED
        BY <2>1, <3>3, <3>4, <3>5
    <2> QED
      BY <2>3, <2>4
  <1>7. Holders' = Holders \o new
    <2>1. Len(Holders') = raffle.sold + q
      BY <1>1, <1>4
    <2>2. Len(Holders') = Len(Holders \o new)
      BY <1>5, <2>1
    <2>3. \A i \in 1..Len(Holders') : Holders'[i] = (Holders \o new)[i]
      BY <1>6, <2>1
    <2> QED
      BY <1>4, <1>5, <2>2, <2>3, SeqEqual
  <1> QED
    BY <1>1, <1>3, <1>7, SupplyAssumption

\* The settlement awards the prize of a sold-out raffle, once, to a holder.
LEMMA DrawCommitAwards ==
    ASSUME IInv, NEW r \in Requests, DrawCommit(r)
    PROVE  \E u \in Users :
              /\ raffle.winner = NoUser /\ Len(Holders) = Supply
              /\ \E i \in 1..Len(Holders) : Holders[i] = u
              /\ raffle'.winner = u
              /\ Holders' = Holders
  <1> DEFINE n == req[r].num
             u == tickets[n].owner
  <1>1. /\ n \in DOMAIN tickets /\ raffle.sold = Supply
        /\ DOMAIN tickets = 0..(raffle.sold - 1) /\ raffle.sold \in Nat
    BY DEF DrawCommit, IInv, TypeOK, NoOversell, CallsInFlight, InFlight, DrawInFlight
  <1>2. \A m \in DOMAIN tickets : tickets[m] \in Row
    BY DEF IInv, TypeOK, Row
  <1>3. u \in Users
    BY <1>1, <1>2 DEF Row
  <1>4. raffle.winner = NoUser
    BY DEF DrawCommit, FirstDraw, Winner, IInv, WinnerHasOrder
  <1>5. raffle'.winner = u /\ raffle'.sold = raffle.sold
    BY DEF DrawCommit, Winner, IInv, TypeOK
  <1>6. \A m \in DOMAIN tickets : tickets'[m].owner = tickets[m].owner
    BY <1>1, <1>2 DEF DrawCommit, Row
  <1>7. Holders' = Holders
    BY <1>5, <1>6, HoldersStutter
  <1>8. n + 1 \in 1..Len(Holders) /\ Holders[n + 1] = u /\ Len(Holders) = Supply
    BY <1>1, HoldersType
  <1> QED
    BY <1>3, <1>4, <1>5, <1>7, <1>8

\* Every other step is one TicketSale does not see.
LEMMA OtherStepsStutter ==
    ASSUME IInv, NEW r \in Requests, Step(r), ~BuyCommit(r), ~DrawCommit(r)
    PROVE  Holders' = Holders /\ raffle'.winner = raffle.winner
  <1> USE DEF money
  <1>1. CASE CreateCommit(r)
    <2>1. raffle'.sold = raffle.sold /\ raffle'.winner = raffle.winner /\ tickets' = tickets
      BY <1>1 DEF CreateCommit, IInv, TypeOK
    <2> QED
      BY <2>1, HoldersStutter
  <1>2. CASE CancelCommit(r)
    <2>1. raffle'.sold = raffle.sold /\ raffle'.winner = raffle.winner
      BY <1>2 DEF CancelCommit, IInv, TypeOK
    <2>2. \A n \in DOMAIN tickets : tickets'[n].owner = tickets[n].owner
      BY <1>2 DEF CancelCommit, IInv, TypeOK
    <2> QED
      BY <2>1, <2>2, HoldersStutter
  <1>3. CASE ~CreateCommit(r) /\ ~CancelCommit(r)
    <2>1. UNCHANGED <<raffle, tickets>>
      BY <1>3 DEF Step, CreateRead, BuyRead, BuyBalance, BuyRecheck, DrawRead,
                  CancelRead, CancelTickets, CancelMark, Abort
    <2> QED
      BY <2>1 DEF Holders
  <1> QED
    BY <1>1, <1>2, <1>3

\* Every behaviour of the raffle handlers, whatever calls race, is a behaviour
\* of TicketSale: tickets in order, within the supply, never changing hands, and
\* one prize, to a holder, after the last ticket.
THEOREM RafflesImplementTicketSale == Spec => SaleSpec
  <1>1. Init => Sale!Init
    <2> SUFFICES ASSUME Init PROVE Sale!Init
      OBVIOUS
    <2>1. Holders \in Seq(Users) /\ Len(Holders) = 0
      BY InitInv, HoldersType DEF Init
    <2>2. Holders = <<>>
      BY <2>1, EmptySeq
    <2> QED
      BY <2>2 DEF Init, Holders, Sale!Init
  <1>2. IInv /\ [Next]_vars => [Sale!Next]_<<Holders, raffle.winner>>
    <2> SUFFICES ASSUME IInv, [Next]_vars
                 PROVE  Sale!Next \/ UNCHANGED <<Holders, raffle.winner>>
      OBVIOUS
    <2>1. CASE UNCHANGED vars
      BY <2>1 DEF vars, Holders
    <2>2. ASSUME NEW r \in Requests, Step(r)
          PROVE  Sale!Next \/ UNCHANGED <<Holders, raffle.winner>>
      <3>1. CASE BuyCommit(r)
        <4>1. raffle'.winner = raffle.winner
          BY <3>1 DEF BuyCommit, IInv, TypeOK
        <4>2. PICK u \in Users, q \in 1..Supply :
                 /\ Len(Holders) + q <= Supply
                 /\ Holders' = Holders \o [i \in 1..q |-> u]
          BY <3>1, BuyCommitSells
        <4>3. Sale!Sell(u, q)
          BY <4>1, <4>2 DEF Sale!Sell, Holders
        <4> QED
          BY <4>3 DEF Sale!Next
      <3>2. CASE DrawCommit(r)
        <4>1. PICK u \in Users :
                 /\ raffle.winner = NoUser /\ Len(Holders) = Supply
                 /\ \E i \in 1..Len(Holders) : Holders[i] = u
                 /\ raffle'.winner = u
                 /\ Holders' = Holders
          BY <3>2, DrawCommitAwards
        <4>2. Sale!Award(u)
          BY <4>1 DEF Sale!Award, Holders
        <4> QED
          BY <4>2 DEF Sale!Next
      <3>3. CASE ~BuyCommit(r) /\ ~DrawCommit(r)
        BY <2>2, <3>3, OtherStepsStutter
      <3> QED
        BY <3>1, <3>2, <3>3
    <2> QED
      BY <2>1, <2>2 DEF Next
  <1> QED
    BY <1>1, <1>2, InductiveInvariant, PTL DEF Spec, SaleSpec, Sale!Spec, Holders

-----------------------------------------------------------------------------
\* What the tickets of an account cost it.
Owned(u) == {n \in DOMAIN tickets : tickets[n].owner = u}

CancelSteps == {"cancelTickets", "cancelMark", "cancelCommit"}

\* What a call that is alone has read is what the rows say.
SeesCurrent(r) ==
    /\ req[r].at \in {"buyBalance", "buyRecheck", "buyCommit"} => raffle.status = "ACTIVE"
    /\ req[r].at = "draw" => raffle.status = "SOLD_OUT"
    /\ req[r].at \in CancelSteps => raffle.status \in {"ACTIVE", "SOLD_OUT"}
    /\ req[r].at \in {"cancelMark", "cancelCommit"} => req[r].seen = DOMAIN tickets
    /\ req[r].at = "cancelCommit" => req[r].marked = DOMAIN tickets

\* Before it is created the raffle has cost nobody anything; on sale it has cost
\* each account its tickets, and the seller still owns the card.
NotYetCreated ==
    raffle.status = "NONE" => /\ raffle.sold = 0
                              /\ wallet = Opening
                              /\ item.owner = Seller

OnSale ==
    raffle.status \in {"ACTIVE", "SOLD_OUT"} =>
        /\ \A u \in Users : wallet[u] = Opening[u] - Price * Cardinality(Owned(u))
        /\ item.owner = Seller

RaffleSerial ==
    /\ ~Together(req)
    /\ \A r \in Requests : SeesCurrent(r)
    /\ NotYetCreated
    /\ OnSale
    /\ CancelRefundsAll

SerialInv == IInv /\ (~overlapped => RaffleSerial)

\* Every step is the step of one call.
LEMMA OneCallSteps ==
    ASSUME NEW r \in Requests, Step(r)
    PROVE  \E q : req' = [req EXCEPT ![r] = q] /\ (req[r].at # "idle" \/ q.at # "idle")
  <1> USE DEF Goto, Done
  <1>1. ASSUME NEW u \in Users, CreateRead(r, u)
        PROVE \E q : req' = [req EXCEPT ![r] = q] /\ (req[r].at # "idle" \/ q.at # "idle")
    <2>1. [Idle EXCEPT !.at = "create", !.user = u].at = "create"
      BY DEF Idle
    <2> QED
      BY <1>1, <2>1 DEF CreateRead
  <1>2. ASSUME NEW u \in Users, NEW n \in 1..Supply, BuyRead(r, u, n)
        PROVE \E q : req' = [req EXCEPT ![r] = q] /\ (req[r].at # "idle" \/ q.at # "idle")
    <2>1. [Idle EXCEPT !.at = "buyBalance", !.user = u, !.qty = n].at = "buyBalance"
      BY DEF Idle
    <2> QED
      BY <1>2, <2>1 DEF BuyRead
  <1>3. ASSUME NEW n \in DOMAIN tickets, DrawRead(r, n)
        PROVE \E q : req' = [req EXCEPT ![r] = q] /\ (req[r].at # "idle" \/ q.at # "idle")
    <2>1. [Idle EXCEPT !.at = "draw", !.user = item.owner, !.qty = raffle.sold, !.num = n].at = "draw"
      BY DEF Idle
    <2> QED
      BY <1>3, <2>1 DEF DrawRead
  <1>4. ASSUME CancelRead(r)
        PROVE \E q : req' = [req EXCEPT ![r] = q] /\ (req[r].at # "idle" \/ q.at # "idle")
    <2>1. [Idle EXCEPT !.at = "cancelTickets"].at = "cancelTickets"
      BY DEF Idle
    <2> QED
      BY <1>4, <2>1 DEF CancelRead
  <1>5. ASSUME \/ CreateCommit(r) \/ BuyBalance(r) \/ BuyRecheck(r) \/ BuyCommit(r) \/ DrawCommit(r)
               \/ CancelTickets(r) \/ CancelMark(r) \/ CancelCommit(r) \/ Abort(r)
        PROVE \E q : req' = [req EXCEPT ![r] = q] /\ (req[r].at # "idle" \/ q.at # "idle")
    BY <1>5 DEF CreateCommit, BuyBalance, BuyRecheck, BuyCommit, DrawCommit, CancelTickets, CancelMark,
                CancelCommit, Abort
  <1> QED
    BY <1>1, <1>2, <1>3, <1>4, <1>5 DEF Step

\* As long as calls have not overlapped, the call that steps is alone.
LEMMA Alone ==
    ASSUME SerialInv, NEW r \in Requests, Step(r), overlapped' = (overlapped \/ Together(req')), ~overlapped'
    PROVE  /\ RaffleSerial /\ ~Together(req')
           /\ \A s \in Requests \ {r} : req[s] = Idle /\ req'[s] = Idle
  <1>1. RaffleSerial /\ ~Together(req) /\ ~Together(req')
    BY DEF SerialInv, RaffleSerial
  <1>2. PICK q : req' = [req EXCEPT ![r] = q] /\ (req[r].at # "idle" \/ q.at # "idle")
    BY OneCallSteps
  <1>3. req \in [Requests -> RequestState] /\ Idle.at = "idle"
    BY DEF SerialInv, IInv, TypeOK, Idle
  <1>4. req'[r] = q /\ \A s \in Requests \ {r} : req'[s] = req[s]
    BY <1>2, <1>3
  <1>5. req[r] # Idle \/ q # Idle
    BY <1>2, <1>3
  <1> QED
    BY <1>1, <1>4, <1>5 DEF Together

\* Idle calls have read nothing.
LEMMA IdleSees ==
    ASSUME NEW r \in Requests
    PROVE  /\ req[r] = Idle => SeesCurrent(r)
           /\ req'[r] = Idle => SeesCurrent(r)'
  BY DEF SeesCurrent, Idle, CancelSteps

\* Before its commit a call sees what is there and changes nothing.
LEMMA ReadsAlone ==
    ASSUME SerialInv, NEW r \in Requests, Step(r), overlapped' = (overlapped \/ Together(req')), ~overlapped',
           ~CreateCommit(r), ~BuyCommit(r), ~DrawCommit(r), ~CancelCommit(r)
    PROVE  RaffleSerial'
  <1> USE DEF Goto, Done
  <1>1. /\ RaffleSerial /\ ~Together(req')
        /\ \A s \in Requests \ {r} : req'[s] = Idle
    BY Alone
  <1>2. UNCHANGED <<raffle, tickets, item, wallet>>
    BY DEF Step, CreateRead, BuyRead, BuyBalance, BuyRecheck, DrawRead, CancelRead, CancelTickets, CancelMark,
           Abort, money
  <1>3. /\ req \in [Requests -> RequestState] /\ SeesCurrent(r)
        /\ raffle.status = "SOLD_OUT" => raffle.sold = Supply
    BY <1>1 DEF SerialInv, IInv, TypeOK, NoOversell, RaffleSerial
  <1>4. SeesCurrent(r)'
    <2>1. ASSUME NEW u \in Users, CreateRead(r, u) PROVE SeesCurrent(r)'
      BY <1>3, <2>1 DEF CreateRead, SeesCurrent, Idle, CancelSteps
    <2>2. ASSUME NEW u \in Users, NEW n \in 1..Supply, BuyRead(r, u, n) PROVE SeesCurrent(r)'
      BY <1>3, <2>2 DEF BuyRead, SeesCurrent, Idle, CancelSteps
    <2>3. CASE BuyBalance(r)
      BY <1>2, <1>3, <2>3 DEF BuyBalance, SeesCurrent, CancelSteps, RequestState
    <2>4. CASE BuyRecheck(r)
      BY <1>2, <1>3, <2>4 DEF BuyRecheck, SeesCurrent, CancelSteps, RequestState
    <2>5. ASSUME NEW n \in DOMAIN tickets, DrawRead(r, n) PROVE SeesCurrent(r)'
      BY <1>3, <2>5 DEF DrawRead, SeesCurrent, Idle, CancelSteps
    <2>6. CASE CancelRead(r)
      BY <1>3, <2>6 DEF CancelRead, SeesCurrent, Idle, CancelSteps
    <2>7. CASE CancelTickets(r)
      BY <1>2, <1>3, <2>7 DEF CancelTickets, SeesCurrent, CancelSteps, RequestState
    <2>8. CASE CancelMark(r)
      BY <1>2, <1>3, <2>8 DEF CancelMark, SeesCurrent, CancelSteps, RequestState
    <2>9. CASE Abort(r)
      BY <1>3, <2>9, IdleSees DEF Abort, SeesCurrent, Idle, CancelSteps
    <2> QED
      BY <2>1, <2>2, <2>3, <2>4, <2>5, <2>6, <2>7, <2>8, <2>9 DEF Step
  <1>5. \A s \in Requests : SeesCurrent(s)'
    BY <1>1, <1>4, IdleSees
  <1>6. NotYetCreated' /\ OnSale' /\ CancelRefundsAll'
    BY <1>1, <1>2 DEF RaffleSerial, NotYetCreated, OnSale, CancelRefundsAll, Owned
  <1> QED
    BY <1>1, <1>5, <1>6 DEF RaffleSerial

\* A commit leaves no call in flight.
LEMMA CommitAlone ==
    ASSUME SerialInv, NEW r \in Requests, Step(r), overlapped' = (overlapped \/ Together(req')), ~overlapped',
           Done(r), NotYetCreated', OnSale', CancelRefundsAll'
    PROVE  RaffleSerial'
  <1>1. ~Together(req') /\ \A s \in Requests \ {r} : req'[s] = Idle
    BY Alone
  <1>2. req'[r] = Idle
    BY DEF Done, SerialInv, IInv, TypeOK
  <1>3. \A s \in Requests : SeesCurrent(s)'
    BY <1>1, <1>2, IdleSees
  <1> QED
    BY <1>1, <1>3 DEF RaffleSerial

LEMMA CreateAlone ==
    ASSUME SerialInv, NEW r \in Requests, CreateCommit(r), overlapped' = (overlapped \/ Together(req')), ~overlapped'
    PROVE  RaffleSerial'
  <1>0. Step(r)
    BY DEF Step
  <1>1. RaffleSerial
    BY <1>0, Alone
  <1>2. /\ raffle.status = "NONE" /\ raffle'.status = "ACTIVE" /\ item'.owner = item.owner
        /\ tickets' = tickets /\ wallet' = wallet
    BY DEF CreateCommit, SerialInv, IInv, TypeOK, money
  <1>3. raffle.sold = 0 /\ wallet = Opening /\ item.owner = Seller
    BY <1>1, <1>2 DEF RaffleSerial, NotYetCreated
  <1>4. DOMAIN tickets = {}
    BY <1>3 DEF SerialInv, IInv, NoOversell, Numbers
  <1>5. \A u \in Users : Owned(u)' = {} /\ Cardinality(Owned(u)') = 0
    BY <1>2, <1>4, FS_EmptySet DEF Owned
  <1>6. \A u \in Users : wallet'[u] = Opening[u] - Price * Cardinality(Owned(u)')
    BY <1>2, <1>3, <1>5, MoneyAssumption
  <1>7. NotYetCreated' /\ OnSale' /\ CancelRefundsAll'
    BY <1>2, <1>3, <1>6 DEF NotYetCreated, OnSale, CancelRefundsAll
  <1> QED
    BY <1>0, <1>7, CommitAlone DEF CreateCommit

LEMMA BuyAlone ==
    ASSUME SerialInv, NEW r \in Requests, BuyCommit(r), overlapped' = (overlapped \/ Together(req')), ~overlapped'
    PROVE  RaffleSerial'
  <1>a. PICK b \in Users, q \in Nat : b = req[r].user /\ q = req[r].qty
    BY DEF SerialInv, IInv, TypeOK, RequestState
  <1>b. PICK new : new = raffle.sold .. (raffle.sold + q - 1)
    OBVIOUS
  <1>0. Step(r)
    BY DEF Step
  <1>1. RaffleSerial
    BY <1>0, Alone
  <1>2. /\ b \in Users /\ q \in Nat /\ raffle.sold \in Nat /\ raffle.sold + q - 1 \in Int /\ req[r].num = raffle.sold
        /\ DOMAIN tickets = 0..(raffle.sold - 1) /\ wallet \in [Users -> Int]
    BY BuyCommitAppends DEF SerialInv, IInv, TypeOK, RequestState, NoOversell
  <1>3. raffle.status = "ACTIVE" /\ raffle'.status \in {"ACTIVE", "SOLD_OUT"}
    BY <1>1 DEF BuyCommit, RaffleSerial, SeesCurrent, SerialInv, IInv, TypeOK
  <1>4. item.owner = Seller /\ item' = item
    BY <1>1, <1>3 DEF BuyCommit, RaffleSerial, OnSale
  <1>5. \A n \in new : n \notin DOMAIN tickets
    BY <1>2, <1>b
  <1>6. /\ DOMAIN tickets' = DOMAIN tickets \cup new
        /\ \A n \in DOMAIN tickets : tickets'[n] = tickets[n]
        /\ \A n \in new : tickets'[n].owner = b
    BY <1>2, <1>5, <1>a, <1>b DEF BuyCommit
  <1>7. IsFiniteSet(new) /\ Cardinality(new) = q
    <2>1. raffle.sold \in Int /\ raffle.sold + q - 1 \in Int
      BY <1>2
    <2>2. /\ IsFiniteSet(new)
          /\ Cardinality(new) = IF raffle.sold > raffle.sold + q - 1 THEN 0
                                ELSE (raffle.sold + q - 1) - raffle.sold + 1
      BY <1>b, <2>1, FS_Interval
    <2> QED
      BY <1>2, <2>2
  <1>8. IsFiniteSet(DOMAIN tickets)
    BY TicketsAreFinite DEF SerialInv
  <1>9. \A u \in Users : IsFiniteSet(Owned(u)) /\ Cardinality(Owned(u)) \in Nat
    BY <1>8, FS_Subset, FS_CardinalityType DEF Owned
  <1>10. Cardinality(Owned(b)') = Cardinality(Owned(b)) + q
    <2>1. Owned(b)' = Owned(b) \cup new
      BY <1>2, <1>5, <1>6 DEF Owned
    <2>2. Owned(b) \cap new = {}
      BY <1>5 DEF Owned
    <2>3. /\ IsFiniteSet(Owned(b)) /\ Cardinality(Owned(b)) \in Nat
          /\ Cardinality({}) = 0
      BY <1>9, FS_EmptySet
    <2>4. Cardinality(Owned(b) \cup new) = Cardinality(Owned(b)) + Cardinality(new) - Cardinality({})
      BY <1>7, <2>2, <2>3, FS_Union
    <2> QED
      BY <1>7, <2>1, <2>3, <2>4
  <1>11. \A u \in Users \ {b} : Owned(u)' = Owned(u)
    BY <1>6 DEF Owned
  <1>12. wallet'[b] = wallet[b] - Price * q /\ \A u \in Users \ {b} : wallet'[u] = wallet[u]
    BY <1>2, <1>a DEF BuyCommit
  <1>13. \A u \in Users : wallet[u] = Opening[u] - Price * Cardinality(Owned(u)) /\ Opening[u] \in Int
    BY <1>1, <1>3, MoneyAssumption DEF RaffleSerial, OnSale
  <1>14. ASSUME NEW u \in Users PROVE wallet'[u] = Opening[u] - Price * Cardinality(Owned(u)')
    <2>1. CASE u = b
      <3>1. \A i, j \in Nat : Price * (i + j) = Price * i + Price * j /\ Price * i \in Int /\ Price * j \in Int
        BY MoneyAssumption
      <3> DEFINE k == Cardinality(Owned(b))
                 k1 == Cardinality(Owned(b)')
      <3>2. k \in Nat /\ k1 = k + q
        BY <1>2, <1>9, <1>10
      <3>3. wallet[b] = Opening[b] - Price * k /\ Opening[b] \in Int /\ wallet'[b] = wallet[b] - Price * q
        BY <1>2, <1>12, <1>13
      <3>4. Price * k1 = Price * k + Price * q /\ Price * k \in Int /\ Price * q \in Int
        BY <1>2, <3>1, <3>2
      <3> HIDE DEF k, k1
      <3>5. wallet'[b] = Opening[b] - Price * k1
        BY <3>3, <3>4
      <3> QED
        BY <2>1, <3>5 DEF k1
    <2>2. CASE u # b
      BY <1>11, <1>12, <1>13, <2>2
    <2> QED
      BY <2>1, <2>2
  <1>15. NotYetCreated' /\ OnSale' /\ CancelRefundsAll'
    BY <1>3, <1>4, <1>14 DEF NotYetCreated, OnSale, CancelRefundsAll
  <1> QED
    BY <1>0, <1>15, CommitAlone DEF BuyCommit

LEMMA DrawAlone ==
    ASSUME SerialInv, NEW r \in Requests, DrawCommit(r), overlapped' = (overlapped \/ Together(req')), ~overlapped'
    PROVE  RaffleSerial'
  <1>0. Step(r)
    BY DEF Step
  <1>1. raffle'.status = "SETTLED"
    BY DEF DrawCommit, SerialInv, IInv, TypeOK
  <1>2. NotYetCreated' /\ OnSale' /\ CancelRefundsAll'
    BY <1>1 DEF NotYetCreated, OnSale, CancelRefundsAll
  <1> QED
    BY <1>0, <1>2, CommitAlone DEF DrawCommit

\* The cancellation returns to each account what its tickets cost.
LEMMA CancelAlone ==
    ASSUME SerialInv, NEW r \in Requests, CancelCommit(r), overlapped' = (overlapped \/ Together(req')), ~overlapped'
    PROVE  RaffleSerial'
  <1>0. Step(r)
    BY DEF Step
  <1>1. RaffleSerial
    BY <1>0, Alone
  <1>2. /\ raffle.status \in {"ACTIVE", "SOLD_OUT"} /\ raffle'.status = "CANCELLED"
        /\ req[r].seen = DOMAIN tickets /\ req[r].marked = DOMAIN tickets
    BY <1>1 DEF CancelCommit, RaffleSerial, SeesCurrent, CancelSteps, SerialInv, IInv, TypeOK
  <1>3. item' = [owner |-> Seller, state |-> "VAULTED"]
    BY <1>1, <1>2 DEF CancelCommit, RaffleSerial, OnSale, SerialInv, IInv, TypeOK
  <1>4. \A n \in DOMAIN tickets' : tickets'[n].status = "REFUNDED"
    BY <1>2 DEF CancelCommit, SerialInv, IInv, TypeOK
  <1>5. IsFiniteSet(DOMAIN tickets)
    BY TicketsAreFinite DEF SerialInv
  <1>6. ASSUME NEW u \in Users PROVE wallet'[u] = Opening[u]
    <2>1. SeenOf(r, u) = Owned(u)
      BY <1>2 DEF SeenOf, Owned
    <2>2. Cardinality(Owned(u)) \in Nat
      BY <1>5, FS_Subset, FS_CardinalityType DEF Owned
    <2>3. Price * Cardinality(Owned(u)) \in Int /\ Opening[u] \in Int
      BY <2>2, MoneyAssumption
    <2>4. wallet[u] = Opening[u] - Price * Cardinality(Owned(u))
      BY <1>1, <1>2 DEF RaffleSerial, OnSale
    <2>5. wallet'[u] = wallet[u] + Price * Cardinality(Owned(u))
      BY <2>1 DEF CancelCommit
    <2> QED
      BY <2>3, <2>4, <2>5
  <1>7. wallet' = Opening
    BY <1>6, MoneyAssumption DEF CancelCommit
  <1>8. NotYetCreated' /\ OnSale' /\ CancelRefundsAll'
    BY <1>2, <1>3, <1>4, <1>7 DEF NotYetCreated, OnSale, CancelRefundsAll
  <1> QED
    BY <1>0, <1>8, CommitAlone DEF CancelCommit

\* Until two calls have overlapped, cancelling a raffle refunds every ticket at
\* its price and returns the card, whatever was bought, drawn or died before.
THEOREM CancellationRefundsAll == MCSpec => []SerialCancelRefundsAll
  <1>1. MCInit => SerialInv
    <2> SUFFICES ASSUME MCInit PROVE SerialInv
      OBVIOUS
    <2>1. Init /\ IInv
      BY InitInv DEF MCInit
    <2>2. \A r \in Requests : req[r] = Idle
      BY <2>1 DEF Init
    <2>3. ~Together(req) /\ \A r \in Requests : SeesCurrent(r)
      BY <2>2, IdleSees DEF Together
    <2>4. NotYetCreated /\ OnSale /\ CancelRefundsAll
      BY <2>1 DEF Init, NotYetCreated, OnSale, CancelRefundsAll
    <2> QED
      BY <2>1, <2>3, <2>4 DEF SerialInv, RaffleSerial
  <1>2. SerialInv /\ [MCNext]_MCVars => SerialInv'
    <2> SUFFICES ASSUME SerialInv, [MCNext]_MCVars PROVE SerialInv'
      OBVIOUS
    <2>1. [Next]_vars /\ IInv
      BY DEF MCNext, MCVars, SerialInv
    <2>2. IInv'
      BY <2>1, NextInv
    <2>3. CASE UNCHANGED MCVars
      <3>1. UNCHANGED <<vars, overlapped>>
        BY <2>3 DEF MCVars
      <3> QED
        BY <2>2, <3>1 DEF vars, money, SerialInv, RaffleSerial, Together, SeesCurrent, NotYetCreated, OnSale, Owned,
                      CancelRefundsAll
    <2>4. CASE MCNext
      <3>1. PICK r \in Requests : Step(r)
        BY <2>4 DEF MCNext, Next
      <3>2. overlapped' = (overlapped \/ Together(req'))
        BY <2>4 DEF MCNext
      <3>3. ASSUME ~overlapped' PROVE RaffleSerial'
        BY <3>1, <3>2, <3>3, ReadsAlone, CreateAlone, BuyAlone, DrawAlone, CancelAlone
      <3> QED
        BY <2>2, <3>3 DEF SerialInv
    <2> QED
      BY <2>3, <2>4
  <1>3. SerialInv => SerialCancelRefundsAll
    BY DEF SerialInv, RaffleSerial, SerialCancelRefundsAll
  <1> QED
    BY <1>1, <1>2, <1>3, PTL DEF MCSpec
=============================================================================
