------------------------------ MODULE Raffles ------------------------------
(***************************************************************************)
(* One raffle of one vaulted item: RafflesService (create, buyTickets,     *)
(* draw, cancel) with the rows those handlers touch.  Raffles share no row *)
(* but the ledger accounts, so one raffle shows every interleaving of the  *)
(* handlers; escrow and feeRevenue are its share of those two accounts.    *)
(*                                                                         *)
(* A handler reads outside its transaction, then commits one transaction   *)
(* under READ COMMITTED.  Requests is the set of calls that can be in      *)
(* flight at once: each holds, in req[r], what it has read and where it    *)
(* is.  A singleton Requests is an API that serves one call at a time.     *)
(***************************************************************************)
EXTENDS Integers, FiniteSets, Functions

CONSTANTS
    Users,          \* the accounts
    Seller,         \* the account that owns the item at first
    NoUser,         \* "no account": winnerId before a draw
    Suspended,      \* the accounts whose hold is SUSPENDED
    Supply,         \* ticketSupply
    Price,          \* ticketPriceUsdc, in the ledger's smallest unit
    FeeBps,         \* MARKETPLACE_FEE_BPS
    Opening,        \* the wallet balances at the start
    Requests        \* the calls that can be in flight

ASSUME UsersAssumption  == /\ Seller \in Users /\ NoUser \notin Users /\ Suspended \subseteq Users
                           /\ IsFiniteSet(Users)
ASSUME SupplyAssumption == Supply \in Nat /\ Supply >= 2
ASSUME MoneyAssumption  == /\ Price \in Nat \ {0}
                           /\ FeeBps \in 0..10000
                           /\ Opening \in [Users -> Nat]

VARIABLES
    raffle,         \* the Raffle row: status ("NONE": not created), ticketsSold, winnerId
    tickets,        \* the RaffleTicket rows, by ticketNumber
    item,           \* the VaultItem row (with its token): ownerId, state
    wallet,         \* USER_WALLET balances
    escrow,         \* ESCROW balance
    feeRevenue,     \* FEE_REVENUE balance
    orderKeys,      \* idempotency keys of the draw and refund orders that exist
    req             \* the calls in flight

money == <<wallet, escrow, feeRevenue, orderKeys>>
vars  == <<raffle, tickets, item, money, req>>

Statuses == {"NONE", "ACTIVE", "SOLD_OUT", "SETTLED", "CANCELLED"}
Steps    == {"idle", "create", "buyBalance", "buyRecheck", "buyCommit",
             "draw", "cancelTickets", "cancelMark", "cancelCommit"}

\* user: the buyer, or the seller a draw pays.  qty: tickets bought or settled.
\* num: first number of a purchase, or the winning number.  seen and marked:
\* ticket numbers a cancellation has read, and those its updateMany matched.
RequestState == [at : Steps, user : Users, qty : Nat, num : Nat,
                 seen : SUBSET Nat, marked : SUBSET Nat]

Idle == [at |-> "idle", user |-> Seller, qty |-> 0, num |-> 0, seen |-> {}, marked |-> {}]

TypeOK ==
    /\ raffle \in [status : Statuses, sold : Nat, winner : Users \cup {NoUser}]
    /\ DOMAIN tickets \in SUBSET Nat
    /\ tickets \in [DOMAIN tickets -> [owner : Users, status : {"ACTIVE", "WON", "REFUNDED"}]]
    /\ item \in [owner : Users, state : {"VAULTED", "RESERVED"}]
    /\ wallet \in [Users -> Int]
    /\ escrow \in Int
    /\ feeRevenue \in Int
    /\ orderKeys \subseteq {"raffle_draw", "raffle_refund"}
    /\ req \in [Requests -> RequestState]

Init ==
    /\ raffle = [status |-> "NONE", sold |-> 0, winner |-> NoUser]
    /\ tickets = [n \in {} |-> Idle]
    /\ item = [owner |-> Seller, state |-> "VAULTED"]
    /\ wallet = Opening
    /\ escrow = 0
    /\ feeRevenue = 0
    /\ orderKeys = {}
    /\ req = [r \in Requests |-> Idle]

-----------------------------------------------------------------------------
Goto(r, step) == req' = [req EXCEPT ![r].at = step]
Done(r)       == req' = [req EXCEPT ![r] = Idle]

\* A row of a cancellation's uncommitted updateMany is locked until it commits.
Locked(n) == \E c \in Requests : req[c].at = "cancelCommit" /\ n \in req[c].marked

Numbers(first, count) == first .. (first + count - 1)

(* create: the guards are read, then the item is reserved and the raffle   *)
(* inserted.  vaultItemId is unique: a second raffle of the item aborts.   *)
CreateRead(r, u) ==
    /\ req[r].at = "idle"
    /\ item.owner = u
    /\ item.state = "VAULTED"
    /\ req' = [req EXCEPT ![r] = [Idle EXCEPT !.at = "create", !.user = u]]
    /\ UNCHANGED <<raffle, tickets, item, money>>

CreateCommit(r) ==
    /\ req[r].at = "create"
    /\ raffle.status = "NONE"
    /\ item' = [item EXCEPT !.state = "RESERVED"]
    /\ raffle' = [raffle EXCEPT !.status = "ACTIVE"]
    /\ Done(r)
    /\ UNCHANGED <<tickets, money>>

(* buyTickets: the raffle is read, the balance is read, and in the         *)
(* transaction ticketsSold is read again (without a lock) before the rows  *)
(* are inserted under the unique (raffleId, ticketNumber).                 *)
BuyRead(r, u, q) ==
    /\ req[r].at = "idle"
    /\ u \notin Suspended
    /\ raffle.status = "ACTIVE"
    /\ q <= Supply - raffle.sold
    /\ req' = [req EXCEPT ![r] = [Idle EXCEPT !.at = "buyBalance", !.user = u, !.qty = q]]
    /\ UNCHANGED <<raffle, tickets, item, money>>

BuyBalance(r) ==
    /\ req[r].at = "buyBalance"
    /\ wallet[req[r].user] >= Price * req[r].qty
    /\ Goto(r, "buyRecheck")
    /\ UNCHANGED <<raffle, tickets, item, money>>

BuyRecheck(r) ==
    /\ req[r].at = "buyRecheck"
    /\ raffle.sold + req[r].qty <= Supply
    /\ req' = [req EXCEPT ![r].at = "buyCommit", ![r].num = raffle.sold]
    /\ UNCHANGED <<raffle, tickets, item, money>>

\* Mutant of Unsold: no unique index.
UnsoldUnchecked(new) == new \subseteq Nat

\* The unique index (raffleId, ticketNumber) lets these numbers in.
Unsold(new) == new \cap DOMAIN tickets = {}

BuyCommit(r) ==
    LET new  == Numbers(req[r].num, req[r].qty)
        sold == req[r].num + req[r].qty
        cost == Price * req[r].qty
    IN  /\ req[r].at = "buyCommit"
        /\ Unsold(new)
        /\ tickets' = [n \in DOMAIN tickets \cup new |->
                          IF n \in DOMAIN tickets THEN tickets[n]
                          ELSE [owner |-> req[r].user, status |-> "ACTIVE"]]
        /\ raffle' = [raffle EXCEPT !.sold = sold,
                                    !.status = IF sold >= Supply THEN "SOLD_OUT" ELSE "ACTIVE"]
        /\ wallet' = [wallet EXCEPT ![req[r].user] = @ - cost]
        /\ escrow' = escrow + cost
        /\ Done(r)
        /\ UNCHANGED <<item, feeRevenue, orderKeys>>

(* draw: a sold-out raffle's tickets are read and one of them, n, wins (the *)
(* HMAC draw is a choice of any ticket); the settlement carries the unique  *)
(* key raffle_draw_<id> and does not look at the raffle again.              *)
DrawRead(r, n) ==
    /\ req[r].at = "idle"
    /\ raffle.status = "SOLD_OUT"
    /\ n \in DOMAIN tickets
    /\ req' = [req EXCEPT ![r] = [Idle EXCEPT !.at = "draw", !.user = item.owner,
                                              !.qty = raffle.sold, !.num = n]]
    /\ UNCHANGED <<raffle, tickets, item, money>>

Fee(total) == (total * FeeBps) \div 10000

Winner(n) == tickets[n].owner

\* Mutant of FirstDraw: the settlement's key is not unique.
FirstDrawUnchecked == raffle.status # "NONE"

\* No order has the key raffle_draw_<id> yet.
FirstDraw == "raffle_draw" \notin orderKeys

\* The CHECK LedgerEntry_amount_positive: a line of 0 aborts the transaction, so
\* a raffle whose fee truncates to 0 cannot be drawn.
Postable(amounts) == \A a \in amounts : a > 0

DrawCommit(r) ==
    LET total  == Price * req[r].qty
        winner == Winner(req[r].num)
    IN  /\ req[r].at = "draw"
        /\ FirstDraw
        /\ ~Locked(req[r].num)
        /\ Postable({total - Fee(total), Fee(total)})
        /\ orderKeys' = orderKeys \cup {"raffle_draw"}
        /\ escrow' = escrow - total
        /\ wallet' = [wallet EXCEPT ![req[r].user] = @ + (total - Fee(total))]
        /\ feeRevenue' = feeRevenue + Fee(total)
        /\ tickets' = [tickets EXCEPT ![req[r].num].status = "WON"]
        /\ item' = [owner |-> winner, state |-> "VAULTED"]
        /\ raffle' = [raffle EXCEPT !.status = "SETTLED", !.winner = winner]
        /\ Done(r)

(* cancel: the status is read, then the tickets to refund; the transaction *)
(* refunds those under the key raffle_refund_<id> (only when there are     *)
(* any; a second refund waits on that key), marks whatever tickets its     *)
(* updateMany sees, and overwrites the item's and the raffle's state.      *)
\* Mutant of CancelRead: any raffle that exists can be cancelled.
CancelReadAnyStatus(r) ==
    /\ req[r].at = "idle"
    /\ raffle.status # "NONE"
    /\ req' = [req EXCEPT ![r] = [Idle EXCEPT !.at = "cancelTickets"]]
    /\ UNCHANGED <<raffle, tickets, item, money>>

CancelRead(r) ==
    /\ req[r].at = "idle"
    /\ raffle.status \in {"ACTIVE", "SOLD_OUT"}
    /\ req' = [req EXCEPT ![r] = [Idle EXCEPT !.at = "cancelTickets"]]
    /\ UNCHANGED <<raffle, tickets, item, money>>

CancelTickets(r) ==
    /\ req[r].at = "cancelTickets"
    /\ req' = [req EXCEPT ![r].at = "cancelMark", ![r].seen = DOMAIN tickets]
    /\ UNCHANGED <<raffle, tickets, item, money>>

CancelMark(r) ==
    /\ req[r].at = "cancelMark"
    /\ req[r].seen # {} =>
          /\ "raffle_refund" \notin orderKeys
          /\ \A c \in Requests : req[c].at = "cancelCommit" => req[c].seen = {}
    /\ req' = [req EXCEPT ![r].at = "cancelCommit",
                          ![r].marked = IF req[r].seen = {} THEN {} ELSE DOMAIN tickets]
    /\ UNCHANGED <<raffle, tickets, item, money>>

\* Mutant of SeenOf: the refund counts the tickets at commit time.
SeenOfNow(r, u) == {n \in DOMAIN tickets : tickets[n].owner = u}

SeenOf(r, u) == {n \in req[r].seen : tickets[n].owner = u}

CancelCommit(r) ==
    /\ req[r].at = "cancelCommit"
    /\ tickets' = [n \in DOMAIN tickets |->
                      IF n \in req[r].marked THEN [tickets[n] EXCEPT !.status = "REFUNDED"]
                      ELSE tickets[n]]
    /\ wallet' = [u \in Users |-> wallet[u] + Price * Cardinality(SeenOf(r, u))]
    /\ escrow' = escrow - Price * Cardinality(req[r].seen)
    /\ orderKeys' = IF req[r].seen = {} THEN orderKeys ELSE orderKeys \cup {"raffle_refund"}
    /\ item' = [item EXCEPT !.state = "VAULTED"]
    /\ raffle' = [raffle EXCEPT !.status = "CANCELLED"]
    /\ Done(r)
    /\ UNCHANGED feeRevenue

(* A guard of the transaction fails, a unique index aborts it, or the      *)
(* process dies: nothing of the call remains.                              *)
Abort(r) ==
    /\ req[r].at # "idle"
    /\ Done(r)
    /\ UNCHANGED <<raffle, tickets, item, money>>

Step(r) ==
    \/ \E u \in Users : CreateRead(r, u)
    \/ CreateCommit(r)
    \/ \E u \in Users, q \in 1..Supply : BuyRead(r, u, q)
    \/ BuyBalance(r)
    \/ BuyRecheck(r)
    \/ BuyCommit(r)
    \/ \E n \in DOMAIN tickets : DrawRead(r, n)
    \/ DrawCommit(r)
    \/ CancelRead(r)
    \/ CancelTickets(r)
    \/ CancelMark(r)
    \/ CancelCommit(r)
    \/ Abort(r)

Next == \E r \in Requests : Step(r)

Spec == Init /\ [][Next]_vars

-----------------------------------------------------------------------------
\* The tickets that exist are the numbers below ticketsSold, each once, never
\* more than ticketSupply, and only a fully sold raffle is drawn: two purchases
\* that read the same ticketsSold do not both commit (buyTickets re-reads it
\* without a lock and relies on the unique index).
NoOversell ==
    /\ DOMAIN tickets = Numbers(0, raffle.sold)
    /\ raffle.sold <= Supply
    /\ raffle.status \in {"SOLD_OUT", "SETTLED"} => raffle.sold = Supply

\* The raffle sells its tickets as TicketSale says, whatever calls race.
Sale == INSTANCE TicketSale
            WITH holders <- [i \in 1..raffle.sold |-> tickets[i - 1].owner],
                 prize   <- raffle.winner
SaleSpec == Sale!Spec

\* Purchases, refunds, proceeds and the truncated fee move money and make none:
\* every order of every handler nets to zero over wallets, escrow and fees.
MoneyConserved ==
    SumFunctionOnSet(wallet, Users) + escrow + feeRevenue = SumFunctionOnSet(Opening, Users)

\* The card changes hands only in the one settlement of the raffle, and to the
\* holder of the ticket that settlement marks as won; a second draw that read
\* the raffle SOLD_OUT before the first committed moves nothing.
CardMovesOnlyByDraw ==
    [][item'.owner # item.owner =>
          /\ "raffle_draw" \in orderKeys' \ orderKeys
          /\ \E n \in DOMAIN tickets : /\ tickets[n].owner = item'.owner
                                        /\ tickets'[n].status = "WON"]_vars

\* A cancelled raffle leaves every player whole: all tickets refunded at what
\* they cost, and the card back with its seller, out of reservation.
CancelRefundsAll ==
    raffle.status = "CANCELLED" =>
        /\ \A n \in DOMAIN tickets : tickets[n].status = "REFUNDED"
        /\ wallet = Opening
        /\ item = [owner |-> Seller, state |-> "VAULTED"]

=============================================================================
