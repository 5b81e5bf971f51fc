------------------------------ MODULE Treasury ------------------------------
(***************************************************************************)
(* The buyback: BuybackService (quote, accept, setPaused, setFmv,          *)
(* creditTreasury) and the worker's sweep of lapsed quotes, with the       *)
(* TREASURY account and the cards that can be sold back.                   *)
(*                                                                         *)
(* accept reads the quote with its card, the pause flag and the treasury's *)
(* balance, one after the other, and only then opens the transaction that  *)
(* pays.  A quote's ten minutes run out by themselves (Lapse), and its     *)
(* card can be sold elsewhere meanwhile (Trade: see Custody, Marketplace). *)
(***************************************************************************)
EXTENDS Integers, FiniteSets, Functions

CONSTANTS
    Users,          \* the accounts that hold cards
    House,          \* the treasury's account, treasury@boosters.local, not in Users
    Cards,          \* the vault items
    FirstOwner,     \* who owns a card at first
    FirstFmv,       \* the first FMV snapshot of a card, 0 when there is none
    Values,         \* the values setFmv may record, in the ledger's smallest unit
    PercentBps,     \* BUYBACK_DEFAULT_PERCENT_BPS
    Floor,          \* BUYBACK_FLOAT_FLOOR_USDC
    Funding,        \* what one creditTreasury adds
    MaxFundings,    \* how often it is called, at most
    Quotes,         \* ids of BuybackQuote rows
    Requests        \* the calls that can be in flight

VARIABLES
    quote,          \* the BuybackQuote rows; status "NONE": not created
    lapsed,         \* the quotes whose expiresAt has passed
    owner,          \* VaultItem.ownerId, and Token.ownerId with it
    fmv,            \* the latest FMV snapshot of each card
    paused,         \* the setting buyback.paused
    treasury,       \* TREASURY balance
    proceeds,       \* what buybacks have credited to each USER_WALLET
    fundings,       \* number of creditTreasury orders
    payout,         \* the quotes whose order buyback_<id> exists
    req             \* the calls in flight

vars == <<quote, lapsed, owner, fmv, paused, treasury, proceeds, fundings, payout, req>>

Statuses == {"NONE", "QUOTED", "PAID", "EXPIRED"}
Steps    == {"idle", "quote", "expire", "pause", "floor", "pay"}

QuoteRow     == [status : Statuses, card : Cards, user : Users, usdc : Nat]
RequestState == [at : Steps, quote : Quotes, row : QuoteRow]

NoQuote == [status |-> "NONE", card |-> CHOOSE c \in Cards : TRUE,
            user |-> CHOOSE u \in Users : TRUE, usdc |-> 0]
Idle    == [at |-> "idle", quote |-> CHOOSE q \in Quotes : TRUE, row |-> NoQuote]

TypeOK ==
    /\ quote \in [Quotes -> QuoteRow]
    /\ lapsed \subseteq Quotes
    /\ owner \in [Cards -> Users \cup {House}]
    /\ fmv \in [Cards -> Nat]
    /\ paused \in BOOLEAN
    /\ treasury \in Int
    /\ proceeds \in [Users -> Nat]
    /\ fundings \in 0..MaxFundings
    /\ payout \subseteq Quotes
    /\ req \in [Requests -> RequestState]

Init ==
    /\ quote = [q \in Quotes |-> NoQuote]
    /\ lapsed = {}
    /\ owner = FirstOwner
    /\ fmv = FirstFmv
    /\ paused = FALSE
    /\ treasury = 0
    /\ proceeds = [u \in Users |-> 0]
    /\ fundings = 0
    /\ payout = {}
    /\ req = [r \in Requests |-> Idle]

-----------------------------------------------------------------------------
Done(r)       == req' = [req EXCEPT ![r] = Idle]
Goto(r, step) == req' = [req EXCEPT ![r].at = step]

(* quote: pause flag, card and FMV are read; the quote is then inserted.   *)
\* BUYBACK_DEFAULT_PERCENT_BPS of the FMV, truncated.
Offer(value) == (value * PercentBps) \div 10000

QuoteRead(r, u, q, c) ==
    /\ req[r].at = "idle"
    /\ ~paused
    /\ owner[c] = u
    /\ fmv[c] > 0
    /\ req' = [req EXCEPT ![r] = [at |-> "quote", quote |-> q,
                  row |-> [status |-> "QUOTED", card |-> c, user |-> u, usdc |-> Offer(fmv[c])]]]
    /\ UNCHANGED <<quote, lapsed, owner, fmv, paused, treasury, proceeds, fundings, payout>>

QuoteCommit(r) ==
    /\ req[r].at = "quote"
    /\ quote[req[r].quote].status = "NONE"
    /\ quote' = [quote EXCEPT ![req[r].quote] = req[r].row]
    /\ Done(r)
    /\ UNCHANGED <<lapsed, owner, fmv, paused, treasury, proceeds, fundings, payout>>

(* accept.  A lapsed quote is marked EXPIRED, whatever it has become since *)
(* it was read, and refused; the update carries no condition.              *)
\* Mutant of AcceptRead: the quote's status is not checked.
AcceptReadAnyStatus(r, q) ==
    /\ req[r].at = "idle"
    /\ quote[q].status # "NONE"
    /\ req' = [req EXCEPT ![r] = [at |-> IF q \in lapsed THEN "expire" ELSE "pause",
                                  quote |-> q, row |-> quote[q]]]
    /\ UNCHANGED <<quote, lapsed, owner, fmv, paused, treasury, proceeds, fundings, payout>>

AcceptRead(r, q) ==
    /\ req[r].at = "idle"
    /\ quote[q].status = "QUOTED"
    /\ q \in lapsed \/ owner[quote[q].card] = quote[q].user
    /\ req' = [req EXCEPT ![r] = [at |-> IF q \in lapsed THEN "expire" ELSE "pause",
                                  quote |-> q, row |-> quote[q]]]
    /\ UNCHANGED <<quote, lapsed, owner, fmv, paused, treasury, proceeds, fundings, payout>>

AcceptExpire(r) ==
    /\ req[r].at = "expire"
    /\ quote' = [quote EXCEPT ![req[r].quote].status = "EXPIRED"]
    /\ Done(r)
    /\ UNCHANGED <<lapsed, owner, fmv, paused, treasury, proceeds, fundings, payout>>

AcceptPause(r) ==
    /\ req[r].at = "pause"
    /\ ~paused
    /\ Goto(r, "floor")
    /\ UNCHANGED <<quote, lapsed, owner, fmv, paused, treasury, proceeds, fundings, payout>>

\* Mutant of AboveFloor: the balance before the payout is compared.
AboveFloorBefore(amount) == treasury >= Floor

AboveFloor(amount) == treasury - amount >= Floor

AcceptFloor(r) ==
    /\ req[r].at = "floor"
    /\ AboveFloor(req[r].row.usdc)
    /\ Goto(r, "pay")
    /\ UNCHANGED <<quote, lapsed, owner, fmv, paused, treasury, proceeds, fundings, payout>>

\* Mutant of NotPaid: the payout's order has a random key.
NotPaidUnchecked(q) == q \in Quotes

\* The unique key buyback_<id>.
NotPaid(q) == q \notin payout

\* Mutant of Seller: the proceeds go to whoever owns the card now.
SellerNow(row) == IF owner[row.card] = House THEN row.user ELSE owner[row.card]

Seller(row) == row.user

\* The ledger's two lines of a payout.
Post(row) ==
    /\ treasury' = treasury - row.usdc
    /\ proceeds' = [proceeds EXCEPT ![Seller(row)] = @ + row.usdc]

AcceptPay(r) ==
    LET q == req[r].quote
        row == req[r].row
    IN  /\ req[r].at = "pay"
        /\ NotPaid(q)
        /\ row.usdc > 0
        /\ payout' = payout \cup {q}
        /\ Post(row)
        /\ owner' = [owner EXCEPT ![row.card] = House]
        /\ quote' = [quote EXCEPT ![q].status = "PAID"]
        /\ Done(r)
        /\ UNCHANGED <<lapsed, fmv, paused, fundings>>

\* Operators: each of these is one statement or one transaction.
SetPaused(on) ==
    /\ paused' = on
    /\ UNCHANGED <<quote, lapsed, owner, fmv, treasury, proceeds, fundings, payout, req>>

SetFmv(c, value) ==
    /\ fmv' = [fmv EXCEPT ![c] = value]
    /\ UNCHANGED <<quote, lapsed, owner, paused, treasury, proceeds, fundings, payout, req>>

CreditTreasury ==
    /\ fundings < MaxFundings
    /\ fundings' = fundings + 1
    /\ treasury' = treasury + Funding
    /\ UNCHANGED <<quote, lapsed, owner, fmv, paused, proceeds, payout, req>>

\* The card is sold elsewhere: its owner changes between two steps of a call.
Trade(c, u) ==
    /\ owner[c] # u
    /\ owner' = [owner EXCEPT ![c] = u]
    /\ UNCHANGED <<quote, lapsed, fmv, paused, treasury, proceeds, fundings, payout, req>>

\* The ten minutes of an open quote have passed.
Lapse(q) ==
    /\ quote[q].status # "NONE"
    /\ q \notin lapsed
    /\ lapsed' = lapsed \cup {q}
    /\ UNCHANGED <<quote, owner, fmv, paused, treasury, proceeds, fundings, payout, req>>

\* Mutant of Due: the sweep looks for the quotes that are still open.
DueEarly == {q \in Quotes \ lapsed : quote[q].status = "QUOTED"}

\* The rows the sweep's updateMany selects.
Due == {q \in lapsed : quote[q].status = "QUOTED"}

\* expireBuybackQuotes: one conditional update of every lapsed quote.
Sweep ==
    /\ Due # {}
    /\ quote' = [q \in Quotes |-> IF q \in Due THEN [quote[q] EXCEPT !.status = "EXPIRED"] ELSE quote[q]]
    /\ UNCHANGED <<lapsed, owner, fmv, paused, treasury, proceeds, fundings, payout, req>>

\* A guard or the unique key refuses the call, or the process dies.
Abort(r) ==
    /\ req[r].at # "idle"
    /\ Done(r)
    /\ UNCHANGED <<quote, lapsed, owner, fmv, paused, treasury, proceeds, fundings, payout>>

Step(r) ==
    \/ \E u \in Users, q \in Quotes, c \in Cards : QuoteRead(r, u, q, c)
    \/ QuoteCommit(r)
    \/ \E q \in Quotes : AcceptRead(r, q)
    \/ AcceptExpire(r)
    \/ AcceptPause(r)
    \/ AcceptFloor(r)
    \/ AcceptPay(r)
    \/ Abort(r)

Operate ==
    \/ \E on \in BOOLEAN : SetPaused(on)
    \/ \E c \in Cards, value \in Values : SetFmv(c, value)
    \/ CreditTreasury
    \/ \E c \in Cards, u \in Users : Trade(c, u)
    \/ \E q \in Quotes : Lapse(q)
    \/ Sweep

Next == (\E r \in Requests : Step(r)) \/ Operate

Spec == Init /\ [][Next]_vars

\* Time passes, and BullMQ runs the sweep every minute; its schedule outlives the
\* worker's restarts (see Payments for those).
Fairness ==
    /\ \A q \in Quotes : WF_vars(Lapse(q))
    /\ WF_vars(Sweep)

FairSpec == Spec /\ Fairness

-----------------------------------------------------------------------------
Amounts == [q \in Quotes |-> quote[q].usdc]
Paid(S) == SumFunctionOnSet(Amounts, S)

\* The treasury holds its funding less one payout per paid quote, and the sellers
\* hold those payouts: a quote accepted twice, or retried after a crash, is paid
\* once and to the user it was made to.
PayoutsMatchQuotes ==
    /\ treasury = Funding * fundings - Paid(payout)
    /\ \A u \in Users : proceeds[u] = Paid({q \in payout : quote[q].user = u})

\* No quote stays open for ever: somebody takes it, or the worker expires it.
QuoteEnds == \A q \in Quotes : quote[q].status = "QUOTED" ~> quote[q].status # "QUOTED"

=============================================================================
