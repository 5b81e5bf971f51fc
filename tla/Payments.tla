------------------------------ MODULE Payments ------------------------------
(***************************************************************************)
(* Money in and out: PaymentsService (createOnramp, confirm with its       *)
(* referral bonus, requestWithdrawal, completeWithdrawal, failWithdrawal), *)
(* UsersService.applyReferralCode, and the worker's sweep of abandoned     *)
(* on-ramps.  A handler reads, awaits, then commits one transaction: the   *)
(* calls in flight are Requests, and req[r] is what call r has read.       *)
(* The ledger is kept per order: how many times an order's lines were      *)
(* posted; balances are derived from it, as LedgerService.balanceOf does.  *)
(***************************************************************************)
EXTENDS Integers, FiniteSets

LOCAL INSTANCE FiniteSetsExt

CONSTANTS
    Users,          \* the accounts
    NoUser,         \* "not referred"
    MayWithdraw,    \* the accounts with kycStatus APPROVED that are not SUSPENDED
    Amounts,        \* the amounts users type, in millionths of a USDC (Decimal(18, 6))
    Deposits,       \* DEPOSIT order ids
    Withdrawals,    \* WITHDRAWAL order ids
    Requests        \* the calls that can be in flight

ASSUME AccountsAssumption == NoUser \notin Users /\ MayWithdraw \subseteq Users /\ Users # {}
ASSUME AmountsAssumption  == Amounts \subseteq Nat \ {0}

VARIABLES
    deposits,       \* the DEPOSIT orders: status ("NONE": not created), buyerId, amountUsdc
    stale,          \* the deposits older than the sweep's cutoff
    credits,        \* how often an on-ramp was posted to its buyer's wallet
    bonuses,        \* how often a referral bonus was posted for a deposit
    paidTo,         \* the referrer that got it
    withdrawals,    \* the WITHDRAWAL orders
    refunds,        \* how often a withdrawal was posted back to its buyer
    referredBy,     \* User.referredById
    workerUp,       \* the worker process is running
    req             \* the calls in flight

rows == <<deposits, stale, credits, bonuses, paidTo, withdrawals, refunds, referredBy, workerUp>>
vars == <<rows, req>>

NoOrder == [status |-> "NONE", buyer |-> NoUser, amount |-> 0]
OrderRow(statuses) ==
    {NoOrder} \cup [status : statuses, buyer : Users, amount : Amounts]

CallSteps == {"idle", "confirm", "withdraw", "complete", "fail", "referral"}

\* order: the deposit or withdrawal; user and amount: of a new withdrawal, or
\* the user that applies a referral code, and its owner in referrer.
CallState == [at : CallSteps, order : Deposits \cup Withdrawals \cup {NoUser},
              user : Users \cup {NoUser}, amount : Amounts \cup {0},
              referrer : Users \cup {NoUser}]

NoCall == [at |-> "idle", order |-> NoUser, user |-> NoUser, amount |-> 0, referrer |-> NoUser]

TypeOK ==
    /\ deposits \in [Deposits -> OrderRow({"PENDING", "COMPLETED", "FAILED"})]
    /\ stale \subseteq Deposits
    /\ credits \in [Deposits -> Nat]
    /\ bonuses \in [Deposits -> Nat]
    /\ paidTo \in [Deposits -> Users \cup {NoUser}]
    /\ withdrawals \in [Withdrawals -> OrderRow({"PROCESSING", "COMPLETED", "FAILED"})]
    /\ refunds \in [Withdrawals -> Nat]
    /\ referredBy \in [Users -> Users \cup {NoUser}]
    /\ workerUp \in BOOLEAN
    /\ req \in [Requests -> CallState]

Init ==
    /\ deposits = [d \in Deposits |-> NoOrder]
    /\ stale = {}
    /\ credits = [d \in Deposits |-> 0]
    /\ bonuses = [d \in Deposits |-> 0]
    /\ paidTo = [d \in Deposits |-> NoUser]
    /\ withdrawals = [w \in Withdrawals |-> NoOrder]
    /\ refunds = [w \in Withdrawals |-> 0]
    /\ referredBy = [u \in Users |-> NoUser]
    /\ workerUp = TRUE
    /\ req = [r \in Requests |-> NoCall]

-----------------------------------------------------------------------------
Start(r, call) == req[r] = NoCall /\ req' = [req EXCEPT ![r] = call] /\ UNCHANGED rows
Finish(r)      == req' = [req EXCEPT ![r] = NoCall]

\* The bonus of a deposit: 5 %, rounded half up to a millionth (toDecimalPlaces(6)).
Bonus(amount) == (amount * 5 + 50) \div 100

\* LedgerService.balanceOf: credits minus debits of the user's wallet rows.
Balance(u) ==
      MapThenSumSet(LAMBDA d : credits[d] * deposits[d].amount,
                    {d \in Deposits : deposits[d].buyer = u})
    + MapThenSumSet(LAMBDA d : bonuses[d] * Bonus(deposits[d].amount),
                    {d \in Deposits : paidTo[d] = u})
    + MapThenSumSet(LAMBDA w : (refunds[w] - 1) * withdrawals[w].amount,
                    {w \in Withdrawals : withdrawals[w].buyer = u})

(* createOnramp: one insert. *)
CreateOnramp(u, a, d) ==
    /\ deposits[d].status = "NONE"
    /\ deposits' = [deposits EXCEPT ![d] = [status |-> "PENDING", buyer |-> u, amount |-> a]]
    /\ UNCHANGED <<stale, credits, bonuses, paidTo, withdrawals, refunds, referredBy, workerUp, req>>

(* confirm: the owner in the sandbox, a provider's webhook when live.  The *)
(* status is read before the transaction; the transaction posts the credit *)
(* and overwrites the status.  order.update locks the row, so the bonus's  *)
(* look at existing rewards sees every confirm committed before it.        *)
\* Mutant of ConfirmRead: any deposit that exists is confirmed.
ConfirmReadAnyStatus(r, d) ==
    /\ deposits[d].status # "NONE"
    /\ Start(r, [NoCall EXCEPT !.at = "confirm", !.order = d])

ConfirmRead(r, d) ==
    /\ deposits[d].status = "PENDING"
    /\ Start(r, [NoCall EXCEPT !.at = "confirm", !.order = d])

\* Mutant of BonusDue: no look for an existing reward of the deposit.
BonusDueAlways(d) ==
    LET u == deposits[d].buyer
    IN  referredBy[u] \notin {NoUser, u} /\ Bonus(deposits[d].amount) > 0

BonusDue(d) ==
    LET u == deposits[d].buyer
    IN  /\ referredBy[u] \notin {NoUser, u}
        /\ bonuses[d] = 0
        /\ Bonus(deposits[d].amount) > 0

ConfirmCommit(r) ==
    LET d == req[r].order
    IN  /\ req[r].at = "confirm"
        /\ credits' = [credits EXCEPT ![d] = @ + 1]
        /\ deposits' = [deposits EXCEPT ![d].status = "COMPLETED"]
        /\ IF BonusDue(d)
           THEN /\ bonuses' = [bonuses EXCEPT ![d] = @ + 1]
                /\ paidTo' = [paidTo EXCEPT ![d] = referredBy[deposits[d].buyer]]
           ELSE UNCHANGED <<bonuses, paidTo>>
        /\ Finish(r)
        /\ UNCHANGED <<stale, withdrawals, refunds, referredBy, workerUp>>

(* requestWithdrawal: the balance is read before the debit is posted. *)
WithdrawRead(r, u, a) ==
    /\ u \in MayWithdraw
    /\ Balance(u) >= a
    /\ Start(r, [NoCall EXCEPT !.at = "withdraw", !.user = u, !.amount = a])

WithdrawCommit(r, w) ==
    /\ req[r].at = "withdraw"
    /\ withdrawals[w].status = "NONE"
    /\ withdrawals' = [withdrawals EXCEPT
           ![w] = [status |-> "PROCESSING", buyer |-> req[r].user, amount |-> req[r].amount]]
    /\ Finish(r)
    /\ UNCHANGED <<deposits, stale, credits, bonuses, paidTo, refunds, referredBy, workerUp>>

(* completeWithdrawal and failWithdrawal: ops read the status, then        *)
(* overwrite it; failing posts the debit back.                             *)
CompleteRead(r, w) ==
    /\ withdrawals[w].status = "PROCESSING"
    /\ Start(r, [NoCall EXCEPT !.at = "complete", !.order = w])

CompleteCommit(r) ==
    /\ req[r].at = "complete"
    /\ withdrawals' = [withdrawals EXCEPT ![req[r].order].status = "COMPLETED"]
    /\ Finish(r)
    /\ UNCHANGED <<deposits, stale, credits, bonuses, paidTo, refunds, referredBy, workerUp>>

\* Mutant of FailRead: an order that failed can fail again.
FailReadAgain(r, w) ==
    /\ withdrawals[w].status \notin {"NONE", "COMPLETED"}
    /\ Start(r, [NoCall EXCEPT !.at = "fail", !.order = w])

FailRead(r, w) ==
    /\ withdrawals[w].status \notin {"NONE", "FAILED", "COMPLETED"}
    /\ Start(r, [NoCall EXCEPT !.at = "fail", !.order = w])

FailCommit(r) ==
    /\ req[r].at = "fail"
    /\ refunds' = [refunds EXCEPT ![req[r].order] = @ + 1]
    /\ withdrawals' = [withdrawals EXCEPT ![req[r].order].status = "FAILED"]
    /\ Finish(r)
    /\ UNCHANGED <<deposits, stale, credits, bonuses, paidTo, referredBy, workerUp>>

(* applyReferralCode: a user without a referrer names another user's code. *)
ReferralRead(r, u, v) ==
    /\ v # u
    /\ referredBy[u] = NoUser
    /\ Start(r, [NoCall EXCEPT !.at = "referral", !.user = u, !.referrer = v])

ReferralCommit(r) ==
    /\ req[r].at = "referral"
    /\ referredBy' = [referredBy EXCEPT ![req[r].user] = req[r].referrer]
    /\ Finish(r)
    /\ UNCHANGED <<deposits, stale, credits, bonuses, paidTo, withdrawals, refunds, workerUp>>

(* A transaction fails or the API dies before its commit. *)
Abort(r) ==
    /\ req[r].at # "idle"
    /\ Finish(r)
    /\ UNCHANGED rows

-----------------------------------------------------------------------------
(* An hour passes. *)
Age(d) ==
    /\ deposits[d].status # "NONE"
    /\ d \notin stale
    /\ stale' = stale \cup {d}
    /\ UNCHANGED <<deposits, credits, bonuses, paidTo, withdrawals, refunds, referredBy, workerUp, req>>

(* expireStaleOnramps: one conditional update, run by the repeatable job. *)
\* Mutant of Sweep: whatever is old fails, paid or not.
SweepAnyStatus ==
    /\ workerUp
    /\ \E d \in stale : deposits[d].status \in {"PENDING", "COMPLETED"}
    /\ deposits' = [d \in Deposits |->
                       IF d \in stale /\ deposits[d].status # "NONE"
                       THEN [deposits[d] EXCEPT !.status = "FAILED"] ELSE deposits[d]]
    /\ UNCHANGED <<stale, credits, bonuses, paidTo, withdrawals, refunds, referredBy, workerUp, req>>

\* Mutant of Sweep: the cutoff is compared the wrong way round.
SweepYoung ==
    /\ workerUp
    /\ \E d \in Deposits \ stale : deposits[d].status = "PENDING"
    /\ deposits' = [d \in Deposits |->
                       IF d \notin stale /\ deposits[d].status = "PENDING"
                       THEN [deposits[d] EXCEPT !.status = "FAILED"] ELSE deposits[d]]
    /\ UNCHANGED <<stale, credits, bonuses, paidTo, withdrawals, refunds, referredBy, workerUp, req>>

Sweep ==
    /\ workerUp
    /\ \E d \in stale : deposits[d].status = "PENDING"
    /\ deposits' = [d \in Deposits |->
                       IF d \in stale /\ deposits[d].status = "PENDING"
                       THEN [deposits[d] EXCEPT !.status = "FAILED"] ELSE deposits[d]]
    /\ UNCHANGED <<stale, credits, bonuses, paidTo, withdrawals, refunds, referredBy, workerUp, req>>

(* The worker stops (SIGTERM, a crash) and is restarted by its supervisor. *)
WorkerStop ==
    /\ workerUp
    /\ workerUp' = FALSE
    /\ UNCHANGED <<deposits, stale, credits, bonuses, paidTo, withdrawals, refunds, referredBy, req>>

WorkerStart ==
    /\ ~workerUp
    /\ workerUp' = TRUE
    /\ UNCHANGED <<deposits, stale, credits, bonuses, paidTo, withdrawals, refunds, referredBy, req>>

Call(r) ==
    \/ \E d \in Deposits : ConfirmRead(r, d)
    \/ ConfirmCommit(r)
    \/ \E u \in Users, a \in Amounts : WithdrawRead(r, u, a)
    \/ \E w \in Withdrawals : WithdrawCommit(r, w)
    \/ \E w \in Withdrawals : CompleteRead(r, w)
    \/ CompleteCommit(r)
    \/ \E w \in Withdrawals : FailRead(r, w)
    \/ FailCommit(r)
    \/ \E u, v \in Users : ReferralRead(r, u, v)
    \/ ReferralCommit(r)
    \/ Abort(r)

Next ==
    \/ \E u \in Users, a \in Amounts, d \in Deposits : CreateOnramp(u, a, d)
    \/ \E r \in Requests : Call(r)
    \/ \E d \in Deposits : Age(d)
    \/ Sweep
    \/ WorkerStop
    \/ WorkerStart

Spec == Init /\ [][Next]_vars

\* Time passes; a stopped worker is restarted (restart: unless-stopped), and one
\* that keeps coming back runs its 60-second job.  Nothing is assumed of users,
\* ops or providers.
Fairness == /\ \A d \in Deposits : WF_vars(Age(d))
            /\ WF_vars(WorkerStart)
            /\ SF_vars(Sweep)

FairSpec == Spec /\ Fairness

-----------------------------------------------------------------------------
\* A deposit is in its buyer's balance exactly when it is COMPLETED, although a
\* confirm and the worker's sweep both overwrite the status: a swept deposit is
\* never credited, and a credited one never swept.
CreditedIffCompleted ==
    \A d \in Deposits : (deposits[d].status = "COMPLETED") <=> (credits[d] > 0)

\* A deposit earns its referrer one bonus at most, however often it is confirmed
\* at once, and never pays the depositor or an unconfirmed deposit's referrer.
BonusOncePerDeposit ==
    \A d \in Deposits :
        /\ bonuses[d] <= 1
        /\ bonuses[d] = 1 => /\ deposits[d].status = "COMPLETED"
                             /\ paidTo[d] \notin {NoUser, deposits[d].buyer}

\* A credited deposit stays credited: no handler and no sweep takes a COMPLETED
\* deposit to another status.
CompletedDepositIsFinal ==
    [][\A d \in Deposits :
          deposits[d].status = "COMPLETED" => deposits'[d] = deposits[d]]_vars

\* Confirming is idempotent: a deposit is credited once at most.
CreditedOnce == \A d \in Deposits : credits[d] <= 1

\* A withdrawal is either paid out or given back, once: the refund is in the
\* ledger exactly when the order is FAILED.
RefundedIffFailed ==
    \A w \in Withdrawals :
        refunds[w] = IF withdrawals[w].status = "FAILED" THEN 1 ELSE 0

\* No on-ramp stays open for ever: one that nobody confirms is swept, across any
\* number of worker restarts.
OnrampSettles ==
    \A d \in Deposits : deposits[d].status = "PENDING" ~> deposits[d].status # "PENDING"
=============================================================================
