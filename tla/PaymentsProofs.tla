--------------------------- MODULE PaymentsProofs ---------------------------
(***************************************************************************)
(* Payments, for any accounts, amounts, orders and number of calls in      *)
(* flight: types, a deposit is credited exactly when it is COMPLETED, one  *)
(* bonus per deposit, and a COMPLETED deposit never changes again.         *)
(*                                                                         *)
(* What makes the properties inductive is what a call in flight knows: the *)
(* order it read exists (OrdersExist), so a confirm that commits after a   *)
(* sweep, or after another confirm, finds an order it may overwrite.       *)
(*                                                                         *)
(* A deposit credited once and a withdrawal paid out or given back, not    *)
(* both, hold until two calls overlap: a call that is alone has read the   *)
(* order as it is, up to the worker's sweep (SeesCurrent).                 *)
(***************************************************************************)
EXTENDS MCPayments, TLAPS

USE AccountsAssumption, AmountsAssumption

CallKnows(c) ==
    /\ c.at = "confirm" => /\ c.order \in Deposits
                           /\ deposits[c.order].status \in {"PENDING", "COMPLETED", "FAILED"}
    /\ c.at = "withdraw" => c.user \in Users /\ c.amount \in Amounts
    /\ c.at \in {"complete", "fail"} =>
           /\ c.order \in Withdrawals
           /\ withdrawals[c.order].status \in {"PROCESSING", "COMPLETED", "FAILED"}
    /\ c.at = "referral" => c.user \in Users /\ c.referrer \in Users

OrdersExist == \A r \in Requests : CallKnows(req[r])

IInv == TypeOK /\ OrdersExist /\ CreditedIffCompleted /\ BonusOncePerDeposit

-----------------------------------------------------------------------------
\* The initial state has no orders and no calls.
LEMMA InitInv == Init => IInv
  <1> SUFFICES ASSUME Init PROVE IInv
    OBVIOUS
  <1>1. NoCall \in CallState
    BY DEF NoCall, CallState, CallSteps
  <1>2. TypeOK
    BY <1>1 DEF Init, TypeOK, OrderRow
  <1>3. OrdersExist
    BY DEF Init, OrdersExist, CallKnows, NoCall
  <1>4. CreditedIffCompleted /\ BonusOncePerDeposit
    BY DEF Init, CreditedIffCompleted, BonusOncePerDeposit, NoOrder
  <1> QED
    BY <1>2, <1>3, <1>4 DEF IInv

\* An existing order keeps its row's type when its status changes, and its buyer
\* and amount do not.
LEMMA StatusChange ==
    ASSUME NEW S, NEW row \in OrderRow(S), row.status \in S, "NONE" \notin S, NEW t \in S
    PROVE  /\ [row EXCEPT !.status = t] \in OrderRow(S)
           /\ [row EXCEPT !.status = t].status = t
           /\ [row EXCEPT !.status = t].buyer = row.buyer
  BY DEF OrderRow, NoOrder

\* A call that only reads keeps the invariant.
LEMMA StartInv ==
    ASSUME IInv, NEW r \in Requests, NEW c \in CallState, CallKnows(c), Start(r, c)
    PROVE  IInv'
  <1>1. UNCHANGED rows /\ req' = [req EXCEPT ![r] = c]
    BY DEF Start
  <1>2. TypeOK'
    BY <1>1 DEF IInv, TypeOK, rows
  <1>3. OrdersExist'
    <2>1. ASSUME NEW s \in Requests PROVE CallKnows(req'[s])
      BY DEF IInv, TypeOK, OrdersExist, Start
    <2> QED
      BY <1>1, <2>1 DEF OrdersExist, CallKnows, rows
  <1>4. CreditedIffCompleted' /\ BonusOncePerDeposit'
    BY <1>1 DEF IInv, CreditedIffCompleted, BonusOncePerDeposit, rows
  <1> QED
    BY <1>2, <1>3, <1>4 DEF IInv

\* A call that ends, while every existing order stays in existence, leaves the
\* other calls knowing what they know.
LEMMA FinishKnows ==
    ASSUME IInv, NEW r \in Requests, Finish(r),
           \A d \in Deposits : deposits[d].status \in {"PENDING", "COMPLETED", "FAILED"}
                                  => deposits'[d].status \in {"PENDING", "COMPLETED", "FAILED"},
           \A w \in Withdrawals : withdrawals[w].status \in {"PROCESSING", "COMPLETED", "FAILED"}
                                  => withdrawals'[w].status \in {"PROCESSING", "COMPLETED", "FAILED"}
    PROVE  OrdersExist' /\ req' \in [Requests -> CallState]
  <1>1. req' \in [Requests -> CallState]
    BY DEF IInv, TypeOK, Finish, NoCall, CallState, CallSteps
  <1>2. ASSUME NEW s \in Requests PROVE CallKnows(req[s])'
    <2>1. CASE s = r
      BY <2>1 DEF IInv, TypeOK, Finish, NoCall, CallKnows
    <2>2. CASE s # r
      <3>1. req'[s] = req[s] /\ CallKnows(req[s])
        BY <2>2 DEF IInv, TypeOK, Finish, OrdersExist
      <3> QED
        BY <3>1 DEF CallKnows
    <2> QED
      BY <2>1, <2>2
  <1> QED
    BY <1>1, <1>2 DEF OrdersExist

\* The worker's and users' steps that change no request keep what calls know.
LEMMA SameCallsKnow ==
    ASSUME IInv, UNCHANGED req,
           \A d \in Deposits : deposits[d].status \in {"PENDING", "COMPLETED", "FAILED"}
                                  => deposits'[d].status \in {"PENDING", "COMPLETED", "FAILED"},
           \A w \in Withdrawals : withdrawals'[w] = withdrawals[w]
    PROVE  OrdersExist'
  BY DEF IInv, OrdersExist, CallKnows

-----------------------------------------------------------------------------
\* The confirming transaction keeps the invariant.
LEMMA ConfirmCommitInv == ASSUME IInv, NEW r \in Requests, ConfirmCommit(r) PROVE IInv'
  <1> DEFINE d == req[r].order
  <1> DEFINE S == {"PENDING", "COMPLETED", "FAILED"}
  <1>1. d \in Deposits /\ deposits[d].status \in S /\ deposits[d] \in OrderRow(S)
    BY DEF IInv, TypeOK, OrdersExist, CallKnows, ConfirmCommit
  <1>2. /\ deposits'[d] \in OrderRow(S) /\ deposits'[d].status = "COMPLETED"
        /\ deposits'[d].buyer = deposits[d].buyer
        /\ \A e \in Deposits \ {d} : deposits'[e] = deposits[e]
        /\ deposits' \in [Deposits -> OrderRow(S)]
    <2>1. /\ [deposits[d] EXCEPT !.status = "COMPLETED"] \in OrderRow(S)
          /\ [deposits[d] EXCEPT !.status = "COMPLETED"].status = "COMPLETED"
          /\ [deposits[d] EXCEPT !.status = "COMPLETED"].buyer = deposits[d].buyer
      BY <1>1, StatusChange
    <2> QED
      BY <1>1, <2>1 DEF ConfirmCommit, IInv, TypeOK
  <1>3. /\ credits' \in [Deposits -> Nat] /\ credits'[d] = credits[d] + 1
        /\ \A e \in Deposits \ {d} : credits'[e] = credits[e]
    BY <1>1 DEF ConfirmCommit, IInv, TypeOK
  <1>4. OrdersExist' /\ req' \in [Requests -> CallState]
    BY <1>2, FinishKnows DEF ConfirmCommit
  <1>5. deposits[d].buyer \in Users
    BY <1>1 DEF OrderRow, NoOrder
  <1>6. /\ bonuses' \in [Deposits -> Nat] /\ paidTo' \in [Deposits -> Users \cup {NoUser}]
        /\ \A e \in Deposits \ {d} : bonuses'[e] = bonuses[e] /\ paidTo'[e] = paidTo[e]
        /\ bonuses'[d] <= 1
        /\ bonuses'[d] = 1 => paidTo'[d] \notin {NoUser, deposits[d].buyer}
    <2>1. CASE BonusDue(d)
      BY <1>1, <1>5, <2>1 DEF ConfirmCommit, BonusDue, IInv, TypeOK
    <2>2. CASE ~BonusDue(d)
      BY <1>1, <2>2 DEF ConfirmCommit, IInv, TypeOK, BonusOncePerDeposit
    <2> QED
      BY <2>1, <2>2
  <1>7. TypeOK'
    BY <1>2, <1>3, <1>4, <1>6 DEF ConfirmCommit, IInv, TypeOK
  <1>8. CreditedIffCompleted'
    BY <1>1, <1>2, <1>3 DEF IInv, TypeOK, CreditedIffCompleted
  <1>9. BonusOncePerDeposit'
    BY <1>2, <1>6 DEF IInv, BonusOncePerDeposit
  <1> QED
    BY <1>4, <1>7, <1>8, <1>9 DEF IInv

\* A new on-ramp keeps the invariant: an order that did not exist has no postings.
LEMMA CreateOnrampInv ==
    ASSUME IInv, NEW u \in Users, NEW a \in Amounts, NEW d \in Deposits, CreateOnramp(u, a, d)
    PROVE  IInv'
  <1> DEFINE S == {"PENDING", "COMPLETED", "FAILED"}
  <1>1. /\ deposits' \in [Deposits -> OrderRow(S)] /\ deposits'[d].status = "PENDING"
        /\ \A e \in Deposits \ {d} : deposits'[e] = deposits[e]
    BY DEF CreateOnramp, IInv, TypeOK, OrderRow
  <1>2. deposits[d].status = "NONE"
    BY DEF CreateOnramp
  <1>3. TypeOK'
    BY <1>1 DEF CreateOnramp, IInv, TypeOK
  <1>4. OrdersExist'
    BY <1>1, <1>2, SameCallsKnow DEF CreateOnramp
  <1>5. CreditedIffCompleted'
    BY <1>1, <1>2 DEF CreateOnramp, IInv, TypeOK, CreditedIffCompleted
  <1>6. BonusOncePerDeposit'
    BY <1>1, <1>2 DEF CreateOnramp, IInv, TypeOK, BonusOncePerDeposit
  <1> QED
    BY <1>3, <1>4, <1>5, <1>6 DEF IInv

\* The sweep keeps the invariant: it touches only PENDING orders, which have no
\* postings.
LEMMA SweepInv == ASSUME IInv, Sweep PROVE IInv'
  <1> DEFINE S == {"PENDING", "COMPLETED", "FAILED"}
  <1>1. ASSUME NEW d \in Deposits
        PROVE  /\ deposits'[d] \in OrderRow(S) /\ deposits'[d].buyer = deposits[d].buyer
               /\ deposits[d].status \in S => deposits'[d].status \in S
               /\ (deposits'[d].status = "COMPLETED") <=> (deposits[d].status = "COMPLETED")
    <2>1. deposits[d] \in OrderRow(S)
      BY DEF IInv, TypeOK
    <2>2. CASE d \in stale /\ deposits[d].status = "PENDING"
      BY <2>1, <2>2, StatusChange DEF Sweep
    <2>3. CASE ~(d \in stale /\ deposits[d].status = "PENDING")
      BY <2>1, <2>3 DEF Sweep
    <2> QED
      BY <2>2, <2>3
  <1>2. TypeOK'
    <2>1. deposits' \in [Deposits -> OrderRow(S)]
      BY <1>1 DEF Sweep
    <2> QED
      BY <2>1 DEF Sweep, IInv, TypeOK
  <1>3. OrdersExist'
    BY <1>1, SameCallsKnow DEF Sweep
  <1>4. CreditedIffCompleted'
    BY <1>1 DEF Sweep, IInv, CreditedIffCompleted
  <1>5. BonusOncePerDeposit'
    BY <1>1 DEF Sweep, IInv, BonusOncePerDeposit
  <1> QED
    BY <1>2, <1>3, <1>4, <1>5 DEF IInv

\* Time and the worker's restarts keep the invariant.
LEMMA EnvironmentInv ==
    ASSUME IInv, (\E d \in Deposits : Age(d)) \/ WorkerStop \/ WorkerStart
    PROVE  IInv'
  <1>1. UNCHANGED <<deposits, credits, bonuses, paidTo, withdrawals, refunds, referredBy, req>>
    BY DEF Age, WorkerStop, WorkerStart
  <1>2. stale' \subseteq Deposits /\ workerUp' \in BOOLEAN
    BY DEF Age, WorkerStop, WorkerStart, IInv, TypeOK
  <1>3. TypeOK'
    BY <1>1, <1>2 DEF IInv, TypeOK
  <1>4. OrdersExist'
    BY <1>1, SameCallsKnow
  <1>5. CreditedIffCompleted' /\ BonusOncePerDeposit'
    BY <1>1 DEF IInv, CreditedIffCompleted, BonusOncePerDeposit
  <1> QED
    BY <1>3, <1>4, <1>5 DEF IInv

\* The withdrawal and referral transactions do not touch deposits.
LEMMA OtherCommitsInv ==
    ASSUME IInv, NEW r \in Requests,
           \/ \E w \in Withdrawals : WithdrawCommit(r, w)
           \/ CompleteCommit(r)
           \/ FailCommit(r)
           \/ ReferralCommit(r)
           \/ Abort(r)
    PROVE  IInv'
  <1> DEFINE S == {"PROCESSING", "COMPLETED", "FAILED"}
  <1>1. /\ UNCHANGED <<deposits, stale, credits, bonuses, paidTo, workerUp>>
        /\ Finish(r)
    BY DEF WithdrawCommit, CompleteCommit, FailCommit, ReferralCommit, Abort, rows
  <1>2. CallKnows(req[r])
    BY DEF IInv, OrdersExist
  <1>3. /\ withdrawals' \in [Withdrawals -> OrderRow(S)]
        /\ refunds' \in [Withdrawals -> Nat]
        /\ referredBy' \in [Users -> Users \cup {NoUser}]
        /\ \A v \in Withdrawals : withdrawals[v].status \in S => withdrawals'[v].status \in S
    <2>1. ASSUME NEW w \in Withdrawals, WithdrawCommit(r, w) PROVE <1>3!1 /\ <1>3!2 /\ <1>3!3 /\ <1>3!4
      BY <1>2, <2>1 DEF WithdrawCommit, CallKnows, IInv, TypeOK, OrderRow
    <2>2. CASE CompleteCommit(r)
      <3>1. PICK w \in Withdrawals : w = req[r].order
        BY <1>2, <2>2 DEF CompleteCommit, CallKnows
      <3>2. withdrawals[w].status \in S /\ withdrawals[w] \in OrderRow(S)
        BY <1>2, <3>1, <2>2 DEF CompleteCommit, CallKnows, IInv, TypeOK
      <3>3. /\ [withdrawals[w] EXCEPT !.status = "COMPLETED"] \in OrderRow(S)
            /\ [withdrawals[w] EXCEPT !.status = "COMPLETED"].status \in S
        BY <3>2, StatusChange
      <3> QED
        BY <2>2, <3>1, <3>2, <3>3 DEF CompleteCommit, IInv, TypeOK
    <2>3. CASE FailCommit(r)
      <3>1. PICK w \in Withdrawals : w = req[r].order
        BY <1>2, <2>3 DEF FailCommit, CallKnows
      <3>2. withdrawals[w].status \in S /\ withdrawals[w] \in OrderRow(S)
        BY <1>2, <3>1, <2>3 DEF FailCommit, CallKnows, IInv, TypeOK
      <3>3. /\ [withdrawals[w] EXCEPT !.status = "FAILED"] \in OrderRow(S)
            /\ [withdrawals[w] EXCEPT !.status = "FAILED"].status \in S
        BY <3>2, StatusChange
      <3> QED
        BY <2>3, <3>1, <3>2, <3>3 DEF FailCommit, IInv, TypeOK
    <2>4. CASE ReferralCommit(r)
      BY <1>2, <2>4 DEF ReferralCommit, CallKnows, IInv, TypeOK
    <2>5. CASE Abort(r)
      BY <2>5 DEF Abort, rows, IInv, TypeOK
    <2> QED
      BY <2>1, <2>2, <2>3, <2>4, <2>5
  <1>4. OrdersExist' /\ req' \in [Requests -> CallState]
    BY <1>1, <1>3, FinishKnows
  <1>5. TypeOK'
    BY <1>1, <1>3, <1>4 DEF IInv, TypeOK
  <1>6. CreditedIffCompleted' /\ BonusOncePerDeposit'
    BY <1>1 DEF IInv, CreditedIffCompleted, BonusOncePerDeposit
  <1> QED
    BY <1>4, <1>5, <1>6 DEF IInv

\* The reads that start a call record only orders and accounts that exist.
LEMMA ReadsInv ==
    ASSUME IInv, NEW r \in Requests,
           \/ \E d \in Deposits : ConfirmRead(r, d)
           \/ \E u \in Users, a \in Amounts : WithdrawRead(r, u, a)
           \/ \E w \in Withdrawals : CompleteRead(r, w)
           \/ \E w \in Withdrawals : FailRead(r, w)
           \/ \E u, v \in Users : ReferralRead(r, u, v)
    PROVE  IInv'
  <1>1. SUFFICES \E c \in CallState : CallKnows(c) /\ Start(r, c)
    BY StartInv
  <1>2. NoCall \in CallState
    BY DEF NoCall, CallState, CallSteps
  <1>3. ASSUME NEW d \in Deposits, ConfirmRead(r, d)
        PROVE  \E c \in CallState : CallKnows(c) /\ Start(r, c)
    <2> DEFINE c == [NoCall EXCEPT !.at = "confirm", !.order = d]
    <2>1. c \in CallState
      BY <1>2 DEF CallState, CallSteps
    <2>2. CallKnows(c)
      BY <1>3 DEF ConfirmRead, CallKnows, NoCall
    <2> QED
      BY <1>3, <2>1, <2>2 DEF ConfirmRead
  <1>4. ASSUME NEW u \in Users, NEW a \in Amounts, WithdrawRead(r, u, a)
        PROVE  \E c \in CallState : CallKnows(c) /\ Start(r, c)
    <2> DEFINE c == [NoCall EXCEPT !.at = "withdraw", !.user = u, !.amount = a]
    <2>1. c \in CallState /\ CallKnows(c)
      BY <1>2 DEF CallState, CallSteps, CallKnows, NoCall
    <2> QED
      BY <1>4, <2>1 DEF WithdrawRead
  <1>5. ASSUME NEW w \in Withdrawals, CompleteRead(r, w)
        PROVE  \E c \in CallState : CallKnows(c) /\ Start(r, c)
    <2> DEFINE c == [NoCall EXCEPT !.at = "complete", !.order = w]
    <2>1. c \in CallState
      BY <1>2 DEF CallState, CallSteps
    <2>2. CallKnows(c)
      BY <1>5 DEF CompleteRead, CallKnows, NoCall
    <2> QED
      BY <1>5, <2>1, <2>2 DEF CompleteRead
  <1>6. ASSUME NEW w \in Withdrawals, FailRead(r, w)
        PROVE  \E c \in CallState : CallKnows(c) /\ Start(r, c)
    <2> DEFINE c == [NoCall EXCEPT !.at = "fail", !.order = w]
    <2>1. c \in CallState
      BY <1>2 DEF CallState, CallSteps
    <2>2. withdrawals[w].status = "PROCESSING"
      <3>1. withdrawals[w] \in OrderRow({"PROCESSING", "COMPLETED", "FAILED"})
        BY DEF IInv, TypeOK
      <3>2. withdrawals[w].status \in {"NONE", "PROCESSING", "COMPLETED", "FAILED"}
        BY <3>1 DEF OrderRow, NoOrder
      <3> QED
        BY <1>6, <3>2 DEF FailRead
    <2>3. CallKnows(c)
      BY <2>2 DEF CallKnows, NoCall
    <2> QED
      BY <1>6, <2>1, <2>3 DEF FailRead
  <1>7. ASSUME NEW u \in Users, NEW v \in Users, ReferralRead(r, u, v)
        PROVE  \E c \in CallState : CallKnows(c) /\ Start(r, c)
    <2> DEFINE c == [NoCall EXCEPT !.at = "referral", !.user = u, !.referrer = v]
    <2>1. c \in CallState /\ CallKnows(c)
      BY <1>2 DEF CallState, CallSteps, CallKnows, NoCall
    <2> QED
      BY <1>7, <2>1 DEF ReferralRead
  <1> QED
    BY <1>3, <1>4, <1>5, <1>6, <1>7

\* Every step keeps the inductive invariant.
LEMMA NextInv == IInv /\ [Next]_vars => IInv'
  <1> SUFFICES ASSUME IInv, [Next]_vars PROVE IInv'
    OBVIOUS
  <1>1. CASE UNCHANGED vars
    BY <1>1 DEF vars, rows, IInv, TypeOK, OrdersExist, CallKnows,
                CreditedIffCompleted, BonusOncePerDeposit
  <1>2. ASSUME NEW r \in Requests, Call(r) PROVE IInv'
    BY <1>2, ReadsInv, ConfirmCommitInv, OtherCommitsInv DEF Call
  <1>3. ASSUME NEW u \in Users, NEW a \in Amounts, NEW d \in Deposits, CreateOnramp(u, a, d)
        PROVE  IInv'
    BY <1>3, CreateOnrampInv
  <1>4. CASE Sweep
    BY <1>4, SweepInv
  <1>5. CASE (\E d \in Deposits : Age(d)) \/ WorkerStop \/ WorkerStart
    BY <1>5, EnvironmentInv
  <1> QED
    BY <1>1, <1>2, <1>3, <1>4, <1>5 DEF Next

\* The inductive invariant holds in every reachable state.
THEOREM InductiveInvariant == Spec => []IInv
  <1>1. Init => IInv
    BY InitInv
  <1>2. IInv /\ [Next]_vars => IInv'
    BY NextInv
  <1> QED
    BY <1>1, <1>2, PTL DEF Spec

\* Orders, postings and calls in flight keep their types.
THEOREM TypeCorrect == Spec => []TypeOK
  <1>1. IInv => TypeOK
    BY DEF IInv
  <1> QED
    BY <1>1, InductiveInvariant, PTL

\* However confirms and sweeps interleave, a deposit is credited exactly when its
\* order ends COMPLETED.
THEOREM DepositCreditedIffCompleted == Spec => []CreditedIffCompleted
  <1>1. IInv => CreditedIffCompleted
    BY DEF IInv
  <1> QED
    BY <1>1, InductiveInvariant, PTL

\* However many confirms of a deposit commit, its referral bonus is paid once.
THEOREM OneBonusPerDeposit == Spec => []BonusOncePerDeposit
  <1>1. IInv => BonusOncePerDeposit
    BY DEF IInv
  <1> QED
    BY <1>1, InductiveInvariant, PTL

\* A COMPLETED deposit keeps its row through every step.
LEMMA CompletedStep ==
    ASSUME IInv, [Next]_vars, NEW d \in Deposits, deposits[d].status = "COMPLETED"
    PROVE  deposits'[d] = deposits[d]
  <1>1. CASE UNCHANGED vars
    BY <1>1 DEF vars, rows
  <1>2. ASSUME NEW r \in Requests, ConfirmCommit(r) PROVE deposits'[d] = deposits[d]
    <2>1. deposits' = [deposits EXCEPT ![req[r].order].status = "COMPLETED"]
      BY <1>2 DEF ConfirmCommit
    <2>2. /\ deposits \in [Deposits -> OrderRow({"PENDING", "COMPLETED", "FAILED"})]
          /\ deposits[d] = [deposits[d] EXCEPT !.status = "COMPLETED"]
      BY DEF IInv, TypeOK, OrderRow, NoOrder
    <2> QED
      BY <2>1, <2>2
  <1>3. ASSUME NEW r \in Requests, Call(r), ~ConfirmCommit(r) PROVE deposits' = deposits
    BY <1>3 DEF Call, ConfirmRead, WithdrawRead, WithdrawCommit, CompleteRead, CompleteCommit,
                FailRead, FailCommit, ReferralRead, ReferralCommit, Abort, Start, rows
  <1>4. ASSUME NEW u \in Users, NEW a \in Amounts, NEW e \in Deposits, CreateOnramp(u, a, e)
        PROVE  deposits'[d] = deposits[d]
    BY <1>4 DEF CreateOnramp, IInv, TypeOK
  <1>5. CASE Sweep
    BY <1>5 DEF Sweep
  <1>6. CASE (\E e \in Deposits : Age(e)) \/ WorkerStop \/ WorkerStart
    BY <1>6 DEF Age, WorkerStop, WorkerStart
  <1> QED
    BY <1>1, <1>2, <1>3, <1>4, <1>5, <1>6 DEF Next

\* No handler and no sweep moves a deposit out of COMPLETED.
THEOREM CompletedDepositsStay == Spec => CompletedDepositIsFinal
  <1>1. IInv /\ [Next]_vars =>
          [\A d \in Deposits :
              deposits[d].status = "COMPLETED" => deposits'[d] = deposits[d]]_vars
    BY CompletedStep
  <1> QED
    BY <1>1, InductiveInvariant, PTL DEF Spec, CompletedDepositIsFinal

-----------------------------------------------------------------------------
\* The order of a call that is alone: a deposit about to be confirmed is not COMPLETED
\* (the sweep may have failed it), a withdrawal about to be settled is PROCESSING.
SeesCurrent(r) ==
    /\ req[r].at = "confirm" => deposits[req[r].order].status # "COMPLETED"
    /\ req[r].at \in {"complete", "fail"} => withdrawals[req[r].order].status = "PROCESSING"

PaymentsSerial ==
    /\ ~Together(req)
    /\ \A r \in Requests : SeesCurrent(r)
    /\ CreditedOnce
    /\ RefundedIffFailed

SerialInv == IInv /\ (~overlapped => PaymentsSerial)

\* As long as calls have not overlapped, the call that ends is alone.
LEMMA AloneEnds ==
    ASSUME PaymentsSerial, IInv, NEW r \in Requests, req[r].at # "idle", Finish(r),
           CreditedOnce', RefundedIffFailed'
    PROVE  PaymentsSerial'
  <1>1. req \in [Requests -> CallState] /\ NoCall.at = "idle"
    BY DEF IInv, TypeOK, NoCall
  <1>2. \A s \in Requests : req'[s] = NoCall
    BY <1>1 DEF PaymentsSerial, Together, Finish
  <1> QED
    BY <1>1, <1>2 DEF PaymentsSerial, Together, SeesCurrent

\* A call that starts alone, on an order that it has just read.
LEMMA AloneStarts ==
    ASSUME PaymentsSerial, IInv, NEW r \in Requests, NEW c, Start(r, c), ~Together(req'),
           c.at \in {"withdraw", "referral"}
               \/ (c.at = "confirm" /\ deposits[c.order].status = "PENDING")
               \/ (c.at \in {"complete", "fail"} /\ withdrawals[c.order].status = "PROCESSING")
    PROVE  PaymentsSerial'
  <1>1. /\ req \in [Requests -> CallState] /\ req' = [req EXCEPT ![r] = c]
        /\ UNCHANGED rows
    BY DEF IInv, TypeOK, Start
  <1>2. \A s \in Requests \ {r} : req'[s] = req[s]
    BY <1>1
  <1>3. SeesCurrent(r)'
    BY <1>1 DEF SeesCurrent, rows
  <1>4. \A s \in Requests : SeesCurrent(s)'
    BY <1>1, <1>2, <1>3 DEF PaymentsSerial, SeesCurrent, rows
  <1>5. CreditedOnce' /\ RefundedIffFailed'
    BY <1>1 DEF PaymentsSerial, CreditedOnce, RefundedIffFailed, rows
  <1> QED
    BY <1>4, <1>5 DEF PaymentsSerial

\* The reads.
LEMMA ReadsAlone ==
    ASSUME PaymentsSerial, IInv, NEW r \in Requests, ~Together(req'),
           \/ \E d \in Deposits : ConfirmRead(r, d)
           \/ \E u \in Users, a \in Amounts : WithdrawRead(r, u, a)
           \/ \E w \in Withdrawals : CompleteRead(r, w)
           \/ \E w \in Withdrawals : FailRead(r, w)
           \/ \E u, v \in Users : ReferralRead(r, u, v)
    PROVE  PaymentsSerial'
  <1>1. ASSUME NEW d \in Deposits, ConfirmRead(r, d) PROVE PaymentsSerial'
    <2> DEFINE c == [NoCall EXCEPT !.at = "confirm", !.order = d]
    <2>1. c.at = "confirm" /\ c.order = d
      BY DEF NoCall
    <2>2. Start(r, c) /\ deposits[d].status = "PENDING"
      BY <1>1 DEF ConfirmRead
    <2> HIDE DEF c
    <2> QED
      BY <2>1, <2>2, AloneStarts
  <1>2. ASSUME NEW u \in Users, NEW a \in Amounts, WithdrawRead(r, u, a) PROVE PaymentsSerial'
    <2> DEFINE c == [NoCall EXCEPT !.at = "withdraw", !.user = u, !.amount = a]
    <2>1. c.at = "withdraw"
      BY DEF NoCall
    <2>2. Start(r, c)
      BY <1>2 DEF WithdrawRead
    <2> HIDE DEF c
    <2> QED
      BY <2>1, <2>2, AloneStarts
  <1>3. ASSUME NEW w \in Withdrawals, CompleteRead(r, w) PROVE PaymentsSerial'
    <2> DEFINE c == [NoCall EXCEPT !.at = "complete", !.order = w]
    <2>1. c.at = "complete" /\ c.order = w
      BY DEF NoCall
    <2>2. Start(r, c) /\ withdrawals[w].status = "PROCESSING"
      BY <1>3 DEF CompleteRead
    <2> HIDE DEF c
    <2> QED
      BY <2>1, <2>2, AloneStarts
  <1>4. ASSUME NEW w \in Withdrawals, FailRead(r, w) PROVE PaymentsSerial'
    <2> DEFINE c == [NoCall EXCEPT !.at = "fail", !.order = w]
    <2>1. c.at = "fail" /\ c.order = w
      BY DEF NoCall
    <2>2. Start(r, c) /\ withdrawals[w].status \notin {"NONE", "FAILED", "COMPLETED"}
      BY <1>4 DEF FailRead
    <2>3. withdrawals[w].status = "PROCESSING"
      <3>1. withdrawals[w] \in OrderRow({"PROCESSING", "COMPLETED", "FAILED"})
        BY DEF IInv, TypeOK
      <3> QED
        BY <2>2, <3>1 DEF OrderRow, NoOrder
    <2> HIDE DEF c
    <2> QED
      BY <2>1, <2>2, <2>3, AloneStarts
  <1>5. ASSUME NEW u \in Users, NEW v \in Users, ReferralRead(r, u, v) PROVE PaymentsSerial'
    <2> DEFINE c == [NoCall EXCEPT !.at = "referral", !.user = u, !.referrer = v]
    <2>1. c.at = "referral"
      BY DEF NoCall
    <2>2. Start(r, c)
      BY <1>5 DEF ReferralRead
    <2> HIDE DEF c
    <2> QED
      BY <2>1, <2>2, AloneStarts
  <1> QED
    BY <1>1, <1>2, <1>3, <1>4, <1>5

\* A confirm that is alone credits a deposit that has no credit: it is not COMPLETED.
LEMMA ConfirmAlone ==
    ASSUME PaymentsSerial, IInv, NEW r \in Requests, ConfirmCommit(r)
    PROVE  PaymentsSerial'
  <1> DEFINE d == req[r].order
  <1>1. d \in Deposits /\ credits \in [Deposits -> Nat]
    BY DEF IInv, TypeOK, OrdersExist, CallKnows, ConfirmCommit
  <1>2. SeesCurrent(r)
    BY DEF PaymentsSerial
  <1>3. credits[d] = 0
    BY <1>1, <1>2 DEF SeesCurrent, ConfirmCommit, IInv, CreditedIffCompleted
  <1>4. credits' = [credits EXCEPT ![d] = @ + 1] /\ UNCHANGED <<withdrawals, refunds>>
    BY DEF ConfirmCommit
  <1> HIDE DEF d
  <1>5. CreditedOnce' /\ RefundedIffFailed'
    BY <1>1, <1>3, <1>4 DEF PaymentsSerial, CreditedOnce, RefundedIffFailed
  <1> QED
    BY <1>5, AloneEnds DEF ConfirmCommit

\* The settlement of a withdrawal, alone, finds it PROCESSING and not given back.
LEMMA CommitsAlone ==
    ASSUME PaymentsSerial, IInv, NEW r \in Requests,
           \/ \E w \in Withdrawals : WithdrawCommit(r, w)
           \/ CompleteCommit(r)
           \/ FailCommit(r)
           \/ ReferralCommit(r)
           \/ Abort(r)
    PROVE  PaymentsSerial'
  <1> DEFINE S == {"PROCESSING", "COMPLETED", "FAILED"}
  <1>0. /\ withdrawals \in [Withdrawals -> OrderRow(S)] /\ refunds \in [Withdrawals -> Nat]
        /\ CallKnows(req[r]) /\ SeesCurrent(r) /\ RefundedIffFailed /\ CreditedOnce
    BY DEF IInv, TypeOK, OrdersExist, PaymentsSerial
  <1>1. ASSUME NEW w \in Withdrawals, WithdrawCommit(r, w) PROVE RefundedIffFailed'
    <2>1. /\ withdrawals'[w].status = "PROCESSING" /\ withdrawals[w].status = "NONE"
          /\ \A v \in Withdrawals \ {w} : withdrawals'[v] = withdrawals[v]
          /\ refunds' = refunds
      BY <1>0, <1>1 DEF WithdrawCommit
    <2> QED
      BY <1>0, <2>1 DEF RefundedIffFailed
  <1>2. ASSUME CompleteCommit(r) PROVE RefundedIffFailed'
    <2>1. PICK w \in Withdrawals : w = req[r].order
      BY <1>0, <1>2 DEF CompleteCommit, CallKnows
    <2>2. withdrawals[w].status = "PROCESSING" /\ withdrawals[w] \in OrderRow(S)
      BY <1>0, <1>2, <2>1 DEF CompleteCommit, SeesCurrent
    <2>3. [withdrawals[w] EXCEPT !.status = "COMPLETED"].status = "COMPLETED"
      BY <2>2, StatusChange
    <2>4. /\ withdrawals'[w].status = "COMPLETED" /\ refunds' = refunds
          /\ \A v \in Withdrawals \ {w} : withdrawals'[v] = withdrawals[v]
      BY <1>0, <1>2, <2>1, <2>3 DEF CompleteCommit
    <2> QED
      BY <1>0, <2>2, <2>4 DEF RefundedIffFailed
  <1>3. ASSUME FailCommit(r) PROVE RefundedIffFailed'
    <2>1. PICK w \in Withdrawals : w = req[r].order
      BY <1>0, <1>3 DEF FailCommit, CallKnows
    <2>2. withdrawals[w].status = "PROCESSING" /\ withdrawals[w] \in OrderRow(S)
      BY <1>0, <1>3, <2>1 DEF FailCommit, SeesCurrent
    <2>3. [withdrawals[w] EXCEPT !.status = "FAILED"].status = "FAILED"
      BY <2>2, StatusChange
    <2>4. /\ withdrawals'[w].status = "FAILED" /\ refunds'[w] = refunds[w] + 1
          /\ \A v \in Withdrawals \ {w} : withdrawals'[v] = withdrawals[v] /\ refunds'[v] = refunds[v]
      BY <1>0, <1>3, <2>1, <2>3 DEF FailCommit
    <2>5. refunds[w] = 0
      BY <1>0, <2>2 DEF RefundedIffFailed
    <2> QED
      BY <1>0, <2>4, <2>5 DEF RefundedIffFailed
  <1>4. ASSUME ReferralCommit(r) \/ Abort(r) PROVE RefundedIffFailed'
    BY <1>0, <1>4 DEF ReferralCommit, Abort, rows, RefundedIffFailed
  <1>5. CreditedOnce' /\ Finish(r) /\ req[r].at # "idle"
    BY <1>0 DEF WithdrawCommit, CompleteCommit, FailCommit, ReferralCommit, Abort, rows, CreditedOnce
  <1> QED
    BY <1>1, <1>2, <1>3, <1>4, <1>5, AloneEnds

\* New on-ramps, the sweep, time and restarts: no deposit becomes COMPLETED.
LEMMA OthersAlone ==
    ASSUME PaymentsSerial, IInv,
           \/ \E u \in Users, a \in Amounts, d \in Deposits : CreateOnramp(u, a, d)
           \/ \E d \in Deposits : Age(d)
           \/ Sweep \/ WorkerStop \/ WorkerStart
    PROVE  PaymentsSerial'
  <1> DEFINE S == {"PENDING", "COMPLETED", "FAILED"}
  <1>1. UNCHANGED <<req, credits, withdrawals, refunds>>
    BY DEF CreateOnramp, Age, Sweep, WorkerStop, WorkerStart
  <1>2. ASSUME NEW d \in Deposits PROVE deposits'[d].status = "COMPLETED" => deposits[d].status = "COMPLETED"
    <2>1. deposits \in [Deposits -> OrderRow(S)]
      BY DEF IInv, TypeOK
    <2>2. ASSUME NEW u \in Users, NEW a \in Amounts, NEW e \in Deposits, CreateOnramp(u, a, e)
          PROVE  deposits'[d].status = "COMPLETED" => deposits[d].status = "COMPLETED"
      BY <2>1, <2>2 DEF CreateOnramp
    <2>3. CASE Sweep
      <3>1. deposits'[d] = deposits[d] \/ deposits'[d] = [deposits[d] EXCEPT !.status = "FAILED"]
        BY <2>3 DEF Sweep
      <3>2. deposits[d] \in OrderRow(S)
        BY <2>1
      <3>3. deposits[d].status = "PENDING" => [deposits[d] EXCEPT !.status = "FAILED"].status = "FAILED"
        BY <3>2, StatusChange
      <3> QED
        BY <2>3, <3>3 DEF Sweep
    <2>4. CASE (\E e \in Deposits : Age(e)) \/ WorkerStop \/ WorkerStart
      BY <2>4 DEF Age, WorkerStop, WorkerStart
    <2> QED
      BY <2>2, <2>3, <2>4
  <1>3. \A r \in Requests : SeesCurrent(r)'
    <2>1. \A r \in Requests : req[r].at = "confirm" => req[r].order \in Deposits
      BY DEF IInv, OrdersExist, CallKnows
    <2> QED
      BY <1>1, <1>2, <2>1 DEF PaymentsSerial, SeesCurrent
  <1> QED
    BY <1>1, <1>3 DEF PaymentsSerial, Together, CreditedOnce, RefundedIffFailed

LEMMA SerialInit == MCInit => SerialInv
  <1> SUFFICES ASSUME MCInit PROVE SerialInv
    OBVIOUS
  <1>1. Init /\ IInv
    BY InitInv DEF MCInit
  <1> QED
    BY <1>1 DEF Init, SerialInv, PaymentsSerial, Together, SeesCurrent, NoCall, NoOrder, CreditedOnce, RefundedIffFailed

LEMMA SerialStep == SerialInv /\ [MCNext]_MCVars => SerialInv'
  <1> SUFFICES ASSUME SerialInv, [MCNext]_MCVars PROVE SerialInv'
    OBVIOUS
  <1>1. IInv /\ IInv'
    BY NextInv DEF SerialInv, MCNext, MCVars
  <1>2. CASE UNCHANGED MCVars
    BY <1>1, <1>2 DEF MCVars, vars, rows, SerialInv, PaymentsSerial, Together, SeesCurrent, CreditedOnce,
                      RefundedIffFailed
  <1>3. ASSUME MCNext, ~overlapped' PROVE PaymentsSerial'
    <2>1. PaymentsSerial /\ ~Together(req') /\ Next
      BY <1>3 DEF MCNext, SerialInv
    <2>2. ASSUME NEW r \in Requests, Call(r) PROVE PaymentsSerial'
      BY <1>1, <2>1, <2>2, ReadsAlone, ConfirmAlone, CommitsAlone DEF Call
    <2> QED
      BY <1>1, <2>1, <2>2, OthersAlone DEF Next
  <1> QED
    BY <1>1, <1>2, <1>3 DEF SerialInv

LEMMA SerialHolds == MCSpec => []SerialInv
  BY SerialInit, SerialStep, PTL DEF MCSpec

\* Until two calls overlap a deposit is credited once at most, although the sweep may
\* fail it between the read and the commit of its confirm.
THEOREM DepositsAreCreditedOnce == MCSpec => []SerialCreditedOnce
  <1>1. SerialInv => SerialCreditedOnce
    BY DEF SerialInv, PaymentsSerial, SerialCreditedOnce
  <1> QED
    BY <1>1, SerialHolds, PTL

\* Until two calls overlap a withdrawal is given back exactly when it FAILED, and once.
THEOREM WithdrawalsAreRefundedOnce == MCSpec => []SerialRefundedIffFailed
  <1>1. SerialInv => SerialRefundedIffFailed
    BY DEF SerialInv, PaymentsSerial, SerialRefundedIffFailed
  <1> QED
    BY <1>1, SerialHolds, PTL
=============================================================================
