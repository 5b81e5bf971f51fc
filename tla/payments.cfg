\* Two calls in flight, the worker sweeping, stopping and restarting.
SPECIFICATION MCSpec
CONSTANTS
    NoUser = NoUser
    Users = {ann, bob}
    MayWithdraw = {ann}
    Amounts = {9, 30}
    Deposits = {d1, d2}
    Withdrawals = {w1}
    Requests = {r1, r2}
SYMMETRY DepositSymmetry
INVARIANTS CreditedIffCompleted BonusOncePerDeposit SerialCreditedOnce SerialRefundedIffFailed
