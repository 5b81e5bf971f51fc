\* Open on-ramps settle, under the worker's schedule and restart policy.
SPECIFICATION FairSpec
CONSTANTS
    NoUser = NoUser
    Users = {ann, bob}
    MayWithdraw = {ann}
    Amounts = {30}
    Deposits = {d1, d2}
    Withdrawals = {w1}
    Requests = {r1}
PROPERTY OnrampSettles
