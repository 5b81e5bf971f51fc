\* A purchase in flight while the raffle is cancelled.
SPECIFICATION MCSpec
CONSTANTS
    ann = ann
    bob = bob
    cat = cat
    Users <- MCUsers
    Seller = ann
    NoUser = NoUser
    Suspended = {cat}
    Supply = 3
    Price = 3
    FeeBps = 2500
    Opening <- MCOpening
    Requests = {r1, r2}
INVARIANT CancelRefundsAll
CHECK_DEADLOCK FALSE
