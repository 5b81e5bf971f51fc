\* Two calls of any handler in flight at once, each of which may die.
SPECIFICATION MCSpec
CONSTANTS
    ann = ann
    bob = bob
    cat = cat
    Users <- MCUsers
    Seller = ann
    NoUser = NoUser
    Suspended = {cat}
    Supply = 3
    Price = 3
    FeeBps = 2500
    Opening <- MCOpening
    Requests = {r1, r2}
INVARIANTS MoneyConserved SerialCancelRefundsAll
PROPERTIES SaleSpec CardMovesOnlyByDraw
CHECK_DEADLOCK FALSE
