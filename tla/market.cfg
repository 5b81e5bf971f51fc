\* Two calls of any handler in flight at once, each of which may die.
SPECIFICATION MCSpec
CONSTANTS
    ann = ann
    bob = bob
    ops = ops
    card = card
    Users <- MCUsers
    Staff = {ops}
    OnHold = {}
    Suspended = {}
    Cards = {card}
    FirstOwner <- MCOwner
    Fmv <- MCFmv
    DeviationBps = 5000
    Prices = {8, 20}
    FeeBps = 2500
    Opening <- MCOpening
    Credit = 12
    MaxCredits = 1
    Listings = {l1, l2}
    Keys = {k1, k2}
    NoListing = NoListing
    Requests = {r1, r2}
    House = house
    Values = {9}
    PercentBps = 8750
    Floor = 3
    Funding = 11
    MaxFundings = 1
    Quotes = {q1, q2}
SYMMETRY Interchangeable
INVARIANTS BooksMatchOrders HeldIsNotOnSale SerialSoldOnce
PROPERTY CardFollowsPayment
CHECK_DEADLOCK FALSE
