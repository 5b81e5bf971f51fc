\* Two buybacks in flight, with operators, trades, the clock and the worker.
SPECIFICATION FairTreasurySpec
CONSTANTS
    ann = ann
    bob = bob
    ops = ops
    card = card
    Users = {ann, bob}
    Staff = {}
    OnHold = {}
    Suspended = {}
    Cards = {card}
    FirstOwner <- MCOwner
    Fmv <- MCNoFmv
    DeviationBps = 5000
    Prices = {8}
    FeeBps = 2500
    Opening <- MCNoMoney
    Credit = 12
    MaxCredits = 1
    Listings = {l1}
    Keys = {k1}
    NoListing = NoListing
    Requests = {r1, r2}
    House = house
    Values = {9}
    PercentBps = 8750
    Floor = 3
    Funding = 11
    MaxFundings = 1
    Quotes = {q1, q2}
INVARIANTS PayoutsMatchQuotes
PROPERTIES SerialPayoutAboveFloor QuoteEnds
CHECK_DEADLOCK FALSE
