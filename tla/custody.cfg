\* Two calls of any handler in flight at once, each of which may die.
SPECIFICATION MCSpec
CONSTANTS
    Treasury = house
    Users = {house, ann}
    OnHold = {}
    Suspended = {}
    Listings = {l1}
    Openings = {o1}
    NoId = NoId
    MaxMints = 2
    Requests = {r1, r2}
SYMMETRY CallSymmetry
INVARIANTS OwnersAgree CustodyGate BurnedIffRedeemed SerialStagesAgree
CHECK_DEADLOCK FALSE
