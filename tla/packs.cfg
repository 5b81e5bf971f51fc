\* Two calls in flight, each of which may die, while operators change the pack.
SPECIFICATION MCSpec
CONSTANTS
    ann = ann
    bob = bob
    o1 = o1
    o2 = o2
    s1 = s1
    s2 = s2
    Users = {ann, bob}
    Suspended = {}
    House = house
    Cards = {1, 2}
    Weight <- MCWeight
    Price = 4
    Balances <- MCBalances
    Openings = {o1, o2}
    Seeds = {s1, s2}
    NoSeed = NoSeed
    NoCard = NoCard
    Span = 8
    Entropy <- MCEntropy
    AnchorRequired = TRUE
    Requests = {r1, r2}
SYMMETRY CallSymmetry
INVARIANTS ProofReplays WonOnce PublishedOddsAreTheDraws PaidIsAnchored
PROPERTY SerialOutcomeIsFinal
CHECK_DEADLOCK FALSE
