\* Two calls in flight, each of which may die; ops at the vault console; Redis failing.
SPECIFICATION MCSpec
CONSTANTS
    Submissions = {s1, s2}
    Certified = {s1}
    Items = {i1, i2}
    PerDay = 1
    NoItem = NoItem
    NoSource = NoSource
    Requests = {r1, r2}
SYMMETRY Interchangeable
INVARIANTS DailyCap SerialMintedHasToken SerialItemIsLinked
CHECK_DEADLOCK FALSE
