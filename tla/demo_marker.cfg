\* The sample prizes, or a catalogue of 13 (which divides 26) or 22 listings.
SPECIFICATION Spec
CONSTANTS
    Branches = 6
    Listings = {13, 22}
    MaxOpens = 4
INVARIANT MarkerPicksTheWin
CHECK_DEADLOCK FALSE
