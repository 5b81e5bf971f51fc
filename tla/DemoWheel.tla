----------------------------- MODULE DemoWheel -----------------------------
(* The demonstration page (apps/web/src/app/demo): a prize is computed, a reel  *)
(* of prizes is moved under a marker, and when the movement is over, or a timer *)
(* has run out first, the prize is revealed.  Prizes are their positions in the *)
(* list of the page.                                                            *)
EXTENDS Naturals

CONSTANTS
    Branches,   \* number of packs that can be selected
    Listings,   \* numbers of imported listings that the catalogue may return
    MaxOpens    \* bound of the model: openings of one visit

VARIABLES
    loading,   \* the prizes have not arrived
    prizes,    \* number of prizes of the page
    selected,  \* the selected pack
    phase,     \* "idle", "opening" or "revealed"
    result,    \* the prize that is or will be revealed
    slot,      \* the place of the reel that is moved under the marker
    opens      \* openings so far

vars == <<loading, prizes, selected, phase, result, slot, opens>>

\* SAMPLE_PRIZES, shown until the catalogue has listings.
SamplePrizes == 6

Init ==
    /\ loading = TRUE /\ prizes = 0 /\ selected = 0
    /\ phase = "idle" /\ result = 0 /\ slot = 0 /\ opens = 0

\* The catalogue answers with n listings, or with none, or not at all.
Load(n) ==
    /\ loading
    /\ loading' = FALSE
    /\ prizes' = IF n = 0 THEN SamplePrizes ELSE n
    /\ UNCHANGED <<selected, phase, result, slot, opens>>

Select(b) == selected' = b /\ UNCHANGED <<loading, prizes, phase, result, slot, opens>>

\* openPack: the prize and the place where the reel is to stop.
OpenPack ==
    /\ phase # "opening" /\ ~loading
    /\ opens < MaxOpens
    /\ result' = (selected * 3 + opens) % prizes
    /\ slot' = 26 + (7 + (opens % 4)) * prizes + result'
    /\ phase' = "opening"
    /\ UNCHANGED <<loading, prizes, selected, opens>>

\* settleRoulette, or the timer of openPack when the transition never ends.
SettleRoulette ==
    /\ phase = "opening"
    /\ phase' = "revealed"
    /\ opens' = opens + 1
    /\ UNCHANGED <<loading, prizes, selected, result, slot>>

Next ==
    \/ \E n \in Listings \cup {0} : Load(n)
    \/ \E b \in 0 .. Branches - 1 : Select(b)
    \/ OpenPack
    \/ SettleRoulette

Spec == Init /\ [][Next]_vars

-----------------------------------------------------------------------------
\* buildRouletteItems: the prizes in a row, at least twelve times and at least 260.
ReelLength ==
    LET needed == (260 + prizes - 1) \div prizes
    IN  prizes * (IF needed > 12 THEN needed ELSE 12)

\* RouletteReel: items have the same width, the first one is under the marker at place 0.
UnderMarker == slot % prizes

\* When a prize has been revealed it is the one under the marker of the reel
\* (RouletteReel: "Center marker picks the win").
MarkerPicksTheWin == phase = "revealed" => slot < ReelLength /\ UnderMarker = result
=============================================================================
