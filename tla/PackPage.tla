------------------------------ MODULE PackPage ------------------------------
(* The page on which a user opens a pack (packs/[id]/page.tsx): one handler     *)
(* that pays for an opening, lets the reel run, has the card drawn and shows    *)
(* it.  Any of its calls may be refused or lost, and the page may be reloaded   *)
(* at any time.  What the API does with an opening is the subject of Packs.     *)
CONSTANTS
    Openings, NoOpening

VARIABLES
    opening,   \* status of every opening of the user in the database, "NONE" before it exists
    phase,     \* "idle", "opening", "done"
    won,       \* the opening whose card is shown
    err,       \* the page is its error message and nothing else
    at,        \* where the handler stands
    current    \* the opening that it works on

vars == <<opening, phase, won, err, at, current>>

TypeOK ==
    /\ opening \in [Openings -> {"NONE", "COMMITTED", "SETTLED"}]
    /\ phase \in {"idle", "opening", "done"} /\ err \in BOOLEAN
    /\ at \in {"rest", "commit", "committed", "reveal", "revealed", "load"}
    /\ won \in Openings \cup {NoOpening} /\ current \in Openings \cup {NoOpening}

Fresh == phase' = "idle" /\ won' = NoOpening /\ err' = FALSE /\ at' = "rest" /\ current' = NoOpening

Init ==
    /\ opening = [o \in Openings |-> "NONE"]
    /\ phase = "idle" /\ won = NoOpening /\ err = FALSE /\ at = "rest" /\ current = NoOpening

\* The button is drawn until a card is shown, and disabled while a pack is opened.
Open ==
    /\ at = "rest" /\ phase = "idle" /\ ~err
    /\ phase' = "opening" /\ won' = NoOpening
    /\ at' = "commit"
    /\ UNCHANGED <<opening, err, current>>

\* POST /packs/:id/open has been served: the user has paid.
Commit(o) ==
    /\ at = "commit" /\ opening[o] = "NONE"
    /\ opening' = [opening EXCEPT ![o] = "COMMITTED"]
    /\ at' = "committed" /\ current' = o
    /\ UNCHANGED <<phase, won, err>>

\* The opening has come, and the reel has run.
Reel ==
    /\ at = "committed"
    /\ at' = "reveal"
    /\ UNCHANGED <<opening, phase, won, err, current>>

\* POST /packs/openings/:id/reveal has been served: the card is the user's.
Reveal ==
    /\ at = "reveal"
    /\ opening' = [opening EXCEPT ![current] = "SETTLED"]
    /\ at' = "revealed"
    /\ UNCHANGED <<phase, won, err, current>>

\* The result has been read.
Result ==
    /\ at = "revealed"
    /\ won' = current /\ phase' = "done"
    /\ at' = "load"
    /\ UNCHANGED <<opening, err, current>>

\* The user's row and the pack have been loaded again; a failure to load the pack
\* takes the place of the card.
Loaded ==
    /\ at = "load"
    /\ err' \in BOOLEAN
    /\ at' = "rest"
    /\ UNCHANGED <<opening, phase, won, current>>

\* catch: a call before the result is refused, or it or its answer lost.
Fail ==
    /\ at \in {"commit", "committed", "reveal", "revealed"}
    /\ err' = TRUE /\ phase' = "idle" /\ at' = "rest"
    /\ UNCHANGED <<opening, won, current>>

\* The page is loaded again; the opening is forgotten.
Reload == Fresh /\ UNCHANGED opening

Next ==
    \/ Open
    \/ \E o \in Openings : Commit(o)
    \/ Reel
    \/ Reveal
    \/ Result
    \/ Loaded
    \/ Fail
    \/ Reload

Spec == Init /\ [][Next]_vars

-----------------------------------------------------------------------------
\* A page at rest has the card of what the user has paid for, or an error: no
\* opening is left to be revealed (open).
PrizeOrError ==
    at = "rest" => \/ err
                   \/ /\ \A o \in Openings : opening[o] # "COMMITTED"
                      /\ phase = "done" => won # NoOpening /\ opening[won] = "SETTLED"
=============================================================================
