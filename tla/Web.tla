-------------------------------- MODULE Web --------------------------------
(* One browser tab: a list page with its rows and calls in flight, the page    *)
(* of a pack, or the session with its referral code.  part says which one      *)
(* runs.                                                                       *)
(*   overlapped  two calls of the page have been in flight together; the page  *)
(*               of a pack has been reloaded under a call or after an error; in *)
(*               the session the user changed, or a code came, under a call    *)
(*   mixed       two presses of different buttons have been in flight together *)
(*   lossy       a call has failed                                             *)
EXTENDS Console

CONSTANTS Users, Nobody, Codes, NoCode, Openings, NoOpening

VARIABLES part, overlapped, mixed, lossy, session, dbUser, stored, failed, me, post,
          opening, phase, won, blank, at, current

S == INSTANCE Session
K == INSTANCE PackPage WITH err <- blank

InFlight == {c \in Calls : call[c] # Idle}

WebVars == <<vars, S!vars, K!vars, part, overlapped, mixed, lossy>>

WebInit ==
    /\ part \in {"pages", "pack", "session"}
    /\ overlapped = FALSE /\ mixed = FALSE /\ lossy = FALSE
    /\ Init /\ S!Init /\ K!Init
    /\ part # "pages" => page = TreasuryPage
    /\ part # "session" => stored = NoCode

PagesNext ==
    /\ part = "pages" /\ Next
    /\ overlapped' = (overlapped \/ \E c, d \in InFlight' : c # d)
    /\ mixed' = \/ mixed
                \/ \E c, d \in InFlight' : /\ Pressed(c)' /\ Pressed(d)'
                                           /\ <<call'[c].row, call'[c].op>> # <<call'[d].row, call'[d].op>>
    /\ lossy' = (lossy \/ err' \/ \E c \in Calls : call'[c].at = "lost")
    /\ UNCHANGED <<part, session, dbUser, stored, failed, me, post, opening, phase, won, blank, at, current>>

SessionNext ==
    /\ part = "session" /\ S!Next
    /\ overlapped' = \/ overlapped
                     \/ session' # session /\ \E c \in Calls : me[c].at # "idle"
                     \/ stored' \notin {NoCode, stored} /\ \E c \in Calls : post'[c].at # "idle" /\ post'[c].code # stored'
    /\ UNCHANGED <<part, mixed, lossy, page, server, shown, filter, busy, err, call, opening, phase, won, blank, at, current>>

PackNext ==
    /\ part = "pack" /\ K!Next
    /\ overlapped' = \/ overlapped
                     \/ (at # "rest" \/ blank) /\ <<phase', blank', current'>> = <<"idle", FALSE, NoOpening>>
    /\ UNCHANGED <<part, mixed, lossy, page, server, shown, filter, busy, err, call,
                   session, dbUser, stored, failed, me, post>>

WebNext == PagesNext \/ PackNext \/ SessionNext

WebSpec == WebInit /\ [][WebNext]_WebVars
=============================================================================
