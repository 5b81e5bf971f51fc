------------------------------ MODULE MCUsers ------------------------------
(* The users: the two modules about their rows side by side (MCSpec; part says *)
(* which one runs), and the browser tab that they sit at (Web, WebSpec).       *)
(*   console    three users, one of them bootstrapped, who may promote and     *)
(*              suspend each other                                             *)
(*   referrals  the same users with their codes                                *)
(*   kyc        one user, two cases, three uploads: a complete passport, one   *)
(*              without selfie, and an ID card with a document too many        *)
(*   web        a list page with two rows and two calls in flight, the page of *)
(*              a pack with two openings, a session of two users with two      *)
(*              codes: tab says which one runs                                 *)
(* overlapped remembers that two requests have been in flight together, or that*)
(* the provider or the console set the KYC status under one: the Serial        *)
(* properties are what the handlers promise until then.                        *)
EXTENDS Kyc, TLC

CONSTANTS
    People,       \* the users of Accounts; Users are those of Kyc
    Bootstrap, Roles, Holds, Codes, NoCode,
    Rows, Form, NoRow, Openings, NoOpening

VARIABLES part, overlapped, user, areq,
          tab, raced, mixed, lossy, page, server, shown, filter, busy, err, pcall,
          session, dbUser, stored, failed, me, post, opening, phase, won, blank, at, current

MCUploads == {[type |-> "PASSPORT", documents |-> {"PASSPORT", "SELFIE"}],
              [type |-> "PASSPORT", documents |-> {"PASSPORT"}],
              [type |-> "ID_CARD",  documents |-> {"ID_FRONT", "ID_BACK", "SELFIE", "PROOF_OF_ADDRESS"}]}

A == INSTANCE Accounts WITH Users <- People, Nobody <- NoUser, req <- areq

W == INSTANCE Web WITH Users <- People, Nobody <- NoUser, Calls <- Requests,
                       part <- tab, overlapped <- raced, call <- pcall

\* What the deployment sets for the accounts.
ASSUME BootstrapAssumption == Bootstrap \subseteq People
ASSUME EnumAssumption ==
    /\ Roles \subseteq {"USER", "OPS", "ADMIN"}
    /\ Holds \subseteq {"NONE", "NEW_ACCOUNT", "MANUAL_REVIEW", "SUSPENDED"}

\* The values that stand for none, and for the form of a page, are none of the others.
ASSUME NoneAssumption ==
    /\ Form \notin Rows /\ NoRow \notin Rows /\ Form # NoRow
    /\ NoUser \notin People /\ NoCode \notin Codes /\ NoOpening \notin Openings

Calls == [console |-> {"setRole", "setHold"}, referrals |-> {"refer"}]

\* Two of the calls are in flight together.
Together(calls, idle) == \E r, s \in Requests : r # s /\ calls[r] # idle /\ calls[s] # idle

MCVars == <<vars, A!vars, W!WebVars, part, overlapped>>

WebStays ==
    UNCHANGED <<tab, raced, mixed, lossy, page, server, shown, filter, busy, err, pcall,
                session, dbUser, stored, failed, me, post, opening, phase, won, blank, at, current>>

MCInit == /\ part \in {"console", "referrals", "kyc"} /\ overlapped = FALSE
          /\ Init /\ A!Init
          /\ W!WebInit /\ tab = "pack"

\* Roles and holds, and referral codes, are columns of their own: the calls of the
\* one kind neither read nor write those of the other.
AccountsNext ==
    /\ part \in DOMAIN Calls /\ A!Next
    /\ \A r \in Requests : areq'[r] # A!Idle => areq'[r].op \in Calls[part]
    /\ overlapped' = (overlapped \/ Together(areq', A!Idle))
    /\ UNCHANGED <<part, vars>> /\ WebStays

KycNext ==
    /\ part = "kyc" /\ Next
    /\ overlapped' = \/ overlapped
                     \/ Together(req', Idle)
                     \/ (\E r \in Requests : req[r] # Idle) /\ req' = req /\ status' # status
    /\ UNCHANGED <<part, user, areq>> /\ WebStays

MCNext == AccountsNext \/ KycNext

MCSpec == MCInit /\ [][MCNext]_MCVars

\* One filter of a page with many stands for all of them.
Filters == {page.first, {"GRADED"}, {"APPROVED"}}

WebInit == part = "kyc" /\ overlapped = FALSE /\ Init /\ A!Init /\ W!WebInit
WebNext == W!WebNext /\ filter' \in Filters /\ UNCHANGED <<part, overlapped, user, areq, vars>>
WebSpec == WebInit /\ [][WebNext]_MCVars

Interchangeable == Permutations(Requests) \cup Permutations(Codes) \cup Permutations(Cases) \cup Permutations(People \ Bootstrap)
WebInterchangeable == Permutations(Rows) \cup Permutations(Requests) \cup Permutations(Codes)

\* One request at a time: the administrators never run out (setRole keeps the own role).
SerialAdminRemains == ~overlapped => A!AdminRemains

\* One request at a time: a role is changed by a current ADMIN, a hold by current
\* staff (setRole, setHold behind RolesGuard); a demoted one decides nothing.
SerialStaffDecide ==
    [][~overlapped' =>
          \A u \in People : A!Created(u) =>
              /\ user'[u].role # user[u].role =>
                    \E r \in Requests : areq[r] # A!Idle /\ user[areq[r].by].role = "ADMIN"
              /\ user'[u].hold # user[u].hold =>
                    \E r \in Requests : areq[r] # A!Idle /\ user[areq[r].by].role \in {"ADMIN", "OPS"}]_(A!vars)

\* One request at a time: a referrer, and the code a user has given away, stay
\* (applyReferralCode, ensureReferralCode).
SerialReferralIsFinal ==
    [][~overlapped' =>
          \A u \in People : /\ user[u].referrer # NoUser => user'[u].referrer = user[u].referrer
                            /\ user[u].code # NoCode => user'[u].code = user[u].code]_(A!vars)

\* One call at a time: a user has one case in review, also after a crash half way
\* through a submission (submitManual).
SerialOneCaseInReview == ~overlapped => OneCaseInReview

\* One call at a time: no call of the user's own takes an approval away; only
\* staff and the provider do (start, submitManual).
SerialOwnCallsKeepApproval ==
    [][~overlapped' =>
          \A r \in Requests : req[r].at \in {"in", "create", "write", "record"} /\ status[req[r].by] = "APPROVED" =>
              status'[req[r].by] = "APPROVED"]_vars

-----------------------------------------------------------------------------
\* As long as no two calls are in flight together, a page without a call in flight
\* shows its rows as they are, or an error; the user's submissions hide a failure,
\* and a press that loads nothing removes the message of one (load after every
\* mutation).  The page of a pack shows the card of what has been paid, or an error,
\* unless it is reloaded before it has got so far or after the error (open).
SerialCurrentOrError ==
    ~raced => /\ W!CurrentOrError \/ (lossy /\ (~page.says \/ page.quiet # {}))
              /\ W!K!PrizeOrError

\* Presses exclude each other as the page intends; a page that remembers only the
\* last button pressed does as long as no two different buttons are in flight
\* (busy and busyId of the pages).
SerialOneCallPerLock == (mixed /\ page.lock = "button") \/ W!OneCallPerLock

\* However presses overlap and whatever is lost, no button stays disabled once
\* nothing is in flight (the finally of every handler).
NoButtonLeftLocked == W!NoButtonLeftLocked

\* As long as no two calls are in flight together and none fails, the service takes
\* whatever a button that is drawn for the row's status asks of it.
SerialDrawnIsTaken ==
    ~raced /\ ~lossy /\ page.decides /\ W!Reloads => \A c \in Requests : pcall[c].at # "refused"

\* As long as nobody signs in or out under a load, the pages see the row of the
\* session's user, or none after a failure (refreshMe).
SerialDbUserIsSession == ~raced => W!S!DbUserIsSession

\* A referral code leaves local storage only when the API has taken it, unless a
\* link brings another code under a post (ReferralCapture).
SerialCodeKept ==
    [][~raced' /\ stored # NoCode /\ stored' = NoCode =>
          \E c \in Requests : post[c].at = "taken" /\ post[c].code = stored]_(W!S!vars)
=============================================================================
