------------------------------ MODULE Session ------------------------------
(* The browser tab of a user: the row of the signed-in user that all pages     *)
(* look at (auth-context.tsx) and the referral code that waits in local        *)
(* storage until the API has taken it (referral-capture.tsx).                  *)
(*                                                                             *)
(* Privy signs users in and out; it is external.  A call first asks for the    *)
(* access token, then it is sent, answered, and its answer is used; a reload   *)
(* forgets the calls of the page, local storage stays.  Other tabs of the      *)
(* browser may store a code too.                                               *)
CONSTANTS
    Users, Nobody,
    Codes, NoCode,   \* referral codes of links that lead to the application
    Calls            \* slots of calls in flight, for each of the two endpoints

VARIABLES
    session,   \* the user that Privy says is signed in
    dbUser,    \* the user row that the pages see
    stored,    \* the code in local storage
    failed,    \* the last load of the row has failed
    me,        \* calls of /me in flight
    post       \* calls of /me/referrals in flight

vars == <<session, dbUser, stored, failed, me, post>>

Idle == [at |-> "idle"]
None == [c \in Calls |-> Idle]

TypeOK ==
    /\ session \in Users \cup {Nobody} /\ dbUser \in Users \cup {Nobody}
    /\ stored \in Codes \cup {NoCode} /\ failed \in BOOLEAN
    /\ \A c \in Calls : me[c].at \in {"idle", "token", "sent"} /\ post[c].at \in {"idle", "sent", "taken"}

Init ==
    /\ session = Nobody /\ dbUser = Nobody
    /\ stored \in Codes \cup {NoCode} /\ failed = FALSE
    /\ me = None /\ post = None

-----------------------------------------------------------------------------
\* Mutant of RefreshMe: without a session it leaves the row as it is.
RefreshMeKeeps(user, calls, c) ==
    /\ calls[c] = Idle
    /\ me' = IF user = Nobody THEN calls ELSE [calls EXCEPT ![c] = [at |-> "token"]]
    /\ UNCHANGED <<dbUser, failed>>

\* refreshMe: no row without a session; otherwise it is loaded, and the old row
\* stays until then.
RefreshMe(user, calls, c) ==
    /\ calls[c] = Idle
    /\ \/ user = Nobody /\ dbUser' = Nobody /\ failed' = FALSE /\ me' = calls
       \/ user # Nobody /\ me' = [calls EXCEPT ![c] = [at |-> "token"]] /\ UNCHANGED <<dbUser, failed>>

\* The cleanup of the effect: answers to earlier posts no longer count.
Deactivated(calls) == [c \in Calls |-> IF calls[c] = Idle THEN Idle ELSE [calls[c] EXCEPT !.active = FALSE]]

\* The effect of ReferralCapture: with a session, a stored code is posted.
PostCode(user, calls, c) ==
    /\ calls[c] = Idle
    /\ post' = IF user = Nobody \/ stored' = NoCode THEN calls
               ELSE [calls EXCEPT ![c] = [at |-> "sent", code |-> stored', active |-> TRUE]]

\* Both effects run when Privy has changed the session; a user signs out before
\* another one signs in.
SessionChanges(user, c, d) ==
    /\ (user = Nobody) # (session = Nobody)
    /\ session' = user
    /\ UNCHANGED stored
    /\ RefreshMe(user, me, c)
    /\ PostCode(user, Deactivated(post), d)

\* A page calls refreshMe after it has changed something.
PageRefreshes(c) ==
    /\ RefreshMe(session, me, c)
    /\ UNCHANGED <<session, stored, post>>

\* apiFetch: the token is that of the session at this time.
Token(c) ==
    /\ me[c].at = "token"
    /\ me' = [me EXCEPT ![c] = [at |-> "sent", by |-> session]]
    /\ UNCHANGED <<session, dbUser, stored, failed, post>>

\* The row arrives and is shown, whoever is signed in by now.
Loaded(c) ==
    /\ me[c].at = "sent" /\ me[c].by # Nobody
    /\ dbUser' = me[c].by /\ failed' = FALSE
    /\ me' = [me EXCEPT ![c] = Idle]
    /\ UNCHANGED <<session, stored, post>>

LoadFails(c) ==
    /\ me[c].at # "idle"
    /\ dbUser' = Nobody /\ failed' = TRUE
    /\ me' = [me EXCEPT ![c] = Idle]
    /\ UNCHANGED <<session, stored, post>>

-----------------------------------------------------------------------------
\* The page is opened, by a link with a code or without one, or reloaded.
Visit(code, c, d) ==
    /\ stored' = IF code = NoCode THEN stored ELSE code
    /\ dbUser' = Nobody /\ failed' = FALSE
    /\ me' = IF session = Nobody THEN None ELSE [None EXCEPT ![c] = [at |-> "token"]]
    /\ PostCode(session, None, d)
    /\ UNCHANGED session

\* A link with a code is opened in another tab.
OtherTab(code) == stored' = code /\ UNCHANGED <<session, dbUser, failed, me, post>>

\* The API takes the code (Accounts); it refuses an unknown one, and the own one.
Take(c) ==
    /\ post[c].at = "sent"
    /\ post' = [post EXCEPT ![c].at = "taken"]
    /\ UNCHANGED <<session, dbUser, stored, failed, me>>

\* then: an answer of the running effect removes the code.
Taken(c) ==
    /\ post[c].at = "taken"
    /\ stored' = IF post[c].active THEN NoCode ELSE stored
    /\ post' = [post EXCEPT ![c] = Idle]
    /\ UNCHANGED <<session, dbUser, failed, me>>

\* Mutant of PostFails: the code is removed whatever the answer (finally).
PostFailsAndForgets(c) ==
    /\ post[c].at # "idle"
    /\ stored' = IF post[c].active THEN NoCode ELSE stored
    /\ post' = [post EXCEPT ![c] = Idle]
    /\ UNCHANGED <<session, dbUser, failed, me>>

\* catch: the code stays for a later attempt.
PostFails(c) ==
    /\ post[c].at # "idle"
    /\ post' = [post EXCEPT ![c] = Idle]
    /\ UNCHANGED <<session, dbUser, stored, failed, me>>

Next ==
    \E c \in Calls :
        \/ \E user \in Users \cup {Nobody}, d \in Calls : SessionChanges(user, c, d)
        \/ \E code \in Codes \cup {NoCode}, d \in Calls : Visit(code, c, d)
        \/ \E code \in Codes : OtherTab(code)
        \/ PageRefreshes(c)
        \/ Token(c)
        \/ Loaded(c)
        \/ LoadFails(c)
        \/ Take(c)
        \/ Taken(c)
        \/ PostFails(c)

Spec == Init /\ [][Next]_vars

-----------------------------------------------------------------------------
\* When no load is in flight the pages see the row of the session's user, or none
\* after a failed load (refreshMe).
DbUserIsSession == me = None => (dbUser = session \/ (failed /\ dbUser = Nobody))
=============================================================================
