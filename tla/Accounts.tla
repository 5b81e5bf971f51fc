------------------------------ MODULE Accounts ------------------------------
(* User rows and who may change them: the guard that provisions a user on the  *)
(* first login, role changes, account holds and referral codes (auth/, users/). *)
(*                                                                              *)
(* Every request carries the row its guard read: handlers decide on that        *)
(* snapshot and write to the row as it then is.  A request keeps of the         *)
(* snapshot only the columns its operation looks at.                            *)
EXTENDS FiniteSets

CONSTANTS
    Users,        \* Privy DIDs, each of which may log in
    Bootstrap,    \* those whose e-mail is in ADMIN_BOOTSTRAP_EMAILS
    Roles,        \* the values of UserRole that may be set
    Holds,        \* the values of AccountHold that may be set
    Codes,        \* referral codes that randomBytes may return
    NoCode, Nobody,
    Requests      \* calls in flight

VARIABLES
    user,   \* the User row of every DID; role "ABSENT" before its first login
    req     \* the calls in flight

vars == <<user, req>>

\* The columns of the snapshot that an operation reads.
Reads == [setRole |-> {"role"}, setHold |-> {"role"}, refer |-> {"code", "referrer"}]

Idle == [at |-> "idle"]

AbsentUser == [role |-> "ABSENT", hold |-> "NEW_ACCOUNT", code |-> NoCode, referrer |-> Nobody]

Created(u) == user[u].role # "ABSENT"

Row == [role: Roles \cup {"ABSENT", "USER", "ADMIN"}, hold: Holds \cup {"NONE", "NEW_ACCOUNT"},
        code: Codes \cup {NoCode}, referrer: Users \cup {Nobody}]

Snapshot(op, row) == [c \in Reads[op] |-> row[c]]

\* What a call in flight carries: the DID, its operation, and past the guard the
\* snapshot, or the referrer that the code led to.
CallState ==
         [at : {"idle"}]
    \cup [at : {"first"}, by : Users, op : DOMAIN Reads]
    \cup [at : {"in"}, by : Users, op : DOMAIN Reads, seen : {Snapshot(op, row) : op \in DOMAIN Reads, row \in Row}]
    \cup [at : {"apply"}, by : Users, op : {"refer"}, referrer : Users]

TypeOK ==
    /\ user \in [Users -> Row]
    /\ req \in [Requests -> CallState]

Init ==
    /\ user = [u \in Users |-> AbsentUser]
    /\ req = [r \in Requests |-> Idle]

Admit(r, u, op, row) == req' = [req EXCEPT ![r] = [at |-> "in", by |-> u, op |-> op, seen |-> Snapshot(op, row)]]

Done(r) == req' = [req EXCEPT ![r] = Idle]

In(r, op) == req[r].at = "in" /\ req[r].op = op

-----------------------------------------------------------------------------
\* PrivyAuthGuard and syncUser: the row of the DID, which may not exist yet.
Authenticate(r, u, op) ==
    /\ req[r] = Idle
    /\ \/ Created(u) /\ Admit(r, u, op, user[u])
       \/ ~Created(u) /\ req' = [req EXCEPT ![r] = [at |-> "first", by |-> u, op |-> op]]
    /\ UNCHANGED user

\* The row of a first login: bootstrap e-mails make admins, all others start on hold.
NewUser(u) ==
    IF u \in Bootstrap THEN [AbsentUser EXCEPT !.role = "ADMIN", !.hold = "NONE"]
                       ELSE [AbsentUser EXCEPT !.role = "USER"]

\* privyId is unique: of two first logins the second create fails (Abort).
Provision(r) ==
    /\ req[r].at = "first"
    /\ ~Created(req[r].by)
    /\ user' = [user EXCEPT ![req[r].by] = NewUser(req[r].by)]
    /\ Admit(r, req[r].by, req[r].op, NewUser(req[r].by))

-----------------------------------------------------------------------------
\* Mutant of MayDecide: operations staff may do all that the console offers.
MayDecideAsStaff(op, role) == op \in {"setRole", "setHold"} /\ role \in {"ADMIN", "OPS"}

\* RolesGuard on the admin console: ADMIN for roles, ADMIN or OPS for holds.
MayDecide(op, role) == role \in IF op = "setRole" THEN {"ADMIN"} ELSE {"ADMIN", "OPS"}

\* Mutant of KeepsOwnRole: an admin may not change the own role to USER only.
KeepsOwnRoleAsOps(by, t, role) == by = t => role # "USER"

\* An admin cannot remove the own ADMIN role.
KeepsOwnRole(by, t, role) == by = t => role = "ADMIN"

SetRole(r, t, role) ==
    /\ In(r, "setRole")
    /\ MayDecide("setRole", req[r].seen.role)
    /\ Created(t)
    /\ KeepsOwnRole(req[r].by, t, role)
    /\ user' = [user EXCEPT ![t].role = role]
    /\ Done(r)

SetHold(r, t, hold) ==
    /\ In(r, "setHold")
    /\ MayDecide("setHold", req[r].seen.role)
    /\ Created(t)
    /\ user' = [user EXCEPT ![t].hold = hold]
    /\ Done(r)

-----------------------------------------------------------------------------
\* ensureReferralCode: a fresh code, which the unique index keeps from two users,
\* unless the snapshot has one; the update returns the row as it now is.
EnsureCode(r, c) ==
    /\ In(r, "refer")
    /\ req[r].seen.code = NoCode
    /\ \A u \in Users : user[u].code # c
    /\ user' = [user EXCEPT ![req[r].by].code = c]
    /\ Admit(r, req[r].by, "refer", [user[req[r].by] EXCEPT !.code = c])

\* Mutant of Unreferred: a code that is entered again is looked up again.
UnreferredOrAgain(row) == row.code # NoCode

\* A user with a referrer gets the summary; the code is not looked up.
Unreferred(row) == row.code # NoCode /\ row.referrer = Nobody

\* applyReferralCode: finds the owner of the code, which may not be the caller.
FindReferrer(r, u) ==
    /\ In(r, "refer")
    /\ Unreferred(req[r].seen)
    /\ user[u].code \notin {NoCode, req[r].seen.code}
    /\ u # req[r].by
    /\ req' = [req EXCEPT ![r] = [at |-> "apply", by |-> req[r].by, op |-> "refer", referrer |-> u]]
    /\ UNCHANGED user

ApplyReferral(r) ==
    /\ req[r].at = "apply"
    /\ user' = [user EXCEPT ![req[r].by].referrer = req[r].referrer]
    /\ Done(r)

-----------------------------------------------------------------------------
\* A guard refuses, the call only reads, an insert fails or the process dies.
Abort(r) ==
    /\ req[r] # Idle
    /\ Done(r)
    /\ UNCHANGED user

Step(r) ==
    \/ \E u \in Users, op \in DOMAIN Reads : Authenticate(r, u, op)
    \/ Provision(r)
    \/ \E t \in Users, role \in Roles : SetRole(r, t, role)
    \/ \E t \in Users, hold \in Holds : SetHold(r, t, hold)
    \/ \E c \in Codes : EnsureCode(r, c)
    \/ \E u \in Users : FindReferrer(r, u)
    \/ ApplyReferral(r)
    \/ Abort(r)

Next == \E r \in Requests : Step(r)

Spec == Init /\ [][Next]_vars

-----------------------------------------------------------------------------
\* Once an administrator has been bootstrapped there is one: whoever demotes the
\* others keeps the own role (users.service.ts, setRole).
AdminRemains ==
    (\E u \in Bootstrap : Created(u)) => \E u \in Users : user[u].role = "ADMIN"
=============================================================================
