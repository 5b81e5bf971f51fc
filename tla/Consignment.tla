---------------------------- MODULE Consignment ----------------------------
(* Cards on their way into the vault: the submissions that users mail in      *)
(* (submissions.service.ts), their daily cap (ratelimit/) and the vault items  *)
(* that ops create for them, or without them (vault.service.ts).               *)
(*                                                                             *)
(* An operation on a submission reads it, works on the vault item and then     *)
(* overwrites the submission's status (advance): the process may die, and      *)
(* other calls run, in between.  What interleavings inside the vault service   *)
(* do to an item is the subject of Custody; here each of its calls is a step.  *)
EXTENDS Naturals, FiniteSets

CONSTANTS
    Submissions,  \* rows that one user may create
    Certified,    \* those whose card has a certificate number
    Items,        \* ids of VaultItem rows
    PerDay,       \* RATE_LIMIT_SUBMISSIONS_PER_DAY
    NoItem, NoSource,
    Requests      \* calls in flight

ASSUME CertifiedAssumption == Certified \subseteq Submissions
ASSUME NullsAssumption == NoItem \notin Items /\ NoSource \notin Submissions
ASSUME LimitAssumption == PerDay \in Nat
ASSUME FiniteAssumption == IsFiniteSet(Submissions) /\ IsFiniteSet(Requests)

VARIABLES
    submission,   \* status and linked item
    item,         \* state, source (a submission or none) and token
    hits,         \* the user's counter of the day in Redis
    outage,       \* Redis has failed on that day
    req           \* the calls in flight

vars == <<submission, item, hits, outage, req>>

Unborn     == {"NONE", "DRAFT", "LABEL_GENERATED", "IN_TRANSIT"}
Processing == {"RECEIVED", "AUTHENTICATING", "GRADING", "PHOTOGRAPHED", "MINTED"}
Statuses   == Unborn \cup Processing \cup {"REJECTED", "CANCELLED"}

NoRow   == [status |-> "NONE", item |-> NoItem]
NoVault == [state |-> "NONE", source |-> NoSource, token |-> FALSE]
Idle    == [at |-> "idle"]

\* What a call in flight carries: the submission it is on, the item it works on, and
\* the status it is about to write.
CallState ==
         [at : {"idle", "create"}]
    \cup [at : {"intake"}, on : Submissions]
    \cup [at : {"authenticate", "grade", "photos", "mint"}, on : Submissions, item : Items]
    \cup [at : {"advance"}, on : Submissions, status : Statuses \ {"NONE"}, item : Items \cup {NoItem}]

TypeOK ==
    /\ submission \in [Submissions -> [status: Statuses, item: Items \cup {NoItem}]]
    /\ item \in [Items -> [state: {"NONE", "INTAKE", "AUTHENTICATING", "GRADED", "VAULTED"},
                           source: Submissions \cup {NoSource}, token: BOOLEAN]]
    /\ hits \in Nat /\ outage \in BOOLEAN
    /\ req \in [Requests -> CallState]

Init ==
    /\ submission = [s \in Submissions |-> NoRow]
    /\ item = [i \in Items |-> NoVault]
    /\ hits = 0 /\ outage = FALSE
    /\ req = [r \in Requests |-> Idle]

Exists(s) == submission[s].status # "NONE"
Done(r)   == req' = [req EXCEPT ![r] = Idle]
Go(r, step) == req' = [req EXCEPT ![r] = step]

-----------------------------------------------------------------------------
\* Mutant of Allowed: the count is taken before the increment.
AllowedBefore(count) == count - 1 <= PerDay

\* The decision of RateLimitService.hit on the counter that INCR has returned.
Allowed(count) == count <= PerDay

\* RateLimitGuard: INCR is atomic; an error of Redis, in INCR or in the EXPIRE
\* that follows the first one, lets the call through.  A refused call counts too,
\* which changes nothing: the next ones are refused as well.
Hit(r) ==
    /\ req[r] = Idle
    /\ \/ /\ hits' = hits + 1
          /\ Allowed(hits')
          /\ UNCHANGED outage
       \/ /\ outage' = TRUE
          /\ hits' = hits \/ (hits = 0 /\ hits' = 1)
    /\ Go(r, [at |-> "create"])
    /\ UNCHANGED <<submission, item>>

Create(r, s) ==
    /\ req[r].at = "create"
    /\ ~Exists(s)
    /\ submission' = [submission EXCEPT ![s] = [NoRow EXCEPT !.status = "DRAFT"]]
    /\ Done(r)
    /\ UNCHANGED <<item, hits, outage>>

-----------------------------------------------------------------------------
\* Statuses from which a user's or operator's call moves on, and where to.
\* generateLabel, markShipped, cancel and reject read the row and overwrite it.
Moves == [label |-> {"DRAFT"}, ship |-> {"LABEL_GENERATED"}, cancel |-> Statuses \ (Processing \cup {"NONE"}),
          reject |-> Statuses \ {"NONE"}]
MovesTo == [label |-> "LABEL_GENERATED", ship |-> "IN_TRANSIT", cancel |-> "CANCELLED", reject |-> "REJECTED"]

MoveRead(r, s, op) ==
    /\ req[r] = Idle
    /\ submission[s].status \in Moves[op]
    /\ Go(r, [at |-> "advance", on |-> s, status |-> MovesTo[op], item |-> NoItem])
    /\ UNCHANGED <<submission, item, hits, outage>>

\* advance: status and, on receipt, the link, whatever the row has become.
Advance(r) ==
    /\ req[r].at = "advance"
    /\ submission' = [submission EXCEPT
           ![req[r].on].status = req[r].status,
           ![req[r].on].item = IF req[r].item = NoItem THEN @ ELSE req[r].item]
    /\ Done(r)
    /\ UNCHANGED <<item, hits, outage>>

-----------------------------------------------------------------------------
\* Mutant of Receivable: a received submission may be received again.
ReceivableAgain(s) == submission[s].status \notin {"NONE", "CANCELLED", "REJECTED"}

\* receive: not received yet, and still wanted.
Receivable(s) ==
    /\ submission[s].item = NoItem
    /\ submission[s].status \notin {"NONE", "CANCELLED", "REJECTED"}

ReceiveRead(r, s) ==
    /\ req[r] = Idle
    /\ Receivable(s)
    /\ Go(r, [at |-> "intake", on |-> s])
    /\ UNCHANGED <<submission, item, hits, outage>>

\* PhysicalCard has a unique (grader, certNumber); cards without a number are not kept apart.
CertificateFree(s) == s \in Certified => \A i \in Items : item[i].source # s

\* createIntake on behalf of the submission; its link comes with the advance.
ReceiveIntake(r, i) ==
    /\ req[r].at = "intake"
    /\ item[i] = NoVault
    /\ CertificateFree(req[r].on)
    /\ item' = [item EXCEPT ![i] = [state |-> "INTAKE", source |-> req[r].on, token |-> FALSE]]
    /\ Go(r, [at |-> "advance", on |-> req[r].on, status |-> "RECEIVED", item |-> i])
    /\ UNCHANGED <<submission, hits, outage>>

\* authenticate, grade, addPhotos and mint need the linked item (requireVaultItem).
WorkRead(r, s, op) ==
    /\ req[r] = Idle
    /\ submission[s].item # NoItem
    /\ Go(r, [at |-> op, on |-> s, item |-> submission[s].item])
    /\ UNCHANGED <<submission, item, hits, outage>>

\* startAuthentication, setGrade and vault, by a submission or from the vault console.
Transition(i, from, to) ==
    /\ item[i].state = from
    /\ item' = [item EXCEPT ![i].state = to, ![i].token = (to = "VAULTED")]

Authenticate(i) == Transition(i, "INTAKE", "AUTHENTICATING")
Grade(i)        == Transition(i, "AUTHENTICATING", "GRADED")

\* Mutant of Vault: an item that is not graded yet is passed over in silence.
VaultLater(i) ==
    \/ Transition(i, "GRADED", "VAULTED")
    \/ item[i].state # "GRADED" /\ UNCHANGED item

\* vault mints and records the token; again on a vaulted item it does nothing.
Vault(i) ==
    \/ Transition(i, "GRADED", "VAULTED")
    \/ item[i].state = "VAULTED" /\ UNCHANGED item

AddPhotos(i) == item[i].state # "NONE" /\ UNCHANGED item

Works(i, op) ==
    \/ op = "authenticate" /\ Authenticate(i)
    \/ op = "grade"        /\ Grade(i)
    \/ op = "photos"       /\ AddPhotos(i)
    \/ op = "mint"         /\ Vault(i)

WorksTo == [authenticate |-> "AUTHENTICATING", grade |-> "GRADING", photos |-> "PHOTOGRAPHED", mint |-> "MINTED"]

Work(r, op) ==
    /\ req[r].at = op
    /\ Works(req[r].item, op)
    /\ Go(r, [at |-> "advance", on |-> req[r].on, status |-> WorksTo[op], item |-> NoItem])
    /\ UNCHANGED <<submission, hits, outage>>

-----------------------------------------------------------------------------
\* The vault console works on items directly.
Console(i) ==
    /\ Authenticate(i) \/ Grade(i) \/ Transition(i, "GRADED", "VAULTED")
    /\ UNCHANGED <<submission, hits, outage, req>>

\* createIntake and createIntakeFromEbayListing: an item that no submission stands
\* behind.  An offer that was taken in can be taken in again.
Intake(i) ==
    /\ item[i] = NoVault
    /\ item' = [item EXCEPT ![i].state = "INTAKE"]
    /\ UNCHANGED <<submission, hits, outage, req>>

\* A guard or the unique index refuses, or the process dies.
Abort(r) ==
    /\ req[r] # Idle
    /\ Done(r)
    /\ UNCHANGED <<submission, item, hits, outage>>

Step(r) ==
    \/ Hit(r)
    \/ \E s \in Submissions : Create(r, s)
    \/ \E s \in Submissions, op \in DOMAIN Moves : MoveRead(r, s, op)
    \/ \E s \in Submissions : ReceiveRead(r, s)
    \/ \E i \in Items : ReceiveIntake(r, i)
    \/ \E s \in Submissions, op \in DOMAIN WorksTo : WorkRead(r, s, op)
    \/ \E op \in DOMAIN WorksTo : Work(r, op)
    \/ Advance(r)
    \/ Abort(r)

Operate ==
    \/ \E i \in Items : Console(i)
    \/ \E i \in Items : Intake(i)

Next == (\E r \in Requests : Step(r)) \/ Operate

Spec == Init /\ [][Next]_vars

-----------------------------------------------------------------------------
\* The submissions of a day never exceed its cap, however many calls run at once,
\* unless Redis has failed that day (fail-open).
DailyCap == ~outage => Cardinality({s \in Submissions : Exists(s)}) <= PerDay

\* A submission that says MINTED has the token of its card in the user's wallet.
MintedHasToken ==
    \A s \in Submissions : submission[s].status = "MINTED" =>
        submission[s].item # NoItem /\ item[submission[s].item].token

\* The vault has one item of a submission, and the submission is linked to it, as
\* soon as no call is at work on it.
ItemIsLinked ==
    \A i \in Items : item[i].source \in Submissions =>
        \/ submission[item[i].source].item = i
        \/ \E r \in Requests : req[r].at = "advance" /\ req[r].item = i
=============================================================================
