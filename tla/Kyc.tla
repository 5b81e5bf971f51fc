-------------------------------- MODULE Kyc --------------------------------
(* KYC cases (kyc.service.ts): starting one, uploading identity documents,    *)
(* review by staff, the provider's webhook and the status that staff set by   *)
(* hand.  Withdrawals look at the status of the user, staff at the cases.     *)
(*                                                                            *)
(* A call carries the user row that the auth guard read.  submitManual is     *)
(* five steps: it checks, creates the case, writes the files, records them in *)
(* a transaction and, when writing or recording fails, deletes the case; the  *)
(* process may die after any of them.                                         *)
EXTENDS Naturals, FiniteSets

CONSTANTS
    Users,
    Cases,        \* ids of KycSubmission rows
    Uploads,      \* inputs of submitManual: [type, documents]
    Manual,       \* KYC_PROVIDER is "manual"
    RealKyc,      \* ENABLE_REAL_KYC
    NoUser,
    Requests      \* calls in flight

DocumentTypes == {"ID_FRONT", "ID_BACK", "DRIVERS_LICENSE_FRONT", "DRIVERS_LICENSE_BACK", "PASSPORT",
                  "SELFIE", "PROOF_OF_ADDRESS"}
IdentityTypes == {"ID_CARD", "DRIVERS_LICENSE", "PASSPORT"}
Statuses      == {"NONE", "PENDING", "APPROVED", "REJECTED"}
Decisions     == {"APPROVED", "REJECTED"}
MaxDocuments  == 5

ASSUME ConfigAssumption ==
    /\ Manual \in BOOLEAN /\ RealKyc \in BOOLEAN
    /\ Uploads \subseteq [type: IdentityTypes, documents: SUBSET DocumentTypes]

VARIABLES
    status,   \* User.kycStatus
    case,     \* the KycSubmission rows with their KycDocument rows
    files,    \* the cases whose files are in the upload directory
    req       \* the calls in flight

vars == <<status, case, files, req>>

NoCase == [user |-> NoUser, status |-> "NONE", type |-> "PASSPORT", documents |-> {}]
Idle   == [at |-> "idle"]

Exists(c) == case[c].status \in {"PENDING", "APPROVED", "REJECTED"}

\* What a call in flight carries: the user of the token with the status its guard
\* read, the upload, the case it works on.
CallState ==
         [at : {"idle"}]
    \cup [at : {"in"}, by : Users, seen : Statuses]
    \cup [at : {"create"}, by : Users, upload : Uploads]
    \cup [at : {"write", "record"}, by : Users, upload : Uploads, on : Cases]
    \cup [at : {"review"}, on : Cases, of : Users \cup {NoUser}]

TypeOK ==
    /\ status \in [Users -> Statuses]
    /\ case \in [Cases -> [user: Users \cup {NoUser}, status: Statuses \cup {"DELETED"}, type: IdentityTypes,
                           documents: SUBSET DocumentTypes]]
    /\ files \subseteq Cases
    /\ req \in [Requests -> CallState]

Init ==
    /\ status = [u \in Users |-> "NONE"]
    /\ case = [c \in Cases |-> NoCase]
    /\ files = {}
    /\ req = [r \in Requests |-> Idle]

Done(r) == req' = [req EXCEPT ![r] = Idle]

\* Mutant of Open: an approved user may start again.
OpenToAll(snapshot) == snapshot \in Statuses

\* start and submitManual refuse the user whose snapshot is APPROVED.
Open(snapshot) == snapshot # "APPROVED"

\* The auth guard of a user's call reads the row.
Enter(r, u) ==
    /\ req[r] = Idle
    /\ req' = [req EXCEPT ![r] = [at |-> "in", by |-> u, seen |-> status[u]]]
    /\ UNCHANGED <<status, case, files>>

\* start: the status becomes PENDING, without a case.
Start(r) ==
    /\ req[r].at = "in"
    /\ Open(req[r].seen)
    /\ Manual \/ RealKyc
    /\ status' = [status EXCEPT ![req[r].by] = "PENDING"]
    /\ Done(r)
    /\ UNCHANGED <<case, files>>

-----------------------------------------------------------------------------
\* requiredDocuments.
Required(type) ==
    CASE type = "PASSPORT" -> {"PASSPORT", "SELFIE"}
      [] type = "DRIVERS_LICENSE" -> {"DRIVERS_LICENSE_FRONT", "DRIVERS_LICENSE_BACK", "SELFIE"}
      [] OTHER -> {"ID_FRONT", "ID_BACK", "SELFIE"}

\* Mutant of Valid: only the number of documents counts.
ValidSize(upload) == Cardinality(upload.documents) \in 1 .. MaxDocuments

\* validateManualSubmission: between one document and MAX_DOCUMENTS, none missing.
Valid(upload) ==
    /\ Cardinality(upload.documents) \in 1 .. MaxDocuments
    /\ Required(upload.type) \subseteq upload.documents

\* Mutant of Waiting: only cases that have their documents count.
WaitingDocumented(u) == {c \in Cases : case[c].user = u /\ case[c].status = "PENDING" /\ case[c].documents # {}}

\* The cases of a user that wait for review.
Waiting(u) == {c \in Cases : case[c].user = u /\ case[c].status = "PENDING"}

SubmitCheck(r, upload) ==
    /\ req[r].at = "in"
    /\ Manual
    /\ Open(req[r].seen)
    /\ Waiting(req[r].by) = {}
    /\ Valid(upload)
    /\ req' = [req EXCEPT ![r] = [at |-> "create", by |-> req[r].by, upload |-> upload]]
    /\ UNCHANGED <<status, case, files>>

SubmitCreate(r, c) ==
    /\ req[r].at = "create"
    /\ case[c] = NoCase
    /\ case' = [case EXCEPT ![c] = [user |-> req[r].by, status |-> "PENDING", type |-> req[r].upload.type,
                                    documents |-> {}]]
    /\ req' = [req EXCEPT ![r] = [at |-> "write", by |-> req[r].by, upload |-> req[r].upload, on |-> c]]
    /\ UNCHANGED <<status, files>>

\* The uploads are decoded and written, all of them or the call fails (SubmitUndo).
SubmitWrite(r) ==
    /\ req[r].at = "write"
    /\ files' = files \cup {req[r].on}
    /\ req' = [req EXCEPT ![r].at = "record"]
    /\ UNCHANGED <<status, case>>

\* One transaction records the documents and sets the user PENDING.
SubmitRecord(r) ==
    /\ req[r].at = "record"
    /\ case' = [case EXCEPT ![req[r].on].documents = req[r].upload.documents]
    /\ status' = [status EXCEPT ![req[r].by] = "PENDING"]
    /\ Done(r)
    /\ UNCHANGED files

\* A bad upload, a full disk or a refused transaction: the case is deleted, whatever
\* its status has become; the files stay.
SubmitUndo(r) ==
    /\ req[r].at \in {"write", "record"}
    /\ case' = [case EXCEPT ![req[r].on] = [NoCase EXCEPT !.status = "DELETED"]]
    /\ Done(r)
    /\ UNCHANGED <<status, files>>

-----------------------------------------------------------------------------
\* Staff find a case, reviewed or not, and decide it; the case may have been
\* deleted in between, and the update fails.
ReviewRead(r, c) ==
    /\ req[r] = Idle
    /\ Exists(c)
    /\ req' = [req EXCEPT ![r] = [at |-> "review", on |-> c, of |-> case[c].user]]
    /\ UNCHANGED <<status, case, files>>

\* The transaction of review writes the decision to the case and to its user.
Decide(c, u, decision) ==
    /\ case' = [case EXCEPT ![c].status = decision]
    /\ status' = [status EXCEPT ![u] = decision]

ReviewCommit(r, decision) ==
    /\ req[r].at = "review"
    /\ Exists(req[r].on)
    /\ Decide(req[r].on, req[r].of, decision)
    /\ Done(r)
    /\ UNCHANGED files

\* The provider's word has to be one of the values of KycStatus.
Known(s) == s \in Statuses

\* The provider's decision: any status, in any order, and again on a retry.
Webhook(u, s) ==
    /\ RealKyc
    /\ Known(s)
    /\ status' = [status EXCEPT ![u] = s]
    /\ UNCHANGED <<case, files, req>>

\* The admin console sets any status (UsersService.setKyc).
SetKyc(u, s) ==
    /\ status' = [status EXCEPT ![u] = s]
    /\ UNCHANGED <<case, files, req>>

\* A guard refuses or the process dies: what the call has written stays.
Abort(r) ==
    /\ req[r] # Idle
    /\ Done(r)
    /\ UNCHANGED <<status, case, files>>

Step(r) ==
    \/ \E u \in Users : Enter(r, u)
    \/ Start(r)
    \/ \E upload \in Uploads : SubmitCheck(r, upload)
    \/ \E c \in Cases : SubmitCreate(r, c)
    \/ SubmitWrite(r)
    \/ SubmitRecord(r)
    \/ SubmitUndo(r)
    \/ \E c \in Cases : ReviewRead(r, c)
    \/ \E decision \in Decisions : ReviewCommit(r, decision)
    \/ Abort(r)

Operate ==
    \E u \in Users :
        \/ \E s \in Statuses \cup {"EXPIRED"} : Webhook(u, s)
        \/ \E s \in Statuses : SetKyc(u, s)

Next == (\E r \in Requests : Step(r)) \/ Operate

Spec == Init /\ [][Next]_vars

-----------------------------------------------------------------------------
\* A case has no documents at all, or every document its identity type requires,
\* with the files on disk (submitManual): whatever fails half way, staff never see
\* a case with a part of its documents.
DocumentsAreComplete ==
    \A c \in Cases : case[c].documents # {} =>
        /\ c \in files
        /\ Required(case[c].type) \subseteq case[c].documents

\* A user has one case in review at a time (submitManual's pending check).
OneCaseInReview ==
    \A c, d \in Cases : case[c].status = "PENDING" /\ case[d].status = "PENDING" /\ case[c].user = case[d].user => c = d
=============================================================================
