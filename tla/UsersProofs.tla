---------------------------- MODULE UsersProofs ----------------------------
(***************************************************************************)
(* KYC, the accounts and the browser tab, for any users, codes, uploads,   *)
(* cases, rows and number of calls in flight.                              *)
(*                                                                         *)
(* Whatever calls race, whatever fails half way through a submission and   *)
(* whoever reviews meanwhile, a case never has a part of the documents it  *)
(* requires.  The documents are recorded two steps after the upload was    *)
(* validated and the case created; SubmissionsKnow is what holds then: the *)
(* upload is still the valid one, the case is there, of its type and no    *)
(* other call's, and from the third step on its files are written.         *)
(*                                                                         *)
(* The rest the handlers promise one call at a time: each decides on the   *)
(* row that its guard read.  Until two calls have overlapped every call in *)
(* flight is alone, so that row is still the row in the table              *)
(* (AccountsSerial, KycSerial), and a decision on it is one on the current *)
(* row.  The rest of the invariant holds under any interleaving: types,    *)
(* rows that are absent are blank, and a call past the guard has its row.  *)
(*                                                                         *)
(* The browser tab (TabInv) is a list page, the page of a pack or the      *)
(* session.  The buttons of a list page are disabled by presses in flight  *)
(* only, and come back with them, whatever overlaps and fails              *)
(* (LocksAreHeld, PressesAreLocked).  Until two calls overlap, what a call *)
(* will show is what the database has (Current), and the service takes     *)
(* what the page draws (Taken), which the table of the fourteen pages is   *)
(* checked for.                                                            *)
(***************************************************************************)
EXTENDS MCUsers, TLAPS

Submitting == {"write", "record"}

\* A submission past its check has a valid upload; past its creation it has a case
\* of that upload's type; to record the documents it has their files.
SubmissionKnows(call, written) ==
    /\ call.at \in {"create", "write", "record"} => Valid(call.upload)
    /\ call.at \in Submitting => case[call.on].status # "NONE" /\ case[call.on].type = call.upload.type
    /\ call.at = "record" => call.on \in written

SubmissionsKnow == \A r \in Requests : SubmissionKnows(req[r], files)

\* Two submissions never share a case.
OwnCase ==
    \A r, s \in Requests :
        req[r].at \in Submitting /\ req[s].at \in Submitting /\ req[r].on = req[s].on => r = s

IInv == TypeOK /\ SubmissionsKnow /\ OwnCase /\ DocumentsAreComplete

-----------------------------------------------------------------------------
LEMMA InitInv == Init => IInv
  <1> SUFFICES ASSUME Init PROVE IInv
    OBVIOUS
  <1>1. TypeOK
    BY DEF Init, TypeOK, CallState, Idle, NoCase, Statuses, IdentityTypes
  <1> QED
    BY <1>1 DEF Init, IInv, SubmissionsKnow, SubmissionKnows, OwnCase, DocumentsAreComplete, Idle, NoCase, Submitting

\* A call that changes nothing but itself, and any status, keeps the invariant if it
\* knows its case and has no other call's.
LEMMA ReadInv ==
    ASSUME IInv, NEW r \in Requests, NEW call \in CallState,
           UNCHANGED case, files \subseteq files', files' \subseteq Cases,
           status' \in [Users -> Statuses],
           req' = [req EXCEPT ![r] = call],
           SubmissionKnows(call, files'),
           call.at \in Submitting => req[r].at \in Submitting /\ req[r].on = call.on
    PROVE  IInv'
  <1>1. TypeOK'
    BY DEF IInv, TypeOK
  <1>2. \A s \in Requests : req'[s] = IF s = r THEN call ELSE req[s]
    BY DEF IInv, TypeOK
  <1>3. SubmissionsKnow'
    <2> SUFFICES ASSUME NEW s \in Requests PROVE SubmissionKnows(req[s], files)'
      BY DEF SubmissionsKnow
    <2>1. CASE s = r
      BY <1>2, <2>1 DEF SubmissionKnows
    <2>2. CASE s # r
      BY <1>2, <2>2 DEF SubmissionKnows, SubmissionsKnow, IInv
    <2> QED
      BY <2>1, <2>2
  <1>4. OwnCase'
    BY <1>2 DEF IInv, OwnCase
  <1>5. DocumentsAreComplete'
    BY DEF IInv, DocumentsAreComplete
  <1> QED
    BY <1>1, <1>3, <1>4, <1>5 DEF IInv

\* The steps that touch no case: entering, start, the check and the files of a
\* submission, finding a case to review, and the end of a call.
LEMMA ReadsInv ==
    ASSUME IInv, NEW r \in Requests,
           \/ \E u \in Users : Enter(r, u)
           \/ Start(r)
           \/ \E upload \in Uploads : SubmitCheck(r, upload)
           \/ SubmitWrite(r)
           \/ \E c \in Cases : ReviewRead(r, c)
           \/ Abort(r)
    PROVE  IInv'
  <1>0. Idle \in CallState /\ SubmissionKnows(Idle, files') /\ Idle.at \notin Submitting
    BY DEF Idle, CallState, SubmissionKnows, Submitting
  <1>1. req[r] \in CallState /\ status \in [Users -> Statuses] /\ files \subseteq Cases
    BY DEF IInv, TypeOK
  <1>2. ASSUME NEW u \in Users, Enter(r, u) PROVE IInv'
    <2> DEFINE call == [at |-> "in", by |-> u, seen |-> status[u]]
    <2>1. call \in CallState /\ SubmissionKnows(call, files') /\ call.at \notin Submitting
      BY <1>1 DEF CallState, SubmissionKnows, Submitting
    <2>2. req' = [req EXCEPT ![r] = call] /\ UNCHANGED <<status, case, files>>
      BY <1>2 DEF Enter
    <2> HIDE DEF call
    <2> QED
      BY <1>1, <2>1, <2>2, ReadInv
  <1>3. CASE Start(r)
    <2>1. status' \in [Users -> Statuses]
      BY <1>1, <1>3 DEF Start, Statuses
    <2> QED
      BY <1>0, <1>1, <1>3, <2>1, ReadInv DEF Start, Done
  <1>4. ASSUME NEW upload \in Uploads, SubmitCheck(r, upload) PROVE IInv'
    <2> DEFINE call == [at |-> "create", by |-> req[r].by, upload |-> upload]
    <2>1. req[r].by \in Users
      BY <1>1, <1>4 DEF SubmitCheck, CallState
    <2>2. call \in CallState /\ SubmissionKnows(call, files') /\ call.at \notin Submitting
      BY <1>4, <2>1 DEF CallState, SubmissionKnows, Submitting, SubmitCheck
    <2>3. req' = [req EXCEPT ![r] = call] /\ UNCHANGED <<status, case, files>>
      BY <1>4 DEF SubmitCheck
    <2> HIDE DEF call
    <2> QED
      BY <1>1, <2>2, <2>3, ReadInv
  <1>5. CASE SubmitWrite(r)
    <2> DEFINE call == [req[r] EXCEPT !.at = "record"]
    <2>1. /\ call \in CallState /\ call.at = "record"
          /\ call.on = req[r].on /\ call.upload = req[r].upload /\ call.on \in Cases
      BY <1>1, <1>5 DEF SubmitWrite, CallState
    <2>2. req' = [req EXCEPT ![r] = call] /\ UNCHANGED <<status, case>> /\ files' = files \cup {call.on}
      BY <1>5, <2>1 DEF SubmitWrite
    <2>3. SubmissionKnows(call, files')
      BY <1>5, <2>1, <2>2 DEF SubmitWrite, SubmissionKnows, SubmissionsKnow, Submitting, IInv
    <2>4. req[r].at \in Submitting
      BY <1>5 DEF SubmitWrite, Submitting
    <2> HIDE DEF call
    <2> QED
      BY <1>1, <2>1, <2>2, <2>3, <2>4, ReadInv
  <1>6. ASSUME NEW c \in Cases, ReviewRead(r, c) PROVE IInv'
    <2> DEFINE call == [at |-> "review", on |-> c, of |-> case[c].user]
    <2>1. call \in CallState /\ SubmissionKnows(call, files') /\ call.at \notin Submitting
      BY DEF CallState, SubmissionKnows, Submitting, IInv, TypeOK
    <2>2. req' = [req EXCEPT ![r] = call] /\ UNCHANGED <<status, case, files>>
      BY <1>6 DEF ReviewRead
    <2> HIDE DEF call
    <2> QED
      BY <1>1, <2>1, <2>2, ReadInv
  <1>7. CASE Abort(r)
    BY <1>0, <1>1, <1>7, ReadInv DEF Abort, Done
  <1> QED
    BY <1>2, <1>3, <1>4, <1>5, <1>6, <1>7

-----------------------------------------------------------------------------
\* A new case takes a row that no submission has.
LEMMA CreateInv ==
    ASSUME IInv, NEW r \in Requests, NEW c \in Cases, SubmitCreate(r, c)
    PROVE  IInv'
  <1> DEFINE call == [at |-> "write", by |-> req[r].by, upload |-> req[r].upload, on |-> c]
             row  == [user |-> req[r].by, status |-> "PENDING", type |-> req[r].upload.type, documents |-> {}]
  <1>1. /\ req[r] \in CallState /\ req[r].at = "create"
        /\ case[c].status = "NONE"
        /\ req' = [req EXCEPT ![r] = call] /\ case' = [case EXCEPT ![c] = row]
        /\ UNCHANGED <<status, files>>
    BY DEF IInv, TypeOK, SubmitCreate, NoCase
  <1>2. req[r].by \in Users /\ req[r].upload \in Uploads /\ Valid(req[r].upload)
    BY <1>1 DEF CallState, IInv, SubmissionsKnow, SubmissionKnows
  <1>3. /\ call \in CallState /\ call.at = "write" /\ call.on = c /\ call.upload = req[r].upload
        /\ row.status = "PENDING" /\ row.type = req[r].upload.type /\ row.documents = {}
        /\ row \in [user: Users \cup {NoUser}, status: Statuses \cup {"DELETED"}, type: IdentityTypes,
                    documents: SUBSET DocumentTypes]
    BY <1>2, ConfigAssumption DEF CallState, Statuses
  <1> HIDE DEF call, row
  <1>4. TypeOK'
    BY <1>1, <1>3 DEF IInv, TypeOK
  <1>5. /\ \A s \in Requests : req'[s] = IF s = r THEN call ELSE req[s]
        /\ \A d \in Cases : case'[d] = IF d = c THEN row ELSE case[d]
    BY <1>1 DEF IInv, TypeOK
  <1>6. \A s \in Requests : req[s].at \in Submitting => req[s].on \in Cases /\ req[s].on # c
    BY <1>1 DEF IInv, TypeOK, CallState, SubmissionsKnow, SubmissionKnows, Submitting
  <1>7. SubmissionsKnow'
    <2> SUFFICES ASSUME NEW s \in Requests PROVE SubmissionKnows(req[s], files)'
      BY DEF SubmissionsKnow
    <2>1. CASE s = r
      BY <1>1, <1>2, <1>3, <1>5, <2>1 DEF SubmissionKnows, Submitting, Valid
    <2>2. CASE s # r
      <3>1. SubmissionKnows(req[s], files)
        BY DEF IInv, SubmissionsKnow
      <3> QED
        BY <1>1, <1>5, <1>6, <2>2, <3>1 DEF SubmissionKnows, Submitting
    <2> QED
      BY <2>1, <2>2
  <1>8. OwnCase'
    BY <1>3, <1>5, <1>6 DEF IInv, OwnCase
  <1>9. DocumentsAreComplete'
    BY <1>1, <1>3, <1>5 DEF IInv, DocumentsAreComplete
  <1> QED
    BY <1>4, <1>7, <1>8, <1>9 DEF IInv

\* A call ends and changes one case: it gives it all the documents required, or
\* none, or leaves them alone, and what it changes no submission relies on.
LEMMA EndInv ==
    ASSUME IInv, NEW r \in Requests, NEW c \in Cases,
           NEW row \in [user: Users \cup {NoUser}, status: Statuses \cup {"DELETED"}, type: IdentityTypes,
                        documents: SUBSET DocumentTypes],
           case' = [case EXCEPT ![c] = row],
           row.status # "NONE",
           \/ row.type = case[c].type
           \/ req[r].at \in Submitting /\ req[r].on = c,
           \/ row.documents = {}
           \/ row.documents = case[c].documents /\ row.type = case[c].type
           \/ c \in files /\ Required(row.type) \subseteq row.documents,
           status' \in [Users -> Statuses], UNCHANGED files, Done(r)
    PROVE  IInv'
  <1>1. Idle \in CallState /\ Idle.at = "idle"
    BY DEF Idle, CallState
  <1>2. TypeOK'
    BY <1>1 DEF IInv, TypeOK, Done
  <1>3. /\ \A s \in Requests : req'[s] = IF s = r THEN Idle ELSE req[s]
        /\ \A d \in Cases : case'[d] = IF d = c THEN row ELSE case[d]
    BY DEF IInv, TypeOK, Done
  <1>4. SubmissionsKnow'
    <2> SUFFICES ASSUME NEW s \in Requests PROVE SubmissionKnows(req[s], files)'
      BY DEF SubmissionsKnow
    <2>1. CASE s = r
      BY <1>1, <1>3, <2>1 DEF SubmissionKnows, Submitting
    <2>2. CASE s # r
      <3>1. SubmissionKnows(req[s], files) /\ req'[s] = req[s]
        BY <1>3, <2>2 DEF IInv, SubmissionsKnow
      <3>2. ASSUME req[s].at \in Submitting
            PROVE  case'[req[s].on].status # "NONE" /\ case'[req[s].on].type = req[s].upload.type
        <4>1. req[s].on \in Cases
          BY <3>2 DEF IInv, TypeOK, CallState, Submitting
        <4>2. req[s].on = c => row.type = case[c].type
          BY <2>2, <3>2 DEF IInv, OwnCase
        <4> QED
          BY <1>3, <3>1, <3>2, <4>1, <4>2 DEF SubmissionKnows
      <3> QED
        BY <3>1, <3>2 DEF SubmissionKnows
    <2> QED
      BY <2>1, <2>2
  <1>5. OwnCase'
    BY <1>1, <1>3 DEF IInv, OwnCase, Submitting
  <1>6. DocumentsAreComplete'
    BY <1>3 DEF IInv, DocumentsAreComplete
  <1> QED
    BY <1>2, <1>4, <1>5, <1>6 DEF IInv

\* Recording, undoing and deciding are such ends.
LEMMA EndsInv ==
    ASSUME IInv, NEW r \in Requests,
           SubmitRecord(r) \/ SubmitUndo(r) \/ \E decision \in Decisions : ReviewCommit(r, decision)
    PROVE  IInv'
  <1>1. req[r] \in CallState /\ status \in [Users -> Statuses] /\ SubmissionKnows(req[r], files)
    BY DEF IInv, TypeOK, SubmissionsKnow
  <1>2. CASE SubmitRecord(r)
    <2> DEFINE row == [case[req[r].on] EXCEPT !.documents = req[r].upload.documents]
    <2>1. req[r].on \in Cases /\ req[r].upload \in Uploads /\ req[r].by \in Users /\ req[r].at = "record"
      BY <1>1, <1>2 DEF SubmitRecord, CallState
    <2>2. /\ row \in [user: Users \cup {NoUser}, status: Statuses \cup {"DELETED"}, type: IdentityTypes,
                      documents: SUBSET DocumentTypes]
          /\ row.status = case[req[r].on].status /\ row.type = case[req[r].on].type
          /\ row.documents = req[r].upload.documents
      BY <2>1, ConfigAssumption DEF IInv, TypeOK
    <2>3. case' = [case EXCEPT ![req[r].on] = row] /\ UNCHANGED files /\ Done(r)
      BY <1>2 DEF SubmitRecord
    <2>4. status' \in [Users -> Statuses]
      BY <1>1, <1>2 DEF SubmitRecord, Statuses
    <2> HIDE DEF row
    <2>5. row.status # "NONE" /\ req[r].on \in files /\ Required(row.type) \subseteq row.documents
      BY <1>1, <2>1, <2>2 DEF SubmissionKnows, Submitting, Valid
    <2> QED
      BY <2>1, <2>2, <2>3, <2>4, <2>5, EndInv
  <1>3. CASE SubmitUndo(r)
    <2> DEFINE row == [NoCase EXCEPT !.status = "DELETED"]
    <2>1. req[r].on \in Cases /\ req[r].at \in Submitting
      BY <1>1, <1>3 DEF SubmitUndo, CallState, Submitting
    <2>2. /\ row \in [user: Users \cup {NoUser}, status: Statuses \cup {"DELETED"}, type: IdentityTypes,
                      documents: SUBSET DocumentTypes]
          /\ row.status = "DELETED" /\ row.documents = {}
      BY DEF NoCase, IdentityTypes
    <2>3. case' = [case EXCEPT ![req[r].on] = row] /\ UNCHANGED <<status, files>> /\ Done(r)
      BY <1>3 DEF SubmitUndo
    <2> HIDE DEF row
    <2> QED
      BY <1>1, <2>1, <2>2, <2>3, EndInv
  <1>4. ASSUME NEW decision \in Decisions, ReviewCommit(r, decision) PROVE IInv'
    <2> DEFINE row == [case[req[r].on] EXCEPT !.status = decision]
    <2>1. req[r].on \in Cases
      BY <1>1, <1>4 DEF ReviewCommit, CallState
    <2>2. /\ row \in [user: Users \cup {NoUser}, status: Statuses \cup {"DELETED"}, type: IdentityTypes,
                      documents: SUBSET DocumentTypes]
          /\ row.status # "NONE" /\ row.type = case[req[r].on].type
          /\ row.documents = case[req[r].on].documents
      BY <2>1 DEF IInv, TypeOK, Decisions, Statuses
    <2>3. case' = [case EXCEPT ![req[r].on] = row] /\ UNCHANGED files /\ Done(r)
      BY <1>4 DEF ReviewCommit, Decide
    <2>4. status' \in [Users -> Statuses]
      BY <1>1, <1>4 DEF ReviewCommit, Decide, Statuses, Decisions
    <2> HIDE DEF row
    <2> QED
      BY <2>1, <2>2, <2>3, <2>4, EndInv
  <1> QED
    BY <1>2, <1>3, <1>4

\* The provider and the console set a status, and nothing else.
LEMMA OperateInv ==
    ASSUME IInv, Operate
    PROVE  IInv'
  <1>1. UNCHANGED <<case, files, req>>
    BY DEF Operate, Webhook, SetKyc
  <1>2. status' \in [Users -> Statuses]
    BY DEF Operate, Webhook, SetKyc, Known, IInv, TypeOK
  <1> QED
    BY <1>1, <1>2 DEF IInv, TypeOK, SubmissionsKnow, SubmissionKnows, OwnCase, DocumentsAreComplete

\* Every step keeps the invariant.
LEMMA StepInv == IInv /\ [Next]_vars => IInv'
  <1> SUFFICES ASSUME IInv, [Next]_vars PROVE IInv'
    OBVIOUS
  <1>1. CASE UNCHANGED vars
    BY <1>1 DEF vars, IInv, TypeOK, SubmissionsKnow, SubmissionKnows, OwnCase, DocumentsAreComplete
  <1>2. ASSUME NEW r \in Requests, Step(r) PROVE IInv'
    BY <1>2, ReadsInv, CreateInv, EndsInv DEF Step
  <1>3. CASE Operate
    BY <1>3, OperateInv
  <1> QED
    BY <1>1, <1>2, <1>3 DEF Next

\* The invariant holds of every reachable state.
THEOREM InvariantHolds == Spec => []IInv
  <1> QED
    BY InitInv, StepInv, PTL DEF Spec

\* Every variable keeps its type: a status is one of KycStatus whatever the provider
\* sends, a case has documents of the seven types (handleWebhook, submitManual).
THEOREM KycTypeCorrect == Spec => []TypeOK
  <1>1. IInv => TypeOK
    BY DEF IInv
  <1> QED
    BY <1>1, InvariantHolds, PTL

\* Staff never see a case with a part of its documents, nor documents without their
\* files, for any number of submissions and reviews in flight that may each die after
\* any step (submitManual, review).
THEOREM CasesAreDocumented == Spec => []DocumentsAreComplete
  <1>1. IInv => DocumentsAreComplete
    BY DEF IInv
  <1> QED
    BY <1>1, InvariantHolds, PTL

-----------------------------------------------------------------------------
AbsentRowsAreBlank == \A u \in People : ~A!Created(u) => user[u] = A!AbsentUser

CallersExist == \A r \in Requests : areq[r].at \in {"in", "apply"} => A!Created(areq[r].by)

\* What the call has seen is what the rows say.
SeesCurrent(call, rows) ==
    /\ call.at = "in" => call.seen = A!Snapshot(call.op, rows[call.by])
    /\ call.at = "apply" => rows[call.by].referrer = NoUser

AccountsSerial ==
    /\ ~Together(areq, A!Idle)
    /\ \A r \in Requests : SeesCurrent(areq[r], user)
    /\ A!AdminRemains

AccountsInv == A!TypeOK /\ AbsentRowsAreBlank /\ CallersExist /\ (~overlapped => AccountsSerial)

-----------------------------------------------------------------------------
\* The columns of a snapshot are those of the row (RolesGuard, ensureReferralCode).
LEMMA SnapshotOf ==
    ASSUME NEW row
    PROVE  /\ A!Snapshot("setRole", row).role = row.role
           /\ A!Snapshot("setHold", row).role = row.role
           /\ A!Snapshot("refer", row).code = row.code
           /\ A!Snapshot("refer", row).referrer = row.referrer
  BY DEF A!Snapshot, A!Reads

LEMMA AccountsInit == MCInit => AccountsInv
  <1> SUFFICES ASSUME MCInit PROVE AccountsInv
    OBVIOUS
  <1>1. A!Init
    BY DEF MCInit
  <1>2. A!TypeOK
    BY <1>1 DEF A!Init, A!TypeOK, A!Row, A!CallState, A!Idle, A!AbsentUser
  <1>3. AbsentRowsAreBlank /\ CallersExist /\ AccountsSerial
    BY <1>1, BootstrapAssumption DEF A!Init, A!Idle, A!AbsentUser, A!Created, A!AdminRemains, AbsentRowsAreBlank,
       CallersExist, AccountsSerial, SeesCurrent, Together
  <1> QED
    BY <1>2, <1>3 DEF AccountsInv

\* A step of one call keeps the invariant if rows are never removed, a new one is
\* not blank in part, and a call that was alone still sees what is there.
LEMMA CallInv ==
    ASSUME AccountsInv, NEW r \in Requests, NEW call \in A!CallState, NEW rows \in [People -> A!Row],
           user' = rows, areq' = [areq EXCEPT ![r] = call],
           overlapped' = (overlapped \/ Together(areq', A!Idle)),
           areq[r] # A!Idle \/ call # A!Idle,
           \A u \in People : A!Created(u) => rows[u].role # "ABSENT",
           \A u \in People : rows[u].role = "ABSENT" => rows[u] = A!AbsentUser,
           call.at \in {"in", "apply"} => rows[call.by].role # "ABSENT",
           AccountsSerial => SeesCurrent(call, rows) /\ A!AdminRemains'
    PROVE  AccountsInv'
  <1>1. A!TypeOK'
    BY DEF AccountsInv, A!TypeOK
  <1>2. \A s \in Requests : areq'[s] = IF s = r THEN call ELSE areq[s]
    BY DEF AccountsInv, A!TypeOK
  <1>3. AbsentRowsAreBlank'
    BY DEF AbsentRowsAreBlank, A!Created, A!AbsentUser
  <1>4. CallersExist'
    <2> SUFFICES ASSUME NEW s \in Requests, areq'[s].at \in {"in", "apply"} PROVE user'[areq'[s].by].role # "ABSENT"
      BY DEF CallersExist, A!Created
    <2>1. CASE s = r
      BY <1>2, <2>1
    <2>2. CASE s # r
      <3>1. areq'[s] = areq[s] /\ areq[s].by \in People
        BY <1>2, <2>2 DEF AccountsInv, A!TypeOK, A!CallState
      <3> QED
        BY <3>1 DEF AccountsInv, CallersExist, A!Created
    <2> QED
      BY <2>1, <2>2
  <1>5. ASSUME ~overlapped' PROVE AccountsSerial'
    <2>1. AccountsSerial /\ ~Together(areq', A!Idle)
      BY <1>5 DEF AccountsInv
    <2>2. \A s \in Requests : s # r => areq'[s] = A!Idle
      BY <1>2, <2>1 DEF AccountsSerial, Together
    <2>3. ASSUME NEW s \in Requests PROVE SeesCurrent(areq'[s], user')
      BY <1>2, <2>1, <2>2 DEF SeesCurrent, A!Idle
    <2>4. ~Together(areq, A!Idle)'
      BY <2>1 DEF Together, A!Idle
    <2> QED
      BY <2>1, <2>3, <2>4 DEF AccountsSerial, SeesCurrent, A!Snapshot, A!Reads
  <1> QED
    BY <1>1, <1>3, <1>4, <1>5 DEF AccountsInv

-----------------------------------------------------------------------------
\* A call begins, reads the owner of a code, or ends: rows stay.
LEMMA ReadsKeep ==
    ASSUME AccountsInv, NEW r \in Requests, UNCHANGED user,
           overlapped' = (overlapped \/ Together(areq', A!Idle)),
           \/ \E u \in People, op \in DOMAIN A!Reads : A!Authenticate(r, u, op)
           \/ \E u \in People : A!FindReferrer(r, u)
           \/ A!Abort(r)
    PROVE  AccountsInv'
  <1>1. /\ user \in [People -> A!Row] /\ areq[r] \in A!CallState
        /\ \A u \in People : A!Created(u) => user[u].role # "ABSENT"
        /\ \A u \in People : user[u].role = "ABSENT" => user[u] = A!AbsentUser
    BY DEF AccountsInv, A!TypeOK, A!Created, AbsentRowsAreBlank
  <1>2. AccountsSerial => A!AdminRemains'
    BY DEF AccountsSerial, A!AdminRemains, A!Created
  <1>3. ASSUME NEW u \in People, NEW op \in DOMAIN A!Reads, A!Authenticate(r, u, op) PROVE AccountsInv'
    <2>1. CASE A!Created(u) /\ A!Admit(r, u, op, user[u])
      <3> DEFINE call == [at |-> "in", by |-> u, op |-> op, seen |-> A!Snapshot(op, user[u])]
      <3>1. call \in A!CallState /\ call.at = "in" /\ call.by = u /\ SeesCurrent(call, user)
        BY <1>1 DEF A!CallState, SeesCurrent
      <3>2. areq' = [areq EXCEPT ![r] = call] /\ call # A!Idle
        BY <2>1 DEF A!Admit, A!Idle
      <3> HIDE DEF call
      <3> QED
        BY <1>1, <1>2, <2>1, <3>1, <3>2, CallInv DEF A!Created
    <2>2. CASE areq' = [areq EXCEPT ![r] = [at |-> "first", by |-> u, op |-> op]]
      <3> DEFINE call == [at |-> "first", by |-> u, op |-> op]
      <3>1. call \in A!CallState /\ call.at = "first" /\ SeesCurrent(call, user) /\ call # A!Idle
        BY DEF A!CallState, SeesCurrent, A!Idle
      <3>2. areq' = [areq EXCEPT ![r] = call]
        BY <2>2
      <3> HIDE DEF call
      <3> QED
        BY <1>1, <1>2, <3>1, <3>2, CallInv
    <2> QED
      BY <1>3, <2>1, <2>2 DEF A!Authenticate
  <1>4. ASSUME NEW u \in People, A!FindReferrer(r, u) PROVE AccountsInv'
    <2> DEFINE call == [at |-> "apply", by |-> areq[r].by, op |-> "refer", referrer |-> u]
    <2>1. /\ areq' = [areq EXCEPT ![r] = call] /\ call # A!Idle /\ areq[r].by \in People
          /\ areq[r].at = "in" /\ areq[r].op = "refer" /\ areq[r].seen.referrer = NoUser
      BY <1>1, <1>4 DEF A!FindReferrer, A!In, A!Unreferred, A!Idle, A!CallState
    <2>2. call \in A!CallState /\ call.at = "apply" /\ call.by = areq[r].by
      BY <2>1 DEF A!CallState
    <2>3. user[areq[r].by].role # "ABSENT"
      BY <2>1 DEF AccountsInv, CallersExist, A!Created
    <2>4. AccountsSerial => SeesCurrent(call, user)
      BY <2>1, <2>2, SnapshotOf DEF AccountsSerial, SeesCurrent
    <2> HIDE DEF call
    <2> QED
      BY <1>1, <1>2, <2>1, <2>2, <2>3, <2>4, CallInv
  <1>5. CASE A!Abort(r)
    <2>1. A!Idle \in A!CallState /\ A!Idle.at = "idle" /\ SeesCurrent(A!Idle, user)
      BY DEF A!Idle, A!CallState, SeesCurrent
    <2>2. areq' = [areq EXCEPT ![r] = A!Idle] /\ areq[r] # A!Idle
      BY <1>5 DEF A!Abort, A!Done
    <2> QED
      BY <1>1, <1>2, <2>1, <2>2, CallInv
  <1> QED
    BY <1>3, <1>4, <1>5

\* The row of a first login.
LEMMA NewRow ==
    ASSUME NEW u \in People
    PROVE  /\ A!NewUser(u) \in A!Row /\ A!NewUser(u).role \in {"USER", "ADMIN"}
           /\ A!NewUser(u).code = NoCode /\ A!NewUser(u).referrer = NoUser
           /\ u \in Bootstrap => A!NewUser(u).role = "ADMIN"
  BY DEF A!NewUser, A!AbsentUser, A!Row

LEMMA ProvisionKeeps ==
    ASSUME AccountsInv, NEW r \in Requests, A!Provision(r),
           overlapped' = (overlapped \/ Together(areq', A!Idle))
    PROVE  AccountsInv'
  <1> DEFINE u == areq[r].by
             row == A!NewUser(u)
             rows == [user EXCEPT ![u] = row]
             call == [at |-> "in", by |-> u, op |-> areq[r].op, seen |-> A!Snapshot(areq[r].op, row)]
  <1>1. /\ areq[r].at = "first" /\ u \in People /\ areq[r].op \in DOMAIN A!Reads
        /\ user \in [People -> A!Row] /\ ~A!Created(u)
    BY DEF A!Provision, AccountsInv, A!TypeOK, A!CallState
  <1>2. /\ row \in A!Row /\ row.role \in {"USER", "ADMIN"}
        /\ u \in Bootstrap => row.role = "ADMIN"
    BY <1>1, NewRow
  <1>3. areq' = [areq EXCEPT ![r] = call] /\ user' = rows
    BY DEF A!Provision, A!Admit
  <1>4. /\ call \in A!CallState /\ call # A!Idle /\ call.by = u
        /\ call.at = "in" /\ call.seen = A!Snapshot(call.op, row)
    BY <1>1, <1>2 DEF A!CallState, A!Idle
  <1> HIDE DEF row, call
  <1>5. rows \in [People -> A!Row] /\ \A v \in People : rows[v] = IF v = u THEN row ELSE user[v]
    BY <1>1, <1>2
  <1>6. SeesCurrent(call, rows)
    BY <1>1, <1>4, <1>5 DEF SeesCurrent
  <1> HIDE DEF rows, u
  <1>7. A!AdminRemains => A!AdminRemains'
    BY <1>1, <1>2, <1>3, <1>5, BootstrapAssumption DEF A!AdminRemains, A!Created
  <1>8. /\ \A v \in People : A!Created(v) => rows[v].role # "ABSENT"
        /\ \A v \in People : rows[v].role = "ABSENT" => rows[v] = A!AbsentUser
        /\ rows[call.by].role # "ABSENT"
    BY <1>1, <1>2, <1>4, <1>5 DEF AccountsInv, AbsentRowsAreBlank, A!Created
  <1> QED
    BY <1>3, <1>4, <1>5, <1>6, <1>7, <1>8, CallInv DEF AccountsSerial

\* The call ends with a change to one row that keeps the row.
LEMMA EndKeeps ==
    ASSUME AccountsInv, NEW r \in Requests, NEW t \in People, NEW row \in A!Row,
           user' = [user EXCEPT ![t] = row], A!Done(r), areq[r] # A!Idle,
           overlapped' = (overlapped \/ Together(areq', A!Idle)),
           row.role # "ABSENT",
           AccountsSerial => \/ row.role = user[t].role
                             \/ areq[r].by \in People /\ user[areq[r].by].role = "ADMIN" /\ (areq[r].by = t => row.role = "ADMIN")
    PROVE  AccountsInv'
  <1> DEFINE rows == [user EXCEPT ![t] = row]
  <1>1. user \in [People -> A!Row]
    BY DEF AccountsInv, A!TypeOK
  <1>2. rows \in [People -> A!Row] /\ \A v \in People : rows[v] = IF v = t THEN row ELSE user[v]
    BY <1>1
  <1>3. /\ A!Idle \in A!CallState /\ A!Idle.at = "idle" /\ SeesCurrent(A!Idle, rows)
        /\ areq' = [areq EXCEPT ![r] = A!Idle] /\ user' = rows
    BY DEF A!Idle, A!CallState, SeesCurrent, A!Done
  <1> HIDE DEF rows
  <1>4. /\ \A v \in People : A!Created(v) => rows[v].role # "ABSENT"
        /\ \A v \in People : rows[v].role = "ABSENT" => rows[v] = A!AbsentUser
    BY <1>2 DEF AccountsInv, AbsentRowsAreBlank, A!Created
  <1>5. ASSUME AccountsSerial, \E u \in Bootstrap : A!Created(u)' PROVE \E u \in People : user'[u].role = "ADMIN"
    <2>1. PICK a \in People : user[a].role = "ADMIN"
      <3>1. (\E u \in Bootstrap : A!Created(u)) => \E u \in People : user[u].role = "ADMIN"
        BY <1>5 DEF AccountsSerial, A!AdminRemains
      <3>2. CASE row.role = user[t].role
        BY <1>2, <1>3, <1>5, <3>1, <3>2, BootstrapAssumption DEF A!Created
      <3>3. CASE areq[r].by \in People /\ user[areq[r].by].role = "ADMIN"
        BY <3>3
      <3> QED
        BY <1>5, <3>2, <3>3
    <2>2. CASE row.role = user[t].role
      BY <1>2, <1>3, <2>1, <2>2
    <2>3. CASE areq[r].by \in People /\ user[areq[r].by].role = "ADMIN" /\ (areq[r].by = t => row.role = "ADMIN")
      BY <1>2, <1>3, <2>3
    <2> QED
      BY <1>5, <2>2, <2>3
  <1>6. AccountsSerial => A!AdminRemains'
    BY <1>5 DEF A!AdminRemains, A!Created
  <1> QED
    BY <1>2, <1>3, <1>4, <1>6, CallInv

LEMMA SetRoleKeeps ==
    ASSUME AccountsInv, NEW r \in Requests, NEW t \in People, NEW role \in Roles, A!SetRole(r, t, role),
           overlapped' = (overlapped \/ Together(areq', A!Idle))
    PROVE  AccountsInv'
  <1> DEFINE row == [user[t] EXCEPT !.role = role]
  <1>1. user[t] \in A!Row /\ areq[r] \in A!CallState /\ areq[r].at = "in" /\ areq[r].op = "setRole"
    BY DEF AccountsInv, A!TypeOK, A!SetRole, A!In
  <1>2. row \in A!Row /\ row.role = role /\ row.role # "ABSENT"
    BY <1>1, EnumAssumption DEF A!Row
  <1>3. user' = [user EXCEPT ![t] = row] /\ A!Done(r) /\ areq[r] # A!Idle
    BY <1>1 DEF A!SetRole, A!Idle
  <1>4. AccountsSerial => user[areq[r].by].role = "ADMIN"
    BY <1>1, SnapshotOf DEF AccountsSerial, SeesCurrent, A!SetRole, A!MayDecide
  <1>5. areq[r].by \in People /\ (areq[r].by = t => role = "ADMIN")
    BY <1>1 DEF A!CallState, A!SetRole, A!KeepsOwnRole
  <1> HIDE DEF row
  <1> QED
    BY <1>2, <1>3, <1>4, <1>5, EndKeeps

LEMMA SetHoldKeeps ==
    ASSUME AccountsInv, NEW r \in Requests, NEW t \in People, NEW hold \in Holds, A!SetHold(r, t, hold),
           overlapped' = (overlapped \/ Together(areq', A!Idle))
    PROVE  AccountsInv'
  <1> DEFINE row == [user[t] EXCEPT !.hold = hold]
  <1>1. user[t] \in A!Row /\ areq[r].at = "in" /\ A!Created(t)
    BY DEF AccountsInv, A!TypeOK, A!SetHold, A!In
  <1>2. row \in A!Row /\ row.role = user[t].role /\ row.role # "ABSENT"
    BY <1>1 DEF A!Row, A!Created
  <1>3. user' = [user EXCEPT ![t] = row] /\ A!Done(r) /\ areq[r] # A!Idle
    BY <1>1 DEF A!SetHold, A!Idle
  <1> HIDE DEF row
  <1> QED
    BY <1>2, <1>3, EndKeeps

LEMMA ApplyReferralKeeps ==
    ASSUME AccountsInv, NEW r \in Requests, A!ApplyReferral(r),
           overlapped' = (overlapped \/ Together(areq', A!Idle))
    PROVE  AccountsInv'
  <1> DEFINE t == areq[r].by
             row == [user[t] EXCEPT !.referrer = areq[r].referrer]
  <1>1. areq[r].at = "apply" /\ t \in People /\ areq[r].referrer \in People
    BY DEF AccountsInv, A!TypeOK, A!ApplyReferral, A!CallState
  <1>2. user[t] \in A!Row /\ A!Created(t)
    BY <1>1 DEF AccountsInv, A!TypeOK, CallersExist
  <1>3. row \in A!Row /\ row.role = user[t].role /\ row.role # "ABSENT"
    BY <1>1, <1>2 DEF A!Row, A!Created
  <1>4. user' = [user EXCEPT ![t] = row] /\ A!Done(r) /\ areq[r] # A!Idle
    BY <1>1 DEF A!ApplyReferral, A!Idle
  <1> HIDE DEF row, t
  <1> QED
    BY <1>1, <1>3, <1>4, EndKeeps

\* The one change of a row after which the call goes on.
LEMMA EnsureCodeKeeps ==
    ASSUME AccountsInv, NEW r \in Requests, NEW c \in Codes, A!EnsureCode(r, c),
           overlapped' = (overlapped \/ Together(areq', A!Idle))
    PROVE  AccountsInv'
  <1> DEFINE u == areq[r].by
             row == [user[u] EXCEPT !.code = c]
             rows == [user EXCEPT ![u] = row]
             call == [at |-> "in", by |-> u, op |-> "refer", seen |-> A!Snapshot("refer", row)]
  <1>1. areq[r].at = "in" /\ areq[r] # A!Idle /\ u \in People /\ user \in [People -> A!Row]
    BY DEF AccountsInv, A!TypeOK, A!EnsureCode, A!In, A!Idle, A!CallState
  <1>2. user[u] \in A!Row /\ A!Created(u)
    BY <1>1 DEF AccountsInv, CallersExist
  <1>3. row \in A!Row /\ row.role = user[u].role /\ row.role # "ABSENT"
    BY <1>2 DEF A!Row, A!Created
  <1>4. user' = rows /\ areq' = [areq EXCEPT ![r] = call]
    BY DEF A!EnsureCode, A!Admit
  <1>5. /\ call \in A!CallState /\ call.by = u /\ call.at = "in"
        /\ call.seen = A!Snapshot(call.op, row)
    BY <1>1, <1>3 DEF A!CallState, A!Reads
  <1> HIDE DEF row, call
  <1>6. rows \in [People -> A!Row] /\ \A v \in People : rows[v] = IF v = u THEN row ELSE user[v]
    BY <1>1, <1>3
  <1>7. SeesCurrent(call, rows)
    BY <1>1, <1>5, <1>6 DEF SeesCurrent
  <1> HIDE DEF rows, u
  <1>8. /\ \A v \in People : A!Created(v) => rows[v].role # "ABSENT"
        /\ \A v \in People : rows[v].role = "ABSENT" => rows[v] = A!AbsentUser
        /\ rows[call.by].role # "ABSENT"
    BY <1>1, <1>3, <1>5, <1>6 DEF AccountsInv, AbsentRowsAreBlank, A!Created
  <1>9. A!AdminRemains => A!AdminRemains'
    BY <1>3, <1>4, <1>6, BootstrapAssumption DEF A!AdminRemains, A!Created
  <1> QED
    BY <1>1, <1>4, <1>5, <1>6, <1>7, <1>8, <1>9, CallInv DEF AccountsSerial

LEMMA AccountsNextKeeps ==
    ASSUME AccountsInv, AccountsNext
    PROVE  AccountsInv'
  <1>1. overlapped' = (overlapped \/ Together(areq', A!Idle)) /\ A!Next
    BY DEF AccountsNext
  <1>2. PICK r \in Requests : A!Step(r)
    BY <1>1 DEF A!Next
  <1>3. ASSUME \/ \E u \in People, op \in DOMAIN A!Reads : A!Authenticate(r, u, op)
               \/ \E u \in People : A!FindReferrer(r, u)
               \/ A!Abort(r)
        PROVE  AccountsInv'
    <2>1. UNCHANGED user
      BY <1>3 DEF A!Authenticate, A!FindReferrer, A!Abort
    <2> QED
      BY <1>1, <1>3, <2>1, ReadsKeep
  <1>4. CASE A!Provision(r)
    BY <1>1, <1>4, ProvisionKeeps
  <1>5. ASSUME NEW t \in People, NEW role \in Roles, A!SetRole(r, t, role) PROVE AccountsInv'
    BY <1>1, <1>5, SetRoleKeeps
  <1>6. ASSUME NEW t \in People, NEW hold \in Holds, A!SetHold(r, t, hold) PROVE AccountsInv'
    BY <1>1, <1>6, SetHoldKeeps
  <1>7. ASSUME NEW c \in Codes, A!EnsureCode(r, c) PROVE AccountsInv'
    BY <1>1, <1>7, EnsureCodeKeeps
  <1>8. CASE A!ApplyReferral(r)
    BY <1>1, <1>8, ApplyReferralKeeps
  <1> QED
    BY <1>2, <1>3, <1>4, <1>5, <1>6, <1>7, <1>8 DEF A!Step

\* A KYC call touches no account; it may only be the one that overlaps another.
LEMMA AccountsStutter ==
    ASSUME AccountsInv, UNCHANGED <<user, areq>>, overlapped => overlapped'
    PROVE  AccountsInv'
  BY DEF AccountsInv, A!TypeOK, A!Created, A!AdminRemains, AbsentRowsAreBlank, CallersExist, AccountsSerial, SeesCurrent,
     Together, A!Snapshot, A!Reads

LEMMA AccountsStep == AccountsInv /\ [MCNext]_MCVars => AccountsInv'
  <1> SUFFICES ASSUME AccountsInv, [MCNext]_MCVars PROVE AccountsInv'
    OBVIOUS
  <1>1. CASE AccountsNext
    BY <1>1, AccountsNextKeeps
  <1>2. CASE KycNext
    BY <1>2, AccountsStutter DEF KycNext
  <1>3. CASE UNCHANGED MCVars
    BY <1>3, AccountsStutter DEF MCVars, A!vars
  <1> QED
    BY <1>1, <1>2, <1>3 DEF MCNext

THEOREM AccountsInvariant == MCSpec => []AccountsInv
  <1> QED
    BY AccountsInit, AccountsStep, PTL DEF MCSpec

-----------------------------------------------------------------------------
\* Until two requests overlap there is an administrator once one is bootstrapped,
\* for any number of users that promote and demote each other (setRole).
THEOREM AdminsRemain == MCSpec => []SerialAdminRemains
  <1>1. AccountsInv => SerialAdminRemains
    BY DEF AccountsInv, AccountsSerial, SerialAdminRemains
  <1> QED
    BY <1>1, AccountsInvariant, PTL

\* Until two requests overlap, each change of a role is by a current ADMIN and each
\* change of a hold by current staff (RolesGuard, setRole, setHold).
THEOREM StaffDecide == MCSpec => SerialStaffDecide
  <1> DEFINE Decided ==
        ~overlapped' =>
          \A u \in People : A!Created(u) =>
              /\ user'[u].role # user[u].role =>
                    \E r \in Requests : areq[r] # A!Idle /\ user[areq[r].by].role = "ADMIN"
              /\ user'[u].hold # user[u].hold =>
                    \E r \in Requests : areq[r] # A!Idle /\ user[areq[r].by].role \in {"ADMIN", "OPS"}
  <1>1. AccountsInv /\ [MCNext]_MCVars => [Decided]_(A!vars)
    <2> SUFFICES ASSUME AccountsInv, AccountsNext, ~overlapped', NEW u \in People, A!Created(u)
                 PROVE  /\ user'[u].role # user[u].role =>
                              \E r \in Requests : areq[r] # A!Idle /\ user[areq[r].by].role = "ADMIN"
                        /\ user'[u].hold # user[u].hold =>
                              \E r \in Requests : areq[r] # A!Idle /\ user[areq[r].by].role \in {"ADMIN", "OPS"}
      BY DEF MCNext, KycNext, MCVars, A!vars
    <2>1. AccountsSerial /\ user[u] \in A!Row /\ user \in [People -> A!Row]
      BY DEF AccountsInv, A!TypeOK, AccountsNext
    <2>2. PICK r \in Requests : A!Step(r)
      BY DEF AccountsNext, A!Next
    <2>3. ASSUME NEW t \in People, NEW role \in Roles, A!SetRole(r, t, role)
          PROVE  areq[r] # A!Idle /\ user[areq[r].by].role = "ADMIN" /\ user'[u].hold = user[u].hold
      <3>1. areq[r].at = "in" /\ areq[r].op = "setRole" /\ user' = [user EXCEPT ![t].role = role]
        BY <2>3 DEF A!SetRole, A!In
      <3> QED
        BY <2>1, <2>3, <3>1, SnapshotOf DEF AccountsSerial, SeesCurrent, A!SetRole, A!MayDecide, A!Idle, A!Row
    <2>4. ASSUME NEW t \in People, NEW hold \in Holds, A!SetHold(r, t, hold)
          PROVE  areq[r] # A!Idle /\ user[areq[r].by].role \in {"ADMIN", "OPS"} /\ user'[u].role = user[u].role
      <3>1. areq[r].at = "in" /\ areq[r].op = "setHold" /\ user' = [user EXCEPT ![t].hold = hold]
        BY <2>4 DEF A!SetHold, A!In
      <3> QED
        BY <2>1, <2>4, <3>1, SnapshotOf DEF AccountsSerial, SeesCurrent, A!SetHold, A!MayDecide, A!Idle, A!Row
    <2>5. CASE A!Provision(r)
      BY <2>1, <2>5 DEF A!Provision
    <2>6. ASSUME NEW c \in Codes, A!EnsureCode(r, c) PROVE user'[u].role = user[u].role /\ user'[u].hold = user[u].hold
      BY <2>1, <2>6 DEF A!EnsureCode, A!Row
    <2>7. CASE A!ApplyReferral(r)
      BY <2>1, <2>7 DEF A!ApplyReferral, A!Row
    <2> QED
      BY <2>2, <2>3, <2>4, <2>5, <2>6, <2>7 DEF A!Step, A!Authenticate, A!FindReferrer, A!Abort
  <1> QED
    BY <1>1, AccountsInvariant, PTL DEF MCSpec, SerialStaffDecide

\* Until two requests overlap, a referrer and a code given away stay as they are,
\* whoever enters codes of whom (applyReferralCode, ensureReferralCode).
THEOREM ReferralIsFinal == MCSpec => SerialReferralIsFinal
  <1> DEFINE Final ==
        ~overlapped' =>
          \A u \in People : /\ user[u].referrer # NoUser => user'[u].referrer = user[u].referrer
                            /\ user[u].code # NoCode => user'[u].code = user[u].code
  <1>1. AccountsInv /\ [MCNext]_MCVars => [Final]_(A!vars)
    <2> SUFFICES ASSUME AccountsInv, AccountsNext, ~overlapped', NEW u \in People
                 PROVE  /\ user[u].referrer # NoUser => user'[u].referrer = user[u].referrer
                        /\ user[u].code # NoCode => user'[u].code = user[u].code
      BY DEF MCNext, KycNext, MCVars, A!vars
    <2>1. AccountsSerial /\ user[u] \in A!Row /\ user \in [People -> A!Row]
      BY DEF AccountsInv, A!TypeOK, AccountsNext
    <2>2. PICK r \in Requests : A!Step(r)
      BY DEF AccountsNext, A!Next
    <2>3. ASSUME NEW t \in People, NEW role \in Roles, A!SetRole(r, t, role)
          PROVE  user'[u].referrer = user[u].referrer /\ user'[u].code = user[u].code
      BY <2>1, <2>3 DEF A!SetRole, A!Row
    <2>4. ASSUME NEW t \in People, NEW hold \in Holds, A!SetHold(r, t, hold)
          PROVE  user'[u].referrer = user[u].referrer /\ user'[u].code = user[u].code
      BY <2>1, <2>4 DEF A!SetHold, A!Row
    <2>5. CASE A!Provision(r)
      <3>1. ~A!Created(areq[r].by) /\ (u # areq[r].by => user'[u] = user[u])
        BY <2>1, <2>5 DEF A!Provision
      <3>2. u = areq[r].by => user[u].code = NoCode /\ user[u].referrer = NoUser
        BY <3>1 DEF AccountsInv, AbsentRowsAreBlank, A!AbsentUser
      <3> QED
        BY <3>1, <3>2
    <2>6. ASSUME NEW c \in Codes, A!EnsureCode(r, c)
          PROVE  user'[u].referrer = user[u].referrer /\ (user[u].code # NoCode => user'[u].code = user[u].code)
      <3>1. areq[r].at = "in" /\ areq[r].op = "refer" /\ areq[r].seen.code = NoCode /\ user' = [user EXCEPT ![areq[r].by].code = c]
        BY <2>6 DEF A!EnsureCode, A!In
      <3>2. user[areq[r].by].code = NoCode
        BY <2>1, <3>1, SnapshotOf DEF AccountsSerial, SeesCurrent
      <3> QED
        BY <2>1, <3>1, <3>2 DEF A!Row
    <2>7. ASSUME A!ApplyReferral(r)
          PROVE  user'[u].code = user[u].code /\ (user[u].referrer # NoUser => user'[u].referrer = user[u].referrer)
      <3>1. areq[r].at = "apply" /\ user' = [user EXCEPT ![areq[r].by].referrer = areq[r].referrer]
        BY <2>7 DEF A!ApplyReferral
      <3>2. user[areq[r].by].referrer = NoUser
        BY <2>1, <3>1 DEF AccountsSerial, SeesCurrent
      <3> QED
        BY <2>1, <3>1, <3>2 DEF A!Row
    <2> QED
      BY <2>2, <2>3, <2>4, <2>5, <2>6, <2>7 DEF A!Step, A!Authenticate, A!FindReferrer, A!Abort
  <1> QED
    BY <1>1, AccountsInvariant, PTL DEF MCSpec, SerialReferralIsFinal

-----------------------------------------------------------------------------
\* A KYC call that is alone has seen the user's status and, once past the check of
\* submitManual, is for a user who is not approved and, before it creates the case,
\* has none in review.
KycSees(call, st, rows) ==
    /\ call.at = "in" => call.seen = st[call.by]
    /\ call.at \in {"create", "write", "record"} => st[call.by] # "APPROVED"
    /\ call.at = "create" => \A c \in Cases : rows[c].user = call.by => rows[c].status # "PENDING"

KycSerial ==
    /\ ~Together(req, Idle)
    /\ \A r \in Requests : KycSees(req[r], status, case)
    /\ OneCaseInReview

KycInv == IInv /\ (~overlapped => KycSerial)

LEMMA KycInit == MCInit => KycInv
  <1> SUFFICES ASSUME MCInit PROVE KycInv
    OBVIOUS
  <1>1. Init
    BY DEF MCInit
  <1>2. KycSerial
    BY <1>1 DEF Init, Idle, NoCase, KycSerial, KycSees, Together, OneCaseInReview
  <1> QED
    BY <1>1, <1>2, InitInv DEF KycInv

\* A step of one call: what it sees afterwards, and the cases, are enough.
LEMMA KycCallInv ==
    ASSUME KycInv, KycNext, NEW r \in Requests, NEW call \in CallState,
           req' = [req EXCEPT ![r] = call],
           req[r] # Idle \/ call # Idle,
           KycSerial => KycSees(call, status', case') /\ OneCaseInReview'
    PROVE  KycInv'
  <1>1. IInv'
    BY StepInv DEF KycInv, KycNext
  <1>2. \A s \in Requests : req'[s] = IF s = r THEN call ELSE req[s]
    BY DEF KycInv, IInv, TypeOK
  <1>3. ASSUME ~overlapped' PROVE KycSerial'
    <2>1. KycSerial /\ ~Together(req', Idle)
      BY <1>3 DEF KycInv, KycNext
    <2>2. \A s \in Requests : s # r => req'[s] = Idle
      BY <1>2, <2>1 DEF KycSerial, Together
    <2>3. ASSUME NEW s \in Requests PROVE KycSees(req'[s], status', case')
      BY <1>2, <2>1, <2>2 DEF KycSees, Idle
    <2>4. ~Together(req, Idle)'
      BY <2>1 DEF Together, Idle
    <2> QED
      BY <2>1, <2>3, <2>4 DEF KycSerial, KycSees
  <1> QED
    BY <1>1, <1>3 DEF KycInv

\* The steps that leave the cases alone.
LEMMA KycReadsKeep ==
    ASSUME KycInv, KycNext, NEW r \in Requests,
           \/ \E u \in Users : Enter(r, u)
           \/ Start(r)
           \/ \E upload \in Uploads : SubmitCheck(r, upload)
           \/ SubmitWrite(r)
           \/ \E c \in Cases : ReviewRead(r, c)
           \/ Abort(r)
    PROVE  KycInv'
  <1>1. req[r] \in CallState /\ (KycSerial => OneCaseInReview)
    BY DEF KycInv, IInv, TypeOK, KycSerial
  <1>2. Idle \in CallState /\ Idle.at = "idle" /\ KycSees(Idle, status', case')
    BY DEF Idle, CallState, KycSees
  <1>3. UNCHANGED case /\ (OneCaseInReview => OneCaseInReview')
    BY DEF Enter, Start, SubmitCheck, SubmitWrite, ReviewRead, Abort, OneCaseInReview
  <1>4. ASSUME NEW u \in Users, Enter(r, u) PROVE KycInv'
    <2> DEFINE call == [at |-> "in", by |-> u, seen |-> status[u]]
    <2>1. call \in CallState /\ call # Idle /\ req' = [req EXCEPT ![r] = call] /\ KycSees(call, status', case')
      BY <1>4 DEF Enter, CallState, Idle, KycSees, KycInv, IInv, TypeOK
    <2> HIDE DEF call
    <2> QED
      BY <1>1, <1>3, <2>1, KycCallInv
  <1>5. CASE Start(r) \/ Abort(r)
    BY <1>1, <1>2, <1>3, <1>5, KycCallInv DEF Start, Abort, Done
  <1>6. ASSUME NEW upload \in Uploads, SubmitCheck(r, upload) PROVE KycInv'
    <2> DEFINE call == [at |-> "create", by |-> req[r].by, upload |-> upload]
    <2>1. call \in CallState /\ call # Idle /\ req' = [req EXCEPT ![r] = call] /\ UNCHANGED status
      BY <1>1, <1>6 DEF SubmitCheck, CallState, Idle
    <2>2. KycSerial => KycSees(call, status', case')
      BY <1>3, <1>6, <2>1 DEF SubmitCheck, Open, Waiting, KycSerial, KycSees
    <2> HIDE DEF call
    <2> QED
      BY <1>1, <1>3, <2>1, <2>2, KycCallInv
  <1>7. CASE SubmitWrite(r)
    <2> DEFINE call == [req[r] EXCEPT !.at = "record"]
    <2>1. /\ call \in CallState /\ call.at = "record" /\ call.by = req[r].by
          /\ req' = [req EXCEPT ![r] = call] /\ UNCHANGED status
      BY <1>1, <1>7 DEF SubmitWrite, CallState
    <2>2. KycSerial => KycSees(call, status', case')
      BY <1>7, <2>1 DEF SubmitWrite, KycSerial, KycSees
    <2>3. req[r] # Idle
      BY <1>7 DEF SubmitWrite, Idle
    <2> HIDE DEF call
    <2> QED
      BY <1>1, <1>3, <2>1, <2>2, <2>3, KycCallInv
  <1>8. ASSUME NEW c \in Cases, ReviewRead(r, c) PROVE KycInv'
    <2> DEFINE call == [at |-> "review", on |-> c, of |-> case[c].user]
    <2>1. call \in CallState /\ call # Idle /\ req' = [req EXCEPT ![r] = call] /\ KycSees(call, status', case')
      BY <1>8 DEF ReviewRead, CallState, Idle, KycSees, KycInv, IInv, TypeOK
    <2> HIDE DEF call
    <2> QED
      BY <1>1, <1>3, <2>1, KycCallInv
  <1> QED
    BY <1>4, <1>5, <1>6, <1>7, <1>8

\* The only step that puts a case in review.
LEMMA KycCreateKeeps ==
    ASSUME KycInv, KycNext, NEW r \in Requests, NEW c \in Cases, SubmitCreate(r, c)
    PROVE  KycInv'
  <1> DEFINE call == [at |-> "write", by |-> req[r].by, upload |-> req[r].upload, on |-> c]
             row  == [user |-> req[r].by, status |-> "PENDING", type |-> req[r].upload.type, documents |-> {}]
  <1>1. /\ req[r] \in CallState /\ req[r].at = "create" /\ DOMAIN case = Cases
        /\ req' = [req EXCEPT ![r] = call] /\ case' = [case EXCEPT ![c] = row] /\ UNCHANGED status
    BY DEF KycInv, IInv, TypeOK, SubmitCreate
  <1>2. call \in CallState /\ call # Idle /\ call.at = "write" /\ call.by = req[r].by /\ row.user = req[r].by
    BY <1>1 DEF CallState, Idle
  <1> HIDE DEF call, row
  <1>3. \A d \in Cases : case'[d] = IF d = c THEN row ELSE case[d]
    BY <1>1 DEF KycInv, IInv, TypeOK
  <1>4. KycSerial => KycSees(call, status', case') /\ OneCaseInReview'
    BY <1>1, <1>2, <1>3 DEF KycSerial, KycSees, OneCaseInReview
  <1> QED
    BY <1>1, <1>2, <1>4, KycCallInv

\* A call ends and leaves no case in review that was not.
LEMMA KycEndsKeep ==
    ASSUME KycInv, KycNext, NEW r \in Requests,
           SubmitRecord(r) \/ SubmitUndo(r) \/ \E decision \in Decisions : ReviewCommit(r, decision)
    PROVE  KycInv'
  <1>1. req[r] \in CallState /\ req[r].at \in {"write", "record", "review"}
    BY DEF KycInv, IInv, TypeOK, SubmitRecord, SubmitUndo, ReviewCommit
  <1>2. req[r].on \in Cases
    BY <1>1 DEF CallState
  <1>3. /\ Idle \in CallState /\ Idle.at = "idle" /\ KycSees(Idle, status', case') /\ req[r] # Idle
        /\ req' = [req EXCEPT ![r] = Idle]
    BY <1>1 DEF Idle, CallState, KycSees, SubmitRecord, SubmitUndo, ReviewCommit, Done
  <1>4. ASSUME NEW d \in Cases, case'[d].status = "PENDING"
        PROVE  case[d].status = "PENDING" /\ case'[d].user = case[d].user
    <2>1. case \in [Cases -> [user: Users \cup {NoUser}, status: Statuses \cup {"DELETED"}, type: IdentityTypes,
                              documents: SUBSET DocumentTypes]]
      BY DEF KycInv, IInv, TypeOK
    <2>2. CASE SubmitRecord(r)
      BY <1>2, <1>4, <2>1, <2>2 DEF SubmitRecord
    <2>3. CASE SubmitUndo(r)
      BY <1>2, <1>4, <2>1, <2>3 DEF SubmitUndo, NoCase
    <2>4. ASSUME NEW decision \in Decisions, ReviewCommit(r, decision)
          PROVE  case[d].status = "PENDING" /\ case'[d].user = case[d].user
      BY <1>2, <1>4, <2>1, <2>4 DEF ReviewCommit, Decide, Decisions
    <2> QED
      BY <2>2, <2>3, <2>4
  <1>5. OneCaseInReview => OneCaseInReview'
    BY <1>4 DEF OneCaseInReview
  <1> QED
    BY <1>3, <1>5, KycCallInv DEF KycSerial

\* The provider and the console: under a call that is alone, the status stays or the
\* call is overlapped.
LEMMA KycOperateKeeps ==
    ASSUME KycInv, KycNext, Operate
    PROVE  KycInv'
  <1>1. IInv' /\ UNCHANGED <<case, req>>
    BY StepInv DEF KycInv, KycNext, Operate, Webhook, SetKyc
  <1>2. ASSUME ~overlapped' PROVE KycSerial'
    <2>1. KycSerial /\ \A r \in Requests : req[r] = Idle \/ status' = status
      BY <1>1, <1>2 DEF KycInv, KycNext
    <2> QED
      BY <1>1, <2>1 DEF KycSerial, KycSees, Together, OneCaseInReview, Idle
  <1> QED
    BY <1>1, <1>2 DEF KycInv

LEMMA KycStutter ==
    ASSUME KycInv, UNCHANGED vars, overlapped => overlapped'
    PROVE  KycInv'
  <1>1. IInv'
    BY StepInv DEF KycInv
  <1> QED
    BY <1>1 DEF KycInv, vars, KycSerial, KycSees, Together, OneCaseInReview

LEMMA KycStep == KycInv /\ [MCNext]_MCVars => KycInv'
  <1> SUFFICES ASSUME KycInv, [MCNext]_MCVars PROVE KycInv'
    OBVIOUS
  <1>1. ASSUME KycNext, NEW r \in Requests, Step(r) PROVE KycInv'
    <2>1. ASSUME \/ \E u \in Users : Enter(r, u)
                 \/ Start(r)
                 \/ \E upload \in Uploads : SubmitCheck(r, upload)
                 \/ SubmitWrite(r)
                 \/ \E c \in Cases : ReviewRead(r, c)
                 \/ Abort(r)
          PROVE  KycInv'
      BY <1>1, <2>1, KycReadsKeep
    <2>2. ASSUME NEW c \in Cases, SubmitCreate(r, c) PROVE KycInv'
      BY <1>1, <2>2, KycCreateKeeps
    <2>3. ASSUME SubmitRecord(r) \/ SubmitUndo(r) \/ \E decision \in Decisions : ReviewCommit(r, decision)
          PROVE  KycInv'
      BY <1>1, <2>3, KycEndsKeep
    <2> QED
      BY <1>1, <2>1, <2>2, <2>3 DEF Step
  <1>2. CASE KycNext
    BY <1>1, <1>2, KycOperateKeeps DEF KycNext, Next
  <1>3. CASE AccountsNext
    BY <1>3, KycStutter DEF AccountsNext
  <1>4. CASE UNCHANGED MCVars
    BY <1>4, KycStutter DEF MCVars
  <1> QED
    BY <1>2, <1>3, <1>4 DEF MCNext

THEOREM KycInvariant == MCSpec => []KycInv
  <1> QED
    BY KycInit, KycStep, PTL DEF MCSpec

\* Until two calls overlap a user has at most one case in review, for any number of
\* submissions that die after any step (submitManual's pending check).
THEOREM OneCaseAtATime == MCSpec => []SerialOneCaseInReview
  <1>1. KycInv => SerialOneCaseInReview
    BY DEF KycInv, KycSerial, SerialOneCaseInReview
  <1> QED
    BY <1>1, KycInvariant, PTL

\* Until two calls overlap, a user who is approved cannot lose the approval by an own
\* start or submission, at whatever step (start, submitManual).
THEOREM OwnCallsKeepApproval == MCSpec => SerialOwnCallsKeepApproval
  <1> DEFINE Kept ==
        ~overlapped' =>
          \A r \in Requests : req[r].at \in {"in", "create", "write", "record"} /\ status[req[r].by] = "APPROVED" =>
              status'[req[r].by] = "APPROVED"
  <1>1. KycInv /\ [MCNext]_MCVars => [Kept]_vars
    <2> SUFFICES ASSUME KycInv, KycNext, ~overlapped', NEW r \in Requests,
                        req[r].at \in {"in", "create", "write", "record"}, status[req[r].by] = "APPROVED"
                 PROVE  status'[req[r].by] = "APPROVED"
      BY DEF MCNext, AccountsNext, MCVars, vars
    <2>1. KycSerial /\ KycSees(req[r], status, case) /\ req[r] # Idle
      BY DEF KycInv, KycNext, KycSerial, Idle
    <2>2. CASE Operate
      BY <2>1, <2>2 DEF KycNext, Operate, Webhook, SetKyc
    <2>3. ASSUME NEW s \in Requests, Step(s) PROVE status' = status
      <3>1. req[s] # Idle => s = r
        BY <2>1 DEF KycSerial, Together
      <3>2. ~Start(s) /\ ~SubmitRecord(s) /\ \A decision \in Decisions : ~ReviewCommit(s, decision)
        BY <2>1, <3>1 DEF KycSees, Start, Open, SubmitRecord, ReviewCommit, Idle
      <3> QED
        BY <2>3, <3>2 DEF Step, Enter, SubmitCheck, SubmitCreate, SubmitWrite, SubmitUndo, ReviewRead, Abort
    <2> QED
      BY <2>2, <2>3 DEF KycNext, Next
  <1> QED
    BY <1>1, KycInvariant, PTL DEF MCSpec, SerialOwnCallsKeepApproval

-----------------------------------------------------------------------------
\* What the proofs need of the table of the pages: a page that locks a row or the whole
\* page exempts no button, one that locks the whole page or leaves a list as it is has
\* no forms, and the service takes a button's operation for every status that the
\* button is drawn for.
Finds(T) == {t[1] : t \in T}

TableOf(q) ==
    /\ q.lock \in {"none", "button", "row", "page"}
    /\ q.lock \in {"row", "page"} => q.free = {}
    /\ q.lock = "page" => q.forms = {}
    /\ q.quiet # {} => q.forms = {}
    /\ q.decides => \A op \in DOMAIN q.drawn : q.drawn[op] \subseteq Finds(q.takes[op])

LEMMA FindsKeep ==
    \A S : S \subseteq Finds(W!Keep(S))
  <1> SUFFICES ASSUME NEW S, NEW s \in S PROVE s \in Finds(W!Keep(S))
    OBVIOUS
  <1>1. <<s, s>> \in W!Keep(S) /\ <<s, s>>[1] = s
    BY DEF W!Keep
  <1> QED
    BY <1>1 DEF Finds

LEMMA FindsTo ==
    \A S, x : S \subseteq Finds(W!To(S, x))
  <1> SUFFICES ASSUME NEW S, NEW x, NEW s \in S PROVE s \in Finds(W!To(S, x))
    OBVIOUS
  <1>1. <<s, x>> \in W!To(S, x) /\ <<s, x>>[1] = s
    BY DEF W!To
  <1> QED
    BY <1>1 DEF Finds

LEMMA FindsPair ==
    \A T, a, b : <<a, b>> \in T => a \in Finds(T)
  BY DEF Finds

LEMMA VaultPageTable ==
    TableOf(W!VaultPage)
  <1>1. /\ W!VaultPage.lock = "button" /\ W!VaultPage.quiet = {} /\ W!VaultPage.drawn = W!VaultRow
        /\ W!VaultPage.takes = W!VaultService
    BY DEF W!VaultPage, W!Plain
  <1>2. /\ <<"INTAKE", "AUTHENTICATING">> \in W!VaultService.authenticate
        /\ <<"AUTHENTICATING", "GRADED">> \in W!VaultService.grade
        /\ W!VaultService.vault = W!To({"GRADED", "VAULTED"}, "VAULTED")
        /\ W!VaultService.edit = W!Keep(W!VaultStates)
    BY DEF W!VaultService
  <1>3. ASSUME NEW op \in DOMAIN W!VaultPage.drawn, NEW s \in W!VaultPage.drawn[op]
        PROVE  s \in Finds(W!VaultPage.takes[op])
    BY <1>1, <1>2, FindsKeep, FindsTo, FindsPair DEF W!VaultRow, W!VaultStates
  <1> QED
    BY <1>1, <1>3 DEF TableOf

LEMMA CategoryManagerTable ==
    TableOf(W!CategoryManager)
  <1>1. /\ W!CategoryManager.lock = "button" /\ W!CategoryManager.quiet = {}
        /\ W!CategoryManager.drawn = [hide |-> {"SHOWN"}, show |-> {"HIDDEN"}]
        /\ W!CategoryManager.takes = W!CategoryService
    BY DEF W!CategoryManager, W!Plain
  <1>2. ASSUME NEW op \in DOMAIN W!CategoryManager.drawn, NEW s \in W!CategoryManager.drawn[op]
        PROVE  s \in Finds(W!CategoryManager.takes[op])
    BY <1>1, FindsKeep, FindsTo, FindsPair DEF W!CategoryService
  <1> QED
    BY <1>1, <1>2 DEF TableOf

LEMMA SubmissionQueueTable ==
    TableOf(W!SubmissionQueue)
  <1>1. /\ W!SubmissionQueue.lock = "button" /\ W!SubmissionQueue.quiet = {}
        /\ W!SubmissionQueue.drawn = W!OpsRow /\ W!SubmissionQueue.takes = W!SubmissionService
    BY DEF W!SubmissionQueue, W!Plain
  <1>2. /\ <<"RECEIVED", "AUTHENTICATING">> \in W!SubmissionService.authenticate
        /\ <<"AUTHENTICATING", "GRADING">> \in W!SubmissionService.grade
        /\ W!SubmissionService.receive = W!To(W!Unshipped, "RECEIVED")
        /\ W!SubmissionService.photos = W!To(W!Underway \cup {"MINTED"}, "PHOTOGRAPHED")
        /\ W!SubmissionService.mint = W!To({"GRADING", "PHOTOGRAPHED", "MINTED"}, "MINTED")
        /\ W!SubmissionService.reject = W!To(W!Submitted, "REJECTED")
    BY DEF W!SubmissionService
  <1>3. ASSUME NEW op \in DOMAIN W!SubmissionQueue.drawn, NEW s \in W!SubmissionQueue.drawn[op]
        PROVE  s \in Finds(W!SubmissionQueue.takes[op])
    BY <1>1, <1>2, FindsKeep, FindsTo, FindsPair DEF W!OpsRow, W!Submitted, W!Underway, W!Unshipped
  <1> QED
    BY <1>1, <1>3 DEF TableOf

LEMMA SubmitPageTable ==
    TableOf(W!SubmitPage)
  <1>1. /\ W!SubmitPage.lock = "row" /\ W!SubmitPage.quiet = {} /\ W!SubmitPage.free = {}
        /\ W!SubmitPage.drawn = W!SubmissionCard /\ W!SubmitPage.takes = W!OwnerService
    BY DEF W!SubmitPage, W!Plain
  <1>2. /\ <<"DRAFT", "LABEL_GENERATED">> \in W!OwnerService.label
        /\ <<"LABEL_GENERATED", "IN_TRANSIT">> \in W!OwnerService.ship
        /\ W!OwnerService.cancel = W!To(W!Unshipped \cup {"REJECTED", "CANCELLED"}, "CANCELLED")
    BY DEF W!OwnerService
  <1>3. ASSUME NEW op \in DOMAIN W!SubmitPage.drawn, NEW s \in W!SubmitPage.drawn[op]
        PROVE  s \in Finds(W!SubmitPage.takes[op])
    BY <1>1, <1>2, FindsKeep, FindsTo, FindsPair DEF W!SubmissionCard, W!Unshipped
  <1> QED
    BY <1>1, <1>3 DEF TableOf

LEMMA KycQueueTable ==
    TableOf(W!KycQueue)
  <1>1. /\ W!KycQueue.lock = "none" /\ W!KycQueue.quiet = {}
        /\ W!KycQueue.drawn = [approve |-> {"PENDING"}, reject |-> {"PENDING"}]
        /\ W!KycQueue.takes = W!KycService
    BY DEF W!KycQueue, W!Plain
  <1>2. ASSUME NEW op \in DOMAIN W!KycQueue.drawn, NEW s \in W!KycQueue.drawn[op]
        PROVE  s \in Finds(W!KycQueue.takes[op])
    BY <1>1, FindsKeep, FindsTo, FindsPair DEF W!KycService, W!Decided
  <1> QED
    BY <1>1, <1>2 DEF TableOf

LEMMA WithdrawalQueueTable ==
    TableOf(W!WithdrawalQueue)
  <1>1. /\ W!WithdrawalQueue.lock = "none" /\ W!WithdrawalQueue.quiet = {}
        /\ W!WithdrawalQueue.drawn = [complete |-> W!Unsettled, fail |-> W!Unsettled]
        /\ W!WithdrawalQueue.takes = W!WithdrawalService
    BY DEF W!WithdrawalQueue, W!Plain
  <1>2. ASSUME NEW op \in DOMAIN W!WithdrawalQueue.drawn, NEW s \in W!WithdrawalQueue.drawn[op]
        PROVE  s \in Finds(W!WithdrawalQueue.takes[op])
    BY <1>1, FindsKeep, FindsTo, FindsPair DEF W!WithdrawalService, W!Unsettled
  <1> QED
    BY <1>1, <1>2 DEF TableOf

LEMMA TreasuryPageTable ==
    TableOf(W!TreasuryPage)
  <1>1. /\ W!TreasuryPage.lock = "none" /\ W!TreasuryPage.quiet = {}
        /\ W!TreasuryPage.drawn = [pause |-> {"RUNNING"}, resume |-> {"PAUSED"}, fund |-> {"RUNNING", "PAUSED"}]
        /\ W!TreasuryPage.takes = W!BuybackService
    BY DEF W!TreasuryPage, W!Plain
  <1>2. ASSUME NEW op \in DOMAIN W!TreasuryPage.drawn, NEW s \in W!TreasuryPage.drawn[op]
        PROVE  s \in Finds(W!TreasuryPage.takes[op])
    BY <1>1, FindsKeep, FindsTo, FindsPair DEF W!BuybackService
  <1> QED
    BY <1>1, <1>2 DEF TableOf

LEMMA ReviewQueueTable ==
    TableOf(W!ReviewQueue)
  <1>1. /\ W!ReviewQueue.lock = "none" /\ W!ReviewQueue.quiet = {}
        /\ W!ReviewQueue.drawn = [approve |-> {"HELD"}, reject |-> {"HELD"}]
        /\ W!ReviewQueue.takes = W!ReviewService
    BY DEF W!ReviewQueue, W!Plain
  <1>2. /\ <<"HELD", "ACTIVE">> \in W!ReviewService.approve
        /\ <<"HELD", "CANCELLED">> \in W!ReviewService.reject
    BY DEF W!ReviewService
  <1>3. ASSUME NEW op \in DOMAIN W!ReviewQueue.drawn, NEW s \in W!ReviewQueue.drawn[op]
        PROVE  s \in Finds(W!ReviewQueue.takes[op])
    BY <1>1, <1>2, FindsKeep, FindsTo, FindsPair
  <1> QED
    BY <1>1, <1>3 DEF TableOf

LEMMA RedemptionQueueTable ==
    TableOf(W!RedemptionQueue)
  <1>1. /\ W!RedemptionQueue.lock = "none" /\ W!RedemptionQueue.quiet = {}
        /\ W!RedemptionQueue.drawn = [ship |-> {"REQUESTED"}, delivered |-> {"SHIPPED"}]
        /\ W!RedemptionQueue.takes = W!RedemptionService
    BY DEF W!RedemptionQueue, W!Plain
  <1>2. ASSUME NEW op \in DOMAIN W!RedemptionQueue.drawn, NEW s \in W!RedemptionQueue.drawn[op]
        PROVE  s \in Finds(W!RedemptionQueue.takes[op])
    BY <1>1, FindsKeep, FindsTo, FindsPair DEF W!RedemptionService, W!Shipping
  <1> QED
    BY <1>1, <1>2 DEF TableOf

LEMMA UserTableTable ==
    TableOf(W!UserTable)
  <1>1. /\ W!UserTable.lock = "none" /\ W!UserTable.forms = {}
        /\ W!UserTable.drawn = [free |-> W!HoldValues \ {"NONE"},
                               suspend |-> W!HoldValues \ {"SUSPENDED"}, edit |-> W!HoldValues, credit |-> W!HoldValues]
        /\ W!UserTable.takes = W!UsersService
    BY DEF W!UserTable, W!Plain
  <1>2. ASSUME NEW op \in DOMAIN W!UserTable.drawn, NEW s \in W!UserTable.drawn[op]
        PROVE  s \in Finds(W!UserTable.takes[op])
    BY <1>1, FindsKeep, FindsTo, FindsPair DEF W!UsersService, W!HoldValues
  <1> QED
    BY <1>1, <1>2 DEF TableOf

LEMMA PackTableTable ==
    TableOf(W!PackTable)
  <1>1. /\ W!PackTable.lock = "none" /\ W!PackTable.quiet = {}
        /\ W!PackTable.drawn = [activate |-> W!PackStates \ {"ACTIVE"}, pause |-> {"ACTIVE"},
                               addPool |-> W!PackStates, updateVisual |-> W!PackStates]
        /\ W!PackTable.takes = W!PackService
    BY DEF W!PackTable, W!Plain
  <1>2. ASSUME NEW op \in DOMAIN W!PackTable.drawn, NEW s \in W!PackTable.drawn[op]
        PROVE  s \in Finds(W!PackTable.takes[op])
    BY <1>1, FindsKeep, FindsTo, FindsPair DEF W!PackService, W!PackStates
  <1> QED
    BY <1>1, <1>2 DEF TableOf

LEMMA RafflePageTable ==
    TableOf(W!RafflePage)
  <1>1. /\ W!RafflePage.lock = "page" /\ W!RafflePage.quiet = {} /\ W!RafflePage.forms = {}
        /\ W!RafflePage.free = {}
        /\ W!RafflePage.drawn = [tickets |-> {"ACTIVE"}, draw |-> {"SOLD_OUT"}, cancel |-> {"ACTIVE", "SOLD_OUT"}]
        /\ W!RafflePage.takes = W!RaffleService
    BY DEF W!RafflePage, W!Plain
  <1>2. /\ <<"ACTIVE", "ACTIVE">> \in W!RaffleService.tickets
        /\ <<"SOLD_OUT", "SETTLED">> \in W!RaffleService.draw
        /\ W!RaffleService.cancel = W!To({"ACTIVE", "SOLD_OUT"}, "CANCELLED")
    BY DEF W!RaffleService
  <1>3. ASSUME NEW op \in DOMAIN W!RafflePage.drawn, NEW s \in W!RafflePage.drawn[op]
        PROVE  s \in Finds(W!RafflePage.takes[op])
    BY <1>1, <1>2, FindsKeep, FindsTo, FindsPair
  <1> QED
    BY <1>1, <1>3 DEF TableOf

LEMMA ListingPageTable ==
    TableOf(W!ListingPage)
  <1>1. W!ListingPage.lock = "page" /\ W!ListingPage.forms = {} /\ W!ListingPage.free = {}
    BY DEF W!ListingPage, W!Plain
  <1>2. W!ListingPage.drawn = [buy |-> {"ACTIVE"}] /\ W!ListingPage.takes = [buy |-> {<<"ACTIVE", "SOLD">>}]
    BY DEF W!ListingPage, W!Plain
  <1>3. ASSUME NEW op \in DOMAIN W!ListingPage.drawn, NEW s \in W!ListingPage.drawn[op]
        PROVE  s \in Finds(W!ListingPage.takes[op])
    <2>1. op = "buy" /\ s = "ACTIVE" /\ W!ListingPage.takes[op] = {<<"ACTIVE", "SOLD">>}
      BY <1>2
    <2> QED
      BY <2>1, FindsPair
  <1> QED
    BY <1>1, <1>3 DEF TableOf

LEMMA PortfolioPageTable ==
    TableOf(W!PortfolioPage)
  <1>1. /\ W!PortfolioPage.lock = "row" /\ W!PortfolioPage.forms = {} /\ W!PortfolioPage.free = {}
        /\ W!PortfolioPage.decides = FALSE
    BY DEF W!PortfolioPage, W!Plain
  <1> QED
    BY <1>1 DEF TableOf

LEMMA Tables ==
    ASSUME page \in W!Pages
    PROVE  TableOf(page)
  BY VaultPageTable, CategoryManagerTable, SubmissionQueueTable, SubmitPageTable, KycQueueTable,
     WithdrawalQueueTable, TreasuryPageTable, ReviewQueueTable, RedemptionQueueTable, UserTableTable,
     PackTableTable, RafflePageTable, ListingPageTable, PortfolioPageTable DEF W!Pages

-----------------------------------------------------------------------------
\* What a call of a list page holds: a post of one of the page's operations, a load,
\* or the rows that one of them has read.
CallTyped(x, ops, filters) ==
    \/ x = W!Idle
    \/ x \in [at : {"sent", "accepted", "refused", "lost", "loading"}, row : Rows \cup {Form}, op : ops, filter : filters]
    \/ x \in [at : {"loading"}, row : {NoRow}, op : {"load"}, filter : filters]
    \/ /\ x = [at |-> "listed", row |-> x.row, op |-> x.op, rows |-> x.rows]
       /\ x.row = NoRow \/ (x.row \in Rows \cup {Form} /\ x.op \in ops)

AllFilters == {page.first} \cup page.filters

PagesTypes ==
    /\ page \in W!Pages
    /\ server = [r \in Rows |-> server[r]]
    /\ filter \in AllFilters
    /\ busy \subseteq (Rows \cup {Form}) \X W!Ops
    /\ err \in BOOLEAN /\ mixed \in BOOLEAN /\ lossy \in BOOLEAN
    /\ pcall = [c \in Requests |-> pcall[c]]
    /\ \A c \in Requests : CallTyped(pcall[c], W!Ops, AllFilters)

LEMMA CallKinds ==
    ASSUME NEW x, NEW ops, NEW filters, CallTyped(x, ops, filters)
    PROVE  /\ x.at = "idle" <=> x = W!Idle
           /\ x.at \in {"idle", "sent", "accepted", "refused", "lost", "loading", "listed"}
           /\ x.at # "idle" /\ x.row # NoRow => x.row \in Rows \cup {Form} /\ x.op \in ops
           /\ x.at \in {"sent", "accepted", "refused", "lost"} => x.row # NoRow
           /\ x.at \in {"sent", "accepted", "loading"} => x.filter \in filters
  BY NoneAssumption DEF NoneAssumption, CallTyped, W!Idle

LEMMA CallMoves ==
    ASSUME NEW x, NEW ops, NEW filters, CallTyped(x, ops, filters), x.at \in {"sent", "accepted", "refused", "lost"},
           NEW s \in {"sent", "accepted", "refused", "lost", "loading"}
    PROVE  LET y == [x EXCEPT !.at = s] IN
           CallTyped(y, ops, filters) /\ y.at = s /\ y.row = x.row /\ y.op = x.op /\ y.filter = x.filter
  <1>1. x \in [at : {"sent", "accepted", "refused", "lost", "loading"}, row : Rows \cup {Form}, op : ops, filter : filters]
    BY DEF CallTyped, W!Idle
  <1> QED
    BY <1>1 DEF CallTyped

LEMMA CallReads ==
    ASSUME NEW x, NEW ops, NEW filters, CallTyped(x, ops, filters), x.at = "loading", NEW rows
    PROVE  LET y == [at |-> "listed", row |-> x.row, op |-> x.op, rows |-> rows] IN
           CallTyped(y, ops, filters) /\ y.at = "listed" /\ y.row = x.row /\ y.op = x.op /\ y.rows = rows
  BY DEF CallTyped, W!Idle

LEMMA CallStarts ==
    ASSUME NEW ops, NEW filters, NEW f \in filters
    PROVE  /\ CallTyped(W!Idle, ops, filters)
           /\ LET y == W!Loading(f) IN
              CallTyped(y, ops, filters) /\ y.at = "loading" /\ y.row = NoRow /\ y.filter = f
           /\ \A row \in Rows \cup {Form}, op \in ops :
                  LET y == [at |-> "sent", row |-> row, op |-> op, filter |-> f] IN
                  CallTyped(y, ops, filters) /\ y.at = "sent" /\ y.row = row /\ y.op = op /\ y.filter = f
  BY DEF CallTyped, W!Idle, W!Loading

-----------------------------------------------------------------------------
\* A step of a page is one of one call; page says which operations and filters there are.
LEMMA PageStays ==
    ASSUME W!PagesNext
    PROVE  page' = page /\ W!Ops' = W!Ops /\ AllFilters' = AllFilters /\ (W!Reloads' <=> W!Reloads)
  <1>1. page' = page
    BY DEF W!PagesNext, W!Next, W!Press, W!Submit, W!Post, W!Select, W!Progress, W!Accept, W!Refuse, W!Lose, W!Fail,
           W!Answer, W!AnswerQuietly, W!Read, W!Show, W!LoadFails, W!Loaded
  <1> QED
    BY <1>1 DEF W!Ops, W!Reloads, AllFilters

\* The post of a press or of a form.
Presses(c, row, op) == W!Post(c, row, op) /\ op \in W!Ops /\ (row \in Rows \/ (row = Form /\ page.forms # {}))

LEMMA PagesCases ==
    ASSUME PagesTypes, W!PagesNext
    PROVE  \E c \in Requests :
               \/ \E row, op : Presses(c, row, op)
               \/ \E f \in page.filters : W!Select(c, f)
               \/ W!Progress(c)
  <1>1. PICK c \in Requests :
            \/ \E r \in Rows, op \in DOMAIN page.drawn : W!Press(c, r, op)
            \/ \E form \in page.forms : W!Submit(c, form)
            \/ \E f \in page.filters : W!Select(c, f)
            \/ W!Progress(c)
    BY DEF W!PagesNext, W!Next
  <1>2. ASSUME NEW r \in Rows, NEW op \in DOMAIN page.drawn, W!Press(c, r, op)
        PROVE  Presses(c, r, op)
    BY <1>2 DEF W!Press, W!Ops, Presses
  <1>3. ASSUME NEW form \in page.forms, W!Submit(c, form)
        PROVE  Presses(c, Form, form.op)
    BY <1>3 DEF W!Submit, W!Ops, Presses
  <1> QED
    BY <1>1, <1>2, <1>3

LEMMA Becoming ==
    ASSUME PagesTypes, NEW c \in Requests, NEW x, W!Becomes(c, x)
    PROVE  /\ pcall' = [d \in Requests |-> pcall'[d]]
           /\ pcall'[c] = x
           /\ \A d \in Requests \ {c} : pcall'[d] = pcall[d]
  BY DEF PagesTypes, W!Becomes

\* A call in flight holds a press as long as the code that disables buttons has not
\* come to its end.
IsPress(x) == x.at # "idle" /\ x.row # NoRow /\ (x.at \in {"loading", "listed"} => page.awaits)

\* What becomes of the press and of the buttons when a call goes on: the press goes on
\* and the buttons stay, or it is over and they come back.
GoesOn(c, x) ==
    /\ busy' = busy /\ (IsPress(x) <=> IsPress(pcall[c]))
    /\ IsPress(x) => x.row = pcall[c].row /\ x.op = pcall[c].op
IsOver(c, x) == busy' = W!Unlocked(c) /\ IsPress(pcall[c]) /\ ~IsPress(x)

LEMMA ProgressKinds ==
    ASSUME PagesTypes, NEW c \in Requests, W!Progress(c)
    PROVE  /\ \E x : W!Becomes(c, x) /\ CallTyped(x, W!Ops, AllFilters) /\ (GoesOn(c, x) \/ IsOver(c, x))
           /\ server' = [r \in Rows |-> server'[r]] /\ filter' = filter /\ err' \in BOOLEAN
  <1> DEFINE Kind == \E x : W!Becomes(c, x) /\ CallTyped(x, W!Ops, AllFilters) /\ (GoesOn(c, x) \/ IsOver(c, x))
             Rest == server' = [r \in Rows |-> server'[r]] /\ filter' = filter /\ err' \in BOOLEAN
  <1>1. CallTyped(pcall[c], W!Ops, AllFilters)
    BY DEF PagesTypes
  <1>2. CallTyped(W!Idle, W!Ops, AllFilters) /\ W!Idle.at = "idle"
    BY DEF CallTyped, W!Idle
  <1>3. ASSUME NEW s \in {"accepted", "refused", "lost", "loading"}, pcall[c].at \in {"sent", "accepted"}
        PROVE  LET y == [pcall[c] EXCEPT !.at = s] IN
               CallTyped(y, W!Ops, AllFilters) /\ y.at = s /\ y.row = pcall[c].row /\ y.op = pcall[c].op
    <2>1. pcall[c].at \in {"sent", "accepted", "refused", "lost"} /\ s \in {"sent", "accepted", "refused", "lost", "loading"}
      BY <1>3
    <2> QED
      BY <1>1, <2>1, CallMoves
  <1>4. pcall[c].at \in {"sent", "accepted", "refused", "lost"} => IsPress(pcall[c])
    BY <1>1, CallKinds DEF IsPress
  <1>5. CASE W!Accept(c) \/ W!Refuse(c) \/ W!Lose(c)
    <2>1. Rest
      BY <1>5 DEF W!Accept, W!Refuse, W!Lose, PagesTypes
    <2>2. pcall[c].at \in {"sent", "accepted"} /\ busy' = busy
      BY <1>5 DEF W!Accept, W!Refuse, W!Lose
    <2>3. PICK s \in {"accepted", "refused", "lost"} : W!Becomes(c, [pcall[c] EXCEPT !.at = s])
      BY <1>5 DEF W!Accept, W!Refuse, W!Lose
    <2>4. GoesOn(c, [pcall[c] EXCEPT !.at = s])
      BY <1>3, <1>4, <2>2 DEF GoesOn, IsPress
    <2> QED
      BY <1>3, <2>1, <2>2, <2>3, <2>4
  <1>6. CASE W!Answer(c)
    <2>1. Rest
      BY <1>6 DEF W!Answer, PagesTypes
    <2>2. /\ pcall[c].at = "accepted" /\ W!Becomes(c, [pcall[c] EXCEPT !.at = "loading"])
          /\ busy' = IF page.awaits THEN busy ELSE W!Unlocked(c)
      BY <1>6 DEF W!Answer
    <2>3. LET x == [pcall[c] EXCEPT !.at = "loading"] IN GoesOn(c, x) \/ IsOver(c, x)
      BY <1>3, <1>4, <2>2 DEF GoesOn, IsOver, IsPress
    <2> QED
      BY <1>3, <2>1, <2>2, <2>3
  <1>7. CASE W!Fail(c) \/ W!AnswerQuietly(c)
    <2>1. Rest
      BY <1>7 DEF W!Fail, W!AnswerQuietly, PagesTypes
    <2>2. pcall[c].at \in {"refused", "lost", "accepted"} /\ W!Becomes(c, W!Idle) /\ busy' = W!Unlocked(c)
      BY <1>7 DEF W!Fail, W!AnswerQuietly
    <2>3. IsOver(c, W!Idle)
      BY <1>2, <1>4, <2>2 DEF IsOver, IsPress
    <2> QED
      BY <1>2, <2>1, <2>2, <2>3
  <1>8. CASE W!Read(c)
    <2> DEFINE x == [at |-> "listed", row |-> pcall[c].row, op |-> pcall[c].op, rows |-> W!Listed(pcall[c].filter)]
    <2>1. Rest
      BY <1>8 DEF W!Read, PagesTypes
    <2>2. pcall[c].at = "loading" /\ W!Becomes(c, x) /\ busy' = busy
      BY <1>8 DEF W!Read
    <2>3. CallTyped(x, W!Ops, AllFilters) /\ x.at = "listed" /\ x.row = pcall[c].row /\ x.op = pcall[c].op
      BY <1>1, <2>2, CallReads
    <2> HIDE DEF x
    <2>4. GoesOn(c, x)
      BY <2>2, <2>3 DEF GoesOn, IsPress
    <2> QED
      BY <2>1, <2>2, <2>3, <2>4
  <1>9. CASE W!Show(c) \/ W!LoadFails(c)
    <2>1. Rest
      BY <1>9 DEF W!Show, W!LoadFails, W!Loaded, PagesTypes
    <2>2. /\ pcall[c].at \in {"loading", "listed"} /\ W!Becomes(c, W!Idle)
          /\ busy' = IF page.awaits /\ pcall[c].row # NoRow THEN W!Unlocked(c) ELSE busy
      BY <1>9 DEF W!Show, W!LoadFails, W!Loaded
    <2>3. GoesOn(c, W!Idle) \/ IsOver(c, W!Idle)
      BY <1>2, <2>2 DEF GoesOn, IsOver, IsPress
    <2> QED
      BY <1>2, <2>1, <2>2, <2>3
  <1> QED
    BY <1>5, <1>6, <1>7, <1>8, <1>9 DEF W!Progress

\* A press: its call, and the lock that it takes.
Starts(c, row, op) ==
    /\ pcall[c] = W!Idle /\ ~IsPress(pcall[c])
    /\ IsPress(pcall'[c]) /\ pcall'[c].row = row /\ pcall'[c].op = op
    /\ op \in W!Ops /\ (row \in Rows \/ (row = Form /\ page.forms # {}))
    /\ W!Enabled(row, op)
    /\ busy' = (busy \ W!Scope(row)) \cup W!Locks(row, op)

\* Each step of a page moves one call: its press starts, goes on or is over.
LEMMA PageKinds ==
    ASSUME PagesTypes, W!PagesNext
    PROVE  /\ PagesTypes'
           /\ \E c \in Requests :
                  /\ \A d \in Requests \ {c} : pcall'[d] = pcall[d]
                  /\ \/ GoesOn(c, pcall'[c])
                     \/ IsOver(c, pcall'[c])
                     \/ \E row, op : Starts(c, row, op)
  <1>1. page' = page /\ W!Ops' = W!Ops /\ AllFilters' = AllFilters
    BY PageStays
  <1>2. mixed' \in BOOLEAN /\ lossy' \in BOOLEAN
    BY DEF W!PagesNext
  <1>3. PICK c \in Requests :
            \/ \E row, op : Presses(c, row, op)
            \/ \E f \in page.filters : W!Select(c, f)
            \/ W!Progress(c)
    BY PagesCases
  <1>4. W!Idle.at = "idle"
    BY DEF W!Idle
  <1>5. ASSUME NEW x, W!Becomes(c, x), CallTyped(x, W!Ops, AllFilters),
               server' = [r \in Rows |-> server'[r]], filter' \in AllFilters,
               busy' \subseteq (Rows \cup {Form}) \X W!Ops, err' \in BOOLEAN
        PROVE  PagesTypes' /\ pcall'[c] = x /\ \A d \in Requests \ {c} : pcall'[d] = pcall[d]
    <2>1. pcall' = [d \in Requests |-> pcall'[d]] /\ pcall'[c] = x /\ \A d \in Requests \ {c} : pcall'[d] = pcall[d]
      BY <1>5, Becoming
    <2>2. \A d \in Requests : CallTyped(pcall'[d], W!Ops, AllFilters)
      BY <1>5, <2>1 DEF PagesTypes
    <2> QED
      BY <1>1, <1>2, <1>5, <2>1, <2>2 DEF PagesTypes
  <1>6. ASSUME NEW row, NEW op, Presses(c, row, op)
        PROVE  PagesTypes' /\ Starts(c, row, op) /\ \A d \in Requests \ {c} : pcall'[d] = pcall[d]
    <2> DEFINE x == [at |-> "sent", row |-> row, op |-> op, filter |-> filter]
    <2>1. /\ op \in W!Ops /\ (row \in Rows \/ (row = Form /\ page.forms # {}))
          /\ pcall[c] = W!Idle /\ W!Enabled(row, op) /\ W!Becomes(c, x)
          /\ busy' = (busy \ W!Scope(row)) \cup W!Locks(row, op)
          /\ server' = server /\ filter' = filter /\ err' \in BOOLEAN
      BY <1>6 DEF Presses, W!Post
    <2>2. CallTyped(x, W!Ops, AllFilters) /\ x.at = "sent" /\ x.row = row /\ x.op = op
      BY <2>1, CallStarts DEF PagesTypes
    <2> HIDE DEF x
    <2>3. row \in Rows \cup {Form} /\ row # NoRow
      BY <2>1, NoneAssumption DEF NoneAssumption
    <2>4. W!Locks(row, op) \subseteq (Rows \cup {Form}) \X W!Ops
      BY <2>1, <2>3 DEF W!Locks
    <2>5. busy' \subseteq (Rows \cup {Form}) \X W!Ops
      BY <2>1, <2>4 DEF PagesTypes
    <2>6. PagesTypes' /\ pcall'[c] = x /\ \A d \in Requests \ {c} : pcall'[d] = pcall[d]
      BY <1>5, <2>1, <2>2, <2>5 DEF PagesTypes
    <2> QED
      BY <1>4, <2>1, <2>2, <2>3, <2>6 DEF Starts, IsPress
  <1>7. ASSUME NEW f \in page.filters, W!Select(c, f)
        PROVE  PagesTypes' /\ GoesOn(c, pcall'[c]) /\ \A d \in Requests \ {c} : pcall'[d] = pcall[d]
    <2>1. /\ pcall[c] = W!Idle /\ W!Becomes(c, W!Loading(f)) /\ filter' = f /\ server' = server /\ busy' = busy
          /\ err' \in BOOLEAN /\ f \in AllFilters
      BY <1>7 DEF W!Select, W!SelectLoads, AllFilters
    <2>2. LET x == W!Loading(f) IN CallTyped(x, W!Ops, AllFilters) /\ x.row = NoRow
      BY <2>1, CallStarts
    <2>3. PagesTypes' /\ pcall'[c] = W!Loading(f) /\ \A d \in Requests \ {c} : pcall'[d] = pcall[d]
      BY <1>5, <2>1, <2>2 DEF PagesTypes
    <2> QED
      BY <1>4, <2>1, <2>2, <2>3 DEF GoesOn, IsPress
  <1>8. ASSUME W!Progress(c)
        PROVE  /\ PagesTypes' /\ (GoesOn(c, pcall'[c]) \/ IsOver(c, pcall'[c]))
               /\ \A d \in Requests \ {c} : pcall'[d] = pcall[d]
    <2>1. PICK x : W!Becomes(c, x) /\ CallTyped(x, W!Ops, AllFilters) /\ (GoesOn(c, x) \/ IsOver(c, x))
      BY <1>8, ProgressKinds
    <2>2. busy' \subseteq busy
      BY <2>1 DEF GoesOn, IsOver, W!Unlocked
    <2>3. PagesTypes' /\ pcall'[c] = x /\ \A d \in Requests \ {c} : pcall'[d] = pcall[d]
      BY <1>5, <1>8, <2>1, <2>2, ProgressKinds DEF PagesTypes
    <2> QED
      BY <2>1, <2>3
  <1> QED
    BY <1>3, <1>6, <1>7, <1>8

-----------------------------------------------------------------------------
\* Every lock is that of a press in flight, which will give it back.
LocksAreHeld ==
    /\ page.lock = "none" => busy = {}
    /\ \A b \in busy : \E c \in Requests : IsPress(pcall[c]) /\ (page.lock = "row" => pcall[c].row = b[1])

\* A press in flight has its lock, unless its button has none or another press has
\* taken the one lock that the page remembers.
PressesAreLocked ==
    ~(mixed /\ page.lock = "button") =>
        /\ W!OneCallPerLock
        /\ \A c \in Requests : IsPress(pcall[c]) =>
               \/ W!Locks(pcall[c].row, pcall[c].op) \subseteq busy
               \/ page.lock = "button" /\ pcall[c].op \in page.free

SamePress ==
    ~mixed => \A c, d \in Requests : IsPress(pcall[c]) /\ IsPress(pcall[d]) =>
                  pcall[c].row = pcall[d].row /\ pcall[c].op = pcall[d].op

\* Two presses in flight are kept apart by what the page locks.
Apart(c, d) ==
    CASE page.lock = "page"   -> FALSE
      [] page.lock = "row"    -> pcall[c].row # pcall[d].row
      [] page.lock = "button" -> pcall[c].row # pcall[d].row \/ pcall[c].op # pcall[d].op \/ pcall[c].op \in page.free
      [] OTHER                -> TRUE

LEMMA PressedIsPress ==
    /\ \A c \in Requests : W!Pressed(c) <=> IsPress(pcall[c])
    /\ W!OneCallPerLock <=> \A c, d \in Requests : c # d /\ IsPress(pcall[c]) /\ IsPress(pcall[d]) => Apart(c, d)
  BY DEF W!Pressed, IsPress, W!OneCallPerLock, Apart

\* What a page locks: one of four.
LEMMA LockKinds ==
    ASSUME page \in W!Pages
    PROVE  /\ page.lock \in {"none", "button", "row", "page"}
           /\ page.lock = "none" => \A row, op : W!Scope(row) = busy /\ W!Locks(row, op) = {}
           /\ page.lock = "button" => \A row, op : W!Scope(row) = busy /\ W!Locks(row, op) = {<<row, op>>}
           /\ page.lock = "row" => \A row, op : /\ W!Scope(row) = {b \in busy : b[1] = row}
                                                /\ W!Locks(row, op) = {row} \X W!Ops
           /\ page.lock = "page" => \A row, op : W!Scope(row) = busy /\ W!Locks(row, op) = Rows \X W!Ops
  <1>1. page.lock \in {"none", "button", "row", "page"}
    BY Tables DEF TableOf
  <1>2. \A row : W!Scope(row) = IF page.lock = "row" THEN {b \in busy : b[1] = row} ELSE busy
    BY DEF W!Scope
  <1> QED
    BY <1>1, <1>2 DEF W!Locks

LEMMA SamePressStep ==
    ASSUME W!PagesNext
    PROVE  SamePress'
  <1>1. ~mixed' => \A c, d \in Requests : W!Pressed(c)' /\ W!Pressed(d)' =>
                      <<pcall'[c].row, pcall'[c].op>> = <<pcall'[d].row, pcall'[d].op>>
    <2>1. \A c \in Requests : W!Pressed(c)' => c \in W!InFlight'
      BY DEF W!Pressed, W!InFlight, W!Idle
    <2>2. \A c, d \in W!InFlight' : ~(W!Pressed(c)' /\ W!Pressed(d)') \/ mixed' \/
              <<pcall'[c].row, pcall'[c].op>> = <<pcall'[d].row, pcall'[d].op>>
      BY DEF W!PagesNext
    <2> QED
      BY <2>1, <2>2, Zenon
  <1>2. \A c \in Requests : W!Pressed(c)' <=> IsPress(pcall[c])'
    BY DEF W!Pressed, IsPress
  <1> QED
    BY <1>1, <1>2 DEF SamePress

LEMMA LocksStep ==
    ASSUME PagesTypes, LocksAreHeld, W!PagesNext
    PROVE  LocksAreHeld'
  <1>1. page' = page
    BY PageStays
  <1>2. PICK c \in Requests :
                  /\ \A d \in Requests \ {c} : pcall'[d] = pcall[d]
                  /\ \/ GoesOn(c, pcall'[c])
                     \/ IsOver(c, pcall'[c])
                     \/ \E row, op : Starts(c, row, op)
    BY PageKinds
  <1> USE <1>1 DEF LocksAreHeld, IsPress
  <1>3. CASE GoesOn(c, pcall'[c])
    <2>1. \A d \in Requests : IsPress(pcall[d]) => IsPress(pcall'[d]) /\ pcall'[d].row = pcall[d].row
      BY <1>2, <1>3 DEF GoesOn
    <2> QED
      BY <1>3, <2>1 DEF GoesOn
  <1>4. CASE IsOver(c, pcall'[c])
    <2>1. busy' = busy \ W!Scope(pcall[c].row)
      BY <1>4 DEF IsOver, W!Unlocked
    <2>2. CASE page.lock = "row"
      <3>1. \A b \in busy' : b \in busy /\ b[1] # pcall[c].row
        BY <2>1, <2>2, LockKinds DEF PagesTypes
      <3> QED
        BY <1>2, <2>2, <3>1
    <2>3. CASE page.lock # "row"
      BY <2>1, <2>3, LockKinds DEF PagesTypes
    <2> QED
      BY <2>2, <2>3
  <1>5. ASSUME NEW row, NEW op, Starts(c, row, op)
        PROVE  LocksAreHeld'
    <2>1. /\ busy' = (busy \ W!Scope(row)) \cup W!Locks(row, op)
          /\ IsPress(pcall'[c]) /\ pcall'[c].row = row /\ ~IsPress(pcall[c])
      BY <1>5 DEF Starts
    <2>2. CASE page.lock = "row"
      <3>1. ASSUME NEW b \in busy' PROVE (b \in busy /\ b[1] # row) \/ b[1] = row
        BY <2>1, <2>2, <3>1, LockKinds DEF PagesTypes
      <3>2. ASSUME NEW b \in busy, b[1] # row PROVE \E d \in Requests : IsPress(pcall'[d]) /\ pcall'[d].row = b[1]
        BY <1>2, <2>1, <2>2, <3>2
      <3> QED
        BY <1>2, <2>1, <2>2, <3>1, <3>2
    <2>3. CASE page.lock # "row"
      BY <2>1, <2>3, LockKinds DEF PagesTypes
    <2> QED
      BY <2>2, <2>3
  <1> QED
    BY <1>2, <1>3, <1>4, <1>5

\* A press that starts is kept apart from the others: their locks would have stopped it.
LEMMA StartsApart ==
    ASSUME PagesTypes, SamePress', mixed => mixed', ~(mixed' /\ page.lock = "button"), PressesAreLocked, page' = page,
           NEW c \in Requests, NEW row, NEW op, Starts(c, row, op),
           NEW d \in Requests \ {c}, IsPress(pcall[d]), pcall'[d] = pcall[d]
    PROVE  /\ Apart(c, d)' /\ Apart(d, c)'
           /\ \/ W!Locks(pcall[d].row, pcall[d].op) \subseteq busy'
              \/ page.lock = "button" /\ pcall[d].op \in page.free
  <1>1. /\ \/ W!Locks(pcall[d].row, pcall[d].op) \subseteq busy
           \/ page.lock = "button" /\ pcall[d].op \in page.free
        /\ <<row, op>> \notin busy \/ op \in page.free
        /\ pcall'[c].row = row /\ pcall'[c].op = op /\ op \in W!Ops
        /\ row \in Rows \/ page.forms # {}
        /\ busy' = (busy \ W!Scope(row)) \cup W!Locks(row, op)
    BY DEF Starts, PressesAreLocked, W!Enabled
  <1>2. page.lock \in {"none", "button", "row", "page"} /\ TableOf(page)
    BY LockKinds, Tables DEF PagesTypes
  <1>3. CASE page.lock = "page"
    BY <1>1, <1>2, <1>3, LockKinds DEF TableOf, PagesTypes
  <1>4. CASE page.lock = "row"
    <2>1. W!Locks(pcall[d].row, pcall[d].op) = {pcall[d].row} \X W!Ops /\ page.free = {}
      BY <1>2, <1>4, LockKinds DEF TableOf, PagesTypes
    <2>2. pcall[d].row # row
      BY <1>1, <1>4, <2>1
    <2>3. {pcall[d].row} \X W!Ops \subseteq busy'
      BY <1>1, <1>4, <2>1, <2>2, LockKinds DEF PagesTypes
    <2> QED
      BY <1>1, <1>4, <2>1, <2>2, <2>3 DEF Apart
  <1>5. CASE page.lock = "button"
    <2>1. pcall[d].row = row /\ pcall[d].op = op
      BY <1>1, <1>5 DEF SamePress, Starts, IsPress
    <2>2. W!Locks(row, op) = {<<row, op>>}
      BY <1>5, LockKinds DEF PagesTypes
    <2>3. op \in page.free
      BY <1>1, <2>1, <2>2
    <2> QED
      BY <1>1, <1>5, <2>1, <2>3 DEF Apart
  <1>6. CASE page.lock = "none"
    BY <1>1, <1>6, LockKinds DEF Apart, PagesTypes
  <1> QED
    BY <1>2, <1>3, <1>4, <1>5, <1>6

\* When a press is over, the buttons of the others stay disabled.
LEMMA OverApart ==
    ASSUME PagesTypes, SamePress, ~(mixed /\ page.lock = "button"), PressesAreLocked,
           NEW c \in Requests, IsPress(pcall[c]), busy' = W!Unlocked(c),
           NEW d \in Requests \ {c}, IsPress(pcall[d])
    PROVE  \/ W!Locks(pcall[d].row, pcall[d].op) \subseteq busy'
           \/ page.lock = "button" /\ pcall[d].op \in page.free
  <1>1. /\ Apart(c, d)
        /\ \/ W!Locks(pcall[d].row, pcall[d].op) \subseteq busy
           \/ page.lock = "button" /\ pcall[d].op \in page.free
        /\ busy' = busy \ W!Scope(pcall[c].row)
    BY PressedIsPress DEF PressesAreLocked, W!Unlocked
  <1>2. page.lock \in {"none", "button", "row", "page"}
    BY LockKinds DEF PagesTypes
  <1>3. CASE page.lock = "page"
    BY <1>1, <1>3 DEF Apart
  <1>4. CASE page.lock = "row"
    <2>1. /\ W!Locks(pcall[d].row, pcall[d].op) = {pcall[d].row} \X W!Ops
          /\ W!Scope(pcall[c].row) = {b \in busy : b[1] = pcall[c].row}
      BY <1>4, LockKinds DEF PagesTypes
    <2>2. pcall[d].row # pcall[c].row /\ {pcall[d].row} \X W!Ops \subseteq busy
      BY <1>1, <1>4, <2>1 DEF Apart
    <2> QED
      BY <1>1, <2>1, <2>2
  <1>5. CASE page.lock = "button"
    BY <1>1, <1>5 DEF Apart, SamePress
  <1>6. CASE page.lock = "none"
    BY <1>6, LockKinds DEF PagesTypes
  <1> QED
    BY <1>2, <1>3, <1>4, <1>5, <1>6

LEMMA PressesStep ==
    ASSUME PagesTypes, SamePress, PressesAreLocked, W!PagesNext
    PROVE  PressesAreLocked'
  <1> SUFFICES ASSUME ~(mixed /\ page.lock = "button")'
               PROVE  /\ W!OneCallPerLock'
                      /\ \A e \in Requests : IsPress(pcall[e])' =>
                             \/ (W!Locks(pcall[e].row, pcall[e].op) \subseteq busy)'
                             \/ (page.lock = "button" /\ pcall[e].op \in page.free)'
    BY DEF PressesAreLocked
  <1>1. /\ page' = page /\ W!Ops' = W!Ops /\ (mixed => mixed')
        /\ ~(mixed' /\ page.lock = "button") /\ ~(mixed /\ page.lock = "button")
    BY PageStays DEF W!PagesNext, PagesTypes
  <1>2. SamePress'
    BY SamePressStep
  <1>3. PICK c \in Requests :
                  /\ \A d \in Requests \ {c} : pcall'[d] = pcall[d]
                  /\ \/ GoesOn(c, pcall'[c])
                     \/ IsOver(c, pcall'[c])
                     \/ \E row, op : Starts(c, row, op)
    BY PageKinds
  <1>4. /\ \A d, e \in Requests : d # e /\ IsPress(pcall[d]) /\ IsPress(pcall[e]) => Apart(d, e)
        /\ \A d \in Requests : IsPress(pcall[d]) => \/ W!Locks(pcall[d].row, pcall[d].op) \subseteq busy
                                                    \/ page.lock = "button" /\ pcall[d].op \in page.free
    BY <1>1, PressedIsPress DEF PressesAreLocked
  <1>5. \A row, op : W!Locks(row, op)' = W!Locks(row, op)
    BY <1>1 DEF W!Locks
  <1>6. SUFFICES
            /\ \A d, e \in Requests : d # e /\ IsPress(pcall'[d]) /\ IsPress(pcall'[e]) => Apart(d, e)'
            /\ \A e \in Requests : IsPress(pcall'[e]) => \/ W!Locks(pcall'[e].row, pcall'[e].op) \subseteq busy'
                                                         \/ page.lock = "button" /\ pcall'[e].op \in page.free
    BY <1>1 DEF W!OneCallPerLock, W!Pressed, IsPress, Apart, W!Locks
  <1>7. CASE GoesOn(c, pcall'[c])
    <2>1. /\ busy' = busy
          /\ \A d \in Requests : IsPress(pcall'[d]) =>
                 IsPress(pcall[d]) /\ pcall'[d].row = pcall[d].row /\ pcall'[d].op = pcall[d].op
      BY <1>3, <1>7 DEF GoesOn
    <2> QED
      BY <1>1, <1>4, <2>1 DEF Apart
  <1>8. CASE IsOver(c, pcall'[c])
    <2>1. \A d \in Requests : IsPress(pcall'[d]) => d # c /\ pcall'[d] = pcall[d]
      BY <1>3, <1>8 DEF IsOver
    <2>2. \A d \in Requests : IsPress(pcall'[d]) => \/ W!Locks(pcall[d].row, pcall[d].op) \subseteq busy'
                                                    \/ page.lock = "button" /\ pcall[d].op \in page.free
      BY <1>1, <1>8, <2>1, OverApart DEF IsOver
    <2> QED
      BY <1>1, <1>4, <2>1, <2>2 DEF Apart
  <1>9. ASSUME NEW row, NEW op, Starts(c, row, op)
        PROVE  /\ \A d, e \in Requests : d # e /\ IsPress(pcall'[d]) /\ IsPress(pcall'[e]) => Apart(d, e)'
               /\ \A e \in Requests : IsPress(pcall'[e]) => \/ W!Locks(pcall'[e].row, pcall'[e].op) \subseteq busy'
                                                            \/ page.lock = "button" /\ pcall'[e].op \in page.free
    <2>1. \A d \in Requests \ {c} : IsPress(pcall'[d]) =>
              /\ IsPress(pcall[d]) /\ pcall'[d] = pcall[d] /\ Apart(c, d)' /\ Apart(d, c)'
              /\ \/ W!Locks(pcall[d].row, pcall[d].op) \subseteq busy'
                 \/ page.lock = "button" /\ pcall[d].op \in page.free
      BY <1>1, <1>2, <1>3, <1>9, StartsApart
    <2>2. W!Locks(pcall'[c].row, pcall'[c].op) \subseteq busy'
      BY <1>9 DEF Starts
    <2>3. \A d, e \in Requests \ {c} : d # e /\ IsPress(pcall'[d]) /\ IsPress(pcall'[e]) => Apart(d, e)'
      BY <1>1, <1>4, <2>1 DEF Apart
    <2> QED
      BY <2>1, <2>2, <2>3
  <1> QED
    BY <1>3, <1>7, <1>8, <1>9

-----------------------------------------------------------------------------
\* One call at a time, as long as no two have been in flight together.
Alone == \A c, d \in Requests : pcall[c] # W!Idle /\ pcall[d] # W!Idle => c = d

\* An error, and an answer that never comes, count as losses.
LossesCount == (err => lossy) /\ \A c \in Requests : pcall[c].at = "lost" => lossy

Shows == shown = W!Listed(filter)

\* What a page without a call shows, and what one call has to be for it to show that
\* in the end.
Settled == err \/ Shows \/ (lossy /\ (~page.says \/ page.quiet # {}))

CallCurrent(x) ==
    /\ x.at \in {"sent", "refused"} \/ (x.at = "accepted" /\ x.op \in page.quiet) => Shows \/ lossy
    /\ x.at \in {"sent", "accepted", "loading"} => x.filter = filter
    /\ x.at = "listed" => x.rows = W!Listed(filter)

Current == W!Reloads => (W!Quiet => Settled) /\ \A c \in Requests : CallCurrent(pcall[c])

\* A post that is drawn for a row's status finds a row that it can change.
CallTaken(x) == x.at # "refused" /\ (x.at = "sent" => \E r \in Rows : W!Outcomes(r, x) # {})

Taken == ~lossy /\ page.decides /\ W!Reloads => \A c \in Requests : CallTaken(pcall[c])

LEMMA LossesStep ==
    ASSUME W!PagesNext
    PROVE  LossesCount'
  BY DEF W!PagesNext, LossesCount

LEMMA AloneStep ==
    ASSUME W!PagesNext, ~raced'
    PROVE  Alone' /\ ~raced
  <1>1. (\A c, d \in W!InFlight' : c = d) /\ ~raced
    BY DEF W!PagesNext
  <1>2. \A c \in Requests : pcall'[c] # W!Idle => c \in W!InFlight'
    BY DEF W!InFlight
  <1> QED
    BY <1>1, <1>2 DEF Alone

\* A lone step: its call is in flight before or after it, the others are not.
LEMMA LoneStep ==
    ASSUME PagesTypes, Alone, Alone', W!PagesNext
    PROVE  \E c \in Requests :
               /\ \/ \E r \in Rows, op \in DOMAIN page.drawn : W!Press(c, r, op)
                  \/ \E form \in page.forms : W!Submit(c, form)
                  \/ \E f \in page.filters : W!Select(c, f)
                  \/ W!Progress(c)
               /\ \A d \in Requests \ {c} : pcall[d] = W!Idle /\ pcall'[d] = W!Idle
               /\ pcall[c] = W!Idle => W!Quiet
  <1>1. PICK c \in Requests :
            \/ \E r \in Rows, op \in DOMAIN page.drawn : W!Press(c, r, op)
            \/ \E form \in page.forms : W!Submit(c, form)
            \/ \E f \in page.filters : W!Select(c, f)
            \/ W!Progress(c)
    BY DEF W!PagesNext, W!Next
  <1>2. W!Idle.at = "idle"
    BY DEF W!Idle
  <1>3. \E x : W!Becomes(c, x) /\ (pcall[c] = W!Idle => x # W!Idle)
    <2>1. CASE W!Progress(c)
      <3>1. pcall[c].at # "idle"
        BY <2>1 DEF W!Progress, W!Accept, W!Refuse, W!Lose, W!Fail, W!Answer, W!AnswerQuietly, W!Read, W!Show, W!LoadFails
      <3> QED
        BY <1>2, <2>1, <3>1, ProgressKinds
    <2>2. CASE \E f \in page.filters : W!Select(c, f)
      BY <2>2 DEF W!Select, W!SelectLoads, W!Loading, W!Idle
    <2>3. CASE \/ \E r \in Rows, op \in DOMAIN page.drawn : W!Press(c, r, op)
               \/ \E form \in page.forms : W!Submit(c, form)
      <3>1. ASSUME NEW row, NEW op, W!Post(c, row, op) PROVE \E x : W!Becomes(c, x) /\ x # W!Idle
        <4> DEFINE x == [at |-> "sent", row |-> row, op |-> op, filter |-> filter]
        <4>1. W!Becomes(c, x)
          BY <3>1 DEF W!Post
        <4>2. x # W!Idle
          BY DEF W!Idle
        <4> QED
          BY <4>1, <4>2
      <3> QED
        BY <2>3, <3>1 DEF W!Press, W!Submit
    <2> QED
      BY <1>1, <2>1, <2>2, <2>3
  <1>4. /\ pcall[c] # W!Idle \/ pcall'[c] # W!Idle
        /\ \A d \in Requests \ {c} : pcall'[d] = pcall[d]
    BY <1>3, Becoming
  <1>5. \A d \in Requests \ {c} : pcall[d] = W!Idle /\ pcall'[d] = W!Idle
    BY <1>4 DEF Alone
  <1> QED
    BY <1>1, <1>5 DEF W!Quiet

\* An operation after which the list is not loaded leaves every row as it is.
LEMMA QuietKeeps ==
    ASSUME PagesTypes, W!Reloads, NEW x, x.op \in page.quiet, NEW r \in Rows, NEW s \in W!Outcomes(r, x)
    PROVE  [server EXCEPT ![r] = s] = server
  <1>1. page.forms = {}
    BY Tables DEF TableOf, PagesTypes
  <1>2. PICK t \in page.takes[x.op] : t[1] = server[r] /\ t[2] = s
    BY <1>1 DEF W!Outcomes
  <1>3. s = server[r]
    BY <1>2 DEF W!Reloads
  <1> QED
    BY <1>3 DEF PagesTypes

LEMMA CurrentStep ==
    ASSUME PagesTypes, Alone, LossesCount, Current, W!PagesNext, ~raced'
    PROVE  Current'
  <1> SUFFICES ASSUME W!Reloads PROVE (W!Quiet => Settled)' /\ \A c \in Requests : CallCurrent(pcall[c])'
    BY PageStays DEF Current
  <1>1. page' = page /\ LossesCount' /\ Alone' /\ (lossy => lossy')
    BY PageStays, LossesStep, AloneStep DEF W!PagesNext
  <1>2. PICK c \in Requests :
               /\ \/ \E r \in Rows, op \in DOMAIN page.drawn : W!Press(c, r, op)
                  \/ \E form \in page.forms : W!Submit(c, form)
                  \/ \E f \in page.filters : W!Select(c, f)
                  \/ W!Progress(c)
               /\ \A d \in Requests \ {c} : pcall[d] = W!Idle /\ pcall'[d] = W!Idle
               /\ pcall[c] = W!Idle => W!Quiet
    BY <1>1, LoneStep
  <1>3. W!Idle.at = "idle"
    BY DEF W!Idle
  <1>4. SUFFICES (pcall'[c] = W!Idle => Settled') /\ CallCurrent(pcall[c])'
    BY <1>2, <1>3 DEF CallCurrent, W!Quiet
  <1>5. CallTyped(pcall[c], W!Ops, AllFilters) /\ CallCurrent(pcall[c]) /\ (pcall[c] = W!Idle => Settled)
    BY <1>2 DEF PagesTypes, Current
  <1>6. ASSUME NEW s \in {"accepted", "refused", "lost", "loading"}, pcall[c].at \in {"sent", "accepted"}
        PROVE  LET y == [pcall[c] EXCEPT !.at = s] IN
               y.at = s /\ y.op = pcall[c].op /\ y.filter = pcall[c].filter
    <2>1. pcall[c].at \in {"sent", "accepted", "refused", "lost"} /\ s \in {"sent", "accepted", "refused", "lost", "loading"}
      BY <1>6
    <2> QED
      BY <1>5, <2>1, CallMoves
  <1>7. (server' = server /\ filter' = filter => W!Listed(filter)' = W!Listed(filter))
    BY DEF W!Listed, W!Matching
  <1>8. ASSUME NEW row, NEW op, W!Post(c, row, op) PROVE pcall'[c] # W!Idle /\ CallCurrent(pcall[c])'
    <2>1. /\ pcall'[c] = [at |-> "sent", row |-> row, op |-> op, filter |-> filter]
          /\ UNCHANGED <<page, server, shown, filter>> /\ pcall[c] = W!Idle
      BY <1>8, Becoming DEF W!Post
    <2>2. Shows \/ lossy
      BY <1>5, <2>1 DEF Settled, LossesCount
    <2>3. Shows' \/ lossy'
      BY <1>1, <1>7, <2>1, <2>2 DEF Shows
    <2> QED
      BY <1>3, <2>1, <2>3 DEF CallCurrent
  <1>9. ASSUME NEW f \in page.filters, W!Select(c, f) PROVE pcall'[c] # W!Idle /\ CallCurrent(pcall[c])'
    <2>1. pcall'[c] = [at |-> "loading", row |-> NoRow, op |-> "load", filter |-> f] /\ filter' = f
      BY <1>9, Becoming DEF W!Select, W!SelectLoads, W!Loading
    <2> QED
      BY <1>3, <2>1 DEF CallCurrent
  <1>10. CASE W!Accept(c)
    <2>1. /\ pcall[c].at = "sent" /\ pcall'[c] = [pcall[c] EXCEPT !.at = "accepted"]
          /\ UNCHANGED <<page, shown, filter>>
      BY <1>10, Becoming DEF W!Accept
    <2>2. pcall'[c].at = "accepted" /\ pcall'[c].op = pcall[c].op /\ pcall'[c].filter = filter'
      BY <1>5, <1>6, <2>1 DEF CallCurrent
    <2>3. ASSUME pcall[c].op \in page.quiet PROVE Shows' \/ lossy'
      <3>1. server' = server
        BY <1>10, <2>3, QuietKeeps DEF W!Accept
      <3> QED
        BY <1>1, <1>5, <1>7, <2>1, <3>1 DEF CallCurrent, Shows
    <2> QED
      BY <1>1, <1>3, <2>2, <2>3 DEF CallCurrent
  <1>11. CASE W!Refuse(c)
    <2>1. /\ pcall[c].at = "sent" /\ pcall'[c] = [pcall[c] EXCEPT !.at = "refused"]
          /\ UNCHANGED <<page, server, shown, filter>>
      BY <1>11, Becoming DEF W!Refuse
    <2>2. pcall'[c].at = "refused"
      BY <1>6, <2>1
    <2>3. Shows' \/ lossy'
      BY <1>1, <1>5, <1>7, <2>1 DEF CallCurrent, Shows
    <2> QED
      BY <1>3, <2>2, <2>3 DEF CallCurrent
  <1>12. CASE W!Lose(c)
    <2>1. pcall[c].at \in {"sent", "accepted"} /\ pcall'[c] = [pcall[c] EXCEPT !.at = "lost"]
      BY <1>12, Becoming DEF W!Lose
    <2>2. pcall'[c].at = "lost"
      BY <1>6, <2>1
    <2> QED
      BY <1>3, <2>2 DEF CallCurrent
  <1>13. CASE W!Answer(c)
    <2>1. /\ pcall[c].at = "accepted" /\ pcall'[c] = [pcall[c] EXCEPT !.at = "loading"]
          /\ UNCHANGED <<page, server, shown, filter>>
      BY <1>13, Becoming DEF W!Answer
    <2>2. pcall'[c].at = "loading" /\ pcall'[c].filter = filter'
      BY <1>5, <1>6, <2>1 DEF CallCurrent
    <2> QED
      BY <1>3, <2>2 DEF CallCurrent
  <1>14. CASE W!Read(c)
    <2>1. /\ pcall[c].at = "loading" /\ UNCHANGED <<page, server, shown, filter>>
          /\ pcall'[c] = [at |-> "listed", row |-> pcall[c].row, op |-> pcall[c].op, rows |-> W!Listed(pcall[c].filter)]
      BY <1>14, Becoming DEF W!Read
    <2>2. pcall'[c].at = "listed" /\ pcall'[c].rows = W!Listed(filter)'
      BY <1>5, <1>7, <2>1 DEF CallCurrent
    <2> QED
      BY <1>3, <2>2 DEF CallCurrent
  <1>15. CASE W!Fail(c) \/ W!AnswerQuietly(c) \/ W!Show(c) \/ W!LoadFails(c)
    <2>1. pcall'[c] = W!Idle /\ UNCHANGED <<page, server, filter>>
      BY <1>15, Becoming DEF W!Fail, W!AnswerQuietly, W!Show, W!LoadFails, W!Loaded
    <2>2. ASSUME W!Fail(c) PROVE Settled'
      <3>1. pcall[c].at \in {"refused", "lost"} /\ shown' = shown /\ (page.says => err')
        BY <2>2 DEF W!Fail
      <3>2. Shows' \/ lossy'
        BY <1>1, <1>5, <1>7, <2>1, <3>1 DEF CallCurrent, Shows, LossesCount
      <3> QED
        BY <1>1, <3>1, <3>2 DEF Settled
    <2>3. ASSUME W!AnswerQuietly(c) PROVE Settled'
      <3>1. pcall[c].at = "accepted" /\ pcall[c].op \in page.quiet /\ shown' = shown
        BY <2>3 DEF W!AnswerQuietly
      <3>2. Shows' \/ lossy'
        BY <1>1, <1>5, <1>7, <2>1, <3>1 DEF CallCurrent, Shows
      <3> QED
        BY <1>1, <3>1, <3>2 DEF Settled
    <2>4. ASSUME W!Show(c) PROVE Settled'
      BY <1>5, <1>7, <2>1, <2>4 DEF W!Show, CallCurrent, Shows, Settled
    <2>5. ASSUME W!LoadFails(c) PROVE Settled'
      BY <2>5 DEF W!LoadFails, Settled
    <2> QED
      BY <1>3, <1>15, <2>1, <2>2, <2>3, <2>4, <2>5 DEF CallCurrent
  <1> QED
    BY <1>2, <1>8, <1>9, <1>10, <1>11, <1>12, <1>13, <1>14, <1>15 DEF W!Press, W!Submit, W!Progress

\* A button that is drawn for a status finds it in what the service takes (the tables).
LEMMA DrawnIsTaken ==
    ASSUME PagesTypes, page.decides, NEW r \in Rows, NEW op \in DOMAIN page.drawn, server[r] \in page.drawn[op],
           NEW x, x.row = r, x.op = op
    PROVE  W!Outcomes(r, x) # {}
  <1>1. PICK t \in page.takes[op] : t[1] = server[r]
    BY Tables DEF TableOf, Finds, PagesTypes
  <1>2. x.row # Form
    BY NoneAssumption DEF NoneAssumption
  <1> QED
    BY <1>1, <1>2 DEF W!Outcomes

LEMMA TakenStep ==
    ASSUME PagesTypes, Alone, LossesCount, Current, Taken, W!PagesNext, ~raced'
    PROVE  Taken'
  <1> SUFFICES ASSUME ~lossy', page.decides, W!Reloads
               PROVE  \A c \in Requests : CallTaken(pcall[c])'
    BY PageStays DEF Taken
  <1>1. page' = page /\ ~lossy /\ ~err /\ Alone' /\ \A c \in Requests : CallTaken(pcall[c])
    BY PageStays, AloneStep DEF W!PagesNext, LossesCount, Taken
  <1>2. PICK c \in Requests :
               /\ \/ \E r \in Rows, op \in DOMAIN page.drawn : W!Press(c, r, op)
                  \/ \E form \in page.forms : W!Submit(c, form)
                  \/ \E f \in page.filters : W!Select(c, f)
                  \/ W!Progress(c)
               /\ \A d \in Requests \ {c} : pcall[d] = W!Idle /\ pcall'[d] = W!Idle
               /\ pcall[c] = W!Idle => W!Quiet
    BY <1>1, LoneStep
  <1>3. W!Idle.at = "idle"
    BY DEF W!Idle
  <1>4. SUFFICES CallTaken(pcall[c])'
    BY <1>2, <1>3 DEF CallTaken
  <1>5. CallTyped(pcall[c], W!Ops, AllFilters)
    BY DEF PagesTypes
  <1>6. server' = server => \A r, x : W!Outcomes(r, x)' = W!Outcomes(r, x)
    BY <1>1 DEF W!Outcomes
  <1>7. ASSUME NEW r \in Rows, NEW op \in DOMAIN page.drawn, W!Press(c, r, op)
        PROVE  CallTaken(pcall[c])'
    <2>1. /\ pcall'[c] = [at |-> "sent", row |-> r, op |-> op, filter |-> filter]
          /\ server' = server /\ pcall[c] = W!Idle /\ r \in DOMAIN shown /\ shown[r] \in page.drawn[op]
      BY <1>7, Becoming DEF W!Press, W!Post
    <2>2. shown = W!Listed(filter)
      BY <1>1, <1>2, <2>1 DEF Current, Settled, Shows
    <2>3. shown[r] = server[r]
      BY <2>1, <2>2 DEF W!Listed
    <2>4. W!Outcomes(r, pcall'[c]) # {}
      BY <2>1, <2>3, DrawnIsTaken
    <2> QED
      BY <1>6, <2>1, <2>4 DEF CallTaken
  <1>8. ASSUME NEW form \in page.forms, W!Submit(c, form)
        PROVE  CallTaken(pcall[c])'
    <2>1. /\ pcall'[c] = [at |-> "sent", row |-> Form, op |-> form.op, filter |-> filter]
          /\ server' = server
      BY <1>8, Becoming DEF W!Submit, W!Post
    <2>2. PICK r \in Rows : server[r] = "ABSENT"
      BY <1>8 DEF W!Submit
    <2>3. form.creates \in W!Outcomes(r, pcall'[c])
      BY <2>1, <2>2 DEF W!Outcomes
    <2> QED
      BY <1>6, <2>1, <2>3 DEF CallTaken
  <1>9. ASSUME NEW f \in page.filters, W!Select(c, f)
        PROVE  CallTaken(pcall[c])'
    <2>1. pcall'[c] = [at |-> "loading", row |-> NoRow, op |-> "load", filter |-> f]
      BY <1>9, Becoming DEF W!Select, W!SelectLoads, W!Loading
    <2> QED
      BY <2>1 DEF CallTaken
  <1>10. CASE W!Progress(c)
    <2>1. ~W!Refuse(c)
      BY <1>1 DEF W!Refuse, CallTaken
    <2>2. ASSUME NEW s \in {"accepted", "lost", "loading"}, pcall[c].at \in {"sent", "accepted"},
                 pcall'[c] = [pcall[c] EXCEPT !.at = s]
          PROVE  pcall'[c].at = s
      <3>1. /\ pcall[c].at \in {"sent", "accepted", "refused", "lost"}
            /\ s \in {"sent", "accepted", "refused", "lost", "loading"}
        BY <2>2
      <3> QED
        BY <1>5, <2>2, <3>1, CallMoves
    <2>3. CASE W!Accept(c) \/ W!Lose(c) \/ W!Answer(c)
      <3>1. PICK s \in {"accepted", "lost", "loading"} : pcall'[c] = [pcall[c] EXCEPT !.at = s]
        BY <2>3, Becoming DEF W!Accept, W!Lose, W!Answer
      <3>2. pcall'[c].at = s
        BY <2>2, <2>3, <3>1 DEF W!Accept, W!Lose, W!Answer
      <3> QED
        BY <3>2 DEF CallTaken
    <2>4. CASE W!Read(c)
      <3>1. pcall'[c].at = "listed"
        BY <2>4, Becoming DEF W!Read
      <3> QED
        BY <3>1 DEF CallTaken
    <2>5. CASE W!Fail(c) \/ W!AnswerQuietly(c) \/ W!Show(c) \/ W!LoadFails(c)
      <3>1. pcall'[c] = W!Idle
        BY <2>5, Becoming DEF W!Fail, W!AnswerQuietly, W!Show, W!LoadFails, W!Loaded
      <3> QED
        BY <1>3, <3>1 DEF CallTaken
    <2> QED
      BY <1>10, <2>1, <2>3, <2>4, <2>5 DEF W!Progress
  <1> QED
    BY <1>2, <1>7, <1>8, <1>9, <1>10

-----------------------------------------------------------------------------
PagesInv ==
    /\ PagesTypes /\ LocksAreHeld /\ SamePress /\ PressesAreLocked /\ LossesCount
    /\ ~raced => Alone /\ Current /\ Taken

LEMMA PagesInit ==
    ASSUME W!WebInit
    PROVE  PagesInv
  <1>1. W!Init /\ mixed = FALSE /\ lossy = FALSE
    BY DEF W!WebInit
  <1>2. PICK c \in Requests : pcall = [d \in Requests |-> IF d = c THEN W!Loading(filter) ELSE W!Idle]
    BY <1>1 DEF W!Init
  <1>3. filter \in AllFilters /\ W!Idle.at = "idle"
    BY <1>1 DEF W!Init, AllFilters, W!Idle
  <1>4. LET x == W!Loading(filter) IN
        /\ CallTyped(x, W!Ops, AllFilters) /\ CallTyped(W!Idle, W!Ops, AllFilters)
        /\ x.at = "loading" /\ x.row = NoRow /\ x.filter = filter
    BY <1>3, CallStarts
  <1>5. \A d \in Requests : /\ CallTyped(pcall[d], W!Ops, AllFilters) /\ ~IsPress(pcall[d])
                            /\ pcall[d].at \in {"idle", "loading"} /\ (pcall[d].at = "loading" => pcall[d].filter = filter)
                            /\ pcall[d] # W!Idle => d = c
    BY <1>2, <1>3, <1>4 DEF IsPress
  <1>6. pcall[c].at = "loading"
    BY <1>2, <1>4
  <1>7. PagesTypes
    BY <1>1, <1>2, <1>3, <1>5 DEF W!Init, PagesTypes
  <1>8. LocksAreHeld /\ SamePress /\ LossesCount
    BY <1>1, <1>5 DEF W!Init, LocksAreHeld, SamePress, LossesCount
  <1>9. PressesAreLocked
    BY <1>5, PressedIsPress DEF PressesAreLocked
  <1>10. Alone /\ Taken
    BY <1>5 DEF Alone, Taken, CallTaken
  <1>11. Current
    BY <1>3, <1>5, <1>6 DEF Current, W!Quiet, CallCurrent
  <1> QED
    BY <1>7, <1>8, <1>9, <1>10, <1>11 DEF PagesInv

LEMMA PagesStep ==
    ASSUME raced \in BOOLEAN, PagesInv, [W!WebNext]_W!WebVars
    PROVE  PagesInv'
  <1>1. CASE W!PagesNext
    BY <1>1, PageKinds, LocksStep, SamePressStep, PressesStep, LossesStep, AloneStep, CurrentStep, TakenStep DEF PagesInv
  <1>2. CASE ~W!PagesNext
    <2>1. UNCHANGED <<mixed, lossy, page, server, shown, filter, busy, err, pcall>>
      BY <1>2 DEF W!WebNext, W!SessionNext, W!PackNext, W!WebVars, W!vars
    <2>2. raced => raced'
      BY <1>2 DEF W!WebNext, W!SessionNext, W!PackNext, W!WebVars
    <2>3. PagesTypes' /\ LocksAreHeld' /\ SamePress' /\ LossesCount'
      BY <2>1 DEF PagesInv, PagesTypes, LocksAreHeld, SamePress, LossesCount, IsPress, AllFilters, W!Ops
    <2>4. PressesAreLocked'
      BY <2>1 DEF PagesInv, PressesAreLocked, W!OneCallPerLock, W!Pressed, IsPress, W!Locks, W!Ops
    <2>5. Alone => Alone'
      BY <2>1 DEF Alone
    <2>6. Current => Current'
      BY <2>1 DEF Current, W!Reloads, W!Quiet, Settled, Shows, CallCurrent, W!Listed, W!Matching
    <2>7. Taken => Taken'
      BY <2>1 DEF Taken, W!Reloads, CallTaken, W!Outcomes
    <2> QED
      BY <2>2, <2>3, <2>4, <2>5, <2>6, <2>7 DEF PagesInv
  <1> QED
    BY <1>1, <1>2

-----------------------------------------------------------------------------
\* The page of a pack: while it is not reloaded under a call, what is paid for and
\* not drawn yet is what its handler works on.
PackSerial ==
    /\ won \in Openings \cup {NoOpening}
    /\ at = "rest" => W!K!PrizeOrError
    /\ at \in {"commit", "revealed", "load"} => \A o \in Openings : opening[o] # "COMMITTED"
    /\ at \in {"committed", "reveal"} =>
           /\ current \in Openings
           /\ \A o \in Openings : opening[o] = "COMMITTED" => o = current
    /\ at = "revealed" => current \in Openings /\ opening[current] = "SETTLED"
    /\ at = "load" => won \in Openings /\ opening[won] = "SETTLED"
    /\ at \in {"commit", "committed", "reveal", "revealed"} => phase = "opening"
    /\ at \in {"rest", "commit", "committed", "reveal", "revealed", "load"}
    /\ opening = [o \in Openings |-> opening[o]]

LEMMA PackInit ==
    ASSUME W!WebInit
    PROVE  PackSerial
  BY NoneAssumption DEF NoneAssumption, W!WebInit, W!K!Init, PackSerial, W!K!PrizeOrError

LEMMA PackStep ==
    ASSUME raced \in BOOLEAN, ~raced => PackSerial, [W!WebNext]_W!WebVars
    PROVE  ~raced' => PackSerial'
  <1> USE NoneAssumption DEF NoneAssumption
  <1> SUFFICES ASSUME ~raced'
               PROVE  PackSerial'
    OBVIOUS
  <1>1. CASE W!PackNext
    <2>1. PackSerial /\ W!K!Next
      BY <1>1 DEF W!PackNext
    <2>2. ~((at # "rest" \/ blank) /\ <<phase', blank', current'>> = <<"idle", FALSE, NoOpening>>)
      BY <1>1 DEF W!PackNext
    <2>3. CASE W!K!Open
      BY <2>1, <2>3 DEF PackSerial, W!K!PrizeOrError, W!K!Open
    <2>4. ASSUME NEW o \in Openings, W!K!Commit(o) PROVE PackSerial'
      BY <2>1, <2>4 DEF PackSerial, W!K!PrizeOrError, W!K!Commit
    <2>5. CASE W!K!Reel
      BY <2>1, <2>5 DEF PackSerial, W!K!PrizeOrError, W!K!Reel
    <2>6. CASE W!K!Reveal
      BY <2>1, <2>6 DEF PackSerial, W!K!PrizeOrError, W!K!Reveal
    <2>7. CASE W!K!Result
      BY <2>1, <2>7 DEF PackSerial, W!K!PrizeOrError, W!K!Result
    <2>8. CASE W!K!Loaded
      BY <2>1, <2>8 DEF PackSerial, W!K!PrizeOrError, W!K!Loaded
    <2>9. CASE W!K!Fail
      BY <2>1, <2>9 DEF PackSerial, W!K!PrizeOrError, W!K!Fail
    <2>10. CASE W!K!Reload
      BY <2>1, <2>2, <2>10 DEF PackSerial, W!K!PrizeOrError, W!K!Reload, W!K!Fresh
    <2> QED
      BY <2>1, <2>3, <2>4, <2>5, <2>6, <2>7, <2>8, <2>9, <2>10 DEF W!K!Next
  <1>2. CASE ~W!PackNext
    <2>1. UNCHANGED <<opening, phase, won, blank, at, current>>
      BY <1>2 DEF W!WebNext, W!PagesNext, W!SessionNext, W!WebVars, W!K!vars
    <2>2. raced => raced'
      BY <1>2 DEF W!WebNext, W!PagesNext, W!SessionNext, W!WebVars
    <2> QED
      BY <2>1, <2>2 DEF PackSerial, W!K!PrizeOrError, W!K!vars
  <1> QED
    BY <1>1, <1>2

-----------------------------------------------------------------------------
Loads == {W!S!Idle, [at |-> "token"]} \cup [at : {"sent"}, by : People \cup {NoUser}]
Posts == {W!S!Idle} \cup [at : {"sent", "taken"}, code : Codes, active : BOOLEAN]

SessionTypes ==
    /\ session \in People \cup {NoUser} /\ dbUser \in People \cup {NoUser}
    /\ stored \in Codes \cup {NoCode} /\ failed \in BOOLEAN
    /\ me \in [Requests -> Loads] /\ post \in [Requests -> Posts]

\* While nobody signs in or out under a load and no code comes under a post, loads are
\* for the user of the session, and posts of the code that is stored.
SessionSerial ==
    /\ \A c \in Requests : me[c].at = "sent" => me[c].by = session
    /\ session = NoUser => me = W!S!None /\ dbUser = NoUser
    /\ W!S!DbUserIsSession
    /\ \A c \in Requests : post[c].at # "idle" => stored = NoCode \/ post[c].code = stored

\* What a load is, and what its steps make of it.
LEMMA LoadKinds ==
    /\ W!S!Idle \in Loads /\ W!S!Idle.at = "idle"
    /\ [at |-> "token"] \in Loads /\ [at |-> "token"].at = "token"
    /\ \A u \in People \cup {NoUser} :
           LET sent == [at |-> "sent", by |-> u] IN sent \in Loads /\ sent.at = "sent" /\ sent.by = u
    /\ \A l \in Loads : /\ l.at = "idle" => l = W!S!Idle
                        /\ l.at = "sent" => l.by \in People \cup {NoUser}
  BY DEF Loads, W!S!Idle

\* The same for a post of a code.
LEMMA PostKinds ==
    /\ W!S!Idle \in Posts /\ W!S!Idle.at = "idle"
    /\ \A k \in Codes :
           LET sent == [at |-> "sent", code |-> k, active |-> TRUE]
           IN  sent \in Posts /\ sent.at = "sent" /\ sent.code = k
    /\ \A p \in Posts \ {W!S!Idle} :
           LET taken    == [p EXCEPT !.at = "taken"]
               inactive == [p EXCEPT !.active = FALSE]
           IN  /\ taken \in Posts /\ taken.at = "taken" /\ taken.code = p.code
               /\ inactive \in Posts /\ inactive.at = p.at /\ inactive.code = p.code
               /\ p.at # "idle" /\ p.code \in Codes
  BY DEF Posts, W!S!Idle

LEMMA SessionInit ==
    ASSUME W!WebInit
    PROVE  SessionTypes /\ SessionSerial
  <1>1. SessionTypes
    BY LoadKinds, PostKinds DEF W!WebInit, W!S!Init, W!S!None, SessionTypes
  <1>2. SessionSerial
    BY LoadKinds DEF W!WebInit, W!S!Init, W!S!None, SessionSerial, W!S!DbUserIsSession
  <1> QED
    BY <1>1, <1>2

LEMMA RefreshTypes ==
    ASSUME SessionTypes, NEW who \in People \cup {NoUser}, NEW c \in Requests, W!S!RefreshMe(who, me, c)
    PROVE  /\ dbUser' \in People \cup {NoUser} /\ failed' \in BOOLEAN
           /\ me' \in [Requests -> Loads]
           /\ \A d \in Requests : me'[d].at = "sent" => me'[d] = me[d]
           /\ who = NoUser => me' = me /\ dbUser' = NoUser
           /\ who # NoUser => me'[c] # W!S!Idle
  <1>1. CASE who = NoUser
    BY <1>1 DEF W!S!RefreshMe, SessionTypes
  <1>2. CASE who # NoUser
    <2>1. me' = [me EXCEPT ![c] = [at |-> "token"]] /\ UNCHANGED <<dbUser, failed>>
      BY <1>2 DEF W!S!RefreshMe
    <2> QED
      BY <1>2, <2>1, LoadKinds DEF SessionTypes
  <1> QED
    BY <1>1, <1>2

\* The effect posts the stored code, and leaves the other posts as they are.
LEMMA PostTypes ==
    ASSUME NEW who, NEW calls \in [Requests -> Posts], NEW c \in Requests, W!S!PostCode(who, calls, c),
           stored' \in Codes \cup {NoCode}
    PROVE  /\ post' \in [Requests -> Posts]
           /\ \A d \in Requests : post'[d].at # "idle" => \/ post'[d].code = stored'
                                                          \/ calls[d].at # "idle" /\ post'[d].code = calls[d].code
  <1>1. CASE who = NoUser \/ stored' = NoCode
    BY <1>1 DEF W!S!PostCode
  <1>2. CASE ~(who = NoUser \/ stored' = NoCode)
    <2>1. post' = [calls EXCEPT ![c] = [at |-> "sent", code |-> stored', active |-> TRUE]] /\ stored' \in Codes
      BY <1>2 DEF W!S!PostCode
    <2> QED
      BY <2>1, PostKinds
  <1> QED
    BY <1>1, <1>2

LEMMA DeactivatedTypes ==
    ASSUME SessionTypes
    PROVE  /\ W!S!Deactivated(post) \in [Requests -> Posts]
           /\ \A d \in Requests : W!S!Deactivated(post)[d].at # "idle" =>
                  post[d].at # "idle" /\ W!S!Deactivated(post)[d].code = post[d].code
  <1>1. ASSUME NEW d \in Requests
        PROVE  LET q == W!S!Deactivated(post)[d] IN
               q \in Posts /\ (q.at # "idle" => post[d].at # "idle" /\ q.code = post[d].code)
    <2>1. CASE post[d] = W!S!Idle
      BY <2>1, PostKinds DEF W!S!Deactivated
    <2>2. CASE post[d] # W!S!Idle
      BY <2>2, PostKinds DEF W!S!Deactivated, SessionTypes
    <2> QED
      BY <2>1, <2>2
  <1> QED
    BY <1>1 DEF W!S!Deactivated

LEMMA SessionStep ==
    ASSUME raced \in BOOLEAN, SessionTypes, ~raced => SessionSerial, [W!WebNext]_W!WebVars
    PROVE  /\ SessionTypes'
           /\ ~raced' => SessionSerial'
           /\ ~raced' /\ stored # NoCode /\ stored' = NoCode =>
                 \E c \in Requests : post[c].at = "taken" /\ post[c].code = stored
  <1> DEFINE Kept == ~raced' /\ stored # NoCode /\ stored' = NoCode =>
                        \E c \in Requests : post[c].at = "taken" /\ post[c].code = stored
             Goal == SessionTypes' /\ (~raced' => SessionSerial') /\ Kept
  <1>1. CASE W!SessionNext
    <2>1. ~raced' => /\ SessionSerial
                     /\ ~(session' # session /\ \E c \in Requests : me[c].at # "idle")
                     /\ ~(stored' \notin {NoCode, stored} /\ \E c \in Requests : post'[c].at # "idle" /\ post'[c].code # stored')
      BY <1>1 DEF W!SessionNext
    <2>2. ASSUME NEW c \in Requests, NEW d \in Requests, NEW who \in People \cup {NoUser}, W!S!SessionChanges(who, c, d)
          PROVE  Goal
      <3>1. /\ W!S!RefreshMe(who, me, c) /\ W!S!PostCode(who, W!S!Deactivated(post), d)
            /\ session' = who /\ stored' = stored /\ session # who
        BY <2>2 DEF W!S!SessionChanges
      <3>2. /\ post' \in [Requests -> Posts]
            /\ \A e \in Requests : post'[e].at # "idle" =>
                   post'[e].code = stored' \/ (post[e].at # "idle" /\ post'[e].code = post[e].code)
        <4> DEFINE D == W!S!Deactivated(post)
        <4>1. /\ D \in [Requests -> Posts]
              /\ \A e \in Requests : D[e].at # "idle" => post[e].at # "idle" /\ D[e].code = post[e].code
          BY DeactivatedTypes
        <4>2. W!S!PostCode(who, D, d) /\ stored' \in Codes \cup {NoCode}
          BY <3>1 DEF SessionTypes
        <4> HIDE DEF D
        <4>3. /\ post' \in [Requests -> Posts]
              /\ \A e \in Requests : post'[e].at # "idle" => \/ post'[e].code = stored'
                                                             \/ D[e].at # "idle" /\ post'[e].code = D[e].code
          BY <4>1, <4>2, PostTypes
        <4> QED
          BY <4>1, <4>3
      <3>3. SessionTypes'
        BY <3>1, <3>2, RefreshTypes DEF SessionTypes
      <3>4. ASSUME ~raced' PROVE SessionSerial'
        <4>1. SessionSerial /\ \A e \in Requests : me[e] = W!S!Idle
          BY <3>4, <2>1, <3>1, LoadKinds DEF SessionTypes
        <4>2. me = W!S!None
          BY <4>1 DEF W!S!None, SessionTypes
        <4>3. \A e \in Requests : post'[e].at # "idle" => stored' = NoCode \/ post'[e].code = stored'
          BY <3>1, <3>2, <4>1 DEF SessionSerial
        <4>4. \A e \in Requests : me'[e].at = "sent" => me'[e].by = session'
          BY <3>1, <4>1, RefreshTypes, LoadKinds
        <4>5. session' = NoUser => me' = W!S!None /\ dbUser' = NoUser
          BY <3>1, <4>2, RefreshTypes
        <4>6. W!S!DbUserIsSession'
          BY <3>1, <4>2, RefreshTypes DEF W!S!DbUserIsSession, W!S!None
        <4> QED
          BY <4>3, <4>4, <4>5, <4>6 DEF SessionSerial
      <3> QED
        BY <3>1, <3>3, <3>4
    <2>3. ASSUME NEW c \in Requests, NEW d \in Requests, NEW code \in Codes \cup {NoCode}, W!S!Visit(code, c, d)
          PROVE  Goal
      <3>1. /\ W!S!PostCode(session, W!S!None, d) /\ stored' = (IF code = NoCode THEN stored ELSE code)
            /\ dbUser' = NoUser /\ failed' = FALSE /\ session' = session
            /\ me' = (IF session = NoUser THEN W!S!None ELSE [W!S!None EXCEPT ![c] = [at |-> "token"]])
        BY <2>3 DEF W!S!Visit
      <3>2. W!S!None \in [Requests -> Posts] /\ \A e \in Requests : W!S!None[e].at = "idle"
        BY PostKinds DEF W!S!None
      <3>3. stored' \in Codes \cup {NoCode}
        BY <3>1 DEF SessionTypes
      <3>4. /\ post' \in [Requests -> Posts]
            /\ \A e \in Requests : post'[e].at # "idle" => post'[e].code = stored'
        BY <3>1, <3>2, <3>3, PostTypes
      <3>5. me' \in [Requests -> Loads] /\ \A e \in Requests : me'[e].at # "sent"
        BY <3>1, LoadKinds DEF W!S!None
      <3>6. session # NoUser => me' # W!S!None
        BY <3>1, LoadKinds DEF W!S!None
      <3>7. SessionTypes'
        BY <3>1, <3>3, <3>4, <3>5 DEF SessionTypes
      <3>8. SessionSerial'
        BY <3>1, <3>4, <3>5, <3>6 DEF SessionSerial, W!S!DbUserIsSession
      <3>9. stored # NoCode => stored' # NoCode
        BY <3>1
      <3> QED
        BY <3>7, <3>8, <3>9
    <2>4. ASSUME NEW code \in Codes, W!S!OtherTab(code)
          PROVE  Goal
      <3>1. SessionTypes' /\ stored' # NoCode
        BY <2>4, NoneAssumption DEF W!S!OtherTab, SessionTypes, NoneAssumption
      <3>2. ~raced' => SessionSerial'
        BY <2>4, <2>1 DEF W!S!OtherTab, SessionSerial, W!S!DbUserIsSession
      <3> QED
        BY <3>1, <3>2
    <2>5. ASSUME NEW c \in Requests, W!S!PageRefreshes(c)
          PROVE  Goal
      <3>1. W!S!RefreshMe(session, me, c) /\ UNCHANGED <<session, stored, post>>
        BY <2>5 DEF W!S!PageRefreshes
      <3>2. SessionTypes'
        BY <3>1, RefreshTypes DEF SessionTypes
      <3>3. ASSUME ~raced' PROVE SessionSerial'
        <4>1. session = NoUser => me' = W!S!None /\ dbUser' = NoUser
          BY <3>1, <3>3, <2>1, RefreshTypes DEF SessionSerial, SessionTypes
        <4>2. session # NoUser => me' # W!S!None
          BY <3>1, RefreshTypes DEF W!S!None, SessionTypes
        <4>3. \A e \in Requests : me'[e].at = "sent" => me'[e].by = session
          BY <3>1, <3>3, <2>1, RefreshTypes DEF SessionSerial, SessionTypes
        <4> QED
          BY <3>1, <3>3, <2>1, <4>1, <4>2, <4>3 DEF SessionSerial, W!S!DbUserIsSession
      <3> QED
        BY <3>1, <3>2, <3>3
    <2>6. ASSUME NEW c \in Requests, W!S!Token(c)
          PROVE  Goal
      <3>1. SessionTypes'
        BY <2>6, LoadKinds DEF W!S!Token, SessionTypes
      <3>2. me'[c].at = "sent" /\ me'[c].by = session /\ \A e \in Requests \ {c} : me'[e] = me[e]
        BY <2>6, LoadKinds DEF W!S!Token, SessionTypes
      <3>3. me # W!S!None /\ me' # W!S!None
        BY <2>6, <3>2, LoadKinds DEF W!S!Token, W!S!None
      <3>4. ~raced' => SessionSerial'
        BY <2>6, <2>1, <3>2, <3>3 DEF W!S!Token, SessionSerial, W!S!DbUserIsSession
      <3> QED
        BY <2>6, <3>1, <3>4 DEF W!S!Token
    <2>7. ASSUME NEW c \in Requests, W!S!Loaded(c) \/ W!S!LoadFails(c)
          PROVE  Goal
      <3>1. SessionTypes'
        BY <2>7, LoadKinds DEF W!S!Loaded, W!S!LoadFails, SessionTypes
      <3>2. me # W!S!None /\ me'[c].at = "idle" /\ \A e \in Requests \ {c} : me'[e] = me[e]
        BY <2>7, LoadKinds DEF W!S!Loaded, W!S!LoadFails, SessionTypes, W!S!None
      <3>3. ~raced' => SessionSerial'
        BY <2>7, <2>1, <3>2 DEF W!S!Loaded, W!S!LoadFails, SessionSerial, W!S!DbUserIsSession
      <3> QED
        BY <2>7, <3>1, <3>3 DEF W!S!Loaded, W!S!LoadFails
    <2>8. ASSUME NEW c \in Requests, W!S!Take(c) \/ W!S!Taken(c) \/ W!S!PostFails(c)
          PROVE  Goal
      <3>1. post[c] # W!S!Idle
        BY <2>8, PostKinds DEF W!S!Take, W!S!Taken, W!S!PostFails
      <3>2. /\ post' \in [Requests -> Posts]
            /\ \A e \in Requests : post'[e].at # "idle" => post[e].at # "idle" /\ post'[e].code = post[e].code
        <4> DEFINE taken == [post[c] EXCEPT !.at = "taken"]
        <4>1. \E p \in {taken, W!S!Idle} : post' = [post EXCEPT ![c] = p]
          BY <2>8 DEF W!S!Take, W!S!Taken, W!S!PostFails
        <4>2. /\ taken \in Posts /\ taken.code = post[c].code /\ post[c].at # "idle"
              /\ W!S!Idle \in Posts /\ W!S!Idle.at = "idle"
          BY <3>1, PostKinds DEF SessionTypes
        <4> HIDE DEF taken
        <4> QED
          BY <4>1, <4>2 DEF SessionTypes
      <3>3. UNCHANGED <<session, dbUser, failed, me>> /\ stored' \in {stored, NoCode}
        BY <2>8 DEF W!S!Take, W!S!Taken, W!S!PostFails
      <3>4. SessionTypes'
        BY <3>2, <3>3 DEF SessionTypes
      <3>5. ~raced' => SessionSerial'
        BY <2>1, <3>2, <3>3 DEF SessionSerial, W!S!DbUserIsSession
      <3>6. Kept
        BY <2>8, <2>1 DEF W!S!Take, W!S!Taken, W!S!PostFails, SessionSerial
      <3> QED
        BY <3>4, <3>5, <3>6
    <2> QED
      BY <1>1, <2>2, <2>3, <2>4, <2>5, <2>6, <2>7, <2>8 DEF W!SessionNext, W!S!Next
  <1>2. CASE ~W!SessionNext
    <2>1. UNCHANGED <<session, dbUser, stored, failed, me, post>>
      BY <1>2 DEF W!WebNext, W!PagesNext, W!PackNext, W!WebVars, W!S!vars
    <2>2. raced => raced'
      BY <1>2 DEF W!WebNext, W!PagesNext, W!PackNext, W!WebVars
    <2> QED
      BY <2>1, <2>2 DEF SessionTypes, SessionSerial, W!S!DbUserIsSession
  <1> QED
    BY <1>1, <1>2

-----------------------------------------------------------------------------
TabInv ==
    /\ raced \in BOOLEAN
    /\ PagesInv /\ SessionTypes
    /\ ~raced => PackSerial /\ SessionSerial

LEMMA TabInit ==
    ASSUME W!WebInit
    PROVE  TabInv
  BY PagesInit, PackInit, SessionInit DEF TabInv, W!WebInit

LEMMA TabStep ==
    ASSUME TabInv, [W!WebNext]_W!WebVars
    PROVE  TabInv'
  <1>1. raced' \in BOOLEAN
    BY DEF TabInv, W!WebNext, W!PagesNext, W!PackNext, W!SessionNext, W!WebVars
  <1> QED
    BY <1>1, PagesStep, PackStep, SessionStep DEF TabInv

LEMMA TabInvariant ==
    W!WebSpec => []TabInv
  BY TabInit, TabStep, PTL DEF W!WebSpec

\* The theorems are about every filter; the run of the web application takes a few.
LEMMA RunIsTab ==
    WebSpec => W!WebSpec
  <1>1. WebInit => W!WebInit
    BY DEF WebInit
  <1>2. [WebNext]_MCVars => [W!WebNext]_W!WebVars
    BY DEF WebNext, MCVars
  <1> QED
    BY <1>1, <1>2, PTL DEF WebSpec, W!WebSpec

\* Until two calls overlap, a list page at rest shows its rows as they are in the
\* database, or an error, or a call has failed on a page that hides or wipes failures;
\* the page of a pack has the card of what was paid for, or an error (load, open).
THEOREM PagesShowWhatIs ==
    W!WebSpec => []SerialCurrentOrError
  <1>1. TabInv => SerialCurrentOrError
    <2> SUFFICES ASSUME TabInv, ~raced
                 PROVE  /\ W!CurrentOrError \/ (lossy /\ (~page.says \/ page.quiet # {}))
                        /\ W!K!PrizeOrError
      BY DEF SerialCurrentOrError
    <2>1. W!K!PrizeOrError
      BY DEF TabInv, PackSerial, W!K!PrizeOrError
    <2>2. W!Quiet /\ W!Reloads => Settled
      BY DEF TabInv, PagesInv, Current
    <2> QED
      BY <2>1, <2>2 DEF W!CurrentOrError, Settled, Shows
  <1> QED
    BY TabInvariant, <1>1, PTL

\* However calls overlap and fail, two presses that a page means to exclude are not in
\* flight together; where it remembers the last button only, unless two different
\* buttons have been in flight (busy, busyId).
THEOREM PressesExcludeEachOther ==
    W!WebSpec => []SerialOneCallPerLock
  <1>1. TabInv => SerialOneCallPerLock
    BY DEF TabInv, PagesInv, PressesAreLocked, SerialOneCallPerLock
  <1> QED
    BY TabInvariant, <1>1, PTL

\* However presses overlap and whatever is lost, a page at rest has no disabled button
\* (the finally of every handler).
THEOREM ButtonsComeBack ==
    W!WebSpec => []NoButtonLeftLocked
  <1>1. TabInv => NoButtonLeftLocked
    BY DEF TabInv, PagesInv, LocksAreHeld, IsPress, NoButtonLeftLocked, W!NoButtonLeftLocked, W!Quiet, W!Idle
  <1> QED
    BY TabInvariant, <1>1, PTL

\* Until two calls overlap or one fails, the service refuses no post of a button that the
\* page drew for the row's status: the fourteen tables agree with the services.
THEOREM WhatIsDrawnIsTaken ==
    W!WebSpec => []SerialDrawnIsTaken
  <1>1. TabInv => SerialDrawnIsTaken
    BY DEF TabInv, PagesInv, Taken, CallTaken, SerialDrawnIsTaken
  <1> QED
    BY TabInvariant, <1>1, PTL

\* Unless the user changes under a load, the pages see the row of the session's user, or
\* none after a failure, once no load is in flight (refreshMe).
THEOREM DbUserIsTheSession ==
    W!WebSpec => []SerialDbUserIsSession
  <1>1. TabInv => SerialDbUserIsSession
    BY DEF TabInv, SessionSerial, SerialDbUserIsSession
  <1> QED
    BY TabInvariant, <1>1, PTL

\* Unless another code comes under a post, a code leaves local storage only in a step of
\* a post of that code that the API has taken (ReferralCapture).
THEOREM CodesAreKept ==
    W!WebSpec => SerialCodeKept
  <1>1. TabInv /\ [W!WebNext]_W!WebVars =>
            [~raced' /\ stored # NoCode /\ stored' = NoCode =>
                 \E c \in Requests : post[c].at = "taken" /\ post[c].code = stored]_W!S!vars
    BY SessionStep DEF TabInv
  <1> QED
    BY TabInit, TabStep, <1>1, PTL DEF W!WebSpec, SerialCodeKept
=============================================================================
