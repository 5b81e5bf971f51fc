------------------------- MODULE ConsignmentProofs -------------------------
(***************************************************************************)
(* Submissions, for any number of them, of items and of calls in flight:   *)
(* types, and the daily cap, which many calls at once do not exceed unless *)
(* Redis has failed that day.  Until two calls overlap, a submission is    *)
(* MINTED with a token only, and until one also dies between the intake    *)
(* and the link, its item is linked to it.                                 *)
(*                                                                         *)
(* The cap counts rows, the guard counts hits, and between the two a call  *)
(* may be on its way or die.  Capped adds the calls that are on their way; *)
(* OnExisting says that no other write makes a row out of nothing, because *)
(* whoever overwrites a status has read a submission that exists.          *)
(***************************************************************************)
EXTENDS MCConsignment, FiniteSetTheorems, TLAPS

Existing == {s \in Submissions : Exists(s)}
Creating == {r \in Requests : req[r].at = "create"}

\* The rows there are and the calls that may still make one are hits, within the cap.
Capped ==
    ~outage => /\ Cardinality(Existing) + Cardinality(Creating) <= hits
               /\ hits <= PerDay

\* A call that is on a submission has read it; a row with an item exists.
OnExisting ==
    /\ \A r \in Requests : req[r].at \notin {"idle", "create"} => Exists(req[r].on)
    /\ \A s \in Submissions : submission[s].item # NoItem => Exists(s)

IInv == TypeOK /\ Capped /\ OnExisting

-----------------------------------------------------------------------------
\* The rows and the calls are finite sets, and so have natural numbers of elements.
LEMMA Counts ==
    /\ IsFiniteSet(Existing) /\ Cardinality(Existing) \in Nat
    /\ IsFiniteSet(Creating) /\ Cardinality(Creating) \in Nat
  <1>1. Existing \subseteq Submissions /\ Creating \subseteq Requests
    BY DEF Existing, Creating
  <1>2. IsFiniteSet(Existing) /\ IsFiniteSet(Creating)
    BY <1>1, FiniteAssumption, FS_Subset
  <1> QED
    BY <1>2, FS_CardinalityType

LEMMA InitInv == Init => IInv
  <1> SUFFICES ASSUME Init PROVE IInv
    OBVIOUS
  <1>1. TypeOK
    BY DEF Init, TypeOK, CallState, Idle, NoRow, NoVault, Statuses, Unborn
  <1>2. OnExisting
    BY DEF Init, OnExisting, Idle, NoRow
  <1>3. Existing = {} /\ Creating = {}
    BY DEF Init, Existing, Creating, Exists, Idle, NoRow
  <1>4. Capped
    BY <1>3, FS_EmptySet, LimitAssumption DEF Init, Capped
  <1> QED
    BY <1>1, <1>2, <1>4 DEF IInv

\* A step that makes no row, lets no call in and leaves Redis alone keeps the cap.
LEMMA SameCounts ==
    ASSUME IInv, UNCHANGED <<hits, outage>>, Existing' = Existing, Creating' \subseteq Creating
    PROVE  Capped'
  <1>1. IsFiniteSet(Creating) /\ Cardinality(Creating) \in Nat /\ Cardinality(Existing) \in Nat
    BY Counts
  <1>2. Cardinality(Creating') <= Cardinality(Creating) /\ Cardinality(Creating') \in Nat
    BY <1>1, FS_Subset, FS_CardinalityType
  <1> QED
    BY <1>1, <1>2, LimitAssumption DEF IInv, TypeOK, Capped

\* A call other than createSubmission's goes on: it touches rows, if at all, without
\* making one, and is on a submission that exists.
LEMMA GoInv ==
    ASSUME IInv, NEW r \in Requests, NEW call \in CallState,
           req' = [req EXCEPT ![r] = call], call.at # "create",
           call.at # "idle" => Exists(call.on),
           submission' \in [Submissions -> [status: Statuses, item: Items \cup {NoItem}]],
           \A s \in Submissions : /\ submission'[s].status = "NONE" <=> submission[s].status = "NONE"
                                  /\ submission'[s].item # NoItem => Exists(s),
           item' \in [Items -> [state: {"NONE", "INTAKE", "AUTHENTICATING", "GRADED", "VAULTED"},
                                source: Submissions \cup {NoSource}, token: BOOLEAN]],
           UNCHANGED <<hits, outage>>
    PROVE  IInv'
  <1>1. TypeOK'
    BY DEF IInv, TypeOK
  <1>2. \A s \in Requests : req'[s] = IF s = r THEN call ELSE req[s]
    BY DEF IInv, TypeOK
  <1>3. Existing' = Existing
    BY DEF Existing, Exists
  <1>4. Creating' \subseteq Creating
    BY <1>2 DEF Creating
  <1>5. Capped'
    BY <1>3, <1>4, SameCounts
  <1>6. OnExisting'
    <2>1. \A s \in Requests : req[s].at \notin {"idle", "create"} => req[s].on \in Submissions
      BY DEF IInv, TypeOK, CallState
    <2>2. call.at # "idle" => call.on \in Submissions
      BY DEF CallState
    <2>3. ASSUME NEW s \in Requests, req'[s].at \notin {"idle", "create"}
          PROVE  submission'[req'[s].on].status # "NONE"
      <3>1. CASE s = r
        BY <1>2, <2>2, <2>3, <3>1 DEF Exists
      <3>2. CASE s # r
        BY <1>2, <2>1, <2>3, <3>2 DEF Exists, IInv, OnExisting
      <3> QED
        BY <3>1, <3>2
    <2>4. \A s \in Submissions : submission'[s].item # NoItem => submission'[s].status # "NONE"
      BY DEF Exists
    <2> QED
      BY <2>3, <2>4 DEF OnExisting, Exists
  <1> QED
    BY <1>1, <1>5, <1>6 DEF IInv

-----------------------------------------------------------------------------
\* The guard lets a call in: one hit more, and one call more that may make a row.
LEMMA HitInv ==
    ASSUME IInv, NEW r \in Requests, Hit(r)
    PROVE  IInv'
  <1> DEFINE call == [at |-> "create"]
  <1>1. /\ req[r] = Idle /\ req' = [req EXCEPT ![r] = call]
        /\ UNCHANGED <<submission, item>> /\ call \in CallState
    BY DEF Hit, Go, CallState
  <1>2. \A s \in Requests : req'[s] = IF s = r THEN call ELSE req[s]
    BY <1>1 DEF IInv, TypeOK
  <1>3. hits' \in Nat /\ outage' \in BOOLEAN
    <2>1. hits \in Nat /\ outage \in BOOLEAN
      BY DEF IInv, TypeOK
    <2>2. (hits' = hits + 1 \/ hits' = hits \/ hits' = 1) /\ (outage' = outage \/ outage' = TRUE)
      BY DEF Hit
    <2>3. hits' \in Nat
      BY <2>1, <2>2
    <2>4. outage' \in BOOLEAN
      BY <2>1, <2>2, Zenon
    <2> QED
      BY <2>3, <2>4
  <1>4. TypeOK' /\ OnExisting'
    BY <1>1, <1>2, <1>3 DEF IInv, TypeOK, OnExisting, Exists
  <1>5. Capped'
    <2> SUFFICES ASSUME ~outage'
                 PROVE  Cardinality(Existing') + Cardinality(Creating') <= hits' /\ hits' <= PerDay
      BY DEF Capped
    <2>1. hits' = hits + 1 /\ hits' <= PerDay /\ ~outage
      BY DEF Hit, Allowed
    <2>2. Existing' = Existing
      BY <1>1 DEF Existing, Exists
    <2>3. Creating' = Creating \cup {r} /\ r \notin Creating
      BY <1>1, <1>2 DEF Creating, Idle
    <2>4. Cardinality(Creating') = Cardinality(Creating) + 1
      BY <2>3, Counts, FS_AddElement
    <2>5. Cardinality(Existing) + Cardinality(Creating) <= hits
      BY <2>1 DEF IInv, Capped
    <2>6. hits \in Nat
      BY DEF IInv, TypeOK
    <2> QED
      BY <2>1, <2>2, <2>4, <2>5, <2>6, Counts
  <1> QED
    BY <1>4, <1>5 DEF IInv

\* The insert: one call less that may make a row, one row more.
LEMMA CreateInv ==
    ASSUME IInv, NEW r \in Requests, NEW s \in Submissions, Create(r, s)
    PROVE  IInv'
  <1> DEFINE row == [NoRow EXCEPT !.status = "DRAFT"]
  <1>1. /\ req[r].at = "create" /\ ~Exists(s)
        /\ req' = [req EXCEPT ![r] = Idle] /\ submission' = [submission EXCEPT ![s] = row]
        /\ UNCHANGED <<item, hits, outage>>
    BY DEF Create, Done
  <1>2. row \in [status: Statuses, item: Items \cup {NoItem}] /\ row.status = "DRAFT" /\ row.item = NoItem
    BY DEF NoRow, Statuses, Unborn
  <1> HIDE DEF row
  <1>3. Idle \in CallState /\ Idle.at = "idle"
    BY DEF Idle, CallState
  <1>4. TypeOK'
    BY <1>1, <1>2, <1>3 DEF IInv, TypeOK
  <1>5. /\ \A q \in Requests : req'[q] = IF q = r THEN Idle ELSE req[q]
        /\ \A t \in Submissions : submission'[t] = IF t = s THEN row ELSE submission[t]
    BY <1>1 DEF IInv, TypeOK
  <1>6. OnExisting'
    <2>1. \A q \in Requests : req[q].at \notin {"idle", "create"} => req[q].on \in Submissions
      BY DEF IInv, TypeOK, CallState
    <2> QED
      BY <1>2, <1>3, <1>5, <2>1 DEF IInv, OnExisting, Exists
  <1>7. Existing' = Existing \cup {s} /\ s \notin Existing
    BY <1>1, <1>2, <1>5 DEF Existing, Exists
  <1>8. Creating' = Creating \ {r} /\ r \in Creating
    BY <1>1, <1>3, <1>5 DEF Creating
  <1>9. Cardinality(Existing') = Cardinality(Existing) + 1 /\ Cardinality(Creating') = Cardinality(Creating) - 1
    BY <1>7, <1>8, Counts, FS_AddElement, FS_RemoveElement
  <1>10. Capped'
    BY <1>1, <1>9, Counts DEF IInv, Capped
  <1> QED
    BY <1>4, <1>6, <1>10 DEF IInv

-----------------------------------------------------------------------------
\* Items keep their type under whatever a call of the vault service does to them.
ItemRow == [state: {"NONE", "INTAKE", "AUTHENTICATING", "GRADED", "VAULTED"},
            source: Submissions \cup {NoSource}, token: BOOLEAN]

LEMMA TransitionType ==
    ASSUME item \in [Items -> ItemRow], NEW i \in Items,
           NEW from, NEW to \in {"AUTHENTICATING", "GRADED", "VAULTED"}, Transition(i, from, to)
    PROVE  item' \in [Items -> ItemRow]
  <1> DEFINE row == [item[i] EXCEPT !.state = to, !.token = (to = "VAULTED")]
  <1>1. row \in ItemRow
    BY DEF ItemRow
  <1>2. item' = [item EXCEPT ![i] = row]
    BY DEF Transition
  <1> QED
    BY <1>1, <1>2

LEMMA WorksType ==
    ASSUME item \in [Items -> ItemRow], NEW i \in Items, NEW op, Works(i, op)
    PROVE  item' \in [Items -> ItemRow]
  <1> QED
    BY TransitionType DEF Works, Authenticate, Grade, Vault, AddPhotos

\* The steps of an operation that leave the submissions alone.
LEMMA WorkInv ==
    ASSUME IInv, NEW r \in Requests,
           \/ \E s \in Submissions, op \in DOMAIN Moves : MoveRead(r, s, op)
           \/ \E s \in Submissions : ReceiveRead(r, s)
           \/ \E i \in Items : ReceiveIntake(r, i)
           \/ \E s \in Submissions, op \in DOMAIN WorksTo : WorkRead(r, s, op)
           \/ \E op \in DOMAIN WorksTo : Work(r, op)
           \/ Abort(r)
    PROVE  IInv'
  <1>0. /\ req[r] \in CallState
        /\ submission \in [Submissions -> [status: Statuses, item: Items \cup {NoItem}]]
        /\ item \in [Items -> ItemRow]
        /\ \A s \in Submissions : submission[s].item # NoItem => Exists(s)
        /\ req[r].at \notin {"idle", "create"} => Exists(req[r].on)
    BY DEF IInv, TypeOK, ItemRow, OnExisting
  <1>1. SUFFICES ASSUME NEW call \in CallState, req' = [req EXCEPT ![r] = call], call.at # "create",
                        call.at # "idle" => Exists(call.on), item' \in [Items -> ItemRow],
                        UNCHANGED <<submission, hits, outage>>
                 PROVE  IInv'
    <2>1. ASSUME NEW s \in Submissions, NEW op \in DOMAIN Moves, MoveRead(r, s, op) PROVE IInv'
      <3> DEFINE call == [at |-> "advance", on |-> s, status |-> MovesTo[op], item |-> NoItem]
      <3>1. Exists(s) /\ MovesTo[op] \in Statuses \ {"NONE"}
        BY <2>1 DEF MoveRead, Moves, MovesTo, Exists, Statuses, Unborn, Processing
      <3>2. call \in CallState /\ call.at = "advance" /\ call.on = s
        BY <3>1 DEF CallState
      <3>3. req' = [req EXCEPT ![r] = call] /\ UNCHANGED <<submission, item, hits, outage>>
        BY <2>1 DEF MoveRead, Go
      <3> HIDE DEF call
      <3> QED
        BY <1>0, <1>1, <3>1, <3>2, <3>3
    <2>2. ASSUME NEW s \in Submissions, ReceiveRead(r, s) PROVE IInv'
      <3> DEFINE call == [at |-> "intake", on |-> s]
      <3>1. call \in CallState /\ call.at = "intake" /\ call.on = s /\ Exists(s)
        BY <2>2 DEF CallState, ReceiveRead, Receivable, Exists
      <3>2. req' = [req EXCEPT ![r] = call] /\ UNCHANGED <<submission, item, hits, outage>>
        BY <2>2 DEF ReceiveRead, Go
      <3> HIDE DEF call
      <3> QED
        BY <1>0, <1>1, <3>1, <3>2
    <2>3. ASSUME NEW i \in Items, ReceiveIntake(r, i) PROVE IInv'
      <3> DEFINE call == [at |-> "advance", on |-> req[r].on, status |-> "RECEIVED", item |-> i]
                 row  == [state |-> "INTAKE", source |-> req[r].on, token |-> FALSE]
      <3>1. req[r].at = "intake" /\ req[r].on \in Submissions
        BY <1>0, <2>3 DEF ReceiveIntake, CallState
      <3>2. call \in CallState /\ call.at = "advance" /\ call.on = req[r].on
        BY <3>1 DEF CallState, Statuses, Processing
      <3>3. row \in ItemRow
        BY <3>1 DEF ItemRow
      <3>4. /\ req' = [req EXCEPT ![r] = call] /\ item' = [item EXCEPT ![i] = row]
            /\ UNCHANGED <<submission, hits, outage>>
        BY <2>3 DEF ReceiveIntake, Go
      <3> HIDE DEF call, row
      <3>5. item' \in [Items -> ItemRow]
        BY <1>0, <3>3, <3>4
      <3> QED
        BY <1>0, <1>1, <3>1, <3>2, <3>4, <3>5
    <2>4. ASSUME NEW s \in Submissions, NEW op \in DOMAIN WorksTo, WorkRead(r, s, op) PROVE IInv'
      <3> DEFINE call == [at |-> op, on |-> s, item |-> submission[s].item]
      <3>1. op \in {"authenticate", "grade", "photos", "mint"} /\ submission[s].item \in Items
        BY <1>0, <2>4 DEF WorksTo, WorkRead
      <3>2. call \in CallState /\ call.at \notin {"idle", "create"} /\ call.on = s /\ Exists(s)
        BY <1>0, <2>4, <3>1 DEF CallState, WorkRead
      <3>3. req' = [req EXCEPT ![r] = call] /\ UNCHANGED <<submission, item, hits, outage>>
        BY <2>4 DEF WorkRead, Go
      <3> HIDE DEF call
      <3> QED
        BY <1>0, <1>1, <3>2, <3>3
    <2>5. ASSUME NEW op \in DOMAIN WorksTo, Work(r, op) PROVE IInv'
      <3> DEFINE call == [at |-> "advance", on |-> req[r].on, status |-> WorksTo[op], item |-> NoItem]
      <3>1. /\ op \in {"authenticate", "grade", "photos", "mint"}
            /\ WorksTo[op] \in Statuses \ {"NONE"}
        BY DEF WorksTo, Statuses, Processing
      <3>2. req[r].at = op /\ req[r].on \in Submissions /\ req[r].item \in Items
        BY <1>0, <2>5, <3>1 DEF Work, CallState
      <3>3. call \in CallState /\ call.at = "advance" /\ call.on = req[r].on
        BY <3>1, <3>2 DEF CallState
      <3>4. req' = [req EXCEPT ![r] = call] /\ UNCHANGED <<submission, hits, outage>>
        BY <2>5 DEF Work, Go
      <3>5. item' \in [Items -> ItemRow]
        BY <1>0, <2>5, <3>2, WorksType DEF Work
      <3> HIDE DEF call
      <3> QED
        BY <1>0, <1>1, <3>1, <3>2, <3>3, <3>4, <3>5
    <2>6. CASE Abort(r)
      <3>1. Idle \in CallState /\ Idle.at = "idle"
        BY DEF Idle, CallState
      <3> QED
        BY <1>0, <1>1, <2>6, <3>1 DEF Abort, Done
    <2> QED
      BY <2>1, <2>2, <2>3, <2>4, <2>5, <2>6
  <1> QED
    BY <1>0, <1>1, GoInv DEF ItemRow

\* The write at the end of an operation overwrites a row that exists.
LEMMA AdvanceInv ==
    ASSUME IInv, NEW r \in Requests, Advance(r)
    PROVE  IInv'
  <1> DEFINE s   == req[r].on
             row == [submission[s] EXCEPT !.status = req[r].status,
                                          !.item = IF req[r].item = NoItem THEN @ ELSE req[r].item]
  <1>1. /\ s \in Submissions /\ Exists(s)
        /\ req[r].status \in Statuses \ {"NONE"} /\ req[r].item \in Items \cup {NoItem}
        /\ submission \in [Submissions -> [status: Statuses, item: Items \cup {NoItem}]]
        /\ \A t \in Submissions : submission[t].item # NoItem => Exists(t)
    BY DEF Advance, IInv, TypeOK, CallState, OnExisting
  <1>2. row \in [status: Statuses, item: Items \cup {NoItem}] /\ row.status # "NONE"
    BY <1>1
  <1>3. /\ submission' = [submission EXCEPT ![s] = row] /\ req' = [req EXCEPT ![r] = Idle]
        /\ UNCHANGED <<item, hits, outage>>
    BY DEF Advance, Done
  <1> HIDE DEF row, s
  <1>4. /\ submission' \in [Submissions -> [status: Statuses, item: Items \cup {NoItem}]]
        /\ \A t \in Submissions : submission'[t] = IF t = s THEN row ELSE submission[t]
    BY <1>1, <1>2, <1>3
  <1>5. \A t \in Submissions : /\ submission'[t].status = "NONE" <=> submission[t].status = "NONE"
                               /\ submission'[t].item # NoItem => Exists(t)
    BY <1>1, <1>2, <1>4 DEF Exists
  <1>6. item' \in [Items -> [state: {"NONE", "INTAKE", "AUTHENTICATING", "GRADED", "VAULTED"},
                             source: Submissions \cup {NoSource}, token: BOOLEAN]]
    BY <1>3 DEF IInv, TypeOK
  <1>7. Idle \in CallState /\ Idle.at = "idle"
    BY DEF Idle, CallState
  <1> QED
    BY <1>3, <1>4, <1>5, <1>6, <1>7, GoInv

\* The vault console works on items only.
LEMMA OperateInv ==
    ASSUME IInv, Operate
    PROVE  IInv'
  <1>1. UNCHANGED <<submission, hits, outage, req>>
    BY DEF Operate, Console, Intake
  <1>2. item \in [Items -> ItemRow]
    BY DEF IInv, TypeOK, ItemRow
  <1>3. item' \in [Items -> ItemRow]
    <2>1. ASSUME NEW i \in Items, Console(i) PROVE item' \in [Items -> ItemRow]
      BY <1>2, <2>1, TransitionType DEF Console, Authenticate, Grade
    <2>2. ASSUME NEW i \in Items, Intake(i) PROVE item' \in [Items -> ItemRow]
      BY <1>2, <2>2 DEF Intake, ItemRow
    <2> QED
      BY <2>1, <2>2 DEF Operate
  <1>4. TypeOK' /\ OnExisting'
    BY <1>1, <1>3 DEF IInv, TypeOK, OnExisting, Exists, ItemRow
  <1>5. Capped'
    BY <1>1, SameCounts DEF Existing, Creating, Exists
  <1> QED
    BY <1>4, <1>5 DEF IInv

\* Every step keeps the invariant.
LEMMA StepInv == IInv /\ [Next]_vars => IInv'
  <1> SUFFICES ASSUME IInv, [Next]_vars PROVE IInv'
    OBVIOUS
  <1>1. CASE UNCHANGED vars
    <2>1. TypeOK' /\ OnExisting'
      BY <1>1 DEF vars, IInv, TypeOK, OnExisting, Exists
    <2>2. Capped'
      BY <1>1, SameCounts DEF vars, Existing, Creating, Exists
    <2> QED
      BY <2>1, <2>2 DEF IInv
  <1>2. ASSUME NEW r \in Requests, Step(r) PROVE IInv'
    BY <1>2, HitInv, CreateInv, WorkInv, AdvanceInv DEF Step
  <1>3. CASE Operate
    BY <1>3, OperateInv
  <1> QED
    BY <1>1, <1>2, <1>3 DEF Next

\* The invariant holds of every reachable state.
THEOREM InvariantHolds == Spec => []IInv
  <1> QED
    BY InitInv, StepInv, PTL DEF Spec

\* Every variable keeps its type: a submission moves between the statuses of the
\* schema, an item between those of the vault (the writes of both services).
THEOREM TypeCorrect == Spec => []TypeOK
  <1>1. IInv => TypeOK
    BY DEF IInv
  <1> QED
    BY <1>1, InvariantHolds, PTL

\* A day has no more submissions than its cap, however many calls pass the guard at
\* once and die after it, unless Redis has failed (RateLimitGuard, fail-open).
THEOREM DayIsCapped == Spec => []DailyCap
  <1>1. IInv => DailyCap
    <2> SUFFICES ASSUME IInv, ~outage PROVE Cardinality(Existing) <= PerDay
      BY DEF DailyCap, Existing
    <2>1. Cardinality(Existing) + Cardinality(Creating) <= hits /\ hits <= PerDay /\ hits \in Nat
      BY DEF IInv, Capped, TypeOK
    <2> QED
      BY <2>1, Counts, LimitAssumption
  <1> QED
    BY <1>1, InvariantHolds, PTL

-----------------------------------------------------------------------------
(* One call at a time, and the console at rest meanwhile.  Then what a call *)
(* has read is still so when it writes (SeesCurrent): the item it has       *)
(* worked on is the submission's, and an item it has just taken in is the   *)
(* submission's first.  A call that dies in between leaves that item        *)
(* without its link, and nothing else.                                      *)
TokenVaulted == \A i \in Items : item[i].token <=> item[i].state = "VAULTED"

SeesCurrent(r) ==
    LET call == req[r] IN
    /\ call.at = "intake" => submission[call.on].item = NoItem
    /\ call.at \in {"authenticate", "grade", "photos", "mint"} => call.item = submission[call.on].item
    /\ call.at = "advance" =>
          /\ call.status = "MINTED" =>
                submission[call.on].item # NoItem /\ item[submission[call.on].item].token
          /\ call.item # NoItem =>
                /\ call.status = "RECEIVED"
                /\ submission[call.on].item = NoItem
                /\ item[call.item].source = call.on

ConsignmentSerial == MintedHasToken /\ (\A r \in Requests : SeesCurrent(r)) /\ ~Together(req)

SerialInv ==
    /\ IInv /\ TokenVaulted
    /\ ~overlapped => ConsignmentSerial
    /\ ~overlapped /\ ~died => ItemIsLinked

\* A call of the vault service on an item: its row and no other, and not the source.
LEMMA TransitionRows ==
    ASSUME item \in [Items -> ItemRow], NEW i \in Items,
           NEW from, NEW to \in {"AUTHENTICATING", "GRADED", "VAULTED"}, Transition(i, from, to)
    PROVE  /\ item[i].state = from
           /\ item'[i].state = to /\ item'[i].token = (to = "VAULTED")
           /\ item'[i].source = item[i].source
           /\ \A j \in Items \ {i} : item'[j] = item[j]
  <1> DEFINE row == [item[i] EXCEPT !.state = to, !.token = (to = "VAULTED")]
  <1>1. /\ row.state = to /\ row.token = (to = "VAULTED") /\ row.source = item[i].source
    BY DEF ItemRow
  <1>2. item' = [item EXCEPT ![i] = row] /\ item[i].state = from
    BY DEF Transition
  <1> HIDE DEF row
  <1> QED
    BY <1>1, <1>2

\* What is done to items in a step: tokens come with VAULTED and stay, and a source
\* is given at the intake only.
ItemsKept ==
    /\ TokenVaulted'
    /\ \A i \in Items : item[i].token => item'[i].token
    /\ \A i \in Items : item'[i].source = item[i].source

LEMMA TransitionKeeps ==
    ASSUME IInv, TokenVaulted, NEW i \in Items,
           NEW from \in {"INTAKE", "AUTHENTICATING", "GRADED"},
           NEW to \in {"AUTHENTICATING", "GRADED", "VAULTED"}, Transition(i, from, to), from # to
    PROVE  ItemsKept /\ item' # item
  <1>1. item \in [Items -> ItemRow]
    BY DEF IInv, TypeOK, ItemRow
  <1>2. /\ item[i].state = from
        /\ item'[i].state = to /\ item'[i].token = (to = "VAULTED")
        /\ item'[i].source = item[i].source
        /\ \A j \in Items \ {i} : item'[j] = item[j]
    BY <1>1, TransitionRows
  <1> QED
    BY <1>2 DEF ItemsKept, TokenVaulted

LEMMA WorksKeeps ==
    ASSUME IInv, TokenVaulted, NEW i \in Items, NEW op, Works(i, op)
    PROVE  ItemsKept /\ (op = "mint" => item'[i].token)
  <1>1. item \in [Items -> ItemRow]
    BY DEF IInv, TypeOK, ItemRow
  <1>2. ASSUME UNCHANGED item PROVE ItemsKept
    BY <1>2 DEF ItemsKept, TokenVaulted
  <1>3. CASE op = "authenticate" /\ Authenticate(i)
    BY <1>3, TransitionKeeps DEF Authenticate
  <1>4. CASE op = "grade" /\ Grade(i)
    BY <1>4, TransitionKeeps DEF Grade
  <1>5. CASE op = "photos" /\ AddPhotos(i)
    BY <1>2, <1>5 DEF AddPhotos
  <1>6. CASE op = "mint" /\ Transition(i, "GRADED", "VAULTED")
    BY <1>1, <1>6, TransitionKeeps, TransitionRows
  <1>7. CASE op = "mint" /\ item[i].state = "VAULTED" /\ UNCHANGED item
    BY <1>2, <1>7 DEF TokenVaulted
  <1> QED
    BY <1>3, <1>4, <1>5, <1>6, <1>7 DEF Works, Vault

\* The console and other intakes change an item, and no source that is a submission.
LEMMA OperateKeeps ==
    ASSUME IInv, TokenVaulted, Operate
    PROVE  ItemsKept /\ item' # item
  <1>1. item \in [Items -> ItemRow]
    BY DEF IInv, TypeOK, ItemRow
  <1>2. ASSUME NEW i \in Items, Console(i) PROVE ItemsKept /\ item' # item
    BY <1>2, TransitionKeeps DEF Console, Authenticate, Grade
  <1>3. ASSUME NEW i \in Items, Intake(i) PROVE ItemsKept /\ item' # item
    <2> DEFINE row == [item[i] EXCEPT !.state = "INTAKE"]
    <2>1. item[i] = NoVault /\ item[i] \in ItemRow
      BY <1>1, <1>3 DEF Intake
    <2>2. row.state = "INTAKE" /\ row.token = item[i].token /\ row.source = item[i].source
      BY <2>1 DEF ItemRow
    <2>3. item' = [item EXCEPT ![i] = row]
      BY <1>3 DEF Intake
    <2> HIDE DEF row
    <2>4. item'[i] = row /\ \A j \in Items \ {i} : item'[j] = item[j]
      BY <1>1, <2>3
    <2>5. item[i].state = "NONE" /\ item[i].token = FALSE
      BY <2>1 DEF NoVault
    <2> QED
      BY <2>2, <2>4, <2>5 DEF ItemsKept, TokenVaulted
  <1> QED
    BY <1>2, <1>3 DEF Operate

\* The intake of a submission's card gives a free item its source.
LEMMA IntakeRows ==
    ASSUME IInv, TokenVaulted, NEW r \in Requests, NEW i \in Items, ReceiveIntake(r, i)
    PROVE  /\ TokenVaulted'
           /\ \A j \in Items : item[j].token => item'[j].token
           /\ item'[i].source = req[r].on
           /\ \A j \in Items \ {i} : item'[j] = item[j]
  <1>1. item \in [Items -> ItemRow]
    BY DEF IInv, TypeOK, ItemRow
  <1>2. /\ item[i] = NoVault
        /\ item' = [item EXCEPT ![i] = [state |-> "INTAKE", source |-> req[r].on, token |-> FALSE]]
    BY DEF ReceiveIntake
  <1>3. /\ item'[i].state = "INTAKE" /\ item'[i].source = req[r].on /\ item'[i].token = FALSE
        /\ \A j \in Items \ {i} : item'[j] = item[j]
    BY <1>1, <1>2
  <1> QED
    BY <1>2, <1>3 DEF TokenVaulted, NoVault

-----------------------------------------------------------------------------
\* A call that is alone goes on with what it knows.
LEMMA AloneGoes ==
    ASSUME ConsignmentSerial, IInv, NEW r \in Requests, NEW call,
           req' = [req EXCEPT ![r] = call], ~Together(req'),
           \A s \in Requests \ {r} : req[s] = Idle \/ UNCHANGED <<submission, item>>,
           SeesCurrent(r)', MintedHasToken'
    PROVE  ConsignmentSerial'
  <1>1. \A s \in Requests \ {r} : req'[s] = req[s]
    BY DEF IInv, TypeOK
  <1>2. ASSUME NEW s \in Requests PROVE SeesCurrent(s)'
    <2>1. CASE s = r
      BY <2>1
    <2>2. CASE s # r /\ req[s] = Idle
      BY <1>1, <2>2 DEF SeesCurrent, Idle
    <2>3. CASE s # r /\ UNCHANGED <<submission, item>>
      BY <1>1, <2>3 DEF ConsignmentSerial, SeesCurrent
    <2> QED
      BY <2>1, <2>2, <2>3
  <1> QED
    BY <1>2 DEF ConsignmentSerial

\* The steps that change neither submissions nor items.
LEMMA ReadsAlone ==
    ASSUME ConsignmentSerial, IInv, NEW r \in Requests, ~Together(req'),
           \/ Hit(r)
           \/ \E s \in Submissions, op \in DOMAIN Moves : MoveRead(r, s, op)
           \/ \E s \in Submissions : ReceiveRead(r, s)
           \/ \E s \in Submissions, op \in DOMAIN WorksTo : WorkRead(r, s, op)
           \/ Abort(r)
    PROVE  ConsignmentSerial'
  <1>1. UNCHANGED <<submission, item>>
    BY DEF Hit, MoveRead, ReceiveRead, WorkRead, Abort
  <1>2. MintedHasToken'
    BY <1>1 DEF ConsignmentSerial, MintedHasToken
  <1>3. SUFFICES ASSUME NEW call, req' = [req EXCEPT ![r] = call],
                        call.at = "intake" => submission[call.on].item = NoItem,
                        call.at \in {"authenticate", "grade", "photos", "mint"}
                            => call.item = submission[call.on].item,
                        call.at = "advance" => call.status # "MINTED" /\ call.item = NoItem
                 PROVE  ConsignmentSerial'
    <2>1. CASE Hit(r)
      <3>1. [at |-> "create"].at = "create"
        OBVIOUS
      <3> QED
        BY <1>3, <2>1, <3>1 DEF Hit, Go
    <2>2. ASSUME NEW s \in Submissions, NEW op \in DOMAIN Moves, MoveRead(r, s, op)
          PROVE  ConsignmentSerial'
      <3> DEFINE c == [at |-> "advance", on |-> s, status |-> MovesTo[op], item |-> NoItem]
      <3>1. c.at = "advance" /\ c.status # "MINTED" /\ c.item = NoItem
        BY DEF Moves, MovesTo
      <3>2. req' = [req EXCEPT ![r] = c]
        BY <2>2 DEF MoveRead, Go
      <3> HIDE DEF c
      <3> QED
        BY <1>3, <3>1, <3>2
    <2>3. ASSUME NEW s \in Submissions, ReceiveRead(r, s) PROVE ConsignmentSerial'
      <3> DEFINE c == [at |-> "intake", on |-> s]
      <3>1. c.at = "intake" /\ c.on = s
        OBVIOUS
      <3>2. req' = [req EXCEPT ![r] = c] /\ submission[s].item = NoItem
        BY <2>3 DEF ReceiveRead, Receivable, Go
      <3> HIDE DEF c
      <3> QED
        BY <1>3, <3>1, <3>2
    <2>4. ASSUME NEW s \in Submissions, NEW op \in DOMAIN WorksTo, WorkRead(r, s, op)
          PROVE  ConsignmentSerial'
      <3> DEFINE c == [at |-> op, on |-> s, item |-> submission[s].item]
      <3>1. c.at \in {"authenticate", "grade", "photos", "mint"} /\ c.item = submission[c.on].item
        BY DEF WorksTo
      <3>2. req' = [req EXCEPT ![r] = c]
        BY <2>4 DEF WorkRead, Go
      <3> HIDE DEF c
      <3> QED
        BY <1>3, <3>1, <3>2
    <2>5. CASE Abort(r)
      BY <1>3, <2>5 DEF Abort, Done, Idle
    <2> QED
      BY <2>1, <2>2, <2>3, <2>4, <2>5
  <1>4. req'[r] = call
    BY <1>3 DEF IInv, TypeOK
  <1>5. SeesCurrent(r)'
    BY <1>1, <1>3, <1>4 DEF SeesCurrent
  <1> QED
    BY <1>1, <1>2, <1>3, <1>5, AloneGoes

\* The steps that write: they are the only call's.
LEMMA WritesAlone ==
    ASSUME ConsignmentSerial, IInv, TokenVaulted, NEW r \in Requests, ~Together(req'),
           \/ \E s \in Submissions : Create(r, s)
           \/ \E i \in Items : ReceiveIntake(r, i)
           \/ \E op \in DOMAIN WorksTo : Work(r, op)
           \/ Advance(r)
    PROVE  ConsignmentSerial'
  <1>1. /\ req \in [Requests -> CallState] /\ req[r] \in CallState
        /\ submission \in [Submissions -> [status: Statuses, item: Items \cup {NoItem}]]
        /\ MintedHasToken /\ SeesCurrent(r)
    BY DEF IInv, TypeOK, ConsignmentSerial
  <1>2. req[r] # Idle
    <2>1. Idle.at = "idle"
      BY DEF Idle
    <2>2. req[r].at # "idle"
      BY DEF Create, ReceiveIntake, Work, Advance, WorksTo
    <2> QED
      BY <2>1, <2>2
  <1>3. \A s \in Requests \ {r} : req[s] = Idle
    BY <1>2 DEF ConsignmentSerial, Together
  <1>4. ASSUME NEW s \in Submissions, Create(r, s) PROVE ConsignmentSerial'
    <2>1. req'[r] = Idle /\ req' = [req EXCEPT ![r] = Idle]
      BY <1>1, <1>4 DEF Create, Done
    <2>2. SeesCurrent(r)'
      BY <2>1 DEF SeesCurrent, Idle
    <2>3. MintedHasToken'
      <3>1. submission' = [submission EXCEPT ![s] = [NoRow EXCEPT !.status = "DRAFT"]] /\ item' = item
        BY <1>4 DEF Create
      <3>2. submission'[s].status = "DRAFT" /\ \A t \in Submissions \ {s} : submission'[t] = submission[t]
        BY <1>1, <3>1 DEF NoRow
      <3> QED
        BY <1>1, <3>1, <3>2 DEF MintedHasToken
    <2> QED
      BY <1>3, <2>1, <2>2, <2>3, AloneGoes
  <1>5. ASSUME NEW i \in Items, ReceiveIntake(r, i) PROVE ConsignmentSerial'
    <2> DEFINE c == [at |-> "advance", on |-> req[r].on, status |-> "RECEIVED", item |-> i]
    <2>1. req' = [req EXCEPT ![r] = c] /\ submission' = submission
      BY <1>5 DEF ReceiveIntake, Go
    <2>2. c.at = "advance" /\ c.on = req[r].on /\ c.status = "RECEIVED" /\ c.item = i
      OBVIOUS
    <2> HIDE DEF c
    <2>3. submission[req[r].on].item = NoItem
      BY <1>1, <1>5 DEF ReceiveIntake, SeesCurrent
    <2>4. item'[i].source = req[r].on /\ \A j \in Items : item[j].token => item'[j].token
      BY <1>5, IntakeRows
    <2>5. SeesCurrent(r)'
      BY <1>1, <2>1, <2>2, <2>3, <2>4 DEF SeesCurrent
    <2>6. MintedHasToken'
      BY <1>1, <2>1, <2>4 DEF MintedHasToken
    <2> QED
      BY <1>3, <2>1, <2>5, <2>6, AloneGoes
  <1>6. ASSUME NEW op \in DOMAIN WorksTo, Work(r, op) PROVE ConsignmentSerial'
    <2> DEFINE c == [at |-> "advance", on |-> req[r].on, status |-> WorksTo[op], item |-> NoItem]
    <2>1. req' = [req EXCEPT ![r] = c] /\ submission' = submission /\ Works(req[r].item, op)
      BY <1>6 DEF Work, Go
    <2>2. c.at = "advance" /\ c.on = req[r].on /\ c.status = WorksTo[op] /\ c.item = NoItem
      OBVIOUS
    <2> HIDE DEF c
    <2>3. op \in {"authenticate", "grade", "photos", "mint"} /\ (WorksTo[op] = "MINTED" => op = "mint")
      BY DEF WorksTo
    <2>4. req[r].item \in Items /\ req[r].item = submission[req[r].on].item
      BY <1>1, <1>6, <2>3 DEF Work, CallState, SeesCurrent
    <2>5. ItemsKept /\ (op = "mint" => item'[req[r].item].token)
      BY <2>1, <2>4, WorksKeeps
    <2>6. SeesCurrent(r)'
      BY <1>1, <2>1, <2>2, <2>3, <2>4, <2>5, NullsAssumption DEF SeesCurrent
    <2>7. MintedHasToken'
      BY <1>1, <2>1, <2>5 DEF MintedHasToken, ItemsKept
    <2> QED
      BY <1>3, <2>1, <2>6, <2>7, AloneGoes
  <1>7. ASSUME Advance(r) PROVE ConsignmentSerial'
    <2>1. req'[r] = Idle /\ req' = [req EXCEPT ![r] = Idle] /\ item' = item
      BY <1>1, <1>7 DEF Advance, Done
    <2>2. SeesCurrent(r)'
      BY <2>1 DEF SeesCurrent, Idle
    <2>3. PICK s \in Submissions : s = req[r].on
      BY <1>1, <1>7 DEF Advance, CallState
    <2>4. /\ submission'[s].status = req[r].status
          /\ submission'[s].item = IF req[r].item = NoItem THEN submission[s].item ELSE req[r].item
          /\ \A t \in Submissions \ {s} : submission'[t] = submission[t]
      BY <1>1, <1>7, <2>3 DEF Advance
    <2>5. req[r].status = "MINTED" =>
              req[r].item = NoItem /\ submission[s].item # NoItem /\ item[submission[s].item].token
      BY <1>1, <1>7, <2>3 DEF Advance, SeesCurrent
    <2>6. MintedHasToken'
      BY <1>1, <2>1, <2>4, <2>5 DEF MintedHasToken
    <2> QED
      BY <1>3, <2>1, <2>2, <2>6, AloneGoes
  <1> QED
    BY <1>4, <1>5, <1>6, <1>7

\* As long as no call has died before its link is written, the link of every item
\* is there, or about to be written.
LEMMA LinksAlone ==
    ASSUME ConsignmentSerial, IInv, TokenVaulted, ItemIsLinked, NEW r \in Requests, Step(r),
           ~ (/\ req[r].at = "advance" /\ req[r].item # NoItem
              /\ submission' = submission /\ req'[r] = Idle)
    PROVE  ItemIsLinked'
  <1> DEFINE Source(i) == item[i].source
             Linking(i, q) == req[q].at = "advance" /\ req[q].item = i
  <1>1. /\ req \in [Requests -> CallState]
        /\ submission \in [Submissions -> [status: Statuses, item: Items \cup {NoItem}]]
        /\ item \in [Items -> ItemRow]
        /\ SeesCurrent(r)
    BY DEF IInv, TypeOK, ItemRow, ConsignmentSerial
  <1>2. \A q \in Requests \ {r} : req'[q] = req[q]
    BY <1>1 DEF Step, Hit, Create, MoveRead, ReceiveRead, ReceiveIntake, WorkRead, Work, Advance,
                Abort, Go, Done
  <1>3. ASSUME UNCHANGED submission, \A i \in Items : item'[i].source = item[i].source,
               ~ (req[r].at = "advance" /\ req[r].item # NoItem)
        PROVE  ItemIsLinked'
    <2> SUFFICES ASSUME NEW i \in Items, item[i].source \in Submissions,
                        submission[item[i].source].item # i
                 PROVE  \E q \in Requests : req'[q].at = "advance" /\ req'[q].item = i
      BY <1>3 DEF ItemIsLinked
    <2>1. PICK q \in Requests : Linking(i, q)
      BY DEF ItemIsLinked
    <2>2. q # r
      BY <1>3, <2>1, NullsAssumption
    <2> QED
      BY <1>2, <2>1, <2>2
  <1>4. CASE \/ Hit(r)
             \/ \E s \in Submissions, op \in DOMAIN Moves : MoveRead(r, s, op)
             \/ \E s \in Submissions : ReceiveRead(r, s)
             \/ \E s \in Submissions, op \in DOMAIN WorksTo : WorkRead(r, s, op)
    <2>1. UNCHANGED <<submission, item>> /\ req[r] = Idle
      BY <1>4 DEF Hit, MoveRead, ReceiveRead, WorkRead
    <2> QED
      BY <1>3, <2>1 DEF Idle
  <1>5. CASE Abort(r)
    <2>1. UNCHANGED <<submission, item>> /\ req'[r] = Idle
      BY <1>1, <1>5 DEF Abort, Done
    <2> QED
      BY <1>3, <2>1
  <1>6. ASSUME NEW op \in DOMAIN WorksTo, Work(r, op) PROVE ItemIsLinked'
    <2>1. req[r].at = op /\ op \in {"authenticate", "grade", "photos", "mint"}
      BY <1>6 DEF Work, WorksTo
    <2>2. req[r].item \in Items
      BY <1>1, <2>1 DEF CallState
    <2>3. ItemsKept /\ submission' = submission
      BY <1>6, <2>2, WorksKeeps DEF Work
    <2> QED
      BY <1>3, <2>1, <2>3 DEF ItemsKept
  <1>7. ASSUME NEW s \in Submissions, Create(r, s) PROVE ItemIsLinked'
    <2>1. submission[s].item = NoItem
      BY <1>7 DEF Create, IInv, OnExisting
    <2>2. /\ \A t \in Submissions \ {s} : submission'[t] = submission[t]
          /\ item' = item /\ req[r].at = "create"
      BY <1>1, <1>7 DEF Create
    <2> SUFFICES ASSUME NEW i \in Items, item[i].source \in Submissions,
                        submission'[item[i].source].item # i
                 PROVE  \E q \in Requests : req'[q].at = "advance" /\ req'[q].item = i
      BY <2>2 DEF ItemIsLinked
    <2>3. submission[item[i].source].item # i
      BY <2>1, <2>2, NullsAssumption
    <2>4. PICK q \in Requests : Linking(i, q)
      BY <2>3 DEF ItemIsLinked
    <2> QED
      BY <1>2, <2>2, <2>4
  <1>8. ASSUME NEW k \in Items, ReceiveIntake(r, k) PROVE ItemIsLinked'
    <2>1. /\ submission' = submission /\ req[r].at = "intake"
          /\ req'[r].at = "advance" /\ req'[r].item = k
      BY <1>1, <1>8 DEF ReceiveIntake, Go
    <2>2. \A j \in Items \ {k} : item'[j] = item[j]
      BY <1>8, IntakeRows
    <2> SUFFICES ASSUME NEW i \in Items, item'[i].source \in Submissions,
                        submission[item'[i].source].item # i, i # k
                 PROVE  \E q \in Requests : req'[q].at = "advance" /\ req'[q].item = i
      BY <2>1 DEF ItemIsLinked
    <2>3. PICK q \in Requests : Linking(i, q)
      BY <2>2 DEF ItemIsLinked
    <2> QED
      BY <1>2, <2>1, <2>3
  <1>9. ASSUME Advance(r) PROVE ItemIsLinked'
    <2>1. PICK s \in Submissions : s = req[r].on
      BY <1>1, <1>9 DEF Advance, CallState
    <2>2. /\ submission'[s].item = IF req[r].item = NoItem THEN submission[s].item ELSE req[r].item
          /\ \A t \in Submissions \ {s} : submission'[t] = submission[t]
          /\ item' = item /\ req[r].at = "advance"
      BY <1>1, <1>9, <2>1 DEF Advance
    <2>3. \A q \in Requests \ {r} : req[q] = Idle
      <3>1. req[r] # Idle
        BY <2>2 DEF Idle
      <3> QED
        BY <3>1 DEF ConsignmentSerial, Together
    <2>4. req[r].item # NoItem => submission[s].item = NoItem /\ item[req[r].item].source = s
      BY <1>1, <2>1, <2>2 DEF SeesCurrent
    <2> SUFFICES ASSUME NEW i \in Items, item[i].source \in Submissions
                 PROVE  submission'[item[i].source].item = i
      BY <2>2 DEF ItemIsLinked
    <2>5. CASE submission[item[i].source].item = i
      BY <2>2, <2>4, <2>5, NullsAssumption
    <2>6. CASE \E q \in Requests : Linking(i, q)
      <3>1. req[r].item = i
        BY <2>3, <2>6 DEF Idle
      <3> QED
        BY <2>2, <2>4, <3>1, NullsAssumption
    <2> QED
      BY <2>5, <2>6 DEF ItemIsLinked
  <1> QED
    BY <1>4, <1>5, <1>6, <1>7, <1>8, <1>9 DEF Step

\* Every step that is not under way with another keeps what calls promise alone.
LEMMA SerialInit == MCInit => SerialInv
  <1> SUFFICES ASSUME MCInit PROVE SerialInv
    OBVIOUS
  <1>1. Init /\ IInv
    BY InitInv DEF MCInit
  <1>2. \A i \in Items : item[i].token = FALSE /\ item[i].state = "NONE" /\ item[i].source = NoSource
    BY <1>1 DEF Init, NoVault
  <1>3. TokenVaulted /\ ItemIsLinked
    BY <1>2, NullsAssumption DEF TokenVaulted, ItemIsLinked
  <1>4. MintedHasToken
    BY <1>1 DEF Init, MintedHasToken, NoRow
  <1>5. (\A r \in Requests : SeesCurrent(r)) /\ ~Together(req)
    BY <1>1 DEF Init, SeesCurrent, Together, Idle
  <1> QED
    BY <1>1, <1>3, <1>4, <1>5 DEF SerialInv, ConsignmentSerial

LEMMA TokensFollow ==
    ASSUME IInv, TokenVaulted, Next
    PROVE  TokenVaulted'
  <1>1. ASSUME Operate PROVE TokenVaulted'
    BY <1>1, OperateKeeps DEF ItemsKept
  <1>2. ASSUME NEW r \in Requests, NEW i \in Items, ReceiveIntake(r, i) PROVE TokenVaulted'
    BY <1>2, IntakeRows
  <1>3. ASSUME NEW r \in Requests, NEW op \in DOMAIN WorksTo, Work(r, op) PROVE TokenVaulted'
    <2>1. req[r].item \in Items
      BY <1>3 DEF Work, WorksTo, IInv, TypeOK, CallState
    <2> QED
      BY <1>3, <2>1, WorksKeeps DEF Work, ItemsKept
  <1>4. ASSUME UNCHANGED item PROVE TokenVaulted'
    BY <1>4 DEF TokenVaulted
  <1> QED
    BY <1>1, <1>2, <1>3, <1>4
       DEF Next, Step, Hit, Create, MoveRead, ReceiveRead, WorkRead, Advance, Abort

LEMMA SerialStep == SerialInv /\ [MCNext]_MCVars => SerialInv'
  <1> SUFFICES ASSUME SerialInv, [MCNext]_MCVars PROVE SerialInv'
    OBVIOUS
  <1>1. IInv /\ IInv' /\ TokenVaulted
    BY StepInv DEF SerialInv, MCNext, MCVars
  <1>2. CASE UNCHANGED MCVars
    <2>1. UNCHANGED <<submission, item, req, overlapped, died>>
      BY <1>2 DEF MCVars, vars
    <2> QED
      BY <1>1, <2>1 DEF SerialInv, TokenVaulted, ConsignmentSerial, MintedHasToken, SeesCurrent,
                        Together, ItemIsLinked
  <1>3. ASSUME MCNext PROVE TokenVaulted'
    BY <1>1, <1>3, TokensFollow DEF MCNext
  <1>4. ASSUME MCNext, ~overlapped'
        PROVE  ConsignmentSerial' /\ (ItemIsLinked /\ ~died' => ItemIsLinked')
    <2>1. ConsignmentSerial /\ ~Together(req') /\ ~ConsoleMeetsCall /\ Next
      BY <1>4 DEF MCNext, SerialInv
    <2>2. ASSUME NEW r \in Requests, Step(r)
          PROVE  ConsignmentSerial' /\ (ItemIsLinked /\ ~died' => ItemIsLinked')
      <3>1. ConsignmentSerial'
        BY <1>1, <2>1, <2>2, ReadsAlone, WritesAlone DEF Step
      <3>2. ASSUME ItemIsLinked, ~died' PROVE ItemIsLinked'
        BY <1>1, <1>4, <2>1, <2>2, <3>2, LinksAlone DEF MCNext
      <3> QED
        BY <3>1, <3>2
    <2>3. CASE Operate
      <3>1. UNCHANGED <<submission, req>> /\ ItemsKept /\ item' # item
        BY <1>1, <2>3, OperateKeeps DEF Operate, Console, Intake
      <3>2. \A r \in Requests : req[r] = Idle
        BY <2>1, <3>1 DEF ConsoleMeetsCall
      <3>3. \A r \in Requests : SeesCurrent(r)'
        BY <3>1, <3>2 DEF SeesCurrent, Idle
      <3>4. MintedHasToken'
        BY <1>1, <2>1, <3>1 DEF ConsignmentSerial, MintedHasToken, ItemsKept, IInv, TypeOK
      <3>5. ItemIsLinked => ItemIsLinked'
        BY <3>1 DEF ItemIsLinked, ItemsKept
      <3> QED
        BY <2>1, <3>1, <3>3, <3>4, <3>5 DEF ConsignmentSerial
    <2> QED
      BY <2>1, <2>2, <2>3 DEF Next
  <1>5. MCNext => (~overlapped' => ~overlapped) /\ (~died' => ~died)
    BY DEF MCNext
  <1> QED
    BY <1>1, <1>2, <1>3, <1>4, <1>5 DEF SerialInv

LEMMA SerialHolds == MCSpec => []SerialInv
  BY SerialInit, SerialStep, PTL DEF MCSpec

\* Until two calls overlap, a submission that says MINTED has the token of its card,
\* also when calls have died between the vault's work and the status.
THEOREM MintedMeansMinted == MCSpec => []SerialMintedHasToken
  <1>1. SerialInv => SerialMintedHasToken
    BY DEF SerialInv, ConsignmentSerial, SerialMintedHasToken
  <1> QED
    BY <1>1, SerialHolds, PTL

\* Until two calls overlap or one dies between intake and link, every item taken in
\* for a submission is the one that the submission is linked to.
THEOREM ItemsAreLinked == MCSpec => []SerialItemIsLinked
  <1>1. SerialInv => SerialItemIsLinked
    BY DEF SerialInv, SerialItemIsLinked
  <1> QED
    BY <1>1, SerialHolds, PTL
=============================================================================
