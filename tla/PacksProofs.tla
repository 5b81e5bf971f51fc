---------------------------- MODULE PacksProofs ----------------------------
(***************************************************************************)
(* Packs, for any cards, weights, seeds, openings and number of calls in   *)
(* flight: types, a card is won once, every draw can be replayed, and with *)
(* anchoring required nobody pays before the commitment is on chain.       *)
(* Until two calls overlap, an outcome that has been published stays.      *)
(*                                                                         *)
(* What a call knows when it goes on (CallsKnow): a call that draws has a  *)
(* list of candidates, which is not empty, and an opening that exists; one *)
(* that pays has its memo on chain unless anchoring may fail.              *)
(*                                                                         *)
(* The published odds are those of the draw because the entropies at which *)
(* a card wins are an interval, whose length is the card's share of the    *)
(* total weight but for rounding.                                          *)
(***************************************************************************)
EXTENDS MCPacks, Sums, TLAPS

\* A call that draws has candidates and an opening; one that pays is past the anchor.
CallsKnow ==
    \A r \in Requests :
        /\ req[r].at = "settle" => req[r].candidates # {}
        /\ req[r].at \in {"candidates", "settle", "publish"} => opening[req[r].opening].status # "NONE"
        /\ req[r].at = "pay" /\ AnchorRequired => <<"pack.commit", req[r].opening>> \in memos

\* An opening has a result when it is settled, and only then.
ResultsOfSettled == \A o \in Openings : opening[o].result # NoCard <=> opening[o].status = "SETTLED"

Inv == WonOnce /\ ProofReplays /\ PaidIsAnchored

IInv == TypeOK /\ Inv /\ CallsKnow /\ ResultsOfSettled

-----------------------------------------------------------------------------
\* There are finitely many cards: a list of candidates is finite,
LEMMA CandidatesFinite ==
    ASSUME NEW S \in SUBSET Cards
    PROVE  IsFiniteSet(S)
  BY CardAssumption, FS_Subset

\* and it has a first and a last one.
LEMMA CandidatesAreOrdered ==
    ASSUME NEW S \in SUBSET Cards, S # {}
    PROVE  \E c, e \in S : \A d \in S : c <= d /\ d <= e
  <1>1. S \in SUBSET Nat /\ IsFiniteSet(S)
    BY CardAssumption, CandidatesFinite
  <1>2. PICK c \in S : \A d \in S : c <= d
    BY <1>1, LeastNat
  <1> DEFINE G == {T \in SUBSET S : T # {} => \E e \in T : \A d \in T : d <= e}
  <1>3. {} \in G
    OBVIOUS
  <1>4. ASSUME NEW T \in SUBSET S, NEW a \in S, a \notin T, T \in G PROVE T \cup {a} \in G
    <2>1. CASE T = {}
      <3>1. T \cup {a} = {a} /\ a <= a
        BY <1>1, <2>1
      <3> QED
        BY <3>1
    <2>2. CASE T # {}
      <3>1. PICK e \in T : \A d \in T : d <= e
        BY <1>4, <2>2
      <3>2. \A m, n \in Nat : (m <= n \/ n <= m) /\ m <= m
        OBVIOUS
      <3>3. \A l, m, n \in Nat : l <= m /\ m <= n => l <= n
        OBVIOUS
      <3>4. CASE a <= e
        <4>1. \A d \in T \cup {a} : d <= e
          BY <3>1, <3>4
        <4> QED
          BY <4>1
      <3>5. CASE e <= a
        <4>1. \A d \in T \cup {a} : d <= a
          BY <1>1, <3>1, <3>2, <3>3, <3>5
        <4> QED
          BY <4>1
      <3> QED
        BY <1>1, <3>2, <3>4, <3>5
    <2> QED
      BY <2>1, <2>2
  <1>5. S \in G
    <2> HIDE DEF G
    <2> QED
      BY <1>1, <1>3, <1>4, SetInduction
  <1> QED
    BY <1>2, <1>5

\* selectWinner returns one of the candidates, whatever the entropy.
LEMMA WinnerIsCandidate ==
    ASSUME NEW S \in SUBSET Cards, S # {}, NEW e
    PROVE  SelectWinner(S, e) \in S
  <1> DEFINE Stops == {c \in S : e * TotalWeight(S) < Span * UpTo(S, c) \/ IsLast(S, c)}
  <1>1. Stops \in SUBSET Cards /\ Stops # {}
    BY CandidatesAreOrdered DEF IsLast
  <1>2. \E c \in Stops : \A d \in Stops : c =< d
    <2> HIDE DEF Stops
    <2> QED
      BY <1>1, CandidatesAreOrdered
  <1>3. Min(Stops) \in Stops
    <2> HIDE DEF Stops
    <2> QED
      BY <1>2 DEF Min
  <1> QED
    BY <1>3 DEF SelectWinner

-----------------------------------------------------------------------------
\* The rows and the calls there are at first have their types.
LEMMA InitialRows ==
    /\ NoOpening \in OpeningRow
    /\ Idle \in RequestState
    /\ AnyUser \in Users /\ AnySeed \in Seeds
  <1>1. AnyUser \in Users /\ AnySeed \in Seeds
    BY SomeAssumption DEF AnyUser, AnySeed
  <1>2. (CHOOSE o \in Openings : TRUE) \in Openings
    BY SomeAssumption
  <1> QED
    BY <1>1, <1>2 DEF NoOpening, OpeningRow, Idle, RequestState, Steps

\* Before the pack is created there are no openings.
LEMMA InitInv == Init => IInv
  <1> SUFFICES ASSUME Init PROVE IInv
    OBVIOUS
  <1>1. TypeOK
    BY InitialRows, PeopleAssumption DEF Init, TypeOK, PackStatuses
  <1>2. ResultsOfSettled
    BY DEF Init, ResultsOfSettled, NoOpening
  <1>3. Inv
    BY DEF Init, Inv, WonOnce, ProofReplays, PaidIsAnchored, Settled, NoOpening
  <1>4. CallsKnow
    BY DEF Init, CallsKnow, Idle
  <1> QED
    BY <1>1, <1>2, <1>3, <1>4 DEF IInv

\* The rows and the balances a call that only reads leaves alone.
rows == <<pack, pool, opening, owner, wallet, revenue>>

\* A call that changes itself and, at most, adds a memo keeps the invariant if it
\* knows what its next step needs.
LEMMA ReadInv ==
    ASSUME IInv, NEW r \in Requests, NEW call \in RequestState,
           UNCHANGED rows, memos \subseteq memos',
           memos' \subseteq {"pack.commit", "pack.reveal"} \X Openings,
           req' = [req EXCEPT ![r] = call],
           call.at = "settle" => call.candidates # {},
           call.at \in {"candidates", "settle", "publish"} => opening[call.opening].status # "NONE",
           call.at = "pay" /\ AnchorRequired => <<"pack.commit", call.opening>> \in memos'
    PROVE  IInv'
  <1>1. TypeOK'
    BY DEF IInv, TypeOK, rows
  <1>2. Inv' /\ ResultsOfSettled'
    <2>1. WonOnce' /\ ProofReplays' /\ ResultsOfSettled'
      BY DEF IInv, Inv, WonOnce, ProofReplays, ResultsOfSettled, Settled, rows
    <2>2. PaidIsAnchored'
      BY DEF IInv, Inv, PaidIsAnchored, rows
    <2> QED
      BY <2>1, <2>2 DEF Inv
  <1>3. \A s \in Requests : req'[s] = IF s = r THEN call ELSE req[s]
    BY DEF IInv, TypeOK
  <1>4. CallsKnow'
    <2> SUFFICES ASSUME NEW s \in Requests
                 PROVE  /\ req'[s].at = "settle" => req'[s].candidates # {}
                        /\ req'[s].at \in {"candidates", "settle", "publish"}
                              => opening'[req'[s].opening].status # "NONE"
                        /\ req'[s].at = "pay" /\ AnchorRequired => <<"pack.commit", req'[s].opening>> \in memos'
      BY DEF CallsKnow
    <2>1. CASE s = r
      BY <1>3, <2>1 DEF rows
    <2>2. CASE s # r
      BY <1>3, <2>2 DEF rows, IInv, CallsKnow
    <2> QED
      BY <2>1, <2>2
  <1> QED
    BY <1>1, <1>2, <1>3, <1>4 DEF IInv

\* The steps of commit and reveal that only read, and the end of a call.
LEMMA ReadsInv ==
    ASSUME IInv, NEW r \in Requests,
           \/ \E u \in Users, o \in Openings, s \in Seeds : CommitRead(r, u, o, s)
           \/ CommitBalance(r)
           \/ \E ok \in BOOLEAN : CommitAnchor(r, ok)
           \/ \E o \in Openings, s \in Seeds \cup {NoSeed} : RevealRead(r, o, s)
           \/ RevealCandidates(r)
           \/ Abort(r)
    PROVE  IInv'
  <1> USE InitialRows
  <1>0. req[r] \in RequestState
    BY DEF IInv, TypeOK
  <1>1. ASSUME NEW u \in Users, NEW o \in Openings, NEW s \in Seeds, CommitRead(r, u, o, s) PROVE IInv'
    <2> DEFINE call == [Idle EXCEPT !.at = "balance", !.user = u, !.opening = o, !.seed = s]
    <2>1. call \in RequestState /\ call.at = "balance"
      BY DEF RequestState, Steps, Idle
    <2>2. req' = [req EXCEPT ![r] = call] /\ UNCHANGED rows /\ memos' = memos
      BY <1>1 DEF CommitRead, rows
    <2> QED
      BY <2>1, <2>2, ReadInv DEF IInv, TypeOK
  <1>2. CASE CommitBalance(r)
    <2> DEFINE call == [req[r] EXCEPT !.at = "anchor"]
    <2>1. call \in RequestState /\ call.at = "anchor"
      BY <1>0 DEF RequestState, Steps
    <2>2. req' = [req EXCEPT ![r] = call] /\ UNCHANGED rows /\ memos' = memos
      BY <1>2 DEF CommitBalance, Goto, rows
    <2> QED
      BY <2>1, <2>2, ReadInv DEF IInv, TypeOK
  <1>3. ASSUME NEW ok \in BOOLEAN, CommitAnchor(r, ok) PROVE IInv'
    <2> DEFINE call == [req[r] EXCEPT !.at = "pay", !.anchored = ok]
    <2>1. call \in RequestState /\ call.at = "pay" /\ call.opening = req[r].opening
      BY <1>0 DEF RequestState, Steps
    <2>2. req' = [req EXCEPT ![r] = call] /\ UNCHANGED rows
      BY <1>3 DEF CommitAnchor, rows
    <2>3. memos' = IF ok THEN memos \cup {<<"pack.commit", call.opening>>} ELSE memos
      BY <1>3, <2>1 DEF CommitAnchor
    <2>4. AnchorRequired => ok
      BY <1>3 DEF CommitAnchor, MayGoOn
    <2>5. call.opening \in Openings
      BY <2>1 DEF RequestState
    <2>6. memos \subseteq memos' /\ memos' \subseteq {"pack.commit", "pack.reveal"} \X Openings
      BY <2>3, <2>5 DEF IInv, TypeOK
    <2>7. AnchorRequired => <<"pack.commit", call.opening>> \in memos'
      BY <2>3, <2>4
    <2> HIDE DEF call
    <2> QED
      BY <2>1, <2>2, <2>6, <2>7, ReadInv
  <1>4. ASSUME NEW o \in Openings, NEW s \in Seeds \cup {NoSeed}, RevealRead(r, o, s) PROVE IInv'
    <2> DEFINE call == [Idle EXCEPT !.at = "candidates", !.opening = o, !.user = opening[o].user,
                                    !.seed = IF s = NoSeed THEN opening[o].seed ELSE s]
    <2>1. opening[o] \in OpeningRow
      BY DEF IInv, TypeOK
    <2>2. call \in RequestState /\ call.at = "candidates" /\ call.opening = o
      BY <2>1 DEF RequestState, Steps, Idle, OpeningRow
    <2>3. req' = [req EXCEPT ![r] = call] /\ UNCHANGED rows /\ memos' = memos
      BY <1>4 DEF RevealRead, rows
    <2>4. opening[o].status # "NONE"
      BY <1>4 DEF RevealRead
    <2> HIDE DEF call
    <2> QED
      BY <2>2, <2>3, <2>4, ReadInv DEF IInv, TypeOK
  <1>5. CASE RevealCandidates(r)
    <2> DEFINE call == [req[r] EXCEPT !.at = "settle", !.candidates = Available]
    <2>1. /\ call \in RequestState /\ call.at = "settle"
          /\ call.opening = req[r].opening /\ call.candidates = Available
      BY <1>0 DEF RequestState, Steps, Available
    <2>2. req' = [req EXCEPT ![r] = call] /\ UNCHANGED rows /\ memos' = memos
      BY <1>5 DEF RevealCandidates, rows
    <2>3. Available # {} /\ opening[req[r].opening].status # "NONE"
      BY <1>5 DEF RevealCandidates, IInv, CallsKnow
    <2> HIDE DEF call
    <2> QED
      BY <2>1, <2>2, <2>3, ReadInv DEF IInv, TypeOK
  <1>6. CASE Abort(r)
    <2>1. req' = [req EXCEPT ![r] = Idle] /\ UNCHANGED rows /\ memos' = memos /\ Idle.at = "idle"
      BY <1>6 DEF Abort, Done, rows, Idle
    <2> QED
      BY <2>1, ReadInv DEF IInv, TypeOK
  <1> QED
    BY <1>1, <1>2, <1>3, <1>4, <1>5, <1>6

-----------------------------------------------------------------------------
\* Openings are never deleted, nor memos: what the other calls know stays true.
LEMMA OthersKnow ==
    ASSUME IInv, NEW r \in Requests, NEW call \in RequestState,
           req' = [req EXCEPT ![r] = call],
           call.at \in {"idle", "publish"},
           call.at = "publish" => opening'[call.opening].status # "NONE",
           memos \subseteq memos',
           \A o \in Openings : opening[o].status # "NONE" => opening'[o].status # "NONE"
    PROVE  CallsKnow' /\ req' \in [Requests -> RequestState]
  <1>1. \A s \in Requests : req'[s] = IF s = r THEN call ELSE req[s]
    BY DEF IInv, TypeOK
  <1>2. \A s \in Requests : req[s].opening \in Openings
    BY DEF IInv, TypeOK, RequestState
  <1>3. CallsKnow'
    <2> SUFFICES ASSUME NEW s \in Requests
                 PROVE  /\ req'[s].at = "settle" => req'[s].candidates # {}
                        /\ req'[s].at \in {"candidates", "settle", "publish"}
                              => opening'[req'[s].opening].status # "NONE"
                        /\ req'[s].at = "pay" /\ AnchorRequired => <<"pack.commit", req'[s].opening>> \in memos'
      BY DEF CallsKnow
    <2>1. CASE s = r
      BY <1>1, <2>1
    <2>2. CASE s # r
      BY <1>1, <1>2, <2>2 DEF IInv, CallsKnow
    <2> QED
      BY <2>1, <2>2
  <1> QED
    BY <1>3 DEF IInv, TypeOK

\* The row that a payment writes, and the row that a draw writes.
PaidRow(r) == [NoOpening EXCEPT !.status = "COMMITTED", !.user = req[r].user,
                                !.seed = req[r].seed, !.anchored = req[r].anchored]

\* A payment creates an opening that is anchored if it has to be, and settles none.
LEMMA PayInv ==
    ASSUME IInv, NEW r \in Requests, CommitPay(r)
    PROVE  IInv'
  <1> DEFINE o == req[r].opening
  <1>1. req[r] \in RequestState /\ o \in Openings
    BY DEF IInv, TypeOK, RequestState
  <1>2. /\ PaidRow(r) \in OpeningRow
        /\ PaidRow(r).status = "COMMITTED" /\ PaidRow(r).result = NoCard
    BY <1>1, InitialRows DEF PaidRow, NoOpening, OpeningRow, RequestState
  <1>3. opening' = [opening EXCEPT ![o] = PaidRow(r)]
    BY DEF CommitPay, PaidRow
  <1>4. /\ opening' \in [Openings -> OpeningRow]
        /\ \A p \in Openings : opening'[p] = IF p = o THEN PaidRow(r) ELSE opening[p]
    BY <1>1, <1>2, <1>3 DEF IInv, TypeOK
  <1>5. CallsKnow' /\ req' \in [Requests -> RequestState]
    <2>1. req' = [req EXCEPT ![r] = Idle] /\ memos' = memos
      BY DEF CommitPay, Done
    <2>2. Idle.at = "idle"
      BY DEF Idle
    <2> QED
      BY <1>2, <1>4, <2>1, <2>2, InitialRows, OthersKnow
  <1>6. TypeOK'
    <2>1. req[r].user \in Users
      BY <1>1 DEF RequestState
    <2>2. wallet' \in [Users -> Int] /\ revenue' \in Nat
      BY <2>1, AnchorAssumption DEF CommitPay, Charge, IInv, TypeOK
    <2> QED
      BY <1>4, <1>5, <2>2 DEF CommitPay, IInv, TypeOK
  <1>7. Settled' = Settled /\ o \notin Settled
    BY <1>1, <1>2, <1>4 DEF Settled, CommitPay
  <1>8. WonOnce' /\ ProofReplays'
    BY <1>4, <1>7 DEF WonOnce, ProofReplays, IInv, Inv, CommitPay, Settled
  <1>9. PaidIsAnchored'
    <2>1. AnchorRequired => <<"pack.commit", o>> \in memos
      BY DEF IInv, CallsKnow, CommitPay
    <2> QED
      BY <1>4, <2>1 DEF PaidIsAnchored, IInv, Inv, CommitPay
  <1>10. ResultsOfSettled'
    BY <1>2, <1>4 DEF ResultsOfSettled, IInv
  <1> QED
    BY <1>5, <1>6, <1>8, <1>9, <1>10 DEF IInv, Inv

DrawnRow(r) == [opening[req[r].opening] EXCEPT !.status = "SETTLED", !.seed = req[r].seed,
                                               !.candidates = req[r].candidates, !.result = DrawnFor(r)]

\* What a draw writes to the opening, and that the card is one of the pool.
LEMMA DrawnRowType ==
    ASSUME IInv, NEW r \in Requests, RevealSettle(r)
    PROVE  /\ DrawnFor(r) \in Cards
           /\ DrawnRow(r) \in OpeningRow
           /\ DrawnRow(r).status = "SETTLED" /\ DrawnRow(r).result = DrawnFor(r)
           /\ DrawnRow(r).seed = req[r].seed /\ DrawnRow(r).candidates = req[r].candidates
           /\ opening' = [opening EXCEPT ![req[r].opening] = DrawnRow(r)]
  <1> DEFINE o == req[r].opening
  <1>1. req[r] \in RequestState /\ o \in Openings /\ opening[o] \in OpeningRow
    BY DEF IInv, TypeOK, RequestState
  <1>2. req[r].candidates \in SUBSET Cards /\ req[r].candidates # {}
    BY <1>1 DEF RequestState, RevealSettle, IInv, CallsKnow
  <1>3. DrawnFor(r) \in Cards
    BY <1>2, WinnerIsCandidate DEF DrawnFor
  <1>4. opening' = [opening EXCEPT ![o] = DrawnRow(r)]
    BY DEF RevealSettle, DrawnRow
  <1> QED
    BY <1>1, <1>3, <1>4 DEF DrawnRow, OpeningRow, RequestState

\* A draw takes a card that no other opening has won, out of the pool.
LEMMA SettleInv ==
    ASSUME IInv, NEW r \in Requests, RevealSettle(r)
    PROVE  IInv'
  <1> DEFINE o == req[r].opening
             c == DrawnFor(r)
             row == DrawnRow(r)
  <1>1. req[r] \in RequestState /\ o \in Openings /\ opening[o].status # "NONE"
    BY DEF IInv, TypeOK, RequestState, CallsKnow, RevealSettle
  <1>2. /\ c \in Cards /\ row \in OpeningRow
        /\ row.status = "SETTLED" /\ row.result = c
        /\ row.seed = req[r].seed /\ row.candidates = req[r].candidates
        /\ opening' = [opening EXCEPT ![o] = row]
    BY DrawnRowType
  <1> HIDE DEF row, c
  <1>3. /\ opening' \in [Openings -> OpeningRow]
        /\ \A p \in Openings : opening'[p] = IF p = o THEN row ELSE opening[p]
    BY <1>1, <1>2 DEF IInv, TypeOK
  <1>4. /\ pool' \in [Cards -> {"out", "in", "consumed"}]
        /\ \A d \in Cards : pool'[d] = IF d = c THEN "consumed" ELSE pool[d]
    <2>1. pool' = [pool EXCEPT ![c] = "consumed"]
      BY DEF RevealSettle, c
    <2> QED
      BY <1>2, <2>1 DEF IInv, TypeOK
  <1>5. CallsKnow' /\ req' \in [Requests -> RequestState]
    <2> DEFINE call == [req[r] EXCEPT !.at = "publish"]
    <2>1. req' = [req EXCEPT ![r] = call] /\ memos' = memos
      BY DEF RevealSettle, Goto
    <2>2. call \in RequestState /\ call.at = "publish" /\ call.opening = o
      BY <1>1 DEF RequestState, Steps
    <2>3. opening'[o].status = "SETTLED"
      BY <1>1, <1>2, <1>3
    <2> HIDE DEF call
    <2> QED
      BY <1>2, <1>3, <2>1, <2>2, <2>3, OthersKnow
  <1>6. TypeOK'
    <2>1. req[r].user \in Users
      BY <1>1 DEF RequestState
    <2>2. owner' \in [Cards -> Users \cup {House}]
      BY <2>1 DEF RevealSettle, IInv, TypeOK
    <2> QED
      BY <1>3, <1>4, <1>5, <2>2 DEF RevealSettle, IInv, TypeOK
  <1>7. ResultsOfSettled'
    BY <1>2, <1>3, CardAssumption DEF ResultsOfSettled, IInv
  <1>8. WonOnce'
    <2>1. \A p \in Openings \ {o} : opening[p].result # c
      BY DEF RevealSettle, NotWon, c
    <2>2. \A p \in Openings : opening[p].status = "SETTLED" => opening[p].result \in Cards
      BY DEF IInv, TypeOK, OpeningRow, ResultsOfSettled
    <2>3. \A p \in Settled' : pool'[opening'[p].result] = "consumed"
      BY <1>2, <1>3, <1>4, <2>2 DEF Settled, IInv, Inv, WonOnce
    <2>4. ASSUME NEW p \in Settled', NEW q \in Settled', opening'[p].result = opening'[q].result PROVE p = q
      BY <1>2, <1>3, <2>1, <2>4 DEF Settled, IInv, Inv, WonOnce
    <2> QED
      BY <2>3, <2>4 DEF WonOnce
  <1>9. ProofReplays'
    <2>1. c = SelectWinner(req[r].candidates, Entropy[<<o, req[r].seed>>])
      BY DEF c, DrawnFor
    <2> SUFFICES ASSUME NEW p \in Settled'
                 PROVE  opening'[p].result = SelectWinner(opening'[p].candidates, Entropy[<<p, opening'[p].seed>>])
      BY DEF ProofReplays
    <2>2. CASE p = o
      BY <1>1, <1>2, <1>3, <2>1, <2>2
    <2>3. CASE p # o
      BY <1>3, <2>3 DEF Settled, IInv, Inv, ProofReplays
    <2> QED
      BY <2>2, <2>3
  <1>10. PaidIsAnchored'
    BY <1>1, <1>3 DEF PaidIsAnchored, IInv, Inv, RevealSettle
  <1> QED
    BY <1>5, <1>6, <1>7, <1>8, <1>9, <1>10 DEF IInv, Inv

\* The memo of a reveal changes nothing that was settled.
LEMMA PublishInv ==
    ASSUME IInv, NEW r \in Requests, NEW ok \in BOOLEAN, RevealPublish(r, ok)
    PROVE  IInv'
  <1> DEFINE o == req[r].opening
             row == [opening[o] EXCEPT !.published = @ \/ ok]
  <1>1. req[r] \in RequestState /\ o \in Openings /\ opening[o] \in OpeningRow
    BY DEF IInv, TypeOK, RequestState
  <1>2. /\ row.status = opening[o].status /\ row.result = opening[o].result
        /\ row.seed = opening[o].seed /\ row.candidates = opening[o].candidates
    BY <1>1 DEF OpeningRow
  <1>3. row \in OpeningRow
    BY <1>1 DEF OpeningRow
  <1>4. opening' = [opening EXCEPT ![o] = row]
    BY DEF RevealPublish
  <1> HIDE DEF row
  <1>5. /\ opening' \in [Openings -> OpeningRow]
        /\ \A p \in Openings : /\ opening'[p].status = opening[p].status
                              /\ opening'[p].result = opening[p].result
                              /\ opening'[p].seed = opening[p].seed
                              /\ opening'[p].candidates = opening[p].candidates
    BY <1>1, <1>2, <1>3, <1>4 DEF IInv, TypeOK
  <1>6. memos \subseteq memos' /\ memos' \subseteq {"pack.commit", "pack.reveal"} \X Openings
    BY <1>1 DEF RevealPublish, IInv, TypeOK
  <1>7. CallsKnow' /\ req' \in [Requests -> RequestState]
    <2>1. req' = [req EXCEPT ![r] = Idle] /\ Idle.at = "idle"
      BY DEF RevealPublish, Done, Idle
    <2> QED
      BY <1>5, <1>6, <2>1, InitialRows, OthersKnow
  <1>8. TypeOK'
    BY <1>5, <1>6, <1>7 DEF RevealPublish, IInv, TypeOK
  <1>9. Settled' = Settled
    BY <1>5 DEF Settled
  <1>10. WonOnce' /\ ProofReplays' /\ ResultsOfSettled'
    BY <1>5, <1>9 DEF WonOnce, ProofReplays, ResultsOfSettled, RevealPublish, IInv, Inv, Settled
  <1>11. PaidIsAnchored'
    BY <1>5, <1>6 DEF PaidIsAnchored, IInv, Inv
  <1> QED
    BY <1>7, <1>8, <1>10, <1>11 DEF IInv, Inv

\* Operators add cards that have never been in a pool, and change the pack.
LEMMA OperatorsInv ==
    ASSUME IInv,
           \/ CreatePack
           \/ \E c \in Cards : AddPoolItem(c)
           \/ \E status \in PackStatuses : SetStatus(status)
    PROVE  IInv'
  <1>1. UNCHANGED <<opening, owner, wallet, revenue, memos, req>> /\ pack' \in PackStatuses
    BY DEF CreatePack, AddPoolItem, SetStatus, IInv, TypeOK, PackStatuses
  <1>2. /\ pool' \in [Cards -> {"out", "in", "consumed"}]
        /\ \A c \in Cards : pool[c] = "consumed" => pool'[c] = "consumed"
    BY DEF CreatePack, AddPoolItem, SetStatus, IInv, TypeOK
  <1>3. TypeOK' /\ CallsKnow' /\ ResultsOfSettled'
    BY <1>1, <1>2 DEF IInv, TypeOK, CallsKnow, ResultsOfSettled
  <1>4. WonOnce'
    <2>1. \A o \in Settled : opening[o].result \in Cards
      BY DEF IInv, TypeOK, OpeningRow, ResultsOfSettled, Settled
    <2> QED
      BY <1>1, <1>2, <2>1 DEF WonOnce, Settled, IInv, Inv
  <1>5. ProofReplays' /\ PaidIsAnchored'
    BY <1>1 DEF ProofReplays, PaidIsAnchored, Settled, IInv, Inv
  <1> QED
    BY <1>3, <1>4, <1>5 DEF IInv, Inv

\* Every step keeps the invariant.
LEMMA StepInv == IInv /\ [Next]_vars => IInv'
  <1> SUFFICES ASSUME IInv, [Next]_vars PROVE IInv'
    OBVIOUS
  <1>1. CASE UNCHANGED vars
    BY <1>1 DEF vars, IInv, TypeOK, Inv, WonOnce, ProofReplays, PaidIsAnchored, CallsKnow, ResultsOfSettled, Settled
  <1>2. ASSUME NEW r \in Requests, Step(r) PROVE IInv'
    BY <1>2, ReadsInv, PayInv, SettleInv, PublishInv DEF Step
  <1>3. CASE \/ CreatePack
             \/ \E c \in Cards : AddPoolItem(c)
             \/ \E status \in PackStatuses : SetStatus(status)
    BY <1>3, OperatorsInv
  <1> QED
    BY <1>1, <1>2, <1>3 DEF Next

\* The invariant holds of every reachable state.
THEOREM InvariantHolds == Spec => []IInv
  <1> QED
    BY InitInv, StepInv, PTL DEF Spec

\* Every variable of the pack keeps its type: whoever is drawn is one of the cards,
\* for any weights and entropy (selectWinner, commit, reveal).
THEOREM TypeCorrect == Spec => []TypeOK
  <1>1. IInv => TypeOK
    BY DEF IInv
  <1> QED
    BY <1>1, InvariantHolds, PTL

\* A card is won by one opening, and is then out of the pool for good, for any
\* number of reveals in flight (the unique resultVaultItemId in reveal).
THEOREM CardsAreWonOnce == Spec => []WonOnce
  <1>1. IInv => WonOnce
    BY DEF IInv, Inv
  <1> QED
    BY <1>1, InvariantHolds, PTL

\* Every settled opening can be replayed from what it records, also when reveals
\* with several client seeds race (reveal, verify).
THEOREM DrawsReplay == Spec => []ProofReplays
  <1>1. IInv => ProofReplays
    BY DEF IInv, Inv
  <1> QED
    BY <1>1, InvariantHolds, PTL

\* With anchoring required, who has paid has the commitment on chain (commit,
\* FairnessAnchorService.anchor).
THEOREM PaymentsAreAnchored == Spec => []PaidIsAnchored
  <1>1. IInv => PaidIsAnchored
    BY DEF IInv, Inv
  <1> QED
    BY <1>1, InvariantHolds, PTL

-----------------------------------------------------------------------------
(* One call at a time.  Then the opening that a call is about to draw for   *)
(* is still the COMMITTED one it has read.                                  *)
Drawing(call) == call.at \in {"candidates", "settle"}

SeesCurrent == \A r \in Requests : Drawing(req[r]) => opening[req[r].opening].status = "COMMITTED"

PacksSerial == SeesCurrent /\ ~Together(req)

SerialInv == IInv /\ (~overlapped => PacksSerial)

\* What is settled keeps its result and its seed in a step.
OutcomesKept ==
    \A o \in Settled : opening'[o].result = opening[o].result /\ opening'[o].seed = opening[o].seed

\* The steps that only read leave the openings alone.
LEMMA ReadsAlone ==
    ASSUME PacksSerial, IInv, NEW r \in Requests,
           \/ \E u \in Users, o \in Openings, s \in Seeds : CommitRead(r, u, o, s)
           \/ CommitBalance(r)
           \/ \E ok \in BOOLEAN : CommitAnchor(r, ok)
           \/ \E o \in Openings, s \in Seeds \cup {NoSeed} : RevealRead(r, o, s)
           \/ RevealCandidates(r)
           \/ Abort(r)
    PROVE  SeesCurrent' /\ OutcomesKept
  <1>1. req \in [Requests -> RequestState] /\ req[r] \in RequestState
    BY DEF IInv, TypeOK
  <1>2. /\ opening' = opening
        /\ \A s \in Requests \ {r} : req'[s] = req[s]
    BY <1>1 DEF CommitRead, CommitBalance, CommitAnchor, RevealRead, RevealCandidates, Abort, Goto, Done
  <1> DEFINE Sees == Drawing(req'[r]) => opening[req'[r].opening].status = "COMMITTED"
  <1>3. ASSUME NEW u \in Users, NEW o \in Openings, NEW s \in Seeds, CommitRead(r, u, o, s) PROVE Sees
    BY <1>1, <1>3 DEF CommitRead, Drawing, Idle
  <1>4. ASSUME CommitBalance(r) PROVE Sees
    BY <1>1, <1>4 DEF CommitBalance, Goto, Drawing, RequestState
  <1>5. ASSUME NEW ok \in BOOLEAN, CommitAnchor(r, ok) PROVE Sees
    BY <1>1, <1>5 DEF CommitAnchor, Drawing, RequestState
  <1>6. ASSUME NEW o \in Openings, NEW s \in Seeds \cup {NoSeed}, RevealRead(r, o, s) PROVE Sees
    BY <1>1, <1>6 DEF RevealRead, Drawing, Idle
  <1>7. ASSUME RevealCandidates(r) PROVE Sees
    BY <1>1, <1>7 DEF RevealCandidates, Drawing, RequestState, PacksSerial, SeesCurrent
  <1>8. ASSUME Abort(r) PROVE Sees
    BY <1>1, <1>8 DEF Abort, Done, Drawing, Idle
  <1>9. Sees
    BY <1>3, <1>4, <1>5, <1>6, <1>7, <1>8
  <1>10. SeesCurrent'
    BY <1>2, <1>9 DEF PacksSerial, SeesCurrent
  <1> QED
    BY <1>2, <1>10 DEF OutcomesKept

\* The steps that write an opening: alone, they write to none that is settled, but
\* for the memo of the reveal.
LEMMA WritesAlone ==
    ASSUME PacksSerial, IInv, NEW r \in Requests,
           CommitPay(r) \/ RevealSettle(r) \/ \E ok \in BOOLEAN : RevealPublish(r, ok)
    PROVE  SeesCurrent' /\ OutcomesKept
  <1>1. /\ req \in [Requests -> RequestState] /\ req[r] \in RequestState
        /\ opening \in [Openings -> OpeningRow]
        /\ req[r].opening \in Openings
    BY DEF IInv, TypeOK, RequestState
  <1>2. ~Drawing(req'[r])
    BY <1>1 DEF CommitPay, RevealSettle, RevealPublish, Goto, Done, Idle, Drawing, RequestState
  <1>3. \A s \in Requests \ {r} : req'[s] = req[s] /\ req[s].at = "idle"
    BY <1>1 DEF CommitPay, RevealSettle, RevealPublish, Goto, Done, PacksSerial, Together
  <1>4. SeesCurrent'
    BY <1>2, <1>3 DEF SeesCurrent, Drawing
  <1>5. ASSUME CommitPay(r) PROVE OutcomesKept
    BY <1>1, <1>5 DEF CommitPay, OutcomesKept, Settled
  <1>6. ASSUME RevealSettle(r) PROVE OutcomesKept
    <2>1. opening[req[r].opening].status = "COMMITTED"
      BY <1>6 DEF RevealSettle, Drawing, PacksSerial, SeesCurrent
    <2>2. opening' = [opening EXCEPT ![req[r].opening] = DrawnRow(r)]
      BY <1>6, DrawnRowType
    <2> QED
      BY <1>1, <2>1, <2>2 DEF OutcomesKept, Settled
  <1>7. ASSUME NEW ok \in BOOLEAN, RevealPublish(r, ok) PROVE OutcomesKept
    <2>1. ASSUME NEW o \in Openings
          PROVE  opening'[o].result = opening[o].result /\ opening'[o].seed = opening[o].seed
      <3>1. opening[o] \in OpeningRow
        BY <1>1
      <3> QED
        BY <1>1, <1>7, <3>1 DEF RevealPublish, OpeningRow
    <2> QED
      BY <2>1 DEF OutcomesKept, Settled
  <1> QED
    BY <1>4, <1>5, <1>6, <1>7

LEMMA NextAlone ==
    ASSUME PacksSerial, IInv, Next
    PROVE  SeesCurrent' /\ OutcomesKept
  <1>1. ASSUME NEW r \in Requests, Step(r) PROVE SeesCurrent' /\ OutcomesKept
    BY <1>1, ReadsAlone, WritesAlone DEF Step
  <1>2. CASE \/ CreatePack
             \/ \E c \in Cards : AddPoolItem(c)
             \/ \E status \in PackStatuses : SetStatus(status)
    <2>1. opening' = opening /\ req' = req
      BY <1>2 DEF CreatePack, AddPoolItem, SetStatus
    <2> QED
      BY <2>1 DEF PacksSerial, SeesCurrent, OutcomesKept
  <1> QED
    BY <1>1, <1>2 DEF Next

LEMMA SerialInit == MCInit => SerialInv
  <1> SUFFICES ASSUME MCInit PROVE SerialInv
    OBVIOUS
  <1>1. Init /\ IInv
    BY InitInv DEF MCInit
  <1> QED
    BY <1>1 DEF Init, SerialInv, PacksSerial, SeesCurrent, Together, Drawing, Idle

LEMMA SerialStep == SerialInv /\ [MCNext]_MCVars => SerialInv'
  <1> SUFFICES ASSUME SerialInv, [MCNext]_MCVars PROVE SerialInv'
    OBVIOUS
  <1>1. IInv /\ IInv'
    BY StepInv DEF SerialInv, MCNext, MCVars
  <1>2. CASE UNCHANGED MCVars
    BY <1>1, <1>2 DEF MCVars, vars, SerialInv, PacksSerial, SeesCurrent, Together
  <1>3. ASSUME MCNext, ~overlapped' PROVE PacksSerial'
    BY <1>1, <1>3, NextAlone DEF MCNext, SerialInv, PacksSerial
  <1> QED
    BY <1>1, <1>2, <1>3 DEF SerialInv

\* Until two calls overlap, an opening whose server seed is public keeps its outcome.
THEOREM OutcomesAreFinal == MCSpec => SerialOutcomeIsFinal
  <1>1. SerialInv /\ [MCNext]_MCVars =>
            [~overlapped' => \A o \in Settled : /\ opening'[o].result = opening[o].result
                                                /\ opening'[o].seed = opening[o].seed]_vars
    BY NextAlone DEF SerialInv, MCNext, MCVars, OutcomesKept
  <1> QED
    BY <1>1, SerialInit, SerialStep, PTL DEF MCSpec, SerialOutcomeIsFinal

-----------------------------------------------------------------------------
(* The odds.  A card wins for the entropies between its share of the weights *)
(* and the one before it; both ends are rounded up to whole entropies, so    *)
(* that their number is off by less than one (WinsAreAnInterval), and the    *)
(* percentage that getPack shows is off by its own rounding (RoundedOdds).   *)
Below(S, c) == TotalWeight({d \in S : d < c})

\* The parts of a list of candidates weigh no more than it does.
LEMMA PartsWeigh ==
    ASSUME NEW S \in SUBSET Cards, NEW T \in SUBSET S
    PROVE  TotalWeight(T) \in Nat /\ TotalWeight(S) \in Nat /\ TotalWeight(T) <= TotalWeight(S)
  <1>1. IsFiniteSet(S) /\ \A c \in S : Weight[c] \in Nat
    BY CandidatesFinite, WeightAssumption
  <1> QED
    BY <1>1, SumMonotone DEF TotalWeight

\* What the loop has subtracted at a card is what came before it, and its weight.
LEMMA WeightsAt ==
    ASSUME NEW S \in SUBSET Cards, NEW c \in S
    PROVE  /\ Below(S, c) \in Nat /\ UpTo(S, c) \in Nat /\ TotalWeight(S) \in Nat \ {0}
           /\ Weight[c] \in Nat \ {0}
           /\ UpTo(S, c) = Below(S, c) + Weight[c] /\ UpTo(S, c) <= TotalWeight(S)
           /\ IsLast(S, c) => UpTo(S, c) = TotalWeight(S)
           /\ \A d \in S : d < c => UpTo(S, d) \in Nat /\ UpTo(S, d) <= Below(S, c)
  <1> DEFINE L == {d \in S : d < c}
             M == {d \in S : d <= c}
  <1>1. Weight[c] \in Nat \ {0} /\ c \in Nat /\ \A d \in S : d \in Nat
    BY WeightAssumption, CardAssumption
  <1>2. M = L \cup {c} /\ c \notin L /\ L \in SUBSET Cards /\ L \in SUBSET S /\ M \in SUBSET S
    <2>1. \A d \in S : d <= c <=> d < c \/ d = c
      BY <1>1
    <2>2. ~ (c < c)
      BY <1>1
    <2> QED
      BY <2>1, <2>2
  <1>3. IsFiniteSet(L) /\ (\A x \in L : Weight[x] \in Int) /\ Weight[c] \in Int
    BY <1>1, <1>2, CandidatesFinite, WeightAssumption
  <1>4. TotalWeight(M) = TotalWeight(L) + Weight[c]
    <2> HIDE DEF L, M
    <2> QED
      BY <1>2, <1>3, SumAdd DEF TotalWeight
  <1>5. TotalWeight(M) \in Nat /\ TotalWeight(L) \in Nat /\ TotalWeight(S) \in Nat /\ TotalWeight(M) <= TotalWeight(S)
    BY <1>2, PartsWeigh
  <1>6. IsLast(S, c) => M = S
    BY DEF IsLast
  <1>7. ASSUME NEW d \in S, d < c PROVE UpTo(S, d) \in Nat /\ UpTo(S, d) <= Below(S, c)
    <2>0. \A b \in S : b <= d => b < c
      BY <1>1, <1>7
    <2>1. {b \in S : b <= d} \in SUBSET L
      BY <2>0
    <2> QED
      BY <1>2, <2>1, PartsWeigh DEF UpTo, Below
  <1>8. UpTo(S, c) = TotalWeight(M) /\ Below(S, c) = TotalWeight(L)
    BY DEF UpTo, Below
  <1> HIDE DEF L, M
  <1>9. TotalWeight(S) # 0
    BY <1>1, <1>4, <1>5
  <1> QED
    BY <1>1, <1>4, <1>5, <1>6, <1>7, <1>8, <1>9

\* The least of a set of cards.
LEMMA LeastCard ==
    ASSUME NEW S \in SUBSET Cards, NEW c \in S
    PROVE  Min(S) = c <=> \A d \in S : c <= d
  <1>1. \A d \in S : d \in Nat
    BY CardAssumption
  <1>2. PICK b \in S : \A d \in S : b <= d
    BY CandidatesAreOrdered
  <1>3. Min(S) \in S /\ \A d \in S : Min(S) <= d
    BY <1>2 DEF Min
  <1> QED
    BY <1>1, <1>3

\* Multiplication, as the comparisons of the loop need it.
LEMMA Products ==
    ASSUME NEW k \in Nat, NEW a \in Nat, NEW b \in Nat
    PROVE  /\ a * k \in Nat /\ k * a \in Nat /\ a * k = k * a
           /\ a <= b => a * k <= b * k /\ k * a <= k * b
           /\ a < b /\ k # 0 => a * k < b * k
           /\ a # 0 => a * k = (a - 1) * k + k
  <1>1. a * k \in Nat /\ a * k = k * a
    OBVIOUS
  <1>2. a <= b => a * k <= b * k
    OBVIOUS
  <1>3. a < b /\ k # 0 => a * k < b * k
    OBVIOUS
  <1>4. a # 0 => a * k = (a - 1) * k + k
    OBVIOUS
  <1>5. b * k = k * b
    OBVIOUS
  <1> QED
    BY <1>1, <1>2, <1>3, <1>4, <1>5

\* selectWinner returns c exactly for the entropies that lie in c's share.
LEMMA WinnerHasTheShare ==
    ASSUME NEW S \in SUBSET Cards, NEW c \in S, NEW e \in 0 .. (Span - 1)
    PROVE  SelectWinner(S, e) = c <=> /\ Span * Below(S, c) <= e * TotalWeight(S)
                                      /\ e * TotalWeight(S) < Span * UpTo(S, c)
  <1> DEFINE T == TotalWeight(S)
             Stops == {d \in S : e * T < Span * UpTo(S, d) \/ IsLast(S, d)}
  <1>1. Span \in Nat \ {0} /\ e \in Nat /\ e < Span
    BY EntropyAssumption
  <1>2. \A d \in S : d \in Nat /\ UpTo(S, d) \in Nat /\ (IsLast(S, d) => UpTo(S, d) = T) /\ T \in Nat \ {0}
    BY WeightsAt, CardAssumption
  <1>3. Below(S, c) \in Nat /\ \A d \in S : d < c => UpTo(S, d) <= Below(S, c)
    BY WeightsAt
  <1>4. e * T \in Nat /\ e * T < Span * T
    <2> HIDE DEF T
    <2> QED
      BY <1>1, <1>2, Products
  <1>5. \A d \in S : d \in Stops <=> e * T < Span * UpTo(S, d)
    BY <1>2, <1>4
  <1>6. SelectWinner(S, e) = Min(Stops) /\ Stops \in SUBSET Cards
    BY DEF SelectWinner
  <1>7. Stops # {}
    BY CandidatesAreOrdered DEF IsLast
  <1> HIDE DEF Stops, T
  <1>8. ASSUME Min(Stops) = c PROVE Span * Below(S, c) <= e * T /\ c \in Stops
    <2>1. c \in Stops /\ \A d \in Stops : c <= d
      <3>1. PICK b \in Stops : \A d \in Stops : b <= d
        BY <1>6, <1>7, CandidatesAreOrdered
      <3> QED
        BY <1>6, <1>8, <3>1, LeastCard
    <2>2. CASE {d \in S : d < c} = {}
      <3>1. Below(S, c) = 0
        BY <2>2, SumEmpty DEF Below, TotalWeight
      <3> QED
        BY <1>1, <1>4, <2>1, <3>1
    <2>3. CASE {d \in S : d < c} # {}
      <3>1. PICK p \in {d \in S : d < c} : \A d \in {b \in S : b < c} : d <= p
        <4>1. {d \in S : d < c} \in SUBSET Cards
          OBVIOUS
        <4> QED
          BY <2>3, <4>1, CandidatesAreOrdered
      <3>2. {d \in S : d <= p} = {d \in S : d < c}
        BY <1>2, <3>1
      <3>3. UpTo(S, p) = Below(S, c)
        BY <3>2 DEF UpTo, Below
      <3>4. p \notin Stops
        BY <1>2, <2>1, <3>1
      <3>5. ~ (e * T < Span * Below(S, c))
        BY <1>5, <3>1, <3>3, <3>4
      <3>6. Span * Below(S, c) \in Nat
        BY <1>1, <1>3, Products
      <3> QED
        BY <1>4, <2>1, <3>5, <3>6
    <2> QED
      BY <2>2, <2>3
  <1>9. ASSUME Span * Below(S, c) <= e * T, c \in Stops PROVE Min(Stops) = c
    <2>1. ASSUME NEW d \in Stops, d < c PROVE FALSE
      <3>1. d \in S /\ e * T < Span * UpTo(S, d)
        BY <1>5, <2>1 DEF Stops
      <3>2. UpTo(S, d) \in Nat /\ UpTo(S, d) <= Below(S, c)
        BY <1>2, <1>3, <2>1, <3>1
      <3>3. Span * UpTo(S, d) <= Span * Below(S, c) /\ Span * UpTo(S, d) \in Nat /\ Span * Below(S, c) \in Nat
        BY <1>1, <1>3, <3>2, Products
      <3> QED
        BY <1>4, <1>9, <3>1, <3>3
    <2>2. \A d \in Stops : c <= d
      BY <1>2, <2>1 DEF Stops
    <2> QED
      BY <1>6, <1>9, <2>2, LeastCard
  <1> QED
    BY <1>5, <1>6, <1>8, <1>9 DEF T

\* The first entropy that is past a part u of the weights.
LEMMA FirstEntropy ==
    ASSUME NEW t \in Nat \ {0}, NEW u \in 0 .. t
    PROVE  \E a \in 0 .. Span : /\ Span * u <= a * t /\ a * t <= Span * u + (t - 1)
                               /\ \A e \in Nat : Span * u <= e * t <=> a <= e
  <1> DEFINE B == {n \in Nat : Span * u <= n * t}
  <1>1. Span \in Nat \ {0} /\ u \in Nat /\ u <= t
    BY EntropyAssumption
  <1>2. Span \in B
    BY <1>1, Products
  <1>3. PICK a \in B : \A m \in B : a <= m
    BY <1>2, LeastNat
  <1>4. a \in 0 .. Span /\ a \in Nat /\ Span * u <= a * t
    BY <1>1, <1>2, <1>3
  <1>5. Span * u \in Nat /\ a * t \in Nat /\ (a # 0 => a * t = (a - 1) * t + t)
    BY <1>1, <1>4, Products
  <1>6. a * t <= Span * u + (t - 1)
    <2>1. CASE a = 0
      BY <1>5, <2>1
    <2>2. CASE a # 0
      <3>1. a - 1 \in Nat /\ a - 1 \notin B
        BY <1>3, <1>4, <2>2
      <3>2. (a - 1) * t \in Nat
        BY <3>1, Products
      <3>3. (a - 1) * t < Span * u
        BY <1>5, <3>1, <3>2
      <3> QED
        BY <1>5, <2>2, <3>2, <3>3
    <2> QED
      BY <2>1, <2>2
  <1>7. ASSUME NEW e \in Nat PROVE Span * u <= e * t <=> a <= e
    <2>1. Span * u <= e * t => a <= e
      BY <1>3
    <2>2. a <= e => a * t <= e * t /\ e * t \in Nat
      BY <1>4, Products
    <2> QED
      BY <1>4, <1>5, <2>1, <2>2
  <1> QED
    BY <1>4, <1>6, <1>7

Wins(S, c) == Cardinality({e \in 0 .. (Span - 1) : SelectWinner(S, e) = c})

\* Times the total, the entropies that win c are Span times its weight, but for less
\* than the total.
LEMMA WinsAreAnInterval ==
    ASSUME NEW S \in SUBSET Cards, NEW c \in S,
           NEW t \in Nat \ {0}, NEW u \in 0 .. t, NEW v \in 0 .. t, NEW w \in Nat, v = u + w,
           \A e \in 0 .. (Span - 1) :
               SelectWinner(S, e) = c <=> Span * u <= e * t /\ e * t < Span * v
    PROVE  /\ Wins(S, c) \in Nat
           /\ Span * w - (t - 1) <= t * Wins(S, c)
           /\ t * Wins(S, c) <= Span * w + (t - 1)
  <1> DEFINE W == {e \in 0 .. (Span - 1) : SelectWinner(S, e) = c}
  <1>1. Span \in Nat \ {0} /\ u \in Nat /\ v \in Nat /\ u <= v
    BY EntropyAssumption
  <1>3. PICK a \in 0 .. Span : /\ Span * u <= a * t /\ a * t <= Span * u + (t - 1)
                             /\ \A e \in Nat : Span * u <= e * t <=> a <= e
    BY FirstEntropy
  <1>4. PICK b \in 0 .. Span : /\ Span * v <= b * t /\ b * t <= Span * v + (t - 1)
                             /\ \A e \in Nat : Span * v <= e * t <=> b <= e
    BY FirstEntropy
  <1>5. a \in Nat /\ b \in Nat /\ b <= Span
    BY <1>1, <1>3, <1>4
  <1>6. /\ Span * u \in Nat /\ Span * v \in Nat /\ a * t \in Nat /\ b * t \in Nat
        /\ Span * u <= Span * v
    BY <1>1, <1>5, Products
  <1>7. a <= b
    <2>1. Span * u <= b * t
      BY <1>4, <1>6
    <2> QED
      BY <1>3, <1>5, <2>1
  <1>8. W = a .. (b - 1)
    <2>1. ASSUME NEW e \in 0 .. (Span - 1) PROVE e \in W <=> a <= e /\ e < b
      <3>1. e \in Nat /\ e * t \in Nat
        BY <1>1, Products
      <3>2. e * t < Span * v <=> ~ (Span * v <= e * t)
        BY <1>6, <3>1
      <3> QED
        BY <1>3, <1>4, <1>5, <3>1, <3>2
    <2>2. \A e \in a .. (b - 1) : e \in 0 .. (Span - 1) /\ a <= e /\ e < b
      BY <1>1, <1>5
    <2>3. \A e \in 0 .. (Span - 1) : a <= e /\ e < b => e \in a .. (b - 1)
      BY <1>1, <1>5
    <2> QED
      BY <2>1, <2>2, <2>3
  <1>9. Wins(S, c) = b - a
    <2>1. b - 1 \in Int /\ a \in Int
      BY <1>5
    <2>2. Cardinality(a .. (b - 1)) = IF a > b - 1 THEN 0 ELSE (b - 1) - a + 1
      BY <2>1, FS_Interval
    <2>3. Cardinality(a .. (b - 1)) = b - a
      BY <1>5, <1>7, <2>2
    <2> QED
      BY <1>8, <2>3 DEF Wins
  <1>10. t * (b - a) = b * t - a * t /\ Span * v = Span * u + Span * w /\ Span * w \in Nat
    <2>1. t * (b - a) = b * t - a * t
      BY <1>1, <1>5
    <2>2. Span * v = Span * u + Span * w /\ Span * w \in Nat
      BY <1>1
    <2> QED
      BY <2>1, <2>2
  <1>11. /\ Span * w - (t - 1) <= b * t - a * t
         /\ b * t - a * t <= Span * w + (t - 1)
    BY <1>1, <1>3, <1>4, <1>6, <1>10
  <1>12. Wins(S, c) \in Nat
    BY <1>5, <1>7, <1>9
  <1> QED
    BY <1>9, <1>10, <1>11, <1>12

\* oddsPct is 10000 times the weight's share, rounded to the nearest.
LEMMA RoundedOdds ==
    ASSUME NEW S \in SUBSET Cards, NEW c \in S
    PROVE  LET t == TotalWeight(S)
           IN  /\ OddsPct(S, c) \in Nat
               /\ 20000 * Weight[c] - t <= 2 * (t * OddsPct(S, c))
               /\ 2 * (t * OddsPct(S, c)) <= 20000 * Weight[c] + t
  <1> DEFINE t == TotalWeight(S)
             w == Weight[c]
             q == OddsPct(S, c)
  <1>1. t \in Nat \ {0} /\ w \in Nat
    BY WeightsAt
  <1>2. q = (20000 * w + t) \div (2 * t)
    BY DEF OddsPct
  <1> HIDE DEF t, w, q
  <1>3. 20000 * w + t \in Nat /\ 2 * t \in Nat \ {0}
    BY <1>1
  <1>4. ASSUME NEW x \in Nat, NEW y \in Nat \ {0}
        PROVE  x \div y \in Nat /\ y * (x \div y) <= x /\ x < y * (x \div y) + y
    OBVIOUS
  <1>5. q \in Nat /\ (2 * t) * q <= 20000 * w + t /\ 20000 * w + t < (2 * t) * q + 2 * t
    BY <1>2, <1>3, <1>4
  <1>6. (2 * t) * q = 2 * (t * q) /\ t * q \in Nat
    BY <1>1, <1>5
  <1>7. 20000 * w - t <= 2 * (t * q) /\ 2 * (t * q) <= 20000 * w + t
    BY <1>1, <1>5, <1>6
  <1> QED
    BY <1>5, <1>7 DEF t, w, q

\* The two roundings together.
LEMMA GapOfRoundings ==
    ASSUME NEW t \in Nat \ {0}, NEW s \in Nat, NEW w \in Nat, NEW n \in Nat, NEW q \in Nat,
           s * w - (t - 1) <= t * n, t * n <= s * w + (t - 1),
           20000 * w - t <= 2 * (t * q), 2 * (t * q) <= 20000 * w + t
    PROVE  /\ -(10000 * (t - 1) + t * s) <= t * (n * 10000 - q * s)
           /\ t * (n * 10000 - q * s) <= 10000 * (t - 1) + t * s
  <1> DEFINE x == t * n
             y == t * q
             d == y - 10000 * w
  <1>1. x \in Nat /\ y \in Nat /\ s * w \in Nat /\ t * s \in Nat
    OBVIOUS
  <1>2. t * (n * 10000 - q * s) = 10000 * x - s * y
    OBVIOUS
  <1> HIDE DEF x, y
  <1>3. s * d = s * y - 10000 * (s * w) /\ s * y \in Int /\ d \in Int
    BY <1>1
  <1>4. -t <= d /\ d <= t
    BY <1>1 DEF x, y
  <1> HIDE DEF d
  <1>5. \A i \in Int : -t <= i /\ i <= t => -(t * s) <= s * i /\ s * i <= t * s
    OBVIOUS
  <1>6. -(t * s) <= s * d /\ s * d <= t * s
    BY <1>3, <1>4, <1>5
  <1>7. s * w - (t - 1) <= x /\ x <= s * w + (t - 1)
    BY DEF x
  <1>8. 10000 * x - s * y = 10000 * (x - s * w) - s * d
    BY <1>1, <1>3
  <1> QED
    BY <1>1, <1>2, <1>3, <1>6, <1>7, <1>8

\* The published odds are those of the draw, for any cards, weights and entropy.
LEMMA OddsAreTheDraws == PublishedOddsAreTheDraws
  <1> DEFINE S == Available
             t == TotalWeight(S)
  <1>1. S \in SUBSET Cards
    BY DEF Available
  <1> HIDE DEF S
  <1>2. ASSUME NEW c \in S
        PROVE  /\ -(10000 * (t - 1) + t * Span) <= t * (Wins(S, c) * 10000 - OddsPct(S, c) * Span)
               /\ t * (Wins(S, c) * 10000 - OddsPct(S, c) * Span) <= 10000 * (t - 1) + t * Span
    <2> DEFINE w == Weight[c]
               n == Wins(S, c)
               q == OddsPct(S, c)
    <2>1. /\ t \in Nat \ {0} /\ w \in Nat /\ Span \in Nat
          /\ Below(S, c) \in 0 .. t /\ UpTo(S, c) \in 0 .. t /\ UpTo(S, c) = Below(S, c) + w
      BY <1>1, WeightsAt, EntropyAssumption
    <2>2. \A e \in 0 .. (Span - 1) :
              SelectWinner(S, e) = c <=> Span * Below(S, c) <= e * t /\ e * t < Span * UpTo(S, c)
      BY <1>1, WinnerHasTheShare
    <2>3. /\ q \in Nat
          /\ 20000 * w - t <= 2 * (t * q)
          /\ 2 * (t * q) <= 20000 * w + t
      BY <1>1, RoundedOdds
    <2> HIDE DEF t, w
    <2>4. /\ n \in Nat
          /\ Span * w - (t - 1) <= t * n
          /\ t * n <= Span * w + (t - 1)
      BY <1>1, <2>1, <2>2, WinsAreAnInterval
    <2> HIDE DEF n, q
    <2>5. /\ -(10000 * (t - 1) + t * Span) <= t * (n * 10000 - q * Span)
          /\ t * (n * 10000 - q * Span) <= 10000 * (t - 1) + t * Span
      BY <2>1, <2>3, <2>4, GapOfRoundings
    <2> QED
      BY <2>5 DEF n, q
  <1> QED
    BY <1>2 DEF PublishedOddsAreTheDraws, Wins, S

\* Whatever is in the pool, the odds that getPack publishes are those of the draw.
THEOREM OddsArePublished == Spec => []PublishedOddsAreTheDraws
  BY OddsAreTheDraws, PTL
=============================================================================
