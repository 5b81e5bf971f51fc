------------------------------- MODULE Packs -------------------------------
(***************************************************************************)
(* One pack and its openings: PacksService (createPack, addPoolItem,       *)
(* setStatus, commit, reveal), the draw of pack-fairness.ts and the memo   *)
(* that FairnessAnchorService writes on chain.                             *)
(*                                                                         *)
(* A draw is a function of the server seed, fixed and hashed at commit,    *)
(* and the client seed: Entropy gives the 32 bits taken from the HMAC, here *)
(* a number below Span.  Each opening has a server seed of its own, so    *)
(* Entropy takes the opening.  Cards are numbers, in the order of their    *)
(* pool items' ids, and hold a vaulted, active token (see Custody).        *)
(***************************************************************************)
EXTENDS Integers, FiniteSets, FiniteSetsExt, Functions

CONSTANTS
    Users,          \* the accounts
    Suspended,      \* those whose hold is SUSPENDED
    House,          \* who owns the cards at first
    Cards,          \* the vault items that may be pooled
    Weight,         \* weightOf: the weight the pack's odds give a card
    Price,          \* Pack.priceUsdc, in the ledger's smallest unit
    Balances,       \* the wallet balances at the start
    Openings,       \* ids of PackOpening rows
    Seeds,          \* client seeds
    NoSeed,         \* "no client seed given"
    NoCard,         \* "no card": the result of an opening not yet revealed
    Span,           \* 2^32: the number of values the draw's entropy can take
    Entropy,        \* the HMAC's first 32 bits, by opening and client seed
    AnchorRequired, \* FAIRNESS_ANCHOR_REQUIRED, with anchoring enabled
    Requests        \* the calls that can be in flight

ASSUME PeopleAssumption  == Suspended \subseteq Users /\ Balances \in [Users -> Nat]
ASSUME CardAssumption    == Cards \subseteq Nat /\ IsFiniteSet(Cards) /\ NoCard \notin Cards
ASSUME SomeAssumption    == Users # {} /\ Openings # {} /\ Seeds # {}
ASSUME WeightAssumption  == Weight \in [Cards -> Nat \ {0}]
ASSUME EntropyAssumption == /\ Span \in Nat \ {0}
                            /\ NoSeed \notin Seeds
                            /\ Entropy \in [Openings \X Seeds -> 0 .. (Span - 1)]
ASSUME AnchorAssumption  == AnchorRequired \in BOOLEAN /\ Price \in Nat \ {0}

VARIABLES
    pack,           \* Pack.status; "NONE": not created
    pool,           \* the PackPoolItem rows: "out" (none), "in", "consumed"
    opening,        \* the PackOpening rows; status "NONE": not created
    owner,          \* VaultItem.ownerId, and Token.ownerId with it
    wallet,         \* USER_WALLET balances
    revenue,        \* what packs have credited to TREASURY
    memos,          \* the memos on chain: <<event, opening>>
    req             \* the calls in flight

vars == <<pack, pool, opening, owner, wallet, revenue, memos, req>>

PackStatuses == {"NONE", "DRAFT", "ACTIVE", "PAUSED", "ARCHIVED"}
Steps == {"idle", "balance", "anchor", "pay", "candidates", "settle", "publish"}

\* seed: clientSeed.  candidates, result: the proof.  anchored: fairnessCommitTx
\* is set.  published: fairnessRevealTx is set.
OpeningRow == [status : {"NONE", "COMMITTED", "SETTLED"}, user : Users, seed : Seeds,
               candidates : SUBSET Cards, result : Cards \cup {NoCard},
               anchored : BOOLEAN, published : BOOLEAN]

RequestState == [at : Steps, opening : Openings, user : Users, seed : Seeds,
                 candidates : SUBSET Cards, anchored : BOOLEAN]

AnyUser == CHOOSE u \in Users : TRUE
AnySeed == CHOOSE s \in Seeds : TRUE
NoOpening == [status |-> "NONE", user |-> AnyUser, seed |-> AnySeed, candidates |-> {},
              result |-> NoCard, anchored |-> FALSE, published |-> FALSE]
Idle == [at |-> "idle", opening |-> CHOOSE o \in Openings : TRUE, user |-> AnyUser,
         seed |-> AnySeed, candidates |-> {}, anchored |-> FALSE]

TypeOK ==
    /\ pack \in PackStatuses
    /\ pool \in [Cards -> {"out", "in", "consumed"}]
    /\ opening \in [Openings -> OpeningRow]
    /\ owner \in [Cards -> Users \cup {House}]
    /\ wallet \in [Users -> Int]
    /\ revenue \in Nat
    /\ memos \subseteq {"pack.commit", "pack.reveal"} \X Openings
    /\ req \in [Requests -> RequestState]

Init ==
    /\ pack = "NONE"
    /\ pool = [c \in Cards |-> "out"]
    /\ opening = [o \in Openings |-> NoOpening]
    /\ owner = [c \in Cards |-> House]
    /\ wallet = Balances
    /\ revenue = 0
    /\ memos = {}
    /\ req = [r \in Requests |-> Idle]

-----------------------------------------------------------------------------
(* The draw.                                                               *)
TotalWeight(S) == SumFunctionOnSet(Weight, S)

\* What the loop of selectWinner has subtracted when it reaches card c.
UpTo(S, c) == TotalWeight({d \in S : d <= c})

IsLast(S, c) == \A d \in S : d <= c

\* Mutant of SelectWinner: the loop stops one card late on a boundary.
SelectWinnerLate(S, e) == Min({c \in S : e * TotalWeight(S) <= Span * UpTo(S, c) \/ IsLast(S, c)})

\* The first candidate at which entropy / Span * total, less the weights so far,
\* is negative, or the last one (the code's fallback for the rounding of a float).
SelectWinner(S, e) == Min({c \in S : e * TotalWeight(S) < Span * UpTo(S, c) \/ IsLast(S, c)})

\* getPack's oddsPct: the share of the total weight in percent, to two decimals
\* (here in hundredths of a percent), 0 for a consumed card.
OddsPct(S, c) == IF c \in S THEN (2 * 10000 * Weight[c] + TotalWeight(S)) \div (2 * TotalWeight(S))
                 ELSE 0

Available == {c \in Cards : pool[c] = "in"}

-----------------------------------------------------------------------------
Goto(r, step) == req' = [req EXCEPT ![r].at = step]
Done(r)       == req' = [req EXCEPT ![r] = Idle]

(* Operators.  Each is one statement.                                      *)
CreatePack ==
    /\ pack = "NONE"
    /\ pack' = "DRAFT"
    /\ UNCHANGED <<pool, opening, owner, wallet, revenue, memos, req>>

\* vaultItemId is unique among the pool items of all packs, consumed ones included.
AddPoolItem(c) ==
    /\ pack # "NONE"
    /\ pool[c] = "out"
    /\ pool' = [pool EXCEPT ![c] = "in"]
    /\ UNCHANGED <<pack, opening, owner, wallet, revenue, memos, req>>

\* setStatus asks nothing of the old status.
SetStatus(status) ==
    /\ pack # "NONE"
    /\ status \in {"ACTIVE", "PAUSED", "ARCHIVED"}
    /\ pack' = status
    /\ UNCHANGED <<pool, opening, owner, wallet, revenue, memos, req>>

(* commit: hold, pack and pool are read, then the balance; the commitment  *)
(* is written on chain before the transaction that charges the user.       *)
CommitRead(r, u, o, s) ==
    /\ req[r].at = "idle"
    /\ u \notin Suspended
    /\ pack = "ACTIVE"
    /\ Available # {}
    /\ req' = [req EXCEPT ![r] = [Idle EXCEPT !.at = "balance", !.user = u, !.opening = o, !.seed = s]]
    /\ UNCHANGED <<pack, pool, opening, owner, wallet, revenue, memos>>

CommitBalance(r) ==
    /\ req[r].at = "balance"
    /\ wallet[req[r].user] >= Price
    /\ Goto(r, "anchor")
    /\ UNCHANGED <<pack, pool, opening, owner, wallet, revenue, memos>>

\* Mutant of MayGoOn: a memo that fails never ends the call.
MayGoOnAlways(ok) == ok \in BOOLEAN

\* anchor(): a memo that fails is skipped, unless anchoring is required.
MayGoOn(ok) == ok \/ ~AnchorRequired

CommitAnchor(r, ok) ==
    /\ req[r].at = "anchor"
    /\ MayGoOn(ok)
    /\ memos' = IF ok THEN memos \cup {<<"pack.commit", req[r].opening>>} ELSE memos
    /\ req' = [req EXCEPT ![r].at = "pay", ![r].anchored = ok]
    /\ UNCHANGED <<pack, pool, opening, owner, wallet, revenue>>

Charge(u) ==
    /\ wallet' = [wallet EXCEPT ![u] = @ - Price]
    /\ revenue' = revenue + Price

CommitPay(r) ==
    LET o == req[r].opening IN
    /\ req[r].at = "pay"
    /\ opening[o].status = "NONE"
    /\ opening' = [opening EXCEPT ![o] = [NoOpening EXCEPT !.status = "COMMITTED", !.user = req[r].user,
                                              !.seed = req[r].seed, !.anchored = req[r].anchored]]
    /\ Charge(req[r].user)
    /\ Done(r)
    /\ UNCHANGED <<pack, pool, owner, memos>>

(* reveal: the opening is read, then the cards still in the pool; the draw *)
(* settles in a transaction that looks at neither again.                   *)
\* Mutant of RevealRead: the status is not checked.
RevealReadAnyStatus(r, o, s) ==
    /\ req[r].at = "idle"
    /\ opening[o].status # "NONE"
    /\ req' = [req EXCEPT ![r] = [Idle EXCEPT !.at = "candidates", !.opening = o,
                                    !.user = opening[o].user,
                                    !.seed = IF s = NoSeed THEN opening[o].seed ELSE s]]
    /\ UNCHANGED <<pack, pool, opening, owner, wallet, revenue, memos>>

RevealRead(r, o, s) ==
    /\ req[r].at = "idle"
    /\ opening[o].status = "COMMITTED"
    /\ req' = [req EXCEPT ![r] = [Idle EXCEPT !.at = "candidates", !.opening = o,
                                    !.user = opening[o].user,
                                    !.seed = IF s = NoSeed THEN opening[o].seed ELSE s]]
    /\ UNCHANGED <<pack, pool, opening, owner, wallet, revenue, memos>>

RevealCandidates(r) ==
    /\ req[r].at = "candidates"
    /\ Available # {}
    /\ req' = [req EXCEPT ![r].at = "settle", ![r].candidates = Available]
    /\ UNCHANGED <<pack, pool, opening, owner, wallet, revenue, memos>>

\* Mutant of NotWon: resultVaultItemId is not unique.
NotWonUnchecked(o, c) == c \in Cards

\* resultVaultItemId is unique: no other opening has won the card.
NotWon(o, c) == \A p \in Openings \ {o} : opening[p].result # c

\* Mutant of DrawnFor: the client seed of the commit is used.
DrawnForFirstSeed(r) ==
    SelectWinner(req[r].candidates, Entropy[<<req[r].opening, opening[req[r].opening].seed>>])

\* The card the call in flight has drawn.
DrawnFor(r) == SelectWinner(req[r].candidates, Entropy[<<req[r].opening, req[r].seed>>])

RevealSettle(r) ==
    LET o == req[r].opening
        c == DrawnFor(r)
    IN  /\ req[r].at = "settle"
        /\ NotWon(o, c)
        /\ pool' = [pool EXCEPT ![c] = "consumed"]
        /\ opening' = [opening EXCEPT ![o].status = "SETTLED", ![o].seed = req[r].seed,
                                      ![o].candidates = req[r].candidates, ![o].result = c]
        /\ owner' = [owner EXCEPT ![c] = req[r].user]
        /\ Goto(r, "publish")
        /\ UNCHANGED <<pack, wallet, revenue, memos>>

\* The memo of the reveal, after the transaction.  A memo that fails leaves the
\* opening as it is (and ends the call with an error when it was required).
RevealPublish(r, ok) ==
    /\ req[r].at = "publish"
    /\ memos' = IF ok THEN memos \cup {<<"pack.reveal", req[r].opening>>} ELSE memos
    /\ opening' = [opening EXCEPT ![req[r].opening].published = @ \/ ok]
    /\ Done(r)
    /\ UNCHANGED <<pack, pool, owner, wallet, revenue>>

\* A guard or a unique index fails, or the process dies.
Abort(r) ==
    /\ req[r].at # "idle"
    /\ Done(r)
    /\ UNCHANGED <<pack, pool, opening, owner, wallet, revenue, memos>>

Step(r) ==
    \/ \E u \in Users, o \in Openings, s \in Seeds : CommitRead(r, u, o, s)
    \/ CommitBalance(r)
    \/ \E ok \in BOOLEAN : CommitAnchor(r, ok)
    \/ CommitPay(r)
    \/ \E o \in Openings, s \in Seeds \cup {NoSeed} : RevealRead(r, o, s)
    \/ RevealCandidates(r)
    \/ RevealSettle(r)
    \/ \E ok \in BOOLEAN : RevealPublish(r, ok)
    \/ Abort(r)

Next ==
    \/ \E r \in Requests : Step(r)
    \/ CreatePack
    \/ \E c \in Cards : AddPoolItem(c)
    \/ \E status \in PackStatuses : SetStatus(status)

Spec == Init /\ [][Next]_vars

-----------------------------------------------------------------------------
Settled == {o \in Openings : opening[o].status = "SETTLED"}

\* Anyone can replay a revealed opening: the draw recomputed from its server seed,
\* the client seed and the candidates it records is the card it says was won,
\* also when two reveals, with two client seeds, race (verify).
ProofReplays ==
    \A o \in Settled : opening[o].result = SelectWinner(opening[o].candidates, Entropy[<<o, opening[o].seed>>])

\* A card is won by one opening, comes from the pool and is then out of it for good:
\* two openings that drew the same card from the same candidates do not both settle.
WonOnce ==
    /\ \A o \in Settled : pool[opening[o].result] = "consumed"
    /\ \A o, p \in Settled : opening[o].result = opening[p].result => o = p

\* The published odds are those of the draw: of the Span values the entropy can
\* take, the share that wins a card differs from its oddsPct by less than one
\* value - at most by 1 - 1 / total - and the rounding to a hundredth of a percent.
PublishedOddsAreTheDraws ==
    LET S == Available
        T == TotalWeight(S)
        Wins(c) == Cardinality({e \in 0..(Span - 1) : SelectWinner(S, e) = c})
        Gap(c)  == T * (Wins(c) * 10000 - OddsPct(S, c) * Span)
        Most    == 10000 * (T - 1) + T * Span
    IN  \A c \in S : -Most <= Gap(c) /\ Gap(c) <= Most

\* With anchoring required nobody has paid for an opening whose commitment is not
\* on chain, whatever fails or dies between the memo and the transaction.
PaidIsAnchored ==
    AnchorRequired => \A o \in Openings : opening[o].status # "NONE" => <<"pack.commit", o>> \in memos
=============================================================================
