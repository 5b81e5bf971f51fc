# Boosters: a TLA+ model of the platform

Boosters is a trading-card platform: graded cards are held in a vault, one compressed
NFT stands for each, and users list, buy, raffle, open in packs, sell back and redeem
them against custodial USDC kept in a double-entry ledger. The API (NestJS, Prisma,
PostgreSQL) runs any number of calls at once, a worker (BullMQ) runs a maintenance sweep
every minute, and a Next.js application shows the rows and posts the calls. This directory
holds TLA+ modules translated from the sources, TLC configurations that check them on
small instances, and TLAPS proofs of every safety property they check, for every instance.

## Inventory

| Component | State | Operations | Hard part | What makes it correct |
|---|---|---|---|---|
| Raffles (`raffles.service.ts`) | Raffle, RaffleTicket, escrow, the item's reservation | create, buyTickets, draw, cancel | reads before the transaction; two purchases, two draws, a purchase and a cancellation at once | no oversell, one draw, escrow backs the tickets, complete refunds |
| Payments (`payments.service.ts`) | Order (DEPOSIT, WITHDRAWAL), ledger lines, ReferralReward | createOnramp, confirm, requestWithdrawal, completeWithdrawal, failWithdrawal | repeated webhooks, the worker's sweep, two operators | each order posted once, status agrees with the ledger |
| Worker (`apps/worker`) | none of its own | expireStaleOnramps, expireBuybackQuotes, float alert | restarts, races with the API | on-ramps and quotes end |
| Custody (`vault.service.ts`) | VaultItem, Token, the mint on chain | createIntake, startAuthentication, setGrade, vault | crash between mint and insert; unconditional state writes | the custody gate: a token stands for a card in the vault |
| Marketplace (`marketplace.service.ts`) | Listing, Order, wallets | createListing, reviewListing, cancelListing, buy, creditBalance | two buyers; retried keys; crash before the completion | the card goes to who pays, the books match the orders |
| Packs (`packs.service.ts`, `pack-fairness.ts`, `fairness-anchor.service.ts`) | Pack, PackPoolItem, PackOpening, memos on chain | createPack, addPoolItem, setStatus, commit, reveal, verify | two reveals of one opening; a memo without its payment | a replayable draw with the published odds, a card won once |
| Buyback (`buyback.service.ts`) | BuybackQuote, treasury, pause flag | quote, accept, setPaused, setFmv, creditTreasury | two accepts against one floor; expiry; a sale under an accept | the floor holds, a quote pays once |
| Redeem (`redeem.service.ts`) | Redemption | redeem, setStatus | races with every trade | burned exactly when redeemed |
| Submissions (`submissions.service.ts`) and rate limit (`ratelimit/`) | Submission, its item; a Redis counter | create, label, ship, receive, authenticate, grade, photos, mint, cancel, reject | read, vault call and status write are three steps | one item per submission; MINTED means minted; the daily cap |
| KYC (`kyc.service.ts`) | KycSubmission, KycDocument, files, User.kycStatus | start, submitManual, review, webhook, setKyc | a submission is five steps that may each fail | complete cases, one in review |
| Users and auth (`users.service.ts`, `auth/`) | User | provision, setRole, setHold, ensureReferralCode, applyReferralCode | decisions on the row that the guard read | staff decide, an administrator remains |
| Ledger (`ledger.service.ts`, DB CHECK and trigger) | LedgerEntry | post, balanceOf, treasuryBalance | balances read before they are spent | every order nets to zero |
| Web: pages with lists (`apps/web/src/app`) | rows shown, filter, buttons disabled, error | press, post, load | answers out of order, failures, disabled buttons | what is shown is current or an error |
| Web: opening a pack, session, referral code | phase and card; dbUser; local storage | open; refreshMe; capture | a lost answer after the payment; sign-out under a load | prize or error; the session's row |
| Web: demonstration (`demo/page.tsx`) | prize, reel | open | where the reel stops | the marker picks the win |

API handlers interact through the database only: rows shared by several handlers (an item
and its token by seven of them), unique indexes, and the ledger's accounts. No handler
takes an explicit lock; transactions run under READ COMMITTED, and most guards are
evaluated before the transaction starts. **Most of the hard behaviour comes from that
gap**, on the server between a read and a commit, in the browser between a post and the
next load. `PROJECT.json` lists the hazards line by line, with the properties that would
catch each, and says why a few have none.

## How code becomes actions

A handler is cut where other calls can come in between: one action for what it reads and
checks before its transaction, one for each read inside it that later steps use, and one
for its commit. `req[r]` is the call r in flight: `at` says where it is, the other fields
hold what it has read. Guards are the code's early returns and, in commits, the unique
indexes and CHECKs. `Abort` is everything that ends a call without further effect: an
unmet guard, a refused transaction, a dead process. So every call of every API module may
crash between any two of its steps, and what it committed before stays.

| Module | Stands for |
|---|---|
| `Raffles` | One raffle of one item. buyTickets is four actions (raffle, balance, the re-read in the transaction, commit), cancel four (status, tickets, the `updateMany`, commit); the row locks that `updateMany` holds until the commit are `Locked`. The HMAC draw is a choice of any ticket. |
| `TicketSale` | What a raffle promises: tickets sold in order and never beyond the supply, one prize, to a holder, after the last ticket. `Raffles!SaleSpec` is the refinement. |
| `Payments` | Deposits, withdrawals, referral bonus, the worker's sweep and its restarts. The ledger is kept as how often each order's lines were posted; `Balance` derives balances as `balanceOf` does. Amounts are millionths of a USDC, the scale of the schema, so that the bonus rounds as in the code. |
| `Custody` | One card and every handler that moves, locks or burns it: intake, grading, mint, listings, purchase, pool and reveal, buyback, raffle, redemption. `minted` counts the cNFTs on chain, which a crash does not undo. Money is left to the next three. |
| `Marketplace` | Listings with the FMV hold, orders by idempotency key, wallets, fee, reputation, the two commits of a purchase. |
| `Treasury` | Quotes, the pause flag, the treasury's balance and floor, the worker's expiry; trades of the card elsewhere are one action (`Trade`). |
| `Packs` | One pack: pool, openings, the weighted draw `SelectWinner` as a function of `Entropy` (the 32 bits of the HMAC), the memos of commit and reveal. |
| `Accounts` | Provisioning, roles, holds, referral codes. A request carries the columns of the row its guard read. |
| `Kyc` | Cases, documents, files, review, the provider's webhook, the console. |
| `Consignment` | Submissions, their vault items, the vault console, the rate limit of a day and Redis failing open. |
| `Console` | The shape that fourteen list pages share: a button drawn for a row's status posts, the page loads again with the filter of the render in which it was pressed. `Pages` is the table of what each page draws, posts, disables and reloads. |
| `PackPage`, `Session`, `DemoWheel` | The page that opens a pack; the signed-in user's row and the referral code in local storage; the demonstration's reel. |
| `Web` | One browser tab: a list page, the page of a pack, or the session, with its observers. |
| `MC...` | Instances for TLC, and the observers described next. `MCMarketplace` holds the marketplace and the treasury side by side (`Spec`, `TreasurySpec`), `MCUsers` KYC, the accounts and the browser tab (`MCSpec`, `WebSpec`). |
| `...Proofs`, `Sums` | Theorems, and facts about sums over finite sets that the proofs about money share. |

**Serial properties.** Several promises hold only while handlers do not race. Checking them
with a single call in flight would prove less than it seems, so the MC modules carry an
observer, `overlapped`, set as soon as two calls have been in flight together (in
`MCMarketplace` for the treasury, `MCConsignment` and `MCUsers` also when an operator changed
a row under a call; the browser tab has one of its own, `raced`). `SerialX` is
`~overlapped => X`, or the same of a step: the same run has the races and, on its serial
prefix, the stronger promise. `died` (a consignment call that stopped
between intake and link), `mixed` (different buttons pressed at once) and `lossy` (a call
of a page failed) are further such observers, each used by the properties that need it.

## Runs

| Run | Shows | Instance |
|---|---|---|
| `raffles` | `MoneyConserved`, `CardMovesOnlyByDraw` and the refinement `SaleSpec` under any race; `SerialCancelRefundsAll` | 3 users (one suspended), 3 tickets at 3 units, a quarter fee |
| `raffle_cancel_race` | *violation* of `CancelRefundsAll`: README.md:157 says a cancellation refunds every ticket | the same |
| `payments` | `CreditedIffCompleted`, `BonusOncePerDeposit` under any race; `SerialCreditedOnce`, `SerialRefundedIffFailed` | 2 users, 2 deposits, 1 withdrawal |
| `payments_settle` | `OnrampSettles` (liveness, under fairness) | 1 call, 2 deposits |
| `custody` | `OwnersAgree`, `CustodyGate`, `BurnedIffRedeemed` under any race; `SerialStagesAgree` | the house and a user, 1 listing, 1 opening |
| `market` | `BooksMatchOrders`, `CardFollowsPayment`, `HeldIsNotOnSale` under any race; `SerialSoldOnce` | seller, buyer, staff, 2 listings, 2 keys |
| `treasury` | `PayoutsMatchQuotes` under any race, `QuoteEnds` (liveness); `SerialPayoutAboveFloor` | 2 users, 2 quotes, funds for one payout above the floor |
| `packs` | `ProofReplays`, `WonOnce`, `PaidIsAnchored`, `PublishedOddsAreTheDraws` under any race; `SerialOutcomeIsFinal` | 2 cards of weights 1 and 3, 2 openings, 2 client seeds, 3 bits of entropy |
| `users` | `DocumentsAreComplete` under any race; `SerialAdminRemains`, `SerialStaffDecide`, `SerialReferralIsFinal`, `SerialOneCaseInReview`, `SerialOwnCallsKeepApproval` | three parts: 3 users with roles and holds; with referral codes; one user with 2 cases and 3 uploads |
| `consignment` | `DailyCap` under any race; `SerialMintedHasToken`, `SerialItemIsLinked` | 2 submissions, 2 items, a cap of one |
| `web` | `NoButtonLeftLocked` always; `SerialCurrentOrError`, `SerialOneCallPerLock`, `SerialDrawnIsTaken`, `SerialDbUserIsSession`, `SerialCodeKept` | three parts: a list page (any of fourteen) with 2 rows; the page of a pack with 2 openings; a session of 2 users with 2 codes |
| `demo_marker` | *violation* of `MarkerPicksTheWin`: the page's text says the centre marker picks the win | 6, 13 or 22 prizes |

All but `payments_settle` and `demo_marker` have two calls in flight, each of which may die.

**Bounds.** Two calls in flight show every race of two handlers, and as each call ends, a
third party's step can come at any point by the second slot being used again. Three raffle
tickets let a purchase overlap another partly. Prices are chosen so that fees truncate (a
quarter of 9, `FeeBps` on 8 and 20), wallets can pay for some things and not for others,
the bonus of 9 millionths rounds to nothing and that of 30 rounds up, one quote is payable
above the floor and two are not. `MaxMints` caps the mints at two, which tells once from
more. Two ids of a kind are what a unique index distinguishes; three users are needed for
an administrator, one who demotes and one who is demoted. `MaxCredits`, `MaxFundings`,
`MaxOpens` and `PerDay` name the other caps. The runs that switch deadlock checking off can
really stop: a settled raffle, a redeemed card, a spent key, a finished submission.
Symmetry is used for ids that no action or property tells apart, never with a liveness
property.

**Fairness.** `payments_settle`: an hour passes (`WF Age`), a stopped worker is restarted
(`restart: unless-stopped` in `docker-compose.prod.yml`, `WF WorkerStart`), and the
worker's repeatable job runs although restarts interrupt its enabledness (`SF Sweep`;
BullMQ keeps the schedule in Redis). `treasury`: a quote's ten minutes pass (`WF Lapse`) and
the sweep runs (`WF Sweep`). Users, operators and payment providers are not assumed to do
anything.

## What the models show besides

Some things hold of one call at a time only, and the runs say so by the word Serial. Drop
the observer and TLC shows what the code does then: a deposit confirmed twice at once is
credited twice (its bonus is not); failWithdrawal gives back a withdrawal completed
meanwhile; two buyers of a listing both pay, and one gets the card; two accepts together
take the treasury below its floor; two reveals of an opening with different client seeds
replace a published outcome; two administrators demote each other; two submissions of
documents leave two cases in review. Other behaviour needs no race:

- A process that dies between the mint and the insert mints a second cNFT at the retry.
- A listing outlives its seller's ownership: another user's card can be sold by it, and a
  burned card can be listed again. Ownership records still agree (`OwnersAgree`).
- A card in a pack's pool is not reserved: its owner can trade it until a reveal takes it.
- A call that dies between a submission's intake and its link leaves the item unlinked.
- A deposit paid after the sweep has failed it is refused and stays uncredited.
- A page whose action reloads nothing removes the message of an earlier failure.

No line of the repository promises otherwise, so these are behaviours of the models and
not findings. The two findings in `PROJECT.json` contradict a sentence of the repository.

## Proofs

Seven modules prove, for every value of the constants that meets the ASSUMEs and for any
number of calls in flight, type correctness and every invariant and action property that a
passing run checks:

| Module | Theorems |
|---|---|
| `RafflesProofs` | no oversell; the card moves only by the one draw; `MoneyConserved`; Raffles implements TicketSale; `SerialCancelRefundsAll` |
| `PaymentsProofs` | `CreditedIffCompleted`, `BonusOncePerDeposit`, completed deposits stay; `SerialCreditedOnce`, `SerialRefundedIffFailed` |
| `CustodyProofs` | `OwnersAgree`, `CustodyGate`, one ACTIVE listing, `BurnedIffRedeemed`; `SerialStagesAgree` |
| `PacksProofs` | `WonOnce`, `ProofReplays`, `PaidIsAnchored`, `PublishedOddsAreTheDraws`; `SerialOutcomeIsFinal` |
| `MarketplaceProofs` | `HeldIsNotOnSale`, `CardFollowsPayment`, `BooksMatchOrders`; `SerialSoldOnce`; of Treasury `PayoutsMatchQuotes`, `SerialPayoutAboveFloor` |
| `ConsignmentProofs` | `DailyCap`; `SerialMintedHasToken`, `SerialItemIsLinked` |
| `UsersProofs` | KYC: `DocumentsAreComplete`, `SerialOneCaseInReview`, `SerialOwnCallsKeepApproval`; accounts: `SerialAdminRemains`, `SerialStaffDecide`, `SerialReferralIsFinal`; the browser tab: `NoButtonLeftLocked`, `SerialOneCallPerLock`, `SerialCurrentOrError`, `SerialDrawnIsTaken`, `SerialDbUserIsSession`, `SerialCodeKept` |
| `Sums` | no property of its own: what `SumFunctionOnSet` is of the empty set, of one more element, of functions that agree, differ in one place or are added |

Each goes through an inductive invariant, `IInv` or one named for its part. The properties
are not inductive alone, because a commit acts on what was read earlier; what has to be
added is what a call in flight *still knows*, and why nobody else can take it away:

- Raffles: a purchase's first number is at most `ticketsSold`, so that the unique index
  leaves it only the next free number; a draw in flight has a full raffle behind it; a
  raffle with a winner has its draw order, so that a second draw is refused.
- Payments: the order a call has read exists; a late confirm or sweep may overwrite its
  status, but the sweep is conditional and a confirm posts and completes in one transaction.
- Custody: a call that trades the card has seen a token, tokens are never deleted, and a
  vault call that will create the token knows the owner, whom nobody changes before.
- Packs: a call that draws has candidates, which are not empty, and an opening; one that
  pays has its memo on chain. Results are those of settled openings.
- Marketplace: a listing that was read keeps its card, which the insert writes once; a
  row that is held is not inserted as ACTIVE; an order to be completed exists.
- Treasury: a quote that an accept has read keeps its card, user and amount, which the
  insert writes once, so that what it pays is what was offered (`OffersKnow`).
- KYC: a submission past its check has a valid upload, a case of that upload's type that
  no other submission has, and from the third step on its files (`OwnCase`,
  `SubmissionsKnow`); whatever the case's status becomes, its documents come at once.
- Consignment: rows and calls on their way to make one are together at most the hits
  (`Capped`), and no other write makes a row, because whoever overwrites a status has read
  a submission that exists (`OnExisting`). Cardinalities are counted with
  FiniteSetTheorems.
- List pages: every disabled button is that of a press in flight, which will give it back
  (`LocksAreHeld`); a press in flight has its buttons disabled, unless they are exempt
  (`PressesAreLocked`), so another press that the page excludes does not find them enabled.
  Each step of a page starts a press, lets it go on or ends it (`PageKinds`), which is all
  that the two need to know of twelve actions.

**Until two calls overlap** a call in flight is alone, so what it has read is still what is
in the table, and a decision on the one is a decision on the other. That is the argument of
every Serial theorem: the invariant says, under `~overlapped`, that at most one call is in
flight and that what it holds is current (`SeesCurrent`, `AccountsSerial`, `KycSerial`,
`CallCurrent`, ...). It goes with the observer: a step that ends with a second call in
flight owes nothing afterwards. A lone accept of a quote, for one, spends the balance that
it compared with the floor. Of a list page the invariant adds that a call asks with the
filter that the page has, and that rows on their way are the rows of the database; so a
page at rest is current, and what it draws the service takes. The latter rests on the table
of the fourteen pages, which is checked page by page: the statuses a button is drawn for
are among those that the service's operation finds (`Tables`).

**Sums.** The ledger's books are sums over sets, which the library defines by recursion on an
element CHOOSEn at every step. The provers cannot apply an induction theorem to them; the
least number and the smallest set at which a fact would fail serve instead. From these
facts `MoneyConserved` and `BooksMatchOrders` follow commit by commit. A wallet enters a sum
once, so the set of users has to be finite.

**Odds.** `PublishedOddsAreTheDraws` says that the share of the entropies at which a card
wins is, up to the rounding, what `oddsPct` publishes. The entropies at which a card wins
are an interval: those whose product with the total weight lies between the weights before
the card and those up to it. Its length is within one of the exact share, and `oddsPct`
rounds once more. The code's sorted list of candidates is an order on the cards; that a finite set
of candidates has a first and a last is proved of it, not assumed.

A step that only reads is covered by one lemma per module (`ReadInv`, `GoInv`), each
commit has its own, and the theorems combine them with PTL. The theorems about the browser
tab are about `W!WebSpec`, which lets a page take any of its filters; the run's `WebSpec`,
which takes a few, implies it (`RunIsTab`). What the constants have to be: ids that
stand for "none" are no ids, prices and fees are natural numbers, and the sets that are
counted or summed over (accounts of a raffle, cards of a pack, submissions) are finite.

**Only model-checked:** liveness (`OnrampSettles`, `QuoteEnds`; fairness and ENABLED are
beyond the prover) and the two violations. What the web pages do after calls have overlapped
is checked and proved for the locks only: answers that arrive out of order may show old rows.

## Not modelled

- Handlers that only read (browse, portfolio, queues, document downloads), the timeline of
  submissions and the audit log, which no handler reads back.
- The columns of PhysicalCard, profile names, pack visuals beyond the console's button:
  nothing decides on them.
- Stripe and Privy (external; their calls are the nondeterministic calls of the models),
  and the on-chain transfers and burns, which are best effort: the code ignores their
  failure and nothing reconciles them. Of the chain there are the mint, which the code reads
  back, and the fairness memos.
- Formatting and validation of input, environment parsing, health and error filters, HTTP
  bootstrap, scripts and seeds.
- The account, refer and verify pages (a form, or one call and its answer), the prompts of
  the portfolio page, and the reel of the pack page, which is presentation.
- The expiry of a rate-limit counter: a model of one day has one counter.

## Plan

1. Refinements that say in one formula what several invariants say now: an abstract quote
   (offered, paid once or lapsed) that `Treasury` implements, an abstract case for `Kyc`.
2. *Exchange*: marketplace, buyback and raffles over one ledger and several cards, with
   the balance trigger as an invariant of the sum.
3. An abstract sale (a card, its owner, who has paid) that Marketplace implements; the
   refinement would carry `CardFollowsPayment`.
4. The rate limit across midnight, and its second use on listings.
5. The remaining pages of the web application, if they come to hold state.
