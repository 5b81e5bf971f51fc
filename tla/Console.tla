------------------------------- MODULE Console -------------------------------
(* The pages of the web application that show a list of rows and act on them:   *)
(* the operations console (apps/web/src/app/admin), the user's submissions and  *)
(* holdings, and a raffle.  They share one shape.  A button drawn for a row's   *)
(* status posts to the API; when the answer is good the page loads its list     *)
(* again, with the filter of the render in which the button was pressed; an     *)
(* error leaves a message.  They differ in their buttons, in what the service   *)
(* behind them takes, and in which buttons a press disables until it is over.   *)
(*                                                                              *)
(* One browser tab is modelled, with several calls in flight: a post, its       *)
(* answer, the reading of the list and its arrival are steps of their own.      *)
EXTENDS Naturals, FiniteSets

CONSTANTS
    Rows,     \* rows a list may hold
    Form,     \* stands for the form of a page in the place of a row
    NoRow,    \* of a call that only loads the list
    Calls     \* calls that may be in flight

VARIABLES
    page,     \* the page that is open: its row of the table Pages
    server,   \* status of every row in the database, "ABSENT" before it is created
    shown,    \* the list in the page's state: status of each row it shows
    filter,   \* the statuses that the page asks for
    busy,     \* the buttons that are disabled while a call is in flight
    err,      \* an error message is on the page
    call      \* calls in flight

vars == <<page, server, shown, filter, busy, err, call>>

\* What a service does with an operation: pairs of the status it finds and leaves.
To(from, status) == from \X {status}
Keep(statuses)   == {<<s, s>> : s \in statuses}

\* A page without busy state, filters, forms and rows: the common ground.
Plain ==
    [lock    |-> "none",  \* what a press disables: "none", its "button", its "row", the whole "page"
     says    |-> TRUE,    \* a failed post leaves a message, the next load removes it
     awaits  |-> TRUE,    \* the press is over when the list has been loaded again
     single  |-> FALSE,   \* one row only
     decides |-> TRUE,    \* the buttons follow the row's status
     first   |-> {},      \* the filter at first
     filters |-> {},      \* the filters that can be selected
     starts  |-> {},      \* statuses of the rows at first
     forms   |-> {},      \* forms: the operation, and the status of the row it creates
     drawn   |-> << >>,   \* per button: the statuses it is drawn for
     free    |-> {},      \* buttons that busy state does not disable
     quiet   |-> {},      \* buttons after which the list is not loaded
     wipes   |-> {},      \* those of them that remove the message
     takes   |-> << >>]   \* per button: what the service does

-----------------------------------------------------------------------------
\* admin/vault: one busy key, that of the last press, for all buttons of the page.
VaultStates == {"INTAKE", "AUTHENTICATING", "GRADED", "VAULTED"}

\* Mutant of VaultRow: grading is offered as soon as the card is taken in.
VaultRowEarly ==
    [authenticate |-> {"INTAKE"}, grade |-> {"INTAKE", "AUTHENTICATING"}, vault |-> {"GRADED"}, edit |-> VaultStates]

VaultRow ==
    [authenticate |-> {"INTAKE"}, grade |-> {"AUTHENTICATING"}, vault |-> {"GRADED"}, edit |-> VaultStates]

VaultService ==
    [authenticate |-> {<<"INTAKE", "AUTHENTICATING">>}, grade |-> {<<"AUTHENTICATING", "GRADED">>},
     vault |-> To({"GRADED", "VAULTED"}, "VAULTED"), edit |-> Keep(VaultStates)]

IntakeForm        == [op |-> "intake", creates |-> "INTAKE"]
EbaySourcingPanel == [op |-> "ebayIntake", creates |-> "INTAKE"]

VaultPage ==
    [Plain EXCEPT !.lock = "button", !.first = VaultStates, !.filters = {VaultStates} \cup {{s} : s \in VaultStates},
                  !.starts = {"INTAKE"}, !.forms = {IntakeForm, EbaySourcingPanel},
                  !.drawn = VaultRow, !.takes = VaultService]

\* The categories on the same page: Hide and Show are never disabled.
CategoryService == [hide |-> To({"SHOWN", "HIDDEN"}, "HIDDEN"), show |-> To({"SHOWN", "HIDDEN"}, "SHOWN")]

CategoryManager ==
    [Plain EXCEPT !.lock = "button", !.first = {"SHOWN", "HIDDEN"}, !.starts = {"SHOWN"},
                  !.forms = {[op |-> "category", creates |-> "SHOWN"]},
                  !.drawn = [hide |-> {"SHOWN"}, show |-> {"HIDDEN"}], !.free = {"hide", "show"},
                  !.takes = CategoryService]

-----------------------------------------------------------------------------
\* admin/submissions: the consignment queue.
Underway  == {"RECEIVED", "AUTHENTICATING", "GRADING", "PHOTOGRAPHED"}
Unshipped == {"DRAFT", "LABEL_GENERATED", "IN_TRANSIT"}
Submitted == Unshipped \cup Underway \cup {"MINTED", "REJECTED", "CANCELLED"}

OpsRow ==
    [receive |-> {"IN_TRANSIT", "LABEL_GENERATED"}, authenticate |-> {"RECEIVED"}, grade |-> {"AUTHENTICATING"},
     photos |-> {"GRADING"}, mint |-> {"PHOTOGRAPHED"}, reject |-> Submitted \ {"MINTED", "REJECTED", "CANCELLED"}]

\* The steps on the linked vault item, whose state goes with the submission's (Consignment).
SubmissionService ==
    [receive |-> To(Unshipped, "RECEIVED"), authenticate |-> {<<"RECEIVED", "AUTHENTICATING">>},
     grade |-> {<<"AUTHENTICATING", "GRADING">>}, photos |-> To(Underway \cup {"MINTED"}, "PHOTOGRAPHED"),
     mint |-> To({"GRADING", "PHOTOGRAPHED", "MINTED"}, "MINTED"), reject |-> To(Submitted, "REJECTED")]

SubmissionQueue ==
    [Plain EXCEPT !.lock = "button", !.first = Submitted,
                  !.filters = {Submitted} \cup {{s} : s \in Underway \cup {"IN_TRANSIT", "MINTED"}},
                  !.starts = {"IN_TRANSIT"}, !.drawn = OpsRow, !.free = {"reject"}, !.takes = SubmissionService]

\* submit: the user's own submissions; a card has its own busy flag, which is down
\* before the list has come, and a failed post leaves no message.
SubmissionCard ==
    [label |-> {"DRAFT"}, ship |-> {"LABEL_GENERATED"}, cancel |-> {"DRAFT", "LABEL_GENERATED", "IN_TRANSIT"}]

OwnerService ==
    [label |-> {<<"DRAFT", "LABEL_GENERATED">>}, ship |-> {<<"LABEL_GENERATED", "IN_TRANSIT">>},
     cancel |-> To(Unshipped \cup {"REJECTED", "CANCELLED"}, "CANCELLED")]

NewSubmissionForm == [op |-> "declare", creates |-> "DRAFT"]

SubmitPage ==
    [Plain EXCEPT !.lock = "row", !.says = FALSE, !.awaits = FALSE, !.first = Submitted, !.starts = {"DRAFT"},
                  !.forms = {NewSubmissionForm}, !.drawn = SubmissionCard, !.takes = OwnerService]

-----------------------------------------------------------------------------
\* Queues without busy state: what is pressed twice is posted twice.
Decided    == {"PENDING", "APPROVED", "REJECTED"}
KycService == [approve |-> To(Decided, "APPROVED"), reject |-> To(Decided, "REJECTED")]

KycQueue ==
    [Plain EXCEPT !.first = {"PENDING"}, !.filters = {Decided} \cup {{s} : s \in Decided}, !.starts = {"PENDING"},
                  !.drawn = [approve |-> {"PENDING"}, reject |-> {"PENDING"}], !.takes = KycService]

Unsettled == {"PENDING", "PROCESSING"}
WithdrawalService ==
    [complete |-> To(Unsettled \cup {"COMPLETED"}, "COMPLETED"), fail |-> To(Unsettled \cup {"FAILED"}, "FAILED")]

\* admin/treasury: its queue has a Refresh button, and shows a withdrawal of any status.
WithdrawalQueue ==
    [Plain EXCEPT !.first = Unsettled \cup {"COMPLETED", "FAILED"}, !.filters = {Unsettled \cup {"COMPLETED", "FAILED"}},
                  !.starts = {"PROCESSING"}, !.drawn = [complete |-> Unsettled, fail |-> Unsettled],
                  !.takes = WithdrawalService]

\* The pause switch of the same page sends the opposite of what is shown; its forms
\* fund the float or set a market value, and load the page again.
BuybackService ==
    [pause |-> To({"RUNNING", "PAUSED"}, "PAUSED"), resume |-> To({"RUNNING", "PAUSED"}, "RUNNING"),
     fund |-> Keep({"RUNNING", "PAUSED"})]

TreasuryPage ==
    [Plain EXCEPT !.single = TRUE, !.first = {"RUNNING", "PAUSED"}, !.starts = {"RUNNING"},
                  !.drawn = [pause |-> {"RUNNING"}, resume |-> {"PAUSED"}, fund |-> {"RUNNING", "PAUSED"}],
                  !.takes = BuybackService]

ReviewService == [approve |-> {<<"HELD", "ACTIVE">>}, reject |-> {<<"HELD", "CANCELLED">>}]

ReviewQueue ==
    [Plain EXCEPT !.first = {"HELD"}, !.starts = {"HELD"},
                  !.drawn = [approve |-> {"HELD"}, reject |-> {"HELD"}], !.takes = ReviewService]

Shipping          == {"REQUESTED", "SHIPPED", "DELIVERED"}
RedemptionService == [ship |-> To(Shipping, "SHIPPED"), delivered |-> To(Shipping, "DELIVERED")]

RedemptionQueue ==
    [Plain EXCEPT !.first = Shipping, !.starts = {"REQUESTED"},
                  !.drawn = [ship |-> {"REQUESTED"}, delivered |-> {"SHIPPED"}], !.takes = RedemptionService]

\* admin: the selects of a user's hold, of role and KYC status (edit), which change on
\* another choice only, and a credit, which loads nothing but removes the message;
\* the search loads the list again.
HoldValues   == {"NONE", "NEW_ACCOUNT", "SUSPENDED"}
UsersService ==
    [free |-> To(HoldValues, "NONE"), suspend |-> To(HoldValues, "SUSPENDED"),
     edit |-> Keep(HoldValues), credit |-> Keep(HoldValues)]

UserTable ==
    [Plain EXCEPT !.first = HoldValues, !.filters = {HoldValues}, !.starts = {"NEW_ACCOUNT"},
                  !.drawn = [free |-> HoldValues \ {"NONE"}, suspend |-> HoldValues \ {"SUSPENDED"},
                             edit |-> HoldValues, credit |-> HoldValues],
                  !.quiet = {"credit"}, !.wipes = {"credit"}, !.takes = UsersService]

PackStates  == {"DRAFT", "ACTIVE", "PAUSED"}
PackService ==
    [activate |-> To(PackStates, "ACTIVE"), pause |-> To(PackStates, "PAUSED"),
     addPool |-> Keep(PackStates), updateVisual |-> Keep(PackStates)]

\* admin/packs.
PackTable ==
    [Plain EXCEPT !.first = PackStates, !.starts = {"DRAFT"}, !.forms = {[op |-> "createPack", creates |-> "DRAFT"]},
                  !.drawn = [activate |-> PackStates \ {"ACTIVE"}, pause |-> {"ACTIVE"},
                             addPool |-> PackStates, updateVisual |-> PackStates],
                  !.takes = PackService]

-----------------------------------------------------------------------------
RaffleStates  == {"ACTIVE", "SOLD_OUT", "SETTLED", "CANCELLED"}
RaffleService ==
    [tickets |-> {<<"ACTIVE", "ACTIVE">>, <<"ACTIVE", "SOLD_OUT">>}, draw |-> {<<"SOLD_OUT", "SETTLED">>},
     cancel |-> To({"ACTIVE", "SOLD_OUT"}, "CANCELLED")]

\* raffles/[id]: one busy flag for the page.
RafflePage ==
    [Plain EXCEPT !.lock = "page", !.single = TRUE, !.first = RaffleStates, !.starts = {"ACTIVE"},
                  !.drawn = [tickets |-> {"ACTIVE"}, draw |-> {"SOLD_OUT"}, cancel |-> {"ACTIVE", "SOLD_OUT"}],
                  !.takes = RaffleService]

\* marketplace/[id]: after a purchase the page leaves for the portfolio, and shows the
\* listing as it was until then.
ListingStates == {"ACTIVE", "SOLD"}

ListingPage ==
    [Plain EXCEPT !.lock = "page", !.single = TRUE, !.first = ListingStates, !.starts = {"ACTIVE"},
                  !.drawn = [buy |-> {"ACTIVE"}], !.quiet = {"buy"}, !.takes = [buy |-> {<<"ACTIVE", "SOLD">>}]]

\* portfolio: a card in the wallet, listed or not.  A price far from the market value
\* is held for review and the card stays unlisted; a sale to the vault ignores listings.
Held           == {"VAULTED", "LISTED"}
HoldingService ==
    [list |-> {<<"VAULTED", "LISTED">>, <<"VAULTED", "VAULTED">>}, buyback |-> Keep(Held), accept |-> To(Held, "GONE"),
     redeem |-> {<<"VAULTED", "GONE">>}]

\* The buttons of a card do not look at its state; whether an offer to accept is on
\* the card is left open.
HoldingCard == [list |-> Held, buyback |-> Held, accept |-> Held, redeem |-> Held]

PortfolioPage ==
    [Plain EXCEPT !.lock = "row", !.awaits = FALSE, !.decides = FALSE, !.first = Held, !.starts = {"VAULTED"},
                  !.drawn = HoldingCard, !.quiet = {"buyback"}, !.takes = HoldingService]

Pages == {VaultPage, CategoryManager, SubmissionQueue, SubmitPage, KycQueue, WithdrawalQueue, TreasuryPage,
          ReviewQueue, RedemptionQueue, UserTable, PackTable, RafflePage, ListingPage, PortfolioPage}

\* The page loads its list after whatever changes a row.
Reloads == \A op \in page.quiet : \A t \in page.takes[op] : t[1] = t[2]

-----------------------------------------------------------------------------
Idle   == [at |-> "idle"]
Quiet  == \A c \in Calls : call[c] = Idle
Ops    == DOMAIN page.drawn \cup {form.op : form \in page.forms}

\* A press is in flight until the code that disables buttons has come to its end.
Pressed(c) ==
    /\ call[c].at # "idle" /\ call[c].row # NoRow
    /\ call[c].at \in {"loading", "listed"} => page.awaits

TypeOK ==
    /\ page \in Pages
    /\ DOMAIN shown \subseteq Rows
    /\ busy \subseteq (Rows \cup {Form}) \X Ops
    /\ err \in BOOLEAN
    /\ \A c \in Calls : call[c].at \in {"idle", "sent", "accepted", "refused", "lost", "loading", "listed"}

\* The list that the API returns.
Matching(f) == {r \in Rows : server[r] \in f}
Listed(f)   == [r \in Matching(f) |-> server[r]]

Loading(f) == [at |-> "loading", row |-> NoRow, op |-> "load", filter |-> f]

\* The page has been mounted: its first load is on the way.
Init ==
    /\ page \in Pages
    /\ server \in [Rows -> page.starts \cup {"ABSENT"}]
    /\ page.single => Cardinality(Matching(page.starts)) = 1
    /\ shown = << >>
    /\ filter = page.first
    /\ busy = {} /\ err = FALSE
    /\ \E c \in Calls : call = [d \in Calls |-> IF d = c THEN Loading(filter) ELSE Idle]

Becomes(c, to) == call' = [call EXCEPT ![c] = to]

\* The part of the busy state that a press of a row's button overwrites, and its end clears.
Scope(row) == {b \in busy : page.lock = "row" => b[1] = row}

Locks(row, op) ==
    CASE page.lock = "button" -> {<<row, op>>}
      [] page.lock = "row"    -> {row} \X Ops
      [] page.lock = "page"   -> Rows \X Ops
      [] OTHER             -> {}

Enabled(row, op) == <<row, op>> \notin busy \/ op \in page.free

Post(c, row, op) ==
    /\ call[c] = Idle
    /\ Enabled(row, op)
    /\ Becomes(c, [at |-> "sent", row |-> row, op |-> op, filter |-> filter])
    /\ busy' = (busy \ Scope(row)) \cup Locks(row, op)
    /\ err' = (err /\ (page.lock = "none" \/ ~page.says))
    /\ UNCHANGED <<page, server, shown, filter>>

Press(c, r, op) == r \in DOMAIN shown /\ shown[r] \in page.drawn[op] /\ Post(c, r, op)

Submit(c, form) == (\E r \in Rows : server[r] = "ABSENT") /\ Post(c, Form, form.op)

\* What a post may make of a row: a form creates one.
Outcomes(r, post) ==
    IF post.row = Form THEN {form.creates : form \in {g \in page.forms : g.op = post.op /\ server[r] = "ABSENT"}}
                       ELSE {t[2] : t \in {u \in page.takes[post.op] : r = post.row /\ u[1] = server[r]}}

\* The service takes the post or refuses it.
Accept(c) ==
    /\ call[c].at = "sent"
    /\ \E r \in Rows : \E s \in Outcomes(r, call[c]) : server' = [server EXCEPT ![r] = s]
    /\ Becomes(c, [call[c] EXCEPT !.at = "accepted"])
    /\ UNCHANGED <<page, shown, filter, busy, err>>

Refuse(c) ==
    /\ call[c].at = "sent"
    /\ \A r \in Rows : Outcomes(r, call[c]) = {}
    /\ Becomes(c, [call[c] EXCEPT !.at = "refused"])
    /\ UNCHANGED <<page, server, shown, filter, busy, err>>

\* The post or its answer gets lost.
Lose(c) ==
    /\ call[c].at \in {"sent", "accepted"}
    /\ Becomes(c, [call[c] EXCEPT !.at = "lost"])
    /\ UNCHANGED <<page, server, shown, filter, busy, err>>

\* Mutant of Unlocked: the buttons come back with a good answer only.
UnlockedOnSuccess(c) == IF call[c].at = "lost" THEN busy ELSE busy \ Scope(call[c].row)

\* finally: what the press has disabled comes back.
Unlocked(c) == busy \ Scope(call[c].row)

\* catch.
Fail(c) ==
    /\ call[c].at \in {"refused", "lost"}
    /\ err' = (err \/ page.says)
    /\ busy' = Unlocked(c)
    /\ Becomes(c, Idle)
    /\ UNCHANGED <<page, server, shown, filter>>

\* Mutant of Answer: the page does not wait for the list before it unlocks.
AnswerUnlocks(c) ==
    /\ call[c].at = "accepted"
    /\ call[c].op \notin page.quiet
    /\ Becomes(c, [call[c] EXCEPT !.at = "loading"])
    /\ busy' = Unlocked(c)
    /\ err' = (err /\ ~page.says)
    /\ UNCHANGED <<page, server, shown, filter>>

\* A good answer: the list is loaded with the filter of the press.
Answer(c) ==
    /\ call[c].at = "accepted"
    /\ call[c].op \notin page.quiet
    /\ Becomes(c, [call[c] EXCEPT !.at = "loading"])
    /\ busy' = IF page.awaits THEN busy ELSE Unlocked(c)
    /\ err' = (err /\ ~page.says)
    /\ UNCHANGED <<page, server, shown, filter>>

\* An answer after which the page leaves its list as it is.
AnswerQuietly(c) ==
    /\ call[c].at = "accepted"
    /\ call[c].op \in page.quiet
    /\ busy' = Unlocked(c)
    /\ err' = (err /\ call[c].op \notin page.wipes)
    /\ Becomes(c, Idle)
    /\ UNCHANGED <<page, server, shown, filter>>

Read(c) ==
    /\ call[c].at = "loading"
    /\ Becomes(c, [at |-> "listed", row |-> call[c].row, op |-> call[c].op, rows |-> Listed(call[c].filter)])
    /\ UNCHANGED <<page, server, shown, filter, busy, err>>

\* The end of a load; of a press too, if it has waited for it.
Loaded(c) ==
    /\ busy' = IF page.awaits /\ call[c].row # NoRow THEN Unlocked(c) ELSE busy
    /\ Becomes(c, Idle)
    /\ UNCHANGED <<page, server, filter>>

Show(c) == call[c].at = "listed" /\ shown' = call[c].rows /\ Loaded(c) /\ UNCHANGED err

LoadFails(c) == call[c].at \in {"loading", "listed"} /\ err' = TRUE /\ Loaded(c) /\ UNCHANGED shown

\* Mutant of SelectLoads: the load that a new filter starts still asks with the old one.
SelectLoadsOld(c, f) == Becomes(c, Loading(filter))

\* The effect that follows a new filter.
SelectLoads(c, f) == Becomes(c, Loading(f))

\* Another filter, or the same one again by a Refresh or Search button.
Select(c, f) ==
    /\ call[c] = Idle
    /\ f # filter \/ page.filters = {filter}
    /\ filter' = f
    /\ SelectLoads(c, f)
    /\ err' = (err /\ ~page.says)
    /\ UNCHANGED <<page, server, shown, busy>>

Progress(c) ==
    \/ Accept(c)
    \/ Refuse(c)
    \/ Lose(c)
    \/ Fail(c)
    \/ Answer(c)
    \/ AnswerQuietly(c)
    \/ Read(c)
    \/ Show(c)
    \/ LoadFails(c)

Next ==
    \E c \in Calls :
        \/ \E r \in Rows, op \in DOMAIN page.drawn : Press(c, r, op)
        \/ \E form \in page.forms : Submit(c, form)
        \/ \E f \in page.filters : Select(c, f)
        \/ Progress(c)

Spec == Init /\ [][Next]_vars

-----------------------------------------------------------------------------
\* Presses of the same button, of the same row or of the page are never in flight
\* together, according to what the page locks (busy state of the pages).
OneCallPerLock ==
    \A c, d \in Calls : c # d /\ Pressed(c) /\ Pressed(d) =>
        CASE page.lock = "page"   -> FALSE
          [] page.lock = "row"    -> call[c].row # call[d].row
          [] page.lock = "button" -> \/ call[c].row # call[d].row
                                  \/ call[c].op # call[d].op
                                  \/ call[c].op \in page.free
          [] OTHER             -> TRUE

\* When nothing is in flight, the page shows the rows of its filter as they are in
\* the database, or an error message (load after a mutation).
CurrentOrError == Quiet /\ Reloads => err \/ shown = Listed(filter)

\* When nothing is in flight, no button is left disabled, whatever was lost and
\* however the presses overlapped (the finally of every handler).
NoButtonLeftLocked == Quiet => busy = {}
=============================================================================
