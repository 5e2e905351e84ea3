# Expensir in TLA+

Expensir is a Telegram bot that keeps a group's shared expenses: members log
expenses and settlements in ledgers, by slash command or in free text, every
change is an entry of a log that can be undone and redone, and a pinned board
shows who owes whom. These modules model its core, TLC checks them on small
instances, and TLAPS proves the safety of the books and of their sums, of proposals,
of the board, of registration, of the listing and of the delivery of updates for
every size.

Sources are named relative to `src/expensir/`. `PROJECT.json` maps every
definition to the lines it models.

## The system

| Part | State | Operations | Hard behaviour |
|---|---|---|---|
| Books (`domain/apply.py`, `ledgers.py`, `settle.py`) | ledgers and their status, the active pointer, expenses, settlements | add, settle, delete, edit; create, switch, archive, reopen a ledger | an operation lands in a ledger chosen earlier; the pointer must stay on an open ledger |
| Undo (`domain/undo.py`) | the action log: intent, before-image, undone mark | toggle any entry, at any time, in any order | restoring one entry must not override others; before-images age |
| Proposals (`core/handler.py`, `core/pending.py`) | the parked intent, its pinned ledger, its expiry | propose, confirm, cancel, pick, refine by reply, expire | each tap is a transaction that reads before it locks; names and descriptions change their meaning |
| Delivery (`transports/webhook.py`, `executor.py`) | claimed update ids | claim, dispatch, release, send | redelivery, crashes, failures before and after the commit |
| Polling (`transports/poll.py`) | an offset in memory | fetch, dispatch, advance | a restart begins at 0 |
| Board (`core/board.py`, `core/sheet.py`) | the board message of each ledger | create once, re-render, settle by tap | a creation decided on a stale row, edits out of order, stale amounts |
| Identity (`domain/identity.py`) | users, identities, membership | register, rename, leave, return, `/setup` | insert races, usernames that move, late messages |
| Rates (`domain/fx.py`, `convert.py`) | manual pins, the API cache | pin, clear, refresh | undo of a flip after a newer one, racing refreshes |
| Money (`allocate.py`, `balances.py`, `simplify.py`) | none | shares, replay, suggested transfers | rounding, remainders |
| Listing (`domain/transactions.py`) | the message that shows a page | pages by cursor | pages over a listing that changes |
| Language (`intents/`, `llm/`) | none | text to intent | the model answers anything, late or never |
| Shell (`telegram/`, `format/`, `config.py`, `logsetup.py`) | none | I/O, wording | failing sends |

**How they interact.** Telegram posts an update to the webhook. The webhook
claims its id in one transaction and calls `dispatch`, which runs one handler in
one database transaction (a message in free text waits for the language model in
the middle of its own) and returns the messages to send as data. They are sent
after the commit. Instances of the service run side by side and share only the
database. What serialises writers is `per_group_lock`, a PostgreSQL advisory
lock that a transaction holds to its end. Rows read before the lock stay as they
were read, except the group, which is refreshed.

What makes each part correct: the active pointer names an open ledger and
visibility, texts and marks follow from the log (books, undo); a proposal
commits once, to its ledger, what it showed (proposals); an update is committed
once and not lost (delivery); one board per ledger that ends up current, and a
tap that never pays what it did not show (board); a member appears once
(identity); a pin comes back as it was (rates); shares sum to the amount and
transfers settle all positions (money); a page shows nothing twice (listing).

## The modules

### Books

One group's books. Every operation holds the group lock for its whole
transaction, so it is one action. A refusal changes nothing and is no step.

| Model | Code |
|---|---|
| `status`, `active` | `Ledger.status`, `Group.active_ledger_id` |
| `log`, `made`, `undone` | the `actions` rows, their count, `undone_at` |
| `visible` | rows of `expenses` and `settlements` with `deleted_at` NULL, named by the action that created them |
| `text`, `edited` | `description` and `occurred_on`; the edit that `edited_at` dates from |
| `AddExpense` ... `UnarchiveLedger` | `_apply_*` and `record_settlement` |
| `SettleTap` | `_handle_settle_tap`, which asks for no open ledger |
| `Undo*`, `Redo*` | the branches of `_reverse` and `_reapply` |
| `settings` | `Group.home_currency`, `Ledger.logging_currency`, the manual pins: one slot each |
| `SetHomeCurrency`, `SetFxRate`, `ClearFxRate`, `SetLoggingCurrency` | the `_apply_*` of the flips, which store the value they replace |
| `UndoFlip`, `RedoFlip` | `_restore_*`: the stored value comes back, whatever was set since |
| `Refers`, `Reworded` | an intent names its expense, unless a description had several candidates when proposed and has one left: the others were hidden since, or an edit gave them other words |

A row's `expense` is what its intent names and 0 if it names none; `hit` is the
expense it really touched. The queries of `undo.py` see only the former, which
is why `DeletedStaysDeleted` fails and why the proved `VisibilityDerived` speaks
of both. A creation date is an id here: both order rows the same way. A pin
stands for the pins of all pairs, which do not touch one another.

### Proposals

One proposal and the taps and replies it gets. `Begin` reads the parked row, and one
of the other actions goes on from what was read; anything may happen between, other
taps included. Picks, replies and Cancel write the one row once, in one step. A
Confirm that goes through takes two: `ConfirmResolves` takes the group's lock, looks
at the ledger again and resolves the reference; `ConfirmRecords` reads who shares,
writes and commits. Whatever changes expenses or ledgers takes the lock too
(`LockFree`) and waits; registrations and departures take no lock
(`register_member`, `mark_left`) and fall between the two. Who comes or goes after the
members were read changes nothing of what is recorded, so that read and the commit
are one step. A delete of a row that is gone succeeds; an update of it fails the
transaction (`UpdateFails`).

`Candidates` is reference resolution: a name fits the members who bear it now, a
description the expenses that stand now, a pin exactly one, departed or not.
`preview` is what the message promised when last rendered; `Promise` of a
pick-list is empty. The environment lets members come and go, deletes and
restores expenses, archives and reopens the ledger, and lets the row expire.
Expiry is a mark on the row that a successful write removes.

Left out: a proposal whose message id is not recorded yet (no reply can reach
it), the order in which message edits arrive, intents of other kinds, which
resolve no reference or resolve it the same way, and the cap on pick buttons.

### Delivery

The webhook and Telegram around it. `Step` moves one delivery through its
handler: received, claimed, committed or failed, answered. Claim, dispatch and
release are three transactions, and a crash may come between any two. A dispatch
of free text may commit a registration before its last transaction fails; only
the last one counts as the commit. A dispatch that fails has not committed
(`DispatchFails`), which is what the webhook takes it to mean when it releases the
claim (`webhook.py:44-52`): a connection that is lost while COMMIT is answered, so
that nobody knows, is not modelled. Every update has an id; one without is processed
without a claim and is not modelled.

`Inbox` is what the webhook promises, without claims, handlers or faults: an
update takes effect at most once and is acknowledged when it took effect or is
excused. `ImplementsInbox` says that `Delivery` implements it, with `commits` for
the effects.

### Board

The board of one ledger, and a settle sheet of the same two people; what is owed
between them is one amount. A handler goes through stages: it waits for the lock
with the row it loaded (a tap or a read) or with none (a write, which loads the
row under the lock), perhaps sends a new board, commits, and sends its edits. A read
loads the row first and the balances in a later statement, which sees what was
committed in between, and goes on to the board only if it fetched rates.

| Model | Code |
|---|---|
| `due`, `open`, `board` | `suggested_transfers` of the pair, `Ledger.status`, `board_message_id` |
| `job[h].row`, `Fresh` | the `Ledger` object of the session: a second query does not refresh it |
| `Row`, `Mints` | `ledger` in `sync_board`, and its decision to create a board |
| `Read`, `FetchRates`, `FetchNothing` | `/balance`, `/settle_up` and `/refresh_rates`: the row, then the balances and rates (`handler.py:2335-2336`, `2237-2238`, `1542`) |
| `Applies`, `Toggles` | who finds nothing to do under the lock; Undo and Redo ask for no open ledger |
| `TapBoard`, `TapSheet`, `Matches` | `_handle_settle_tap`, `_handle_sheet_tap`, `_current_suggested` |
| `Send`, `SendFails`, `Rollback` | `_create_board`; a commit that fails after the board was sent |
| `Outbound`, `EditSheet`, `EditBoard`, `PinBoard` | the actions a handler returns, in the order `execute` performs them |
| `CallFails`, `Abandon` | an edit that is refused; the reply before the edits that raises, or a dead instance |

`version` and `mishaps` are not in the code: they count the changes of `due` and
record what went wrong, for the properties to speak of; a read is outrun when the
first board was recorded between its two statements. The IntegrityError
backstop of `_create_board` cannot be reached: Telegram gives a new message a new
id.

### Members

Registration as transactions of PostgreSQL under READ COMMITTED. A handler is a
list of statements (`Program`), each one step: reads see what is committed and
their own writes, an insert or update waits for whoever holds the row, the loser
of an insert goes on with the winner's row (the savepoints of `register_member`
and of the functions it calls), and of transactions that wait in a circle one is
aborted and delivered again. The advisory lock is one more row.

The return of a member who left (`left_at = None`, `identity.py:394`) is a pending
change of the session, written with its next query. In most updates that comes
before the lock (`FindMember`): a command's savepoint, the `session.get` of a Confirm,
the select of a [Settle] tap. In an Undo or Redo tap the next statement is the lock
itself, plain SQL that flushes nothing, so that the return is written when the group
is refreshed, under the lock (`FindReturning`, `undo.py:73-74`). `"command"` stands
for Confirm and [Settle] taps, too, and `"toggle"` for Undo and Redo.

`missed` remembers whose
membership a /setup did not find when it looked (it may name a person twice, by a
reply and by a mention, and looks again), `before` the queue for a row after an
abort.

### Money and Transactions

`Money` has no state: shares by largest remainder (`Allocate`), what everyone
owes (`Replay`), the suggested transfers (`Simplify`) and the credits a
settlement leaves (`OverpaymentCredit`), as functions and folds. `Transactions`
is one ledger as it is read: transactions come, go and return, and a listing
message pages over them by cursors. `Beyond`, `Overfetch` and `Exists` are the
SQL of `list_transactions`, which asks two tables for a row more than the page
has; `DeadEnd` is the reset of `_handle_tx_tap`.

## What TLC checks

| Run | Instance | Shows |
|---|---|---|
| `Books` | one of four mixes of entries: 5 about 3 ledgers; 4 about 2 ledgers with an expense and a settlement; 4 with up to 2 adds, 2 deletes and 2 edits; 4 with a flip of each kind and a settlement; the last two with a creation and a switch; 2 values per field, 2 currencies | `ActiveLedgerOpen`, `ArchivedExplained`, `ReopeningDoesNotActivate`; `VisibilityDerived`, `EditMarkDerived`, `FieldFollowsItsOnlyEdit`, `SettingFollowsItsOnlyFlip` |
| `Books_deleted` | 1 ledger, no flips | finding: a redo resurrects a deleted expense |
| `Books_shell` | 2 ledgers, an expense | finding: a transaction in an undone, archived ledger |
| `Proposals` | 2 taps, 3 people, 2 called Sam, 2 dinners, two wordings | `CommitsToOpenLedger`, `NothingGuessed`, `LaterTapsRecordNothing`, `PinsFitTheWords` |
| `Proposals_twice` | as above | finding: two overlapping Confirms both record |
| `Proposals_shown` | as above | finding: "everyone" is not who the preview named |
| `Delivery` | 2 updates, 2 deliveries in flight each, 3 faults | `ProcessedAtMostOnce`, `EventuallyAcked`, `NotDropped`, `ImplementsInbox` |
| `Delivery_swallowed` | 1 update, a failing dispatch, an impatient Telegram | finding: a retry is swallowed |
| `Transactions` | 4 people, 3 transactions out of 7 offers, 3 of which are refused, 2 instants, pages of one row | `BooksBalance`, `SharesFair`, `SuggestionsSettle`, `OverpaymentNoticed`; `WalkShowsOnce`, `WalkSkipsNothing`, `NeverStranded` |
| `Board` | 5 updates, 2 at a time, 1 failure, debts up to 2 | `NeverOverpaid`, `OneBoard`, `NoBoardOnceArchived`, `PinnedWasRecorded`, `BoardCatchesUp`, `EveryHandlerEnds` |
| `Board_outrun` | 3 updates, 2 at a time, no failure | finding: a read creates a second board |
| `Members` | 2 people, any 3 of 8 messages at once, 4 ways a group may begin | `RegisteredOnceHandled`, `DeadlockTakesAnother`, `OnlySelfReturns`, `LeaveSticks`, `EveryUpdateHandled` |

**Bounds.** The mixes say how many entries of each kind the log may hold, which is
what makes the books finite (`Fits`); toggles are not bounded, so every order of undo and redo of the logged entries is explored. Two
entries of a kind suffice for one to override the other, and three ledgers for a
pointer to be put back on a ledger while a third is the fallback. A setting needs
one flip of a kind, because the property speaks of a setting with one flip; the
second ledger is there to be active while the first one's setting is undone. Two taps
suffice for a race; a third tap would race with two that are decided. Three
faults suffice to fail an attempt, lose an answer and crash in one run.
`Proposals` is checked up to exchanging the taps, the two Sams and the two
dinners, which neither the module nor its wordings tell apart; it has no
liveness property. Five updates on a board are enough for a first write, a debt,
two taps on different surfaces and an archiving between; its proofs have no bound.
Pages of one row make every boundary of a page a boundary between transactions;
three rows at two instants give the stream a tie and both clocks an order of their
own. A read and a
first write are enough for the read to be outrun. Three transactions of members race for the rows of two people in all ways
that a circle of three can take. Deadlock is not an error: books, proposals,
boards and updates may all come to rest.

**Fairness.** `Delivery`: a handler that has begun goes on (the
process is scheduled, its database and HTTP calls end) and Telegram delivers
again what it has no 200 for and nobody handles: that is how webhooks of the Bot
API work, and the reason why the webhook answers 500. Faults are possible and
never fair, and finitely many (`MaxFaults`): a handler that fails for ever is
redelivered for ever, and nothing is promised for it. Nothing obliges Telegram to
redeliver while a delivery is being handled. `NotDropped` excuses an update for
exactly three reasons: a crash before the commit, a failed release, and a
redelivery acknowledged during an attempt. The first two leave the claim behind,
which the code says in its log; the third is the finding. `Inbox` is fair in that
each update takes effect or is excused, and Telegram learns of it.

`Board`: a handler that can go on does (weak fairness of `Proceed`), and whoever
waits for the advisory lock gets it if it is free again and again (strong fairness
of `Enter`), since PostgreSQL grants it in the order of its queue. Nobody is
obliged to tap, and nothing to fail. `Members`: the same, for each statement
(strong, because a row may be held and free in turn) and for the commits; the
deadlock detector is weakly fair. `before` is the queue: who waited for a row that
an aborted transaction gave up has it before that transaction tries again, without
which two of them could abort each other for ever.

Books, proposals and the listing have no liveness: nothing there must happen.

## What is proved

TLAPS proves, for every value of the constants that satisfies the modules'
assumptions, that the specification implies always:

| Module | Theorem | Property |
|---|---|---|
| `BooksProofs` | `TypeCorrect`, `ActiveLedgerAlwaysOpen`, `VisibilityAlwaysDerived` | `TypeOK`, `ActiveLedgerOpen`, `VisibilityDerived` |
| `BooksProofs` | `ArchivedAlwaysExplained`, `ReopeningNeverActivates` | `ArchivedExplained`, `ReopeningDoesNotActivate` |
| `BooksTextProofs` | `EditMarkAlwaysDerived`, `FieldAlwaysFollows`, `SettingAlwaysFollows` | `EditMarkDerived`, `FieldFollowsItsOnlyEdit`, `SettingFollowsItsOnlyFlip` |
| `DeliveryProofs` | `DeliveryTypeCorrect`, `AlwaysProcessedAtMostOnce` | `TypeOK`, `ProcessedAtMostOnce` |
| `DeliveryProofs` | `WebhookKeepsThePromise` | the safety half of `ImplementsInbox`: every step is a step of `Inbox` or none |
| `BoardProofs` | `BoardTypeCorrect`, `NobodyOverpays`, `LedgerHasOneBoard`, `ArchivedGetsNoBoard`, `OnlyBoardsArePinned`, `BoardNeverForgotten` | all invariants of the run |
| `ProposalsProofs` | `ProposalTypeCorrect`, `ProposalIsUsedUp`, `PinsAlwaysFit`, `CommitsToItsOpenLedger`, `NothingIsGuessed` | all properties of the run |
| `MembersProofs` | `TypeCorrect`, `RegisteredAlwaysOnceHandled`, `DeadlockAlwaysTakesAnother`, `OnlySelfEverReturns`, `LeaveAlwaysSticks` | all safety properties of the run |
| `TransactionsProofs` | `TypeCorrect`, `WalkAlwaysShowsOnce`, `WalkNeverSkips`, `NobodyEverStranded` | `TypeOK`, `WalkShowsOnce`, `WalkSkipsNothing`, `NeverStranded` |
| `TransactionsProofs` | `BooksAlwaysBalance`, `SharesAlwaysFair`, `SuggestionsAlwaysSettle`, `OverpaymentsAlwaysNoticed` | `BooksBalance`, `SharesFair`, `SuggestionsSettle`, `OverpaymentNoticed` |
| `MoneyProofs` | `AllocateIs`, `ReplayBalances`, `SimplifySettles` | what the operators of `Money` compute, for every argument |

**Books.** None of the first three is inductive alone. Undoing a switch puts the pointer
back on the ledger the log row names, so the row must name a ledger that exists;
that the fallback (`MostRecentOpen`) is not empty follows from the pointer being
on an open ledger before. `LogOK` states what a row of each kind says and that
rows up to `made` are the used ones, and `IInv` joins it to `TypeOK` and
`ActiveLedgerOpen`. Visibility is proved from `IInv` in a form without the derived
operators (`Flat`), one lemma per group of actions that can disturb it; undoing a
delete needs that the row's `expense`, when it is not 0, is its `hit`.

The rest of Books builds on `IInv`. A toggle works from what its row saved when it
was made, so each proof adds what rows saved. A ledger's archived status needs a
reason in the log (`Reason`), and `LogOK` is what keeps a toggle of one entry from
taking another ledger's reason away. The mark of an expense is the newest standing
edit that names it or a newer one that hit it (`MarkNewest`, `MarkStands`); the two
differ because an edit by description hits an expense it does not name. A field
edited once follows the edit because its before-image is the logged text
(`BeforeImages`), a setting flipped once because the stored value is the first one
(`FirstImages`); with two edits or flips the before-image of the second says what
the first one set, and nothing general is left to prove.

**Delivery.** At most one attempt at an update is undecided, it holds the claim,
and while it is undecided nothing is committed (`OneAttempt`); a claim stands for
an undecided attempt, a commit or an excuse (`ClaimExplained`); what was answered
with a 200 was committed or excused (`AnswersSettled`). The first two make a
second commit impossible, all three map every step to the promise.

**Board.** As long as no creation has failed, a ledger without a board has nothing
to tap, nothing owed and nothing to refresh (`Boardless`). A tap has a row with a
board, then, and so has a read that goes on to the lock, unless the board was
recorded between its row and its balances: it was outrun. While none was, only a
handler that loads the row under the lock creates a board, and it finds none. The
same fact shows that a change of what is owed edits the board that exists.
`BoardOnce` joins them; `JobsTidy`, `PinsRecorded` and `VersionsPast` say what a
handler may have left to do. It is proved under `Clean`, the condition that
`OneBoard` states; a failed creation, a rollback or an outrun read ends `Clean` for
good, and `Board_outrun` shows that the last is needed.

**Proposals.** `UsedUp`: once a tap has recorded, the row is gone, and nothing brings
it back, so whoever reads the row does so before anything is recorded. `WordsKept`:
an intent that a tap has read or that is in the row is one somebody said, or one
whose reference was narrowed to a candidate of those words; a candidate of a
narrowed reference is the reference itself, so this survives any order of picks
and corrections. `Held`: while a Confirm has the lock, the ledger it looked at is
open and what it found for a delete is the only expense that fits, because whatever
would change either waits for the lock. `CommitsToOpenLedger` and `NothingGuessed`
follow for the step that records, whatever members do meanwhile; the second needs
that a group has finitely many members and expenses (`ReferenceAssumption`), and
claims nothing of members, who need no lock. The findings say what none of this
gives: two overlapping Confirms both record.

**Members.** The invariant says of each handler how the statements it has left, the
rows it wrote and the message it handles belong together, and a lemma for each part
shows that every statement keeps it. `Shape`: a membership is looked for right after
its identity was written, and a departure comes last. `Ordered` and `Linked`: what is
written refers to an identity and a group that are known, by the transaction's own
writes or by a commit, and commits never take anything away. `Registers`: for whoever
is to be registered there is a membership, or a statement left that will find or
insert it; the loser of an insert keeps this because the winner has committed.
`Entitled` and `Leaves` carry `OnlySelfReturns` and `LeaveSticks` from the statement
that writes to the commit. `Climbs`: an update that registers its author only has
written rows below the one it asks for, in the order group, identity, membership,
lock; a circle of such updates would climb without end, and there are four levels.
`Returns` marks the one exception, the late return of an Undo or Redo tap, which asks
for a membership with the lock in hand, and which `DeadlockTakesAnother` names.
A transaction that begins, the first time or after an abort, satisfies all of them
(`Fresh`), and a handler that a step leaves alone keeps them (`Undisturbed`). The
assumptions are the contents of messages and a database that respects its foreign
keys at the start.

**Transactions.** The stream is a strict order because row ids grow in each table
(`RowsGrow`; instants need not). In a finite strict order the places 0 .. n-1 are
each taken by one member (`PlaceTaken`), so `InOrder` lists a page without gap or
repetition. `Cut` is why one row more than a page from each table is enough: a row
that its table did not give has PageSize + 1 of its own table before it, so the
page is full without it, ends before it, and knows that there is more. The walk keeps
what was shown before the row that [Older] goes on from (`Walked`), and what stood all
along and was not shown behind it, with a button (`Left`); both survive insertions
anywhere in the stream, and deletions of that very row, because it is compared with
and not looked up. `PageOK` gives every button a row to go on from. It holds for
pages of any size and any number of transactions and instants.

**Money.** What a fold computes is an induction over the subsets of a finite set.
The library's induction theorems take a predicate, which the provers cannot
instantiate; `SubsetInduction` has a set of good subsets in its place, and its least
counterexample comes from `WFMin`. `SumStep` then frees a sum from the order in which
its members are picked, and the other facts about sums follow. *Shares:* the
remainders are below the total weight W and sum to W times the units left over, so at
least that many people have a remainder (`Enough`); those who have one come first in
the order, so whoever gets a unit more has a remainder, and no share is a whole unit
off. *Balances:* what one transaction moves sums to zero (`DeltaIs`), hence any set of
them. *Suggestions:* in each round what is left and what has been paid make up the
positions, nobody passes zero, and each transfer closes a position, the last one two
(`Settling`); as positions that sum to zero and are not all closed have a debtor and a
creditor, no more rounds than people are needed. *Credits:* when everyone is square,
undoing an expense gives each the credit of their share, capped by what they paid.
`Transactions` adds that every row was made by an accepted offer. Assumed
(`PeopleAssumption`, `OffersAssumption`): finitely many people, parties among them,
whole amounts, and no ties in a rank. What `allocate` and `_apply_settle_up` refuse,
the model refuses.

**Only model-checked.** All liveness, which needs fairness and ENABLED and is out of
TLAPS's reach: `NotDropped`, `EventuallyAcked`, `EveryHandlerEnds`,
`EveryUpdateHandled`, the liveness of `ImplementsInbox`.

## What the models show beyond the runs

Six findings are runs of their own. While modelling, these came up too:

- `OneBoard` needs both its conditions. After a creation that failed, a ledger owes
  something and has no board; a sheet tap or a read loads its row, waits for the
  lock while a write creates the board, and creates a second one by the stale row.
  Without any failure a read that is outrun does the same (`Board_outrun`).
- A Confirm resolves names, reads the members who share and commits in separate
  statements (`apply.py:188`, `274`), and no lock keeps members from joining or
  leaving between them: a name that was unique may be ambiguous at the commit, and
  whoever leaves after the members were read is charged. `NothingGuessed` claims what
  the lock does give.
- Updates that register only their author can deadlock: a returning member's command
  writes the membership and waits for the lock, while their Undo tap has the lock
  and writes the membership. One is aborted and delivered again.
- A comment (`handler.py:2396`) says that the refresh of a read cannot race the
  board edit of a write. It holds the lock while it renders, but both edits are
  sent after the lock is gone: the older rendering may land last, which
  `BoardCatchesUp` names as a mishap.
- A reply that cannot be sent ends `execute`: the edits after it are not sent.
- Undoing the older of two flips after the newer leaves the setting at a value no
  standing flip has set; undoing and redoing the older one overrides the newer.
  `SettingFollowsItsOnlyFlip` claims what is left: with one flip of a setting
  standing or undone, the setting follows it.
- A /setup looks for a membership and registers by a later read. A target who
  registers, and even leaves, between the two comes back or loses the name they
  gave (`identity.py:332`); `OnlySelfReturns` has this exception.
- The suggestions settle everything in fewer transfers than people, but not in the
  fewest, although ADR-0002 and `CONTEXT.md` call them one of possibly several minimal
  solutions: the positions -5, -4, -4, 5, 8 get four transfers, and three suffice. Nor
  need settling a line that is not the first shorten the list: of the positions
  -5, -5, 3, 3, 4, with four lines, the debtor of 3 who comes last pays the 1 suggested
  to the first creditor, and four lines are left. What is open falls all the same,
  as no line pays more than either side has open (`SuggestionsSettle`).
- Two reads that fetch rates insert them in the order of a set, so they can wait
  for each other in a circle; one is aborted and its update delivered again.

## What is not modelled

Polling (`transports/poll.py`) is a sequential loop for local development without
a claim; a restart repeats what was not yet confirmed, and nothing in the
repository promises otherwise. The cache of exchange rates is for display: nothing
recorded depends on it. Of proposals: the window between sending one and recording
its message id, in which a reply does not find it; the answers to Cancel; other
intents. Usernames that move between people, the encoding of cursors, two pager
taps whose edits land out of order, boards with several lines. The formats of the language and vision
models, the parsing of commands, amounts and currencies, wording, rendering, the
Telegram client, configuration and start-up have no state that a property could
relate to another. Export and import, the feed, absorbing the starter ledger and
the move to a supergroup are described in `docs/` and have no code at this commit.
