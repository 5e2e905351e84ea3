-------------------------------- MODULE Board --------------------------------
(***************************************************************************)
(* The board of one ledger (core/board.py) and the settle sheet             *)
(* (core/sheet.py): messages that show what one member owes another, with  *)
(* a button that settles it.  Every write of the ledger brings its board   *)
(* in line: a missing board is sent and recorded under the group's lock,   *)
(* an existing one is edited after the commit, as well as that goes.       *)
(*                                                                         *)
(* What is owed is one amount: between two people the suggested transfer   *)
(* is the balance (see Money).  A button carries the amount it shows, and  *)
(* a tap may be handled long after.  Handlers run in any instance, and     *)
(* each statement of a transaction sees what is committed when it runs     *)
(* (READ COMMITTED), but a row that was loaded stays as it was loaded.     *)
(***************************************************************************)
EXTENDS Integers, FiniteSets, Sequences

CONSTANTS
  Handlers,    \* updates that are handled together
  MaxDue,      \* bound: what a write may leave owed
  MaxJobs,     \* bound: updates that are handled
  MaxFaults    \* bound: how often anything goes wrong

ASSUME BoardAssumption == MaxDue \in Nat /\ MaxJobs \in Nat /\ MaxFaults \in Nat

VARIABLES
  due,         \* what is owed, as committed
  open,        \* the ledger is open; otherwise it is archived
  board,       \* the message recorded as the ledger's board, 0 if none is
  version,     \* how often what is owed has changed
  lock,        \* the handlers that hold the group's advisory lock: at most one
  stage, job,  \* of each handler: how far it is, and with what
  boards,      \* the board messages of the chat: what each shows, as of which version
  sheet,       \* what the settle sheet shows
  pinned,      \* board messages that are pinned
  recorded,    \* board messages that were ever committed to the ledger's row
  begun, faults, mishaps   \* counts for the bounds, and what went wrong

ledger   == <<due, open, board, version>>
chat     == <<boards, sheet, pinned>>
vars     == <<ledger, lock, stage, job, chat, recorded, begun, faults, mishaps>>

Amounts  == 0 .. MaxDue
Balances == -MaxDue .. MaxDue

Writes == {"write", "archive", "reopen"}
Taps   == {"board", "sheet"}

\* The row of the ledger as its handler loaded it, or that it was not loaded yet.
Fresh == [board |-> -1, open |-> FALSE]

\* What is sent after the commit: an edit of the sheet, an edit and a pin of a
\* board message (0 for none), and what the edits show, as of which version.
NoEdits == [sheet |-> FALSE, edit |-> 0, pin |-> 0, shown |-> 0, version |-> 0]

NoJob == [op |-> "none", token |-> 0, row |-> Fresh, sent |-> 0, out |-> NoEdits]

Waiting(op, token, row) ==
  [op |-> op, token |-> token, row |-> row, sent |-> 0, out |-> NoEdits]

Locked(h) == stage[h] \in {"minting", "working"}

Messages == 1 .. Len(boards)
Message  == [shown : Balances, version : Nat, open : BOOLEAN]

LedgerRow == [board : 0 .. Len(boards), open : BOOLEAN]
Edits     == [sheet : BOOLEAN, edit : 0 .. Len(boards), pin : 0 .. Len(boards),
              shown : Balances, version : Nat]

Stages == {"idle", "loading", "waiting", "minting", "working", "sending"}
Job == [op    : {"none", "read"} \cup Writes \cup Taps,
        token : Amounts,
        row   : {Fresh} \cup LedgerRow,
        sent  : 0 .. Len(boards),
        out   : Edits]

\* What can go wrong: the creation of a board, a transaction, an edit; an edit
\* can be overtaken, and a read be outrun by the first board of its ledger.
Mishaps == {"create", "rollback", "edit", "order", "outrun"}

TypeOK ==
  /\ due \in Balances /\ open \in BOOLEAN /\ version \in Nat
  /\ boards \in Seq(Message) /\ board \in 0 .. Len(boards)
  /\ stage \in [Handlers -> Stages]
  /\ job \in [Handlers -> Job]
  /\ \A h \in Handlers : Locked(h) <=> lock = {h}
  /\ sheet \in Balances /\ pinned \subseteq Messages /\ recorded \subseteq Messages
  /\ begun \in 0 .. MaxJobs /\ faults \in 0 .. MaxFaults
  /\ mishaps \subseteq Mishaps

Init == /\ due = 0 /\ open = TRUE /\ board = 0 /\ version = 0
        /\ lock = {}
        /\ stage = [h \in Handlers |-> "idle"] /\ job = [h \in Handlers |-> NoJob]
        /\ boards = <<>> /\ sheet = 0 /\ pinned = {} /\ recorded = {}
        /\ begun = 0 /\ faults = 0 /\ mishaps = {}

GoesWrong(what) == /\ faults < MaxFaults /\ faults' = faults + 1
                   /\ mishaps' = mishaps \cup {what}

NothingWrong == UNCHANGED <<faults, mishaps>>

-----------------------------------------------------------------------------
(* An update arrives; what is read here is read before the lock is taken *)

FirstStage(op) == IF op = "read" THEN "loading" ELSE "waiting"

Begin(h, op, token, row) ==
  /\ stage[h] = "idle"
  /\ begun < MaxJobs /\ begun' = begun + 1
  /\ stage' = [stage EXCEPT ![h] = FirstStage(op)]
  /\ job' = [job EXCEPT ![h] = Waiting(op, token, row)]
  /\ UNCHANGED <<ledger, lock, chat, recorded>> /\ NothingWrong

LoadedRow == [board |-> board, open |-> open]

\* Variant: a write, too, loads the row before it takes the lock.
RowBeforeLock == LoadedRow

RowOfWrite == Fresh

\* Anything that changes what is owed, to the amount token.
Write(h)   == \E token \in Amounts : Begin(h, "write", token, RowOfWrite)
Archive(h) == Begin(h, "archive", 0, RowOfWrite)
Reopen(h)  == Begin(h, "reopen", 0, RowOfWrite)

\* A read loads the row of the active ledger, and then, in a statement of its own,
\* the balances.
Read(h) == open /\ Begin(h, "read", 0, LoadedRow)

\* It fetched new rates for what the balances are in, even if they are zero, and
\* goes on to refresh the board.
FetchRates(h) ==
  /\ stage[h] = "loading"
  /\ version > 0
  /\ stage' = [stage EXCEPT ![h] = "waiting"]
  /\ mishaps' = IF job[h].row.board = 0 /\ board # 0
                THEN mishaps \cup {"outrun"} ELSE mishaps
  /\ UNCHANGED <<ledger, lock, job, chat, recorded, begun, faults>>

\* Nothing is recorded, or the rates it had are of today.
FetchNothing(h) ==
  /\ stage[h] = "loading"
  /\ stage' = [stage EXCEPT ![h] = "idle"] /\ job' = [job EXCEPT ![h] = NoJob]
  /\ UNCHANGED <<ledger, lock, chat, recorded, begun>> /\ NothingWrong

\* The tapped message names the ledger: a message that is not recorded is refused.
TapBoard(h) == /\ board # 0 /\ boards[board].shown > 0
               /\ Begin(h, "board", boards[board].shown, LoadedRow)

\* The button of a sheet names the ledger itself.
TapSheet(h) == sheet > 0 /\ Begin(h, "sheet", sheet, LoadedRow)

ShowSheet == /\ begun < MaxJobs /\ begun' = begun + 1
             /\ due > 0 /\ sheet' = due
             /\ UNCHANGED <<ledger, lock, stage, job, boards, pinned, recorded>>
             /\ NothingWrong

-----------------------------------------------------------------------------
(* Under the lock *)

\* Variant: a tap pays if anything is owed.
StillOwed(h) == due > 0

\* The token is compared with what is suggested now.
Matches(h) == job[h].token = due

\* What is owed, and whether the ledger is open, once h has committed.
DueAfter(h) == CASE job[h].op = "write" -> job[h].token
                 [] job[h].op \in Taps /\ Matches(h) -> due - job[h].token
                 [] OTHER -> due

OpenAfter(h) == IF job[h].op \in {"archive", "reopen"} THEN job[h].op = "reopen" ELSE open

Row(h) == IF job[h].row = Fresh THEN [board |-> board, open |-> OpenAfter(h)] ELSE job[h].row

\* Variant: a settlement from the sheet leaves the board alone.
SyncsAllButSheets(h) == job[h].op # "sheet" /\ (job[h].op = "read" => open)

\* A stale sheet tap refreshes the sheet only; a read refreshes the active ledger,
\* which an archived one is not.
Syncs(h) == /\ job[h].op = "sheet" => Matches(h)
            /\ job[h].op = "read" => open

\* Variant: a board is created for an archived ledger, too.
MintsAlways(h) == Syncs(h) /\ Row(h).board = 0

Mints(h) == Syncs(h) /\ Row(h).board = 0 /\ Row(h).open

\* What was recorded can be undone and redone, in an archived ledger too.
Toggles == version > 0

Applies(h) == CASE job[h].op = "write" -> open \/ Toggles
                [] job[h].op = "archive" -> open
                [] job[h].op = "reopen" -> ~ open
                [] OTHER -> TRUE

VersionAfter(h) == IF DueAfter(h) = due THEN version ELSE version + 1

Enter(h) ==
  /\ stage[h] = "waiting" /\ lock = {}
  /\ IF Applies(h)
     THEN /\ lock' = {h}
          /\ stage' = [stage EXCEPT ![h] = IF Mints(h) THEN "minting" ELSE "working"]
          /\ UNCHANGED job
     ELSE /\ stage' = [stage EXCEPT ![h] = "idle"] /\ job' = [job EXCEPT ![h] = NoJob]
          /\ UNCHANGED lock
  /\ UNCHANGED <<ledger, chat, recorded, begun>> /\ NothingWrong

Sent(h) ==
  /\ stage[h] = "minting"
  /\ stage' = [stage EXCEPT ![h] = "working"]
  /\ boards' = Append(boards, [shown |-> DueAfter(h), version |-> VersionAfter(h),
                             open |-> OpenAfter(h)])
  /\ job' = [job EXCEPT ![h].sent = Len(boards) + 1]
  /\ UNCHANGED <<ledger, lock, sheet, recorded, begun>> /\ NothingWrong

\* Variant: the new board is pinned at once.
SendAndPin(h) == Sent(h) /\ pinned' = pinned \cup {Len(boards) + 1}

Send(h) == Sent(h) /\ UNCHANGED pinned

SendFails(h) ==
  /\ stage[h] = "minting"
  /\ stage' = [stage EXCEPT ![h] = "working"]
  /\ GoesWrong("create")
  /\ UNCHANGED <<ledger, lock, job, chat, recorded, begun>>

\* What is left to do after the commit.
Outbound(h) == [sheet   |-> job[h].op = "sheet",
                edit    |-> IF Syncs(h) THEN Row(h).board ELSE 0,
                pin     |-> job[h].sent,
                shown   |-> DueAfter(h),
                version |-> VersionAfter(h)]

\* h has out left to do.
Left(h, out) ==
  LET done == ~ out.sheet /\ out.edit = 0 /\ out.pin = 0
  IN /\ stage' = [stage EXCEPT ![h] = IF done THEN "idle" ELSE "sending"]
     /\ job' = [job EXCEPT ![h] = IF done THEN NoJob ELSE [NoJob EXCEPT !.out = out]]

Commit(h) ==
  /\ stage[h] = "working"
  /\ due' = DueAfter(h) /\ open' = OpenAfter(h) /\ version' = VersionAfter(h)
  /\ board' = IF job[h].sent = 0 THEN board ELSE job[h].sent
  /\ recorded' = recorded \cup ({job[h].sent} \ {0})
  /\ lock' = {}
  /\ Left(h, Outbound(h))
  /\ UNCHANGED <<chat, begun>> /\ NothingWrong

\* Variant: the lock outlives a transaction that fails.
RollbackHoldingLock(h) ==
  /\ stage[h] = "working"
  /\ GoesWrong("rollback")
  /\ stage' = [stage EXCEPT ![h] = "idle"]
  /\ UNCHANGED <<ledger, lock, job, chat, recorded, begun>>

\* The transaction fails or the instance dies: the board that was sent is a stray.
Rollback(h) ==
  /\ Locked(h)
  /\ GoesWrong("rollback")
  /\ lock' = {}
  /\ Left(h, NoEdits)
  /\ UNCHANGED <<ledger, chat, recorded, begun>>

-----------------------------------------------------------------------------
(* After the commit, in this order; edits of several handlers reach the chat *)
(* in any order                                                              *)

Sending(h) == stage[h] = "sending" /\ UNCHANGED <<ledger, lock, recorded, begun>>

EditSheet(h) ==
  /\ Sending(h)
  /\ job[h].out.sheet
  /\ sheet' = job[h].out.shown
  /\ Left(h, [job[h].out EXCEPT !.sheet = FALSE])
  /\ UNCHANGED <<boards, pinned>> /\ NothingWrong

EditBoard(h) ==
  LET out == job[h].out
      m == out.edit
  IN /\ Sending(h)
     /\ ~ out.sheet /\ m # 0
     /\ boards' = [boards EXCEPT ![m] = [shown |-> out.shown, version |-> out.version,
                                        open |-> boards[m].open]]
     /\ mishaps' = IF out.version < boards[m].version
                   THEN mishaps \cup {"order"} ELSE mishaps
     /\ Left(h, [out EXCEPT !.edit = 0])
     /\ UNCHANGED <<sheet, pinned, faults>>

PinBoard(h) ==
  /\ Sending(h)
  /\ ~ job[h].out.sheet /\ job[h].out.edit = 0
  /\ pinned' = pinned \cup {job[h].out.pin}
  /\ Left(h, NoEdits)
  /\ UNCHANGED <<boards, sheet>> /\ NothingWrong

\* Whichever call fails, the next one is made.
CallFails(h) ==
  LET out == job[h].out
  IN /\ Sending(h)
     /\ GoesWrong("edit")
     /\ Left(h, CASE out.sheet -> [out EXCEPT !.sheet = FALSE]
                  [] ~ out.sheet /\ out.edit # 0 -> [out EXCEPT !.edit = 0]
                  [] OTHER -> NoEdits)
     /\ UNCHANGED chat

\* The reply, which is sent before all this, fails, or the instance dies.
Abandon(h) ==
  /\ Sending(h)
  /\ GoesWrong("edit")
  /\ Left(h, NoEdits)
  /\ UNCHANGED chat

Arrive(h)  == Write(h) \/ Archive(h) \/ Reopen(h) \/ Read(h) \/ TapBoard(h) \/ TapSheet(h)
Load(h)    == FetchRates(h) \/ FetchNothing(h)
Execute(h) == EditSheet(h) \/ EditBoard(h) \/ PinBoard(h)
Proceed(h) == Load(h) \/ Send(h) \/ Commit(h) \/ Execute(h)
Fail(h)    == SendFails(h) \/ Rollback(h) \/ CallFails(h) \/ Abandon(h)

Next == \/ ShowSheet
        \/ \E h \in Handlers : Arrive(h) \/ Enter(h) \/ Proceed(h) \/ Fail(h)

\* A handler that may go on does, and the lock is granted to those who queue for
\* it in turn; nobody is obliged to tap, and nothing to fail.
Fairness == \A h \in Handlers : WF_vars(Proceed(h)) /\ SF_vars(Enter(h))

Spec == Init /\ [][Next]_vars /\ Fairness

-----------------------------------------------------------------------------
(* Properties *)

\* However taps on boards and sheets, old and new, and writes interleave, nobody
\* pays what is no longer owed: a button pressed twice, or one from each message,
\* settles a debt once (ADR-0006).
NeverOverpaid == due >= 0

\* A ledger has one board (ADR-0003), for any interleaving of first writes, taps
\* and reads: taps and reads decide by a row they loaded before they had the lock.
\* What it takes is that no creation failed before, and that no read was outrun:
\* that no board was recorded between its loading the row and its balances.
OneBoard == Len(boards) > 1 => mishaps \cap {"create", "rollback", "outrun"} # {}

\* What the documents claim: "guarded by the per-group lock ... so only one board
\* is ever created" (ARCHITECTURE-v2.md:860-861).  A read that was outrun makes a
\* second one although nothing fails.
OnlyOneBoard == Len(boards) <= 1

\* A board is not minted for an archived ledger, not even by a tap or a read that
\* was under way when it was archived, unless a creation failed before.
NoBoardOnceArchived ==
  (\E m \in Messages : ~ boards[m].open) => mishaps \cap {"create", "rollback"} # {}

\* A failed commit strands at worst an unpinned message, never a pinned one
\* (board.py): what is pinned was the ledger's board.
PinnedWasRecorded == pinned \subseteq recorded

\* The board shows what is owed or an edit that will make it show that is under
\* way, whoever changed it and from which message, unless an edit failed or was
\* overtaken by one rendered before it, or a creation failed.
BoardCatchesUp ==
  mishaps = {} /\ version > 0 =>
    \/ boards[board].version = version
    \/ \E h \in Handlers : job[h].out.edit = board /\ job[h].out.version = version

\* No tap, read or write waits for ever for the lock or for another handler,
\* whatever fails in those before it.
EveryHandlerEnds == \A h \in Handlers : stage[h] # "idle" ~> stage[h] = "idle"
=============================================================================
