----------------------------- MODULE BooksProofs -----------------------------
(***************************************************************************)
(* What holds of Books for any number of ledgers, actions and texts.       *)
(*                                                                         *)
(* The argument rests on LogOK, what the rows of the log promise to the    *)
(* toggles that read them later: an undo or a redo finds the ledger, the   *)
(* pointer and the expense its row names still there.                      *)
(***************************************************************************)
EXTENDS Books, TLAPS

LedgerKinds == {"new_ledger", "switch_ledger", "archive_ledger", "unarchive_ledger"}

\* Row r, where st are the statuses of the ledgers and E the expenses.
RowOK(r, st, E) ==
  /\ r.kind \in LedgerKinds => r.ledger \in Ledgers /\ st[r.ledger] # "none"
  /\ r.kind = "new_ledger" => r.previous \in Ledgers \ {r.ledger}
  /\ r.kind = "switch_ledger" => r.previous \in Ledgers
  /\ r.kind = "archive_ledger" => r.previous \in {0, r.ledger}
  /\ r.kind \in {"delete_expense", "edit_expense"} => r.hit \in E /\ r.expense \in {0, r.hit}

LogOK ==
  /\ undone \subseteq 1 .. made
  /\ \A a \in ActionIds : /\ log[a].kind # "none" <=> a <= made
                          /\ RowOK(log[a], status, Expenses)

IInv == TypeOK /\ LogOK /\ ActiveLedgerOpen

\* An action that appends a row adds the row made' and leaves the others.
LEMMA RowAppended ==
  ASSUME TypeOK, NEW row \in Action, Append(row)
  PROVE  /\ made' = made + 1 /\ made' \in ActionIds /\ made' \in 0 .. MaxActions
         /\ log' \in [ActionIds -> Action]
         /\ log'[made'] = row
         /\ \A a \in ActionIds : a # made' => log'[a] = log[a]
<1>1. made' = made + 1 /\ made' \in ActionIds /\ made' \in 0 .. MaxActions
  BY BoundsAssumption DEF Append, TypeOK, ActionIds
<1>2. log' = [log EXCEPT ![made'] = row]
  BY <1>1 DEF Append
<1> QED BY <1>1, <1>2 DEF TypeOK

LEMMA NoChangeType == NoChange \in Changes
BY DEF NoChange, Changes

LEMMA NoActionType == NoAction \in Action
BY NoChangeType DEF NoAction, Action, Settable

LEMMA LedgerRowType ==
  ASSUME NEW k \in Kinds, NEW l \in Ledgers, NEW p \in Ledgers \cup {0}
  PROVE  /\ LedgerRow(k, l, p) \in Action
         /\ LedgerRow(k, l, p).kind = k /\ LedgerRow(k, l, p).ledger = l
         /\ LedgerRow(k, l, p).previous = p
BY NoActionType DEF LedgerRow, Action

LEMMA ExpenseRowType ==
  ASSUME NEW k \in Kinds, NEW l \in Ledgers \cup {0}, NEW n \in ActionIds \cup {0},
         NEW e \in ActionIds \cup {0}, NEW c \in Changes, NEW b \in Changes
  PROVE  /\ ExpenseRow(k, l, n, e, c, b) \in Action
         /\ ExpenseRow(k, l, n, e, c, b).kind = k /\ ExpenseRow(k, l, n, e, c, b).ledger = l
         /\ ExpenseRow(k, l, n, e, c, b).expense = n /\ ExpenseRow(k, l, n, e, c, b).hit = e
BY NoActionType DEF ExpenseRow, Action

LEMMA EditRowType ==
  ASSUME NEW l \in Ledgers \cup {0}, NEW e \in ActionIds, NEW n \in {0, e},
         NEW c \in Changes, NEW b \in Changes
  PROVE  /\ ExpenseRow("edit_expense", l, n, e, c, b) \in Action
         /\ ExpenseRow("edit_expense", l, n, e, c, b).kind = "edit_expense"
<1>1. "edit_expense" \in Kinds /\ n \in ActionIds \cup {0} /\ e \in ActionIds \cup {0}
  BY DEF Kinds
<1> QED BY <1>1, NoActionType DEF ExpenseRow, Action

LEMMA FlipRowType ==
  ASSUME NEW k \in Kinds, NEW l \in Ledgers, NEW c \in Settable, NEW b \in Settable
  PROVE  /\ FlipRow(k, l, c, b) \in Action
         /\ FlipRow(k, l, c, b).kind = k /\ FlipRow(k, l, c, b).ledger = l
BY NoActionType DEF FlipRow, Action

LEMMA SlotType ==
  ASSUME NEW k \in Kinds, NEW l \in Ledgers PROVE Slot(k, l) \in Slots
BY DEF Slot, Slots

LEMMA OverlayType ==
  ASSUME NEW t \in Changes, NEW c \in Changes
  PROVE  Overlay(t, c) \in Changes /\ Displaced(t, c) \in Changes
BY DEF Overlay, Displaced, Changes

LEMMA TextsAreChanges == Texts \subseteq Changes
BY DEF Texts, Changes

LEMMA LatestIn == ASSUME NEW S, NEW x \in Latest(S) PROVE x \in S /\ \A y \in S : y <= x
BY DEF Latest

LEMMA EditMarkIn == ASSUME NEW S, NEW m \in EditMark(S) PROVE (S = {} /\ m = 0) \/ m \in S
BY LatestIn DEF EditMark

-----------------------------------------------------------------------------
(* A step keeps the log in order *)

\* Ledgers are never taken back.
LedgersStay == \A l \in Ledgers : status[l] # "none" => status'[l] # "none"

LEMMA RowStaysOK ==
  ASSUME NEW r \in Action, NEW E, NEW F, E \subseteq F, LedgersStay, RowOK(r, status, E)
  PROVE  RowOK(r, status', F)
BY DEF RowOK, LedgersStay

LEMMA AppendKeepsLog ==
  ASSUME TypeOK, LogOK, NEW row \in Action, Append(row), UNCHANGED undone, LedgersStay,
         row.kind # "none", RowOK(row, status', Expenses)
  PROVE  LogOK'
<1>1. /\ made' = made + 1 /\ made' \in ActionIds
      /\ log' \in [ActionIds -> Action]
      /\ log'[made'] = row
      /\ \A a \in ActionIds : a # made' => log'[a] = log[a]
  BY RowAppended
<1>2. made \in Nat /\ ActionIds \subseteq Nat
  BY BoundsAssumption DEF TypeOK, ActionIds
<1>3. log[made'].kind = "none"
  BY <1>1, <1>2 DEF LogOK
<1>4. Expenses \subseteq Expenses'
  BY <1>1, <1>3 DEF Expenses, OfKind
<1>5. undone' \subseteq 1 .. made'
  BY <1>1, <1>2 DEF LogOK
<1>6. ASSUME NEW a \in ActionIds
      PROVE  (log'[a].kind # "none" <=> a <= made') /\ RowOK(log'[a], status', Expenses')
  <2>1. CASE a = made'
    <3>1. row.kind # "none" <=> made' <= made'
      BY <1>1, <1>2
    <3>2. RowOK(row, status', Expenses')
      BY <1>4 DEF RowOK
    <3> QED BY <1>1, <2>1, <3>1, <3>2
  <2>2. CASE a # made'
    <3>1. log[a] \in Action /\ log'[a] = log[a] /\ RowOK(log[a], status, Expenses)
      BY <1>1, <2>2 DEF LogOK, TypeOK
    <3>2. RowOK(log'[a], status', Expenses')
      BY <1>4, <3>1, RowStaysOK
    <3>3. log[a].kind # "none" <=> a <= made
      BY DEF LogOK
    <3>4. a <= made' <=> a <= made
      BY <1>1, <1>2, <2>2
    <3> QED BY <3>1, <3>2, <3>3, <3>4
  <2> QED BY <2>1, <2>2
<1> QED BY <1>5, <1>6 DEF LogOK

LEMMA ToggleKeepsLog ==
  ASSUME TypeOK, LogOK, UNCHANGED <<log, made>>, LedgersStay,
         NEW a \in ActionIds, log[a].kind # "none", undone' \subseteq undone \cup {a}
  PROVE  LogOK'
<1>1. undone' \subseteq 1 .. made'
  BY DEF LogOK, ActionIds
<1>2. Expenses' = Expenses
  BY DEF Expenses, OfKind
<1>3. ASSUME NEW b \in ActionIds
      PROVE  (log'[b].kind # "none" <=> b <= made') /\ RowOK(log'[b], status', Expenses')
  <2>1. log[b] \in Action /\ log'[b] = log[b] /\ RowOK(log[b], status, Expenses)
    BY DEF LogOK, TypeOK
  <2>2. RowOK(log'[b], status', Expenses')
    BY <1>2, <2>1, RowStaysOK
  <2>3. log[b].kind # "none" <=> b <= made
    BY DEF LogOK
  <2> QED BY <2>1, <2>2, <2>3
<1> QED BY <1>1, <1>3 DEF LogOK
-----------------------------------------------------------------------------
(* Every action keeps the invariant *)

LEMMA InitIInv == Init => IInv
<1> SUFFICES ASSUME Init PROVE IInv
  OBVIOUS
<1>1. 1 \in Ledgers /\ 0 \in 0 .. MaxActions
  BY BoundsAssumption DEF Ledgers
<1>2. NoAction \in Action /\ NoChange \in Changes /\ Unset \in Settable
  BY NoActionType, NoChangeType DEF Settable
<1>3. TypeOK
  BY <1>1, <1>2 DEF Init, TypeOK
<1>4. LogOK
  BY BoundsAssumption DEF Init, LogOK, RowOK, NoAction, ActionIds, LedgerKinds
<1>5. ActiveLedgerOpen
  BY <1>1 DEF Init, ActiveLedgerOpen
<1> QED BY <1>3, <1>4, <1>5 DEF IInv

LEMMA AddExpenseIInv ==
  ASSUME IInv, NEW l \in Ledgers, NEW t \in FirstTexts, AddExpense(l, t) PROVE IInv'
<1> DEFINE row == ExpenseRow("add_expense", l, 0, 0, t, NoChange)
<1>1. t \in Changes
  BY TextsAssumption, TextsAreChanges
<1>2. row \in Action /\ row.kind = "add_expense" /\ Append(row)
  <2>1. row \in Action
    BY <1>1, NoChangeType, ExpenseRowType DEF Kinds
  <2> QED BY <2>1 DEF AddExpense, ExpenseRow, NoAction
<1>3. /\ made' = made + 1 /\ made' \in ActionIds /\ made' \in 0 .. MaxActions
      /\ log' \in [ActionIds -> Action]
  BY <1>2, RowAppended DEF IInv
<1>4. TypeOK'
  BY <1>1, <1>3 DEF IInv, TypeOK, AddExpense
<1>5. LogOK'
  <2>1. LedgersStay /\ UNCHANGED undone
    BY DEF AddExpense, LedgersStay
  <2>2. RowOK(row, status', Expenses)
    BY DEF RowOK, ExpenseRow, NoAction, LedgerKinds
  <2> QED BY <1>2, <2>1, <2>2, AppendKeepsLog DEF IInv
<1>6. ActiveLedgerOpen'
  BY DEF IInv, ActiveLedgerOpen, AddExpense
<1> QED BY <1>4, <1>5, <1>6 DEF IInv

LEMMA RecordSettlementIInv ==
  ASSUME IInv, NEW l \in Ledgers, RecordSettlement(l) PROVE IInv'
<1> DEFINE row == LedgerRow("settle_up", l, 0)
<1>1. row \in Action /\ row.kind = "settle_up" /\ Append(row)
  <2>1. row \in Action
    BY LedgerRowType DEF Kinds
  <2> QED BY <2>1 DEF RecordSettlement, LedgerRow, NoAction
<1>2. /\ made' = made + 1 /\ made' \in ActionIds /\ made' \in 0 .. MaxActions
      /\ log' \in [ActionIds -> Action]
  BY <1>1, RowAppended DEF IInv
<1>3. TypeOK'
  BY <1>2 DEF IInv, TypeOK, RecordSettlement
<1>4. LogOK'
  <2>1. LedgersStay /\ UNCHANGED undone
    BY DEF RecordSettlement, LedgersStay
  <2>2. RowOK(row, status', Expenses)
    BY DEF RowOK, LedgerRow, NoAction, LedgerKinds
  <2> QED BY <1>1, <2>1, <2>2, AppendKeepsLog DEF IInv
<1>5. ActiveLedgerOpen'
  BY DEF IInv, ActiveLedgerOpen, RecordSettlement
<1> QED BY <1>3, <1>4, <1>5 DEF IInv

LEMMA DeleteExpenseIInv ==
  ASSUME IInv, NEW e \in ActionIds, NEW n \in {0, e}, DeleteExpense(e, n) PROVE IInv'
<1> DEFINE row == ExpenseRow("delete_expense", log[e].ledger, n, e, NoChange, NoChange)
<1>1. row \in Action /\ row.kind = "delete_expense" /\ Append(row)
  <2>1. log[e].ledger \in Ledgers \cup {0}
    BY DEF IInv, TypeOK, Action
  <2>2. row \in Action
    BY <2>1, NoChangeType, ExpenseRowType DEF Kinds
  <2> QED BY <2>2 DEF DeleteExpense, ExpenseRow, NoAction
<1>2. /\ made' = made + 1 /\ made' \in ActionIds /\ made' \in 0 .. MaxActions
      /\ log' \in [ActionIds -> Action]
  BY <1>1, RowAppended DEF IInv
<1>3. TypeOK'
  BY <1>2 DEF IInv, TypeOK, DeleteExpense
<1>4. LogOK'
  <2>1. LedgersStay /\ UNCHANGED undone
    BY DEF DeleteExpense, LedgersStay
  <2>2. RowOK(row, status', Expenses)
    BY DEF RowOK, ExpenseRow, NoAction, LedgerKinds, DeleteExpense
  <2> QED BY <1>1, <2>1, <2>2, AppendKeepsLog DEF IInv
<1>5. ActiveLedgerOpen'
  BY DEF IInv, ActiveLedgerOpen, DeleteExpense
<1> QED BY <1>3, <1>4, <1>5 DEF IInv

LEMMA EditExpenseIInv ==
  ASSUME IInv, NEW e \in ActionIds, NEW n \in {0, e}, NEW c \in Changes, EditExpense(e, n, c)
  PROVE  IInv'
<1> DEFINE row == ExpenseRow("edit_expense", log[e].ledger, n, e, c, Displaced(text[e], c))
<1>1. text[e] \in Changes /\ Overlay(text[e], c) \in Changes /\ Displaced(text[e], c) \in Changes
  BY OverlayType DEF IInv, TypeOK
<1>2. row \in Action /\ row.kind = "edit_expense" /\ Append(row)
  <2>1. log[e].ledger \in Ledgers \cup {0}
    BY DEF IInv, TypeOK, Action
  <2>2. row \in Action /\ row.kind = "edit_expense"
    BY <1>1, <2>1, EditRowType
  <2> QED BY <2>2 DEF EditExpense
<1>3. /\ made' = made + 1 /\ made' \in ActionIds /\ made' \in 0 .. MaxActions
      /\ log' \in [ActionIds -> Action]
  BY <1>2, RowAppended DEF IInv
<1>4. TypeOK'
  BY <1>1, <1>3 DEF IInv, TypeOK, EditExpense
<1>5. LogOK'
  <2>1. LedgersStay /\ UNCHANGED undone
    BY DEF EditExpense, LedgersStay
  <2>2. RowOK(row, status', Expenses)
    BY DEF RowOK, ExpenseRow, NoAction, LedgerKinds, EditExpense
  <2> QED BY <1>2, <2>1, <2>2, AppendKeepsLog DEF IInv
<1>6. ActiveLedgerOpen'
  BY DEF IInv, ActiveLedgerOpen, EditExpense
<1> QED BY <1>4, <1>5, <1>6 DEF IInv

\* What an archive or an undo repoints to is an open ledger.
LEMMA MostRecentOpenIn ==
  ASSUME NEW st, NEW X, NEW l \in MostRecentOpen(st, X)
  PROVE  l \in Ledgers /\ st[l] = "open" /\ l \notin X
BY LatestIn DEF MostRecentOpen, Open

LEMMA RepointTargetIn ==
  ASSUME NEW st, NEW p \in Ledgers, NEW l \in RepointTarget(st, p)
  PROVE  l \in Ledgers /\ st[l] = "open"
BY MostRecentOpenIn DEF RepointTarget

LEMMA NewLedgerIInv ==
  ASSUME IInv, NEW l \in Ledgers, NEW c \in Settable, NewLedger(l, c) PROVE IInv'
<1> DEFINE row == [LedgerRow("new_ledger", l, active) EXCEPT !.to = c]
<1>1. row \in Action /\ row.kind = "new_ledger" /\ Append(row)
  <2>1. active \in Ledgers \cup {0}
    BY DEF IInv, TypeOK
  <2>2. row \in Action
    BY <2>1, LedgerRowType DEF Kinds, Action
  <2> QED BY <2>2 DEF NewLedger, LedgerRow, NoAction
<1>2. /\ made' = made + 1 /\ made' \in ActionIds /\ made' \in 0 .. MaxActions
      /\ log' \in [ActionIds -> Action]
  BY <1>1, RowAppended DEF IInv
<1>3. ActiveLedgerOpen' /\ active' \in Ledgers
  BY DEF IInv, TypeOK, ActiveLedgerOpen, NewLedger
<1>4. TypeOK'
  BY <1>2, <1>3 DEF IInv, TypeOK, NewLedger
<1>5. LogOK'
  <2>1. LedgersStay /\ UNCHANGED undone
    BY DEF NewLedger, LedgersStay, IInv, TypeOK
  <2>2. RowOK(row, status', Expenses)
    BY DEF RowOK, LedgerRow, NoAction, LedgerKinds, NewLedger, IInv, TypeOK, ActiveLedgerOpen, Unused
  <2> QED BY <1>1, <2>1, <2>2, AppendKeepsLog DEF IInv
<1> QED BY <1>3, <1>4, <1>5 DEF IInv

LEMMA SwitchLedgerIInv ==
  ASSUME IInv, NEW l \in Ledgers, SwitchLedger(l) PROVE IInv'
<1> DEFINE row == LedgerRow("switch_ledger", l, active)
<1>1. row \in Action /\ row.kind = "switch_ledger" /\ Append(row)
  <2>1. active \in Ledgers \cup {0}
    BY DEF IInv, TypeOK
  <2>2. row \in Action
    BY <2>1, LedgerRowType DEF Kinds
  <2> QED BY <2>2 DEF SwitchLedger, LedgerRow, NoAction
<1>2. /\ made' = made + 1 /\ made' \in ActionIds /\ made' \in 0 .. MaxActions
      /\ log' \in [ActionIds -> Action]
  BY <1>1, RowAppended DEF IInv
<1>3. ActiveLedgerOpen' /\ active' \in Ledgers
  BY DEF IInv, TypeOK, ActiveLedgerOpen, SwitchLedger
<1>4. TypeOK'
  BY <1>2, <1>3 DEF IInv, TypeOK, SwitchLedger
<1>5. LogOK'
  <2>1. LedgersStay /\ UNCHANGED undone
    BY DEF SwitchLedger, LedgersStay, IInv, TypeOK
  <2>2. RowOK(row, status', Expenses)
    BY DEF RowOK, LedgerRow, NoAction, LedgerKinds, SwitchLedger, IInv, TypeOK, ActiveLedgerOpen
  <2> QED BY <1>1, <2>1, <2>2, AppendKeepsLog DEF IInv
<1> QED BY <1>3, <1>4, <1>5 DEF IInv

LEMMA ArchiveLedgerIInv ==
  ASSUME IInv, NEW l \in Ledgers, ArchiveLedger(l) PROVE IInv'
<1> DEFINE row == LedgerRow("archive_ledger", l, (IF l = active THEN active ELSE 0))
<1>1. row \in Action /\ row.kind = "archive_ledger" /\ Append(row)
  <2>1. (IF l = active THEN active ELSE 0) \in Ledgers \cup {0}
    BY DEF IInv, TypeOK
  <2>2. row \in Action
    BY <2>1, LedgerRowType DEF Kinds
  <2> QED BY <2>2 DEF ArchiveLedger, LedgerRow, NoAction
<1>2. /\ made' = made + 1 /\ made' \in ActionIds /\ made' \in 0 .. MaxActions
      /\ log' \in [ActionIds -> Action]
  BY <1>1, RowAppended DEF IInv
<1>3. ActiveLedgerOpen' /\ active' \in Ledgers
  BY MostRecentOpenIn DEF IInv, TypeOK, ActiveLedgerOpen, ArchiveLedger
<1>4. TypeOK'
  BY <1>2, <1>3 DEF IInv, TypeOK, ArchiveLedger
<1>5. LogOK'
  <2>1. LedgersStay /\ UNCHANGED undone
    BY DEF ArchiveLedger, LedgersStay, IInv, TypeOK
  <2>2. RowOK(row, status', Expenses)
    BY DEF RowOK, LedgerRow, NoAction, LedgerKinds, ArchiveLedger, IInv, TypeOK, ActiveLedgerOpen
  <2> QED BY <1>1, <2>1, <2>2, AppendKeepsLog DEF IInv
<1> QED BY <1>3, <1>4, <1>5 DEF IInv

LEMMA UnarchiveLedgerIInv ==
  ASSUME IInv, NEW l \in Ledgers, UnarchiveLedger(l) PROVE IInv'
<1> DEFINE row == LedgerRow("unarchive_ledger", l, 0)
<1>1. row \in Action /\ row.kind = "unarchive_ledger" /\ Append(row)
  <2>1. 0 \in Ledgers \cup {0}
    BY DEF IInv, TypeOK
  <2>2. row \in Action
    BY <2>1, LedgerRowType DEF Kinds
  <2> QED BY <2>2 DEF UnarchiveLedger, LedgerRow, NoAction
<1>2. /\ made' = made + 1 /\ made' \in ActionIds /\ made' \in 0 .. MaxActions
      /\ log' \in [ActionIds -> Action]
  BY <1>1, RowAppended DEF IInv
<1>3. ActiveLedgerOpen' /\ active' \in Ledgers
  BY DEF IInv, TypeOK, ActiveLedgerOpen, UnarchiveLedger
<1>4. TypeOK'
  BY <1>2, <1>3 DEF IInv, TypeOK, UnarchiveLedger
<1>5. LogOK'
  <2>1. LedgersStay /\ UNCHANGED undone
    BY DEF UnarchiveLedger, LedgersStay, IInv, TypeOK
  <2>2. RowOK(row, status', Expenses)
    BY DEF RowOK, LedgerRow, NoAction, LedgerKinds, UnarchiveLedger, IInv, TypeOK, ActiveLedgerOpen
  <2> QED BY <1>1, <2>1, <2>2, AppendKeepsLog DEF IInv
<1> QED BY <1>3, <1>4, <1>5 DEF IInv

LEMMA FlipIInv ==
  ASSUME IInv, NEW k \in FlipKinds, NEW c \in Settable, Flip(k, c) PROVE IInv'
<1> DEFINE s == Slot(k, active)
           row == FlipRow(k, active, c, settings[s])
<1>1. row \in Action /\ row.kind = k /\ Append(row)
  <2>1. active \in Ledgers /\ k \in Kinds
    BY DEF IInv, TypeOK, FlipKinds, Kinds
  <2>2. settings[s] \in Settable
    BY <2>1, SlotType DEF IInv, TypeOK
  <2> QED BY <2>1, <2>2, FlipRowType DEF Flip
<1>2. /\ made' = made + 1 /\ made' \in ActionIds /\ made' \in 0 .. MaxActions
      /\ log' \in [ActionIds -> Action]
  BY <1>1, RowAppended DEF IInv
<1>3. TypeOK'
  BY <1>2 DEF IInv, TypeOK, Flip
<1>4. LogOK'
  <2>1. LedgersStay /\ UNCHANGED undone
    BY DEF Flip, LedgersStay
  <2>2. RowOK(row, status', Expenses) /\ row.kind # "none"
    BY <1>1 DEF RowOK, LedgerKinds, FlipKinds
  <2> QED BY <1>1, <2>1, <2>2, AppendKeepsLog DEF IInv
<1>5. ActiveLedgerOpen'
  BY DEF IInv, ActiveLedgerOpen, Flip
<1> QED BY <1>3, <1>4, <1>5 DEF IInv

LEMMA ConfigureIInv == ASSUME IInv, Configure PROVE IInv'
<1>1. PICK k \in FlipKinds, c \in Settable : Flip(k, c)
  BY DEF Configure, ClearFxRate, SetHomeCurrency, SetFxRate, SetLoggingCurrency, FlipKinds, Settable
<1> QED BY <1>1, FlipIInv

\* An undone or redone flip changes a setting and nothing else.
LEMMA ToggleFlipIInv ==
  ASSUME IInv, NEW a \in ActionIds, UndoFlip(a) \/ RedoFlip(a) PROVE IInv'
<1>1. /\ log[a].kind \in FlipKinds /\ undone' \subseteq undone \cup {a}
      /\ UNCHANGED <<log, made, status, active, visible, text, edited>>
  BY DEF UndoFlip, RedoFlip, Undoable, Redoable
<1>2. log[a].to \in Settable /\ log[a].from \in Settable
  BY DEF IInv, TypeOK, Action
<1>3. settings' \in [Slots -> Settable]
  BY <1>2 DEF IInv, TypeOK, UndoFlip, RedoFlip
<1>4. TypeOK'
  BY <1>1, <1>3 DEF IInv, TypeOK
<1>5. LedgersStay /\ ActiveLedgerOpen'
  BY <1>1 DEF IInv, ActiveLedgerOpen, LedgersStay
<1>6. LogOK'
  BY <1>1, <1>5, ToggleKeepsLog DEF IInv, FlipKinds
<1> QED BY <1>4, <1>5, <1>6 DEF IInv

LEMMA UndoCreationIInv ==
  ASSUME IInv, NEW a \in ActionIds, UndoCreation(a) PROVE IInv'
<1>1. /\ (log[a].kind = "add_expense" \/ log[a].kind = "settle_up")
      /\ undone' \subseteq undone \cup {a} /\ UNCHANGED <<log, made>>
  BY DEF UndoCreation, Undoable
<1>2. log[a] \in Action
  BY DEF IInv, TypeOK
<1>4. TypeOK'
  BY <1>1, <1>2 DEF IInv, TypeOK, Action, UndoCreation
<1>5. LedgersStay /\ ActiveLedgerOpen'
  BY DEF IInv, ActiveLedgerOpen, LedgersStay, UndoCreation
<1>6. LogOK'
  BY <1>1, <1>5, ToggleKeepsLog DEF IInv
<1> QED BY <1>4, <1>5, <1>6 DEF IInv

LEMMA UndoDeleteIInv ==
  ASSUME IInv, NEW a \in ActionIds, UndoDelete(a) PROVE IInv'
<1>1. /\ log[a].kind = "delete_expense"
      /\ undone' \subseteq undone \cup {a} /\ UNCHANGED <<log, made>>
  BY DEF UndoDelete, Undoable
<1>2. log[a] \in Action
  BY DEF IInv, TypeOK
<1>4. TypeOK'
  BY <1>1, <1>2 DEF IInv, TypeOK, Action, UndoDelete
<1>5. LedgersStay /\ ActiveLedgerOpen'
  BY DEF IInv, ActiveLedgerOpen, LedgersStay, UndoDelete
<1>6. LogOK'
  BY <1>1, <1>5, ToggleKeepsLog DEF IInv
<1> QED BY <1>4, <1>5, <1>6 DEF IInv

LEMMA UndoEditIInv ==
  ASSUME IInv, NEW a \in ActionIds, UndoEdit(a) PROVE IInv'
<1>1. /\ log[a].kind = "edit_expense"
      /\ undone' \subseteq undone \cup {a} /\ UNCHANGED <<log, made>>
  BY DEF UndoEdit, Undoable
<1>2. /\ log[a] \in Action /\ log[a].expense \in ActionIds
      /\ text[log[a].expense] \in Changes /\ log[a].before \in Changes /\ log[a].change \in Changes
  BY DEF IInv, TypeOK, Action, UndoEdit
<1>3. \A m \in EditMark(StandingEdits(log[a].expense) \ {a}) : m \in ActionIds \cup {0}
  BY EditMarkIn DEF StandingEdits, OfKind
<1>4. TypeOK'
  <2>1. text' \in [ActionIds -> Changes]
    BY <1>2, OverlayType DEF IInv, TypeOK, UndoEdit
  <2>2. edited' \in [ActionIds -> ActionIds \cup {0}]
    BY <1>2, <1>3 DEF IInv, TypeOK, UndoEdit
  <2> QED BY <1>1, <2>1, <2>2 DEF IInv, TypeOK, UndoEdit
<1>5. LedgersStay /\ ActiveLedgerOpen'
  BY DEF IInv, ActiveLedgerOpen, LedgersStay, UndoEdit
<1>6. LogOK'
  BY <1>1, <1>5, ToggleKeepsLog DEF IInv
<1> QED BY <1>4, <1>5, <1>6 DEF IInv

LEMMA UndoNewLedgerIInv ==
  ASSUME IInv, NEW a \in ActionIds, UndoNewLedger(a) PROVE IInv'
<1>1. /\ log[a].kind = "new_ledger"
      /\ undone' \subseteq undone \cup {a} /\ UNCHANGED <<log, made>>
  BY DEF UndoNewLedger, Undoable
<1>2. /\ log[a] \in Action /\ log[a].ledger \in Ledgers /\ status[log[a].ledger] # "none"
      /\ log[a].kind = "new_ledger" => log[a].previous \in Ledgers \ {log[a].ledger}
      /\ log[a].kind = "switch_ledger" => log[a].previous \in Ledgers
      /\ log[a].kind = "archive_ledger" => log[a].previous \in {0, log[a].ledger}
  BY <1>1 DEF IInv, LogOK, RowOK, LedgerKinds, TypeOK
<1>3. ActiveLedgerOpen' /\ active' \in Ledgers
  BY <1>1, <1>2, MostRecentOpenIn, RepointTargetIn DEF IInv, TypeOK, ActiveLedgerOpen, UndoNewLedger
<1>4. TypeOK'
  BY <1>1, <1>2, <1>3 DEF IInv, TypeOK, UndoNewLedger
<1>5. LedgersStay
  BY <1>2 DEF IInv, TypeOK, LedgersStay, UndoNewLedger
<1>6. LogOK'
  BY <1>1, <1>5, ToggleKeepsLog DEF IInv
<1> QED BY <1>3, <1>4, <1>5, <1>6 DEF IInv

LEMMA UndoSwitchIInv ==
  ASSUME IInv, NEW a \in ActionIds, UndoSwitch(a) PROVE IInv'
<1>1. /\ log[a].kind = "switch_ledger"
      /\ undone' \subseteq undone \cup {a} /\ UNCHANGED <<log, made>>
  BY DEF UndoSwitch, Undoable
<1>2. /\ log[a] \in Action /\ log[a].ledger \in Ledgers /\ status[log[a].ledger] # "none"
      /\ log[a].kind = "new_ledger" => log[a].previous \in Ledgers \ {log[a].ledger}
      /\ log[a].kind = "switch_ledger" => log[a].previous \in Ledgers
      /\ log[a].kind = "archive_ledger" => log[a].previous \in {0, log[a].ledger}
  BY <1>1 DEF IInv, LogOK, RowOK, LedgerKinds, TypeOK
<1>3. ActiveLedgerOpen' /\ active' \in Ledgers
  BY <1>1, <1>2, MostRecentOpenIn, RepointTargetIn DEF IInv, TypeOK, ActiveLedgerOpen, UndoSwitch
<1>4. TypeOK'
  BY <1>1, <1>2, <1>3 DEF IInv, TypeOK, UndoSwitch
<1>5. LedgersStay
  BY <1>2 DEF IInv, TypeOK, LedgersStay, UndoSwitch
<1>6. LogOK'
  BY <1>1, <1>5, ToggleKeepsLog DEF IInv
<1> QED BY <1>3, <1>4, <1>5, <1>6 DEF IInv

LEMMA UndoArchiveIInv ==
  ASSUME IInv, NEW a \in ActionIds, UndoArchive(a) PROVE IInv'
<1>1. /\ log[a].kind = "archive_ledger"
      /\ undone' \subseteq undone \cup {a} /\ UNCHANGED <<log, made>>
  BY DEF UndoArchive, Undoable
<1>2. /\ log[a] \in Action /\ log[a].ledger \in Ledgers /\ status[log[a].ledger] # "none"
      /\ log[a].kind = "new_ledger" => log[a].previous \in Ledgers \ {log[a].ledger}
      /\ log[a].kind = "switch_ledger" => log[a].previous \in Ledgers
      /\ log[a].kind = "archive_ledger" => log[a].previous \in {0, log[a].ledger}
  BY <1>1 DEF IInv, LogOK, RowOK, LedgerKinds, TypeOK
<1>3. ActiveLedgerOpen' /\ active' \in Ledgers
  BY <1>1, <1>2, MostRecentOpenIn, RepointTargetIn DEF IInv, TypeOK, ActiveLedgerOpen, UndoArchive
<1>4. TypeOK'
  BY <1>1, <1>2, <1>3 DEF IInv, TypeOK, UndoArchive
<1>5. LedgersStay
  BY <1>2 DEF IInv, TypeOK, LedgersStay, UndoArchive
<1>6. LogOK'
  BY <1>1, <1>5, ToggleKeepsLog DEF IInv
<1> QED BY <1>3, <1>4, <1>5, <1>6 DEF IInv

LEMMA UndoUnarchiveIInv ==
  ASSUME IInv, NEW a \in ActionIds, UndoUnarchive(a) PROVE IInv'
<1>1. /\ log[a].kind = "unarchive_ledger"
      /\ undone' \subseteq undone \cup {a} /\ UNCHANGED <<log, made>>
  BY DEF UndoUnarchive, Undoable
<1>2. /\ log[a] \in Action /\ log[a].ledger \in Ledgers /\ status[log[a].ledger] # "none"
      /\ log[a].kind = "new_ledger" => log[a].previous \in Ledgers \ {log[a].ledger}
      /\ log[a].kind = "switch_ledger" => log[a].previous \in Ledgers
      /\ log[a].kind = "archive_ledger" => log[a].previous \in {0, log[a].ledger}
  BY <1>1 DEF IInv, LogOK, RowOK, LedgerKinds, TypeOK
<1>3. ActiveLedgerOpen' /\ active' \in Ledgers
  BY <1>1, <1>2, MostRecentOpenIn, RepointTargetIn DEF IInv, TypeOK, ActiveLedgerOpen, UndoUnarchive
<1>4. TypeOK'
  BY <1>1, <1>2, <1>3 DEF IInv, TypeOK, UndoUnarchive
<1>5. LedgersStay
  BY <1>2 DEF IInv, TypeOK, LedgersStay, UndoUnarchive
<1>6. LogOK'
  BY <1>1, <1>5, ToggleKeepsLog DEF IInv
<1> QED BY <1>3, <1>4, <1>5, <1>6 DEF IInv

LEMMA RedoAddIInv ==
  ASSUME IInv, NEW a \in ActionIds, RedoAdd(a) PROVE IInv'
<1>1. /\ log[a].kind = "add_expense"
      /\ undone' \subseteq undone \cup {a} /\ UNCHANGED <<log, made>>
  BY DEF RedoAdd, Redoable
<1>2. log[a] \in Action
  BY DEF IInv, TypeOK
<1>4. TypeOK'
  BY <1>1, <1>2 DEF IInv, TypeOK, Action, RedoAdd
<1>5. LedgersStay /\ ActiveLedgerOpen'
  BY DEF IInv, ActiveLedgerOpen, LedgersStay, RedoAdd
<1>6. LogOK'
  BY <1>1, <1>5, ToggleKeepsLog DEF IInv
<1> QED BY <1>4, <1>5, <1>6 DEF IInv

LEMMA RedoSettleUpIInv ==
  ASSUME IInv, NEW a \in ActionIds, RedoSettleUp(a) PROVE IInv'
<1>1. /\ log[a].kind = "settle_up"
      /\ undone' \subseteq undone \cup {a} /\ UNCHANGED <<log, made>>
  BY DEF RedoSettleUp, Redoable
<1>2. log[a] \in Action
  BY DEF IInv, TypeOK
<1>4. TypeOK'
  BY <1>1, <1>2 DEF IInv, TypeOK, Action, RedoSettleUp
<1>5. LedgersStay /\ ActiveLedgerOpen'
  BY DEF IInv, ActiveLedgerOpen, LedgersStay, RedoSettleUp
<1>6. LogOK'
  BY <1>1, <1>5, ToggleKeepsLog DEF IInv
<1> QED BY <1>4, <1>5, <1>6 DEF IInv

LEMMA RedoDeleteIInv ==
  ASSUME IInv, NEW a \in ActionIds, RedoDelete(a) PROVE IInv'
<1>1. /\ log[a].kind = "delete_expense"
      /\ undone' \subseteq undone \cup {a} /\ UNCHANGED <<log, made>>
  BY DEF RedoDelete, Redoable
<1>2. log[a] \in Action
  BY DEF IInv, TypeOK
<1>4. TypeOK'
  BY <1>1, <1>2 DEF IInv, TypeOK, Action, RedoDelete
<1>5. LedgersStay /\ ActiveLedgerOpen'
  BY DEF IInv, ActiveLedgerOpen, LedgersStay, RedoDelete
<1>6. LogOK'
  BY <1>1, <1>5, ToggleKeepsLog DEF IInv
<1> QED BY <1>4, <1>5, <1>6 DEF IInv

LEMMA RedoEditIInv ==
  ASSUME IInv, NEW a \in ActionIds, RedoEdit(a) PROVE IInv'
<1>1. /\ log[a].kind = "edit_expense"
      /\ undone' \subseteq undone \cup {a} /\ UNCHANGED <<log, made>>
  BY DEF RedoEdit, Redoable
<1>2. /\ log[a] \in Action /\ log[a].expense \in ActionIds
      /\ text[log[a].expense] \in Changes /\ log[a].before \in Changes /\ log[a].change \in Changes
  BY DEF IInv, TypeOK, Action, RedoEdit
<1>3. \A m \in EditMark(StandingEdits(log[a].expense) \cup {a}) : m \in ActionIds \cup {0}
  BY EditMarkIn DEF StandingEdits, OfKind
<1>4. TypeOK'
  <2>1. text' \in [ActionIds -> Changes]
    BY <1>2, OverlayType DEF IInv, TypeOK, RedoEdit
  <2>2. edited' \in [ActionIds -> ActionIds \cup {0}]
    BY <1>2, <1>3 DEF IInv, TypeOK, RedoEdit
  <2> QED BY <1>1, <2>1, <2>2 DEF IInv, TypeOK, RedoEdit
<1>5. LedgersStay /\ ActiveLedgerOpen'
  BY DEF IInv, ActiveLedgerOpen, LedgersStay, RedoEdit
<1>6. LogOK'
  BY <1>1, <1>5, ToggleKeepsLog DEF IInv
<1> QED BY <1>4, <1>5, <1>6 DEF IInv

LEMMA RedoNewLedgerIInv ==
  ASSUME IInv, NEW a \in ActionIds, RedoNewLedger(a) PROVE IInv'
<1>1. /\ log[a].kind = "new_ledger"
      /\ undone' \subseteq undone \cup {a} /\ UNCHANGED <<log, made>>
  BY DEF RedoNewLedger, Redoable
<1>2. /\ log[a] \in Action /\ log[a].ledger \in Ledgers /\ status[log[a].ledger] # "none"
      /\ log[a].kind = "new_ledger" => log[a].previous \in Ledgers \ {log[a].ledger}
      /\ log[a].kind = "switch_ledger" => log[a].previous \in Ledgers
      /\ log[a].kind = "archive_ledger" => log[a].previous \in {0, log[a].ledger}
  BY <1>1 DEF IInv, LogOK, RowOK, LedgerKinds, TypeOK
<1>3. ActiveLedgerOpen' /\ active' \in Ledgers
  BY <1>1, <1>2, MostRecentOpenIn, RepointTargetIn DEF IInv, TypeOK, ActiveLedgerOpen, RedoNewLedger
<1>4. TypeOK'
  BY <1>1, <1>2, <1>3 DEF IInv, TypeOK, RedoNewLedger
<1>5. LedgersStay
  BY <1>2 DEF IInv, TypeOK, LedgersStay, RedoNewLedger
<1>6. LogOK'
  BY <1>1, <1>5, ToggleKeepsLog DEF IInv
<1> QED BY <1>3, <1>4, <1>5, <1>6 DEF IInv

LEMMA RedoSwitchIInv ==
  ASSUME IInv, NEW a \in ActionIds, RedoSwitch(a) PROVE IInv'
<1>1. /\ log[a].kind = "switch_ledger"
      /\ undone' \subseteq undone \cup {a} /\ UNCHANGED <<log, made>>
  BY DEF RedoSwitch, Redoable
<1>2. /\ log[a] \in Action /\ log[a].ledger \in Ledgers /\ status[log[a].ledger] # "none"
      /\ log[a].kind = "new_ledger" => log[a].previous \in Ledgers \ {log[a].ledger}
      /\ log[a].kind = "switch_ledger" => log[a].previous \in Ledgers
      /\ log[a].kind = "archive_ledger" => log[a].previous \in {0, log[a].ledger}
  BY <1>1 DEF IInv, LogOK, RowOK, LedgerKinds, TypeOK
<1>3. ActiveLedgerOpen' /\ active' \in Ledgers
  BY <1>1, <1>2, MostRecentOpenIn, RepointTargetIn DEF IInv, TypeOK, ActiveLedgerOpen, RedoSwitch
<1>4. TypeOK'
  BY <1>1, <1>2, <1>3 DEF IInv, TypeOK, RedoSwitch
<1>5. LedgersStay
  BY <1>2 DEF IInv, TypeOK, LedgersStay, RedoSwitch
<1>6. LogOK'
  BY <1>1, <1>5, ToggleKeepsLog DEF IInv
<1> QED BY <1>3, <1>4, <1>5, <1>6 DEF IInv

LEMMA RedoArchiveIInv ==
  ASSUME IInv, NEW a \in ActionIds, RedoArchive(a) PROVE IInv'
<1>1. /\ log[a].kind = "archive_ledger"
      /\ undone' \subseteq undone \cup {a} /\ UNCHANGED <<log, made>>
  BY DEF RedoArchive, Redoable
<1>2. /\ log[a] \in Action /\ log[a].ledger \in Ledgers /\ status[log[a].ledger] # "none"
      /\ log[a].kind = "new_ledger" => log[a].previous \in Ledgers \ {log[a].ledger}
      /\ log[a].kind = "switch_ledger" => log[a].previous \in Ledgers
      /\ log[a].kind = "archive_ledger" => log[a].previous \in {0, log[a].ledger}
  BY <1>1 DEF IInv, LogOK, RowOK, LedgerKinds, TypeOK
<1>3. ActiveLedgerOpen' /\ active' \in Ledgers
  BY <1>1, <1>2, MostRecentOpenIn, RepointTargetIn DEF IInv, TypeOK, ActiveLedgerOpen, RedoArchive
<1>4. TypeOK'
  BY <1>1, <1>2, <1>3 DEF IInv, TypeOK, RedoArchive
<1>5. LedgersStay
  BY <1>2 DEF IInv, TypeOK, LedgersStay, RedoArchive
<1>6. LogOK'
  BY <1>1, <1>5, ToggleKeepsLog DEF IInv
<1> QED BY <1>3, <1>4, <1>5, <1>6 DEF IInv

LEMMA RedoUnarchiveIInv ==
  ASSUME IInv, NEW a \in ActionIds, RedoUnarchive(a) PROVE IInv'
<1>1. /\ log[a].kind = "unarchive_ledger"
      /\ undone' \subseteq undone \cup {a} /\ UNCHANGED <<log, made>>
  BY DEF RedoUnarchive, Redoable
<1>2. /\ log[a] \in Action /\ log[a].ledger \in Ledgers /\ status[log[a].ledger] # "none"
      /\ log[a].kind = "new_ledger" => log[a].previous \in Ledgers \ {log[a].ledger}
      /\ log[a].kind = "switch_ledger" => log[a].previous \in Ledgers
      /\ log[a].kind = "archive_ledger" => log[a].previous \in {0, log[a].ledger}
  BY <1>1 DEF IInv, LogOK, RowOK, LedgerKinds, TypeOK
<1>3. ActiveLedgerOpen' /\ active' \in Ledgers
  BY <1>1, <1>2, MostRecentOpenIn, RepointTargetIn DEF IInv, TypeOK, ActiveLedgerOpen, RedoUnarchive
<1>4. TypeOK'
  BY <1>1, <1>2, <1>3 DEF IInv, TypeOK, RedoUnarchive
<1>5. LedgersStay
  BY <1>2 DEF IInv, TypeOK, LedgersStay, RedoUnarchive
<1>6. LogOK'
  BY <1>1, <1>5, ToggleKeepsLog DEF IInv
<1> QED BY <1>3, <1>4, <1>5, <1>6 DEF IInv

LEMMA NextIInv == IInv /\ [Next]_vars => IInv'
<1> SUFFICES ASSUME IInv, [Next]_vars PROVE IInv'
  OBVIOUS
<1>1. CASE Record
  BY <1>1, AddExpenseIInv, RecordSettlementIInv, DeleteExpenseIInv, EditExpenseIInv
  DEF Record, SettleUp, SettleTap
<1>2. CASE Manage
  BY <1>2, NewLedgerIInv, SwitchLedgerIInv, ArchiveLedgerIInv, UnarchiveLedgerIInv DEF Manage
<1>3. CASE Configure
  BY <1>3, ConfigureIInv
<1>4. CASE Undo
  BY <1>4, ToggleFlipIInv, UndoCreationIInv, UndoDeleteIInv, UndoEditIInv, UndoNewLedgerIInv, UndoSwitchIInv,
     UndoArchiveIInv, UndoUnarchiveIInv DEF Undo
<1>5. CASE Redo
  BY <1>5, ToggleFlipIInv, RedoAddIInv, RedoSettleUpIInv, RedoDeleteIInv, RedoEditIInv, RedoNewLedgerIInv,
     RedoSwitchIInv, RedoArchiveIInv, RedoUnarchiveIInv DEF Redo
<1>6. CASE UNCHANGED vars
  BY <1>6 DEF vars, IInv, TypeOK, LogOK, ActiveLedgerOpen, Expenses, OfKind
<1> QED BY <1>1, <1>2, <1>3, <1>4, <1>5, <1>6 DEF Next

LEMMA Invariance == Spec => []IInv
<1> QED BY InitIInv, NextIInv, PTL DEF Spec

\* The books always have the shape the code declares for its tables.
THEOREM TypeCorrect == Spec => []TypeOK
<1>1. IInv => TypeOK
  BY DEF IInv
<1> QED BY <1>1, Invariance, PTL

\* ADR-0004's invariant: in every group, of any number of ledgers, and after
\* any number of actions, undos and redos in any order, the active pointer
\* names an open ledger.
THEOREM ActiveLedgerAlwaysOpen == Spec => []ActiveLedgerOpen
<1>1. IInv => ActiveLedgerOpen
  BY DEF IInv
<1> QED BY <1>1, Invariance, PTL

-----------------------------------------------------------------------------
(***************************************************************************)
(* Visibility.  The proof works with the flat form of VisibilityDerived,   *)
(* which speaks of the rows of the log one by one.                         *)
(***************************************************************************)
StandingDelete(d) == log[d].kind = "delete_expense" /\ d \notin undone

ShownRightly  == \A e \in ActionIds : log[e].kind = "add_expense" /\ e \in visible =>
                   /\ e \notin undone
                   /\ \A d \in ActionIds : StandingDelete(d) => log[d].expense # e
HiddenRightly == \A e \in ActionIds : log[e].kind = "add_expense" /\ e \notin visible =>
                   e \in undone \/ \E d \in ActionIds : StandingDelete(d) /\ log[d].hit = e
SettledRightly == \A a \in ActionIds : log[a].kind = "settle_up" => (a \in visible <=> a \notin undone)

Flat == ShownRightly /\ HiddenRightly /\ SettledRightly

LEMMA FlatForm == (Flat <=> VisibilityDerived) /\ (Flat' <=> VisibilityDerived')
<1> USE DEF Flat, ShownRightly, HiddenRightly, SettledRightly, StandingDelete, VisibilityDerived,
        StandingDeletes, Expenses, OfKind, Standing
<1>1. Flat <=> VisibilityDerived
  OBVIOUS
<1>2. Flat' <=> VisibilityDerived'
  OBVIOUS
<1> QED BY <1>1, <1>2

Concerned == {"add_expense", "settle_up", "delete_expense"}

\* Rows of the other kinds, appended or toggled, do not concern visibility.
LEMMA OtherAppend ==
  ASSUME IInv, Flat, NEW row \in Action, Append(row), row.kind \notin Concerned,
         UNCHANGED <<visible, undone>>
  PROVE  Flat'
<1>1. /\ log'[made'] = row /\ made' \in ActionIds
      /\ \A a \in ActionIds : a # made' => log'[a] = log[a]
      /\ log[made'].kind = "none"
  <2>1. made' = made + 1 /\ made' \in ActionIds /\ made \in Nat
    BY RowAppended DEF IInv, TypeOK
  <2> QED BY <2>1, RowAppended DEF IInv, LogOK
<1>2. \A a \in ActionIds : /\ log'[a].kind \in Concerned => log'[a] = log[a]
                           /\ log[a].kind \in Concerned => log'[a] = log[a]
  BY <1>1 DEF Concerned
<1>3. ShownRightly' /\ SettledRightly'
  BY <1>2 DEF Flat, ShownRightly, SettledRightly, StandingDelete, Concerned
<1>4. HiddenRightly'
  BY <1>2 DEF Flat, HiddenRightly, StandingDelete, Concerned
<1> QED BY <1>3, <1>4 DEF Flat

LEMMA OtherToggle ==
  ASSUME Flat, UNCHANGED <<log, visible>>, NEW a \in ActionIds, log[a].kind \notin Concerned,
         undone' \in {undone \cup {a}, undone \ {a}}
  PROVE  Flat'
<1>1. \A b \in ActionIds : log[b].kind \in Concerned => (b \in undone' <=> b \in undone)
  OBVIOUS
<1>2. ShownRightly' /\ SettledRightly'
  BY <1>1 DEF Flat, ShownRightly, SettledRightly, StandingDelete, Concerned
<1>3. HiddenRightly'
  BY <1>1 DEF Flat, HiddenRightly, StandingDelete, Concerned
<1> QED BY <1>2, <1>3 DEF Flat

LEMMA NewRowFlat ==
  ASSUME IInv, NEW row \in Action, Append(row)
  PROVE  /\ made' = made + 1 /\ made' \in ActionIds /\ log'[made'] = row
         /\ \A a \in ActionIds : a # made' => log'[a] = log[a]
         /\ log[made'].kind = "none" /\ made' \notin undone
         /\ \A d \in ActionIds : log[d].kind = "delete_expense" =>
              log[d].expense # made' /\ log[d].hit # made'
<1>1. /\ made' = made + 1 /\ made' \in ActionIds /\ made \in Nat /\ log'[made'] = row
      /\ \A a \in ActionIds : a # made' => log'[a] = log[a]
  BY RowAppended DEF IInv, TypeOK
<1>2. log[made'].kind = "none" /\ made' \notin undone
  BY <1>1 DEF IInv, LogOK
<1>3. ASSUME NEW d \in ActionIds, log[d].kind = "delete_expense"
      PROVE  log[d].expense # made' /\ log[d].hit # made'
  <2>1. log[d].hit \in Expenses /\ log[d].expense \in {0, log[d].hit}
    BY <1>3 DEF IInv, LogOK, RowOK
  <2>2. made' # 0
    BY <1>1 DEF ActionIds
  <2> QED BY <1>2, <2>1, <2>2 DEF Expenses, OfKind
<1> QED BY <1>1, <1>2, <1>3

LEMMA AddExpenseFlat ==
  ASSUME IInv, Flat, NEW l \in Ledgers, NEW t \in FirstTexts, AddExpense(l, t) PROVE Flat'
<1> DEFINE row == ExpenseRow("add_expense", l, 0, 0, t, NoChange)
<1>1. row \in Action /\ row.kind = "add_expense"
  <2>1. t \in Changes
    BY TextsAssumption, TextsAreChanges
  <2>2. "add_expense" \in Kinds
    BY DEF Kinds
  <2> QED BY <2>1, <2>2, NoChangeType, ExpenseRowType
<1>2. Append(row) /\ visible' = visible \cup {made + 1} /\ undone' = undone
  BY DEF AddExpense
<1> HIDE DEF row
<1>3. /\ made' = made + 1 /\ made' \in ActionIds /\ log'[made'] = row
      /\ \A a \in ActionIds : a # made' => log'[a] = log[a]
      /\ log[made'].kind = "none" /\ made' \notin undone
      /\ \A d \in ActionIds : log[d].kind = "delete_expense" =>
           log[d].expense # made' /\ log[d].hit # made'
  BY <1>1, <1>2, NewRowFlat
<1>4. ShownRightly' /\ SettledRightly'
  BY <1>1, <1>2, <1>3 DEF Flat, ShownRightly, SettledRightly, StandingDelete
<1>5. HiddenRightly'
  BY <1>1, <1>2, <1>3 DEF Flat, HiddenRightly, StandingDelete
<1> QED BY <1>4, <1>5 DEF Flat

LEMMA RecordSettlementFlat ==
  ASSUME IInv, Flat, NEW l \in Ledgers, RecordSettlement(l) PROVE Flat'
<1> DEFINE row == LedgerRow("settle_up", l, 0)
<1>1. row \in Action /\ row.kind = "settle_up"
  BY LedgerRowType DEF Kinds
<1>2. Append(row) /\ visible' = visible \cup {made + 1} /\ undone' = undone
  BY DEF RecordSettlement
<1> HIDE DEF row
<1>3. /\ made' = made + 1 /\ made' \in ActionIds /\ log'[made'] = row
      /\ \A a \in ActionIds : a # made' => log'[a] = log[a]
      /\ log[made'].kind = "none" /\ made' \notin undone
  BY <1>1, <1>2, NewRowFlat
<1>4. ShownRightly' /\ SettledRightly'
  BY <1>1, <1>2, <1>3 DEF Flat, ShownRightly, SettledRightly, StandingDelete
<1>5. HiddenRightly'
  BY <1>1, <1>2, <1>3 DEF Flat, HiddenRightly, StandingDelete
<1> QED BY <1>4, <1>5 DEF Flat

LEMMA DeleteExpenseFlat ==
  ASSUME IInv, Flat, NEW e \in ActionIds, NEW n \in {0, e}, DeleteExpense(e, n) PROVE Flat'
<1> DEFINE row == ExpenseRow("delete_expense", log[e].ledger, n, e, NoChange, NoChange)
<1>1. /\ row \in Action /\ row.kind = "delete_expense"
      /\ row.hit = e /\ row.expense = n
  <2>1. log[e].ledger \in Ledgers \cup {0}
    BY DEF IInv, TypeOK, Action
  <2>2. "delete_expense" \in Kinds /\ n \in ActionIds \cup {0} /\ e \in ActionIds \cup {0}
    BY DEF Kinds
  <2>3. /\ ExpenseRow("delete_expense", log[e].ledger, n, e, NoChange, NoChange) \in Action
        /\ ExpenseRow("delete_expense", log[e].ledger, n, e, NoChange, NoChange).kind
             = "delete_expense"
        /\ ExpenseRow("delete_expense", log[e].ledger, n, e, NoChange, NoChange).expense = n
        /\ ExpenseRow("delete_expense", log[e].ledger, n, e, NoChange, NoChange).hit = e
    <3> HIDE DEF row
    <3> QED BY <2>1, <2>2, NoChangeType, ExpenseRowType
  <2> QED BY <2>3
<1>2. Append(row) /\ visible' = visible \ {e} /\ undone' = undone /\ log[e].kind = "add_expense"
  BY DEF DeleteExpense, Expenses, OfKind
<1> HIDE DEF row
<1>3. /\ made' \in ActionIds /\ log'[made'] = row
      /\ \A a \in ActionIds : a # made' => log'[a] = log[a]
      /\ log[made'].kind = "none" /\ made' \notin undone
  BY <1>1, <1>2, NewRowFlat
<1>4. 0 \notin ActionIds
  BY DEF ActionIds
<1>5. ShownRightly' /\ SettledRightly'
  BY <1>1, <1>2, <1>3, <1>4 DEF Flat, ShownRightly, SettledRightly, StandingDelete
<1>6. HiddenRightly'
  <2> SUFFICES ASSUME NEW x \in ActionIds, log'[x].kind = "add_expense", x \notin visible'
               PROVE  x \in undone' \/ \E d \in ActionIds : StandingDelete(d)' /\ log'[d].hit = x
    BY DEF HiddenRightly
  <2>1. CASE x = e
    BY <1>1, <1>2, <1>3, <2>1 DEF StandingDelete
  <2>2. CASE x # e
    <3>1. x # made' /\ log[x].kind = "add_expense" /\ x \notin visible
      BY <1>1, <1>2, <1>3, <2>2
    <3>2. CASE x \in undone
      BY <1>2, <3>2
    <3>3. CASE x \notin undone
      <4>1. PICK d \in ActionIds : StandingDelete(d) /\ log[d].hit = x
        BY <3>1, <3>3 DEF Flat, HiddenRightly
      <4> QED BY <1>2, <1>3, <4>1 DEF StandingDelete
    <3> QED BY <3>2, <3>3
  <2> QED BY <2>1, <2>2
<1> QED BY <1>5, <1>6 DEF Flat

LEMMA UndoCreationFlat ==
  ASSUME IInv, Flat, NEW a \in ActionIds, UndoCreation(a) PROVE Flat'
<1>1. /\ log[a].kind \in {"add_expense", "settle_up"} /\ a \notin undone
      /\ undone' = undone \cup {a} /\ log' = log /\ visible' = visible \ {a}
  BY DEF UndoCreation, Undoable
<1>2. ShownRightly' /\ SettledRightly'
  BY <1>1 DEF Flat, ShownRightly, SettledRightly, StandingDelete
<1>3. HiddenRightly'
  BY <1>1 DEF Flat, HiddenRightly, StandingDelete
<1> QED BY <1>2, <1>3 DEF Flat

LEMMA UndoDeleteFlat ==
  ASSUME IInv, Flat, NEW a \in ActionIds, UndoDelete(a) PROVE Flat'
<1> DEFINE e == log[a].expense
<1>1. /\ log[a].kind = "delete_expense" /\ a \notin undone /\ e # 0
      /\ undone' = undone \cup {a} /\ log' = log
      /\ visible' = IF ShouldBeVisible(e, {a}) THEN visible \cup {e} ELSE visible
  BY DEF UndoDelete, Undoable
<1>2. e = log[a].hit /\ e \in ActionIds /\ log[e].kind = "add_expense"
  BY <1>1 DEF IInv, LogOK, RowOK, Expenses, OfKind
<1>3. ShouldBeVisible(e, {a}) <=>
        e \notin undone /\ \A d \in ActionIds : StandingDelete(d) /\ d # a => log[d].expense # e
  BY <1>2 DEF ShouldBeVisible, ActiveDeleteExists, StandingDeletes, Standing, OfKind, StandingDelete
<1> HIDE DEF e
<1>4. ShownRightly' /\ SettledRightly'
  BY <1>1, <1>2, <1>3 DEF Flat, ShownRightly, SettledRightly, StandingDelete
<1>5. HiddenRightly'
  <2> SUFFICES ASSUME NEW x \in ActionIds, log[x].kind = "add_expense", x \notin visible'
               PROVE  x \in undone' \/ \E d \in ActionIds : StandingDelete(d)' /\ log[d].hit = x
    BY <1>1 DEF HiddenRightly
  <2>1. CASE x = e
    <3>1. e \in undone \/ \E d \in ActionIds : StandingDelete(d) /\ d # a /\ log[d].expense = e
      BY <1>1, <1>3, <2>1
    <3>2. CASE e \in undone
      BY <1>1, <2>1, <3>2
    <3>3. CASE \E d \in ActionIds : StandingDelete(d) /\ d # a /\ log[d].expense = e
      <4>1. PICK d \in ActionIds : StandingDelete(d) /\ d # a /\ log[d].expense = e
        BY <3>3
      <4>2. log[d].hit = e
        BY <1>2, <4>1 DEF StandingDelete, IInv, LogOK, RowOK, ActionIds
      <4> QED BY <1>1, <2>1, <4>1, <4>2 DEF StandingDelete
    <3> QED BY <3>1, <3>2, <3>3
  <2>2. CASE x # e
    BY <1>1, <1>2, <2>2 DEF Flat, HiddenRightly, StandingDelete
  <2> QED BY <2>1, <2>2
<1> QED BY <1>4, <1>5 DEF Flat

LEMMA RedoAddFlat ==
  ASSUME IInv, Flat, NEW a \in ActionIds, RedoAdd(a) PROVE Flat'
<1>1. /\ log[a].kind = "add_expense" /\ a \in undone
      /\ undone' = undone \ {a} /\ log' = log
      /\ visible' = IF ActiveDeleteExists(a, {}) THEN visible ELSE visible \cup {a}
  BY DEF RedoAdd, Redoable
<1>2. ActiveDeleteExists(a, {}) <=> \E d \in ActionIds : StandingDelete(d) /\ log[d].expense = a
  BY DEF ActiveDeleteExists, StandingDeletes, Standing, OfKind, StandingDelete
<1>3. \A d \in ActionIds : log[d].kind = "delete_expense" /\ log[d].expense = a => log[d].hit = a
  BY DEF IInv, LogOK, RowOK, ActionIds
<1>4. a \notin visible
  BY <1>1 DEF Flat, ShownRightly
<1>5. ShownRightly' /\ SettledRightly'
  BY <1>1, <1>2, <1>4 DEF Flat, ShownRightly, SettledRightly, StandingDelete
<1>6. HiddenRightly'
  BY <1>1, <1>2, <1>3 DEF Flat, HiddenRightly, StandingDelete
<1> QED BY <1>5, <1>6 DEF Flat

LEMMA RedoSettleUpFlat ==
  ASSUME IInv, Flat, NEW a \in ActionIds, RedoSettleUp(a) PROVE Flat'
<1>1. /\ log[a].kind = "settle_up" /\ a \in undone
      /\ undone' = undone \ {a} /\ log' = log /\ visible' = visible \cup {a}
  BY DEF RedoSettleUp, Redoable
<1>2. ShownRightly' /\ SettledRightly'
  BY <1>1 DEF Flat, ShownRightly, SettledRightly, StandingDelete
<1>3. HiddenRightly'
  BY <1>1 DEF Flat, HiddenRightly, StandingDelete
<1> QED BY <1>2, <1>3 DEF Flat

LEMMA RedoDeleteFlat ==
  ASSUME IInv, Flat, NEW a \in ActionIds, RedoDelete(a) PROVE Flat'
<1> DEFINE e == log[a].expense
<1>1. /\ log[a].kind = "delete_expense" /\ a \in undone /\ e # 0
      /\ undone' = undone \ {a} /\ log' = log /\ visible' = visible \ {e}
  BY DEF RedoDelete, Redoable
<1>2. e = log[a].hit /\ e \in ActionIds /\ log[e].kind = "add_expense"
  BY <1>1 DEF IInv, LogOK, RowOK, Expenses, OfKind
<1> HIDE DEF e
<1>3. log[a].expense = e
  BY DEF e
<1>4. ShownRightly' /\ SettledRightly'
  BY <1>1, <1>2, <1>3 DEF Flat, ShownRightly, SettledRightly, StandingDelete
<1>5. HiddenRightly'
  BY <1>1, <1>2 DEF Flat, HiddenRightly, StandingDelete
<1> QED BY <1>4, <1>5 DEF Flat

LEMMA InitFlat == Init => Flat
BY DEF Init, Flat, ShownRightly, HiddenRightly, SettledRightly, StandingDelete, NoAction

LEMMA ManageFlat == ASSUME IInv, Flat, Manage PROVE Flat'
<1> PICK l \in Ledgers : \/ \E c \in Settable : NewLedger(l, c)
                         \/ SwitchLedger(l) \/ ArchiveLedger(l) \/ UnarchiveLedger(l)
  BY DEF Manage
<1>1. active \in Ledgers \cup {0}
  BY DEF IInv, TypeOK
<1>2. CASE \E c \in Settable : NewLedger(l, c)
  <2>1. PICK c \in Settable : NewLedger(l, c)
    BY <1>2
  <2> DEFINE row == [LedgerRow("new_ledger", l, active) EXCEPT !.to = c]
  <2>2. row \in Action /\ row.kind \notin Concerned
    BY <1>1, LedgerRowType DEF Kinds, Action, Concerned
  <2>3. Append(row) /\ UNCHANGED <<visible, undone>>
    BY <2>1 DEF NewLedger
  <2> QED BY <2>2, <2>3, OtherAppend
<1>3. CASE SwitchLedger(l) \/ ArchiveLedger(l) \/ UnarchiveLedger(l)
  <2>1. PICK k \in LedgerKinds, p \in Ledgers \cup {0} :
          Append(LedgerRow(k, l, p)) /\ UNCHANGED <<visible, undone>>
    BY <1>1, <1>3 DEF SwitchLedger, ArchiveLedger, UnarchiveLedger, LedgerKinds
  <2>2. LedgerRow(k, l, p) \in Action /\ LedgerRow(k, l, p).kind \notin Concerned
    BY LedgerRowType DEF LedgerKinds, Kinds, Concerned
  <2> QED BY <2>1, <2>2, OtherAppend
<1> QED BY <1>2, <1>3

LEMMA ConfigureFlat == ASSUME IInv, Flat, Configure PROVE Flat'
<1>1. PICK k \in FlipKinds, c \in Settable : Flip(k, c)
  BY DEF Configure, ClearFxRate, SetHomeCurrency, SetFxRate, SetLoggingCurrency, FlipKinds, Settable
<1> DEFINE row == FlipRow(k, active, c, settings[Slot(k, active)])
<1>2. active \in Ledgers /\ k \in Kinds /\ settings[Slot(k, active)] \in Settable
  BY SlotType DEF IInv, TypeOK, FlipKinds, Kinds
<1>3. row \in Action /\ row.kind \notin Concerned
  BY <1>2, FlipRowType DEF FlipKinds, Concerned
<1>4. Append(row) /\ UNCHANGED <<visible, undone>>
  BY <1>1 DEF Flip
<1> QED BY <1>3, <1>4, OtherAppend

LEMMA EditExpenseFlat ==
  ASSUME IInv, Flat, NEW e \in ActionIds, NEW n \in {0, e}, NEW c \in Changes, EditExpense(e, n, c)
  PROVE  Flat'
<1> DEFINE row == ExpenseRow("edit_expense", log[e].ledger, n, e, c, Displaced(text[e], c))
<1>1. row \in Action /\ row.kind \notin Concerned
  <2>1. log[e].ledger \in Ledgers \cup {0} /\ Displaced(text[e], c) \in Changes
    BY OverlayType DEF IInv, TypeOK, Action
  <2>2. row \in Action /\ row.kind = "edit_expense"
    BY <2>1, EditRowType
  <2> QED BY <2>2 DEF Concerned
<1>2. Append(row) /\ UNCHANGED <<visible, undone>>
  BY DEF EditExpense
<1> QED BY <1>1, <1>2, OtherAppend

LEMMA ToggleFlat ==
  ASSUME Flat, NEW a \in ActionIds,
         \/ UndoEdit(a) \/ UndoNewLedger(a) \/ UndoSwitch(a) \/ UndoArchive(a) \/ UndoUnarchive(a)
         \/ UndoFlip(a) \/ RedoFlip(a)
         \/ RedoEdit(a) \/ RedoNewLedger(a) \/ RedoSwitch(a) \/ RedoArchive(a) \/ RedoUnarchive(a)
  PROVE  Flat'
<1>1. /\ UNCHANGED <<log, visible>> /\ log[a].kind \notin Concerned
      /\ undone' \in {undone \cup {a}, undone \ {a}}
  BY DEF UndoEdit, UndoNewLedger, UndoSwitch, UndoArchive, UndoUnarchive, RedoEdit,
         RedoNewLedger, RedoSwitch, RedoArchive, RedoUnarchive, UndoFlip, RedoFlip, FlipKinds,
         Undoable, Redoable, Concerned
<1> QED BY <1>1, OtherToggle

LEMMA NextFlat == IInv /\ Flat /\ [Next]_vars => Flat'
<1> SUFFICES ASSUME IInv, Flat, [Next]_vars PROVE Flat'
  OBVIOUS
<1>1. CASE Record
  BY <1>1, AddExpenseFlat, RecordSettlementFlat, DeleteExpenseFlat, EditExpenseFlat
  DEF Record, SettleUp, SettleTap
<1>2. CASE Manage
  BY <1>2, ManageFlat
<1>3. CASE Configure
  BY <1>3, ConfigureFlat
<1>4. CASE Undo
  BY <1>4, UndoCreationFlat, UndoDeleteFlat, ToggleFlat DEF Undo
<1>5. CASE Redo
  BY <1>5, RedoAddFlat, RedoSettleUpFlat, RedoDeleteFlat, ToggleFlat DEF Redo
<1>6. CASE UNCHANGED vars
  BY <1>6 DEF vars, Flat, ShownRightly, HiddenRightly, SettledRightly, StandingDelete
<1> QED BY <1>1, <1>2, <1>3, <1>4, <1>5, <1>6 DEF Next

\* Whatever the order in which adds, deletes and settlements are undone and
\* redone, what is visible is what the log says: the derivation in undo.py
\* (_expense_should_be_visible, _active_delete_exists) loses no case.
THEOREM VisibilityAlwaysDerived == Spec => []VisibilityDerived
<1>1. Init => IInv /\ Flat
  BY InitIInv, InitFlat
<1>2. IInv /\ Flat /\ [Next]_vars => (IInv /\ Flat)'
  BY NextIInv, NextFlat
<1>3. IInv /\ Flat => VisibilityDerived
  BY FlatForm
<1> QED BY <1>1, <1>2, <1>3, PTL DEF Spec
-----------------------------------------------------------------------------
(* Why a ledger is archived, and what moves the active pointer: LogOK alone  *)
(* says enough.  A row that names a ledger names one that was created, and a *)
(* row appended is a fresh one, so the reasons a ledger already has stay.    *)

\* Action a is why ledger l is archived.
Reason(a, l) ==
  /\ log[a].ledger = l
  /\ \/ log[a].kind = "archive_ledger" /\ a \notin undone
     \/ log[a].kind \in {"new_ledger", "unarchive_ledger"} /\ a \in undone

Reasons == {"archive_ledger", "new_ledger", "unarchive_ledger"}

LEMMA ReasonForm ==
  /\ ArchivedExplained <=> \A l \in Ledgers : status[l] = "archived" => \E a \in ActionIds : Reason(a, l)
  /\ ArchivedExplained' <=>
       \A l \in Ledgers : status'[l] = "archived" => \E a \in ActionIds : Reason(a, l)'
<1> USE DEF ArchivedExplained, Reason
<1>1. ArchivedExplained <=>
        \A l \in Ledgers : status[l] = "archived" => \E a \in ActionIds : Reason(a, l)
  OBVIOUS
<1>2. ArchivedExplained' <=>
        \A l \in Ledgers : status'[l] = "archived" => \E a \in ActionIds : Reason(a, l)'
  OBVIOUS
<1> QED BY <1>1, <1>2

\* A row that is appended takes no reason away.
LEMMA ReasonsStay ==
  ASSUME IInv, NEW row \in Action, Append(row), UNCHANGED undone
  PROVE  \A a \in ActionIds : \A l \in Ledgers : Reason(a, l) => Reason(a, l)'
<1>1. /\ \A a \in ActionIds : a # made' => log'[a] = log[a]
      /\ log[made'].kind = "none"
  BY NewRowFlat
<1> QED BY <1>1 DEF Reason

\* An appended row that archives nothing.
LEMMA AppendArchivesNothing ==
  ASSUME IInv, ArchivedExplained, NEW row \in Action, Append(row), UNCHANGED undone,
         \A l \in Ledgers : status'[l] = "archived" => status[l] = "archived"
  PROVE  ArchivedExplained'
BY ReasonsStay, ReasonForm

LEMMA RecordExplained == ASSUME IInv, ArchivedExplained, Record PROVE ArchivedExplained'
<1>1. UNCHANGED <<status, undone>>
  BY DEF Record, AddExpense, SettleUp, SettleTap, RecordSettlement, DeleteExpense, EditExpense
<1>2. \E row \in Action : Append(row)
  <2>1. ASSUME NEW l \in Ledgers, NEW t \in FirstTexts, AddExpense(l, t)
        PROVE  \E row \in Action : Append(row)
    <3>1. t \in Changes /\ "add_expense" \in Kinds
      BY TextsAssumption, TextsAreChanges DEF Kinds
    <3>2. ExpenseRow("add_expense", l, 0, 0, t, NoChange) \in Action
      BY <3>1, NoChangeType, ExpenseRowType
    <3> QED BY <2>1, <3>2 DEF AddExpense
  <2>2. ASSUME NEW l \in Ledgers, RecordSettlement(l)
        PROVE  \E row \in Action : Append(row)
    <3>1. LedgerRow("settle_up", l, 0) \in Action
      BY LedgerRowType DEF Kinds
    <3> QED BY <2>2, <3>1 DEF RecordSettlement
  <2>3. ASSUME NEW e \in ActionIds, NEW n \in {0, e}, DeleteExpense(e, n)
        PROVE  \E row \in Action : Append(row)
    <3>1. /\ log[e].ledger \in Ledgers \cup {0} /\ "delete_expense" \in Kinds
          /\ n \in ActionIds \cup {0} /\ e \in ActionIds \cup {0}
      BY DEF IInv, TypeOK, Action, Kinds
    <3>2. ExpenseRow("delete_expense", log[e].ledger, n, e, NoChange, NoChange) \in Action
      BY <3>1, NoChangeType, ExpenseRowType
    <3> QED BY <2>3, <3>2 DEF DeleteExpense
  <2>4. ASSUME NEW e \in ActionIds, NEW n \in {0, e}, NEW c \in Changes, EditExpense(e, n, c)
        PROVE  \E row \in Action : Append(row)
    <3>1. log[e].ledger \in Ledgers \cup {0} /\ Displaced(text[e], c) \in Changes
      BY OverlayType DEF IInv, TypeOK, Action
    <3>2. ExpenseRow("edit_expense", log[e].ledger, n, e, c, Displaced(text[e], c)) \in Action
      BY <3>1, EditRowType
    <3> QED BY <2>4, <3>2 DEF EditExpense
  <2> QED BY <2>1, <2>2, <2>3, <2>4 DEF Record, SettleUp, SettleTap
<1> QED BY <1>1, <1>2, AppendArchivesNothing

LEMMA ManageExplained == ASSUME IInv, ArchivedExplained, Manage PROVE ArchivedExplained'
<1> PICK l \in Ledgers : \/ \E c \in Settable : NewLedger(l, c)
                         \/ SwitchLedger(l) \/ ArchiveLedger(l) \/ UnarchiveLedger(l)
  BY DEF Manage
<1>1. active \in Ledgers \cup {0} /\ status \in [Ledgers -> {"none", "open", "archived"}]
  BY DEF IInv, TypeOK
<1>2. CASE \E c \in Settable : NewLedger(l, c)
  <2>1. PICK c \in Settable : NewLedger(l, c)
    BY <1>2
  <2>2. [LedgerRow("new_ledger", l, active) EXCEPT !.to = c] \in Action
    BY <1>1, LedgerRowType DEF Kinds, Action
  <2>3. /\ Append([LedgerRow("new_ledger", l, active) EXCEPT !.to = c]) /\ UNCHANGED undone
        /\ \A k \in Ledgers : status'[k] = "archived" => status[k] = "archived"
    BY <1>1, <2>1 DEF NewLedger
  <2> QED BY <2>2, <2>3, AppendArchivesNothing
<1>3. CASE SwitchLedger(l)
  <2>1. LedgerRow("switch_ledger", l, active) \in Action
    BY <1>1, LedgerRowType DEF Kinds
  <2> QED BY <1>3, <2>1, AppendArchivesNothing DEF SwitchLedger
<1>4. CASE UnarchiveLedger(l)
  <2>1. LedgerRow("unarchive_ledger", l, 0) \in Action
    BY LedgerRowType DEF Kinds
  <2>2. \A k \in Ledgers : status'[k] = "archived" => status[k] = "archived"
    BY <1>1, <1>4 DEF UnarchiveLedger
  <2> QED BY <1>4, <2>1, <2>2, AppendArchivesNothing DEF UnarchiveLedger
<1>5. CASE ArchiveLedger(l)
  <2> DEFINE row == LedgerRow("archive_ledger", l, (IF l = active THEN active ELSE 0))
  <2>1. row \in Action /\ row.kind = "archive_ledger" /\ row.ledger = l
    <3>1. (IF l = active THEN active ELSE 0) \in Ledgers \cup {0} /\ "archive_ledger" \in Kinds
      BY <1>1 DEF Kinds
    <3> QED BY <3>1, LedgerRowType
  <2>2. Append(row) /\ UNCHANGED undone /\ status' = [status EXCEPT ![l] = "archived"]
    BY <1>5 DEF ArchiveLedger
  <2> HIDE DEF row
  <2>3. PICK m \in ActionIds : log'[m] = row /\ m \notin undone
    BY <2>1, <2>2, NewRowFlat
  <2>4. Reason(m, l)'
    BY <2>1, <2>2, <2>3 DEF Reason
  <2> QED BY <1>1, <2>1, <2>2, <2>3, <2>4, ReasonsStay, ReasonForm
<1> QED BY <1>2, <1>3, <1>4, <1>5

LEMMA ConfigureExplained == ASSUME IInv, ArchivedExplained, Configure PROVE ArchivedExplained'
<1>1. PICK k \in FlipKinds, c \in Settable : Flip(k, c)
  BY DEF Configure, ClearFxRate, SetHomeCurrency, SetFxRate, SetLoggingCurrency, FlipKinds, Settable
<1>2. active \in Ledgers /\ k \in Kinds /\ settings[Slot(k, active)] \in Settable
  BY SlotType DEF IInv, TypeOK, FlipKinds, Kinds
<1>3. FlipRow(k, active, c, settings[Slot(k, active)]) \in Action
  BY <1>2, FlipRowType
<1> QED BY <1>1, <1>3, AppendArchivesNothing DEF Flip

\* What an undo or a redo of a does to the ledgers, by its kind.
LEMMA ToggleOfLedgers ==
  ASSUME IInv, NEW a \in ActionIds,
         \/ UndoCreation(a) \/ UndoDelete(a) \/ UndoEdit(a) \/ UndoNewLedger(a)
         \/ UndoSwitch(a) \/ UndoArchive(a) \/ UndoUnarchive(a) \/ UndoFlip(a)
         \/ RedoAdd(a) \/ RedoSettleUp(a) \/ RedoDelete(a) \/ RedoEdit(a) \/ RedoNewLedger(a)
         \/ RedoSwitch(a) \/ RedoArchive(a) \/ RedoUnarchive(a) \/ RedoFlip(a)
  PROVE  /\ log' = log
         /\ \/ log[a].kind \notin Reasons /\ status' = status /\ undone' \in {undone \cup {a}, undone \ {a}}
            \/ /\ log[a].kind = "archive_ledger" /\ undone' = undone \cup {a}
               /\ status' = [status EXCEPT ![log[a].ledger] = "open"]
            \/ /\ log[a].kind \in {"new_ledger", "unarchive_ledger"} /\ undone' = undone \cup {a}
               /\ status' = [status EXCEPT ![log[a].ledger] = "archived"]
            \/ /\ log[a].kind = "archive_ledger" /\ undone' = undone \ {a}
               /\ status' = [status EXCEPT ![log[a].ledger] = "archived"]
            \/ /\ log[a].kind \in {"new_ledger", "unarchive_ledger"} /\ undone' = undone \ {a}
               /\ status' = [status EXCEPT ![log[a].ledger] = "open"]
BY DEF UndoCreation, UndoDelete, UndoEdit, UndoNewLedger, UndoSwitch, UndoArchive, UndoUnarchive,
       UndoFlip, RedoAdd, RedoSettleUp, RedoDelete, RedoEdit, RedoNewLedger, RedoSwitch,
       RedoArchive, RedoUnarchive, RedoFlip, Undoable, Redoable, FlipKinds, Reasons

LEMMA ToggleExplained ==
  ASSUME IInv, ArchivedExplained, Undo \/ Redo PROVE ArchivedExplained'
<1>1. PICK a \in ActionIds :
         \/ UndoCreation(a) \/ UndoDelete(a) \/ UndoEdit(a) \/ UndoNewLedger(a)
         \/ UndoSwitch(a) \/ UndoArchive(a) \/ UndoUnarchive(a) \/ UndoFlip(a)
         \/ RedoAdd(a) \/ RedoSettleUp(a) \/ RedoDelete(a) \/ RedoEdit(a) \/ RedoNewLedger(a)
         \/ RedoSwitch(a) \/ RedoArchive(a) \/ RedoUnarchive(a) \/ RedoFlip(a)
  BY DEF Undo, Redo
<1>2. log' = log /\ status \in [Ledgers -> {"none", "open", "archived"}]
  BY <1>1, ToggleOfLedgers DEF IInv, TypeOK
<1>3. \A b \in ActionIds : b # a => (b \in undone' <=> b \in undone)
  BY <1>1, ToggleOfLedgers
<1>4. \A b \in ActionIds : \A l \in Ledgers : Reason(b, l) /\ b # a => Reason(b, l)'
  BY <1>2, <1>3 DEF Reason
<1> SUFFICES ASSUME NEW l \in Ledgers, status'[l] = "archived"
             PROVE  \E b \in ActionIds : Reason(b, l)'
  BY ReasonForm
<1>5. CASE log[a].kind \notin Reasons /\ status' = status
  <2>1. PICK b \in ActionIds : Reason(b, l)
    BY <1>5, ReasonForm
  <2>2. b # a
    BY <1>5, <2>1 DEF Reason, Reasons
  <2> QED BY <1>4, <2>1, <2>2
<1>6. CASE status' = [status EXCEPT ![log[a].ledger] = "open"]
  <2>1. l # log[a].ledger /\ status[l] = "archived"
    BY <1>2, <1>6
  <2>2. PICK b \in ActionIds : Reason(b, l)
    BY <2>1, ReasonForm
  <2>3. b # a
    BY <2>1, <2>2 DEF Reason
  <2> QED BY <1>4, <2>2, <2>3
<1>7. CASE /\ \/ log[a].kind \in {"new_ledger", "unarchive_ledger"} /\ undone' = undone \cup {a}
              \/ log[a].kind = "archive_ledger" /\ undone' = undone \ {a}
           /\ status' = [status EXCEPT ![log[a].ledger] = "archived"]
  <2>1. CASE l = log[a].ledger
    BY <1>2, <1>7, <2>1 DEF Reason
  <2>2. CASE l # log[a].ledger
    <3>1. PICK b \in ActionIds : Reason(b, l)
      BY <1>2, <1>7, <2>2, ReasonForm
    <3>2. b # a
      BY <2>2, <3>1 DEF Reason
    <3> QED BY <1>4, <3>1, <3>2
  <2> QED BY <2>1, <2>2
<1> QED BY <1>1, <1>5, <1>6, <1>7, ToggleOfLedgers

LEMMA NextExplained == IInv /\ ArchivedExplained /\ [Next]_vars => ArchivedExplained'
<1> SUFFICES ASSUME IInv, ArchivedExplained, [Next]_vars PROVE ArchivedExplained'
  OBVIOUS
<1>1. CASE UNCHANGED vars
  BY <1>1 DEF vars, ArchivedExplained
<1> QED BY <1>1, RecordExplained, ManageExplained, ConfigureExplained, ToggleExplained DEF Next

\* In whatever order archives, creations and reopenings are undone and redone, a
\* ledger is archived only while the log says why (undo.py, the ledger toggles).
THEOREM ArchivedAlwaysExplained == Spec => []ArchivedExplained
<1>1. Init => IInv /\ ArchivedExplained
  BY InitIInv DEF Init, ArchivedExplained
<1>2. IInv /\ ArchivedExplained /\ [Next]_vars => (IInv /\ ArchivedExplained)'
  BY NextIInv, NextExplained
<1> QED BY <1>1, <1>2, PTL DEF Spec

-----------------------------------------------------------------------------
(* The pointer *)

\* What justifies moving the pointer onto a ledger that is not open before.
Justified ==
  active' # active /\ status[active'] # "open" =>
    \E a \in ActionIds :
      /\ log'[a].ledger = active'
      /\ \/ log'[a].kind = "new_ledger" /\ (a > made \/ a \in undone) /\ a \notin undone'
         \/ /\ log[a].kind = "archive_ledger" /\ log[a].previous = active'
            /\ a \in undone' \ undone

LEMMA ManageJustified == ASSUME IInv, Manage PROVE Justified
<1> PICK l \in Ledgers : \/ \E c \in Settable : NewLedger(l, c)
                         \/ SwitchLedger(l) \/ ArchiveLedger(l) \/ UnarchiveLedger(l)
  BY DEF Manage
<1>1. CASE \E c \in Settable : NewLedger(l, c)
  <2>1. PICK c \in Settable : NewLedger(l, c)
    BY <1>1
  <2> DEFINE row == [LedgerRow("new_ledger", l, active) EXCEPT !.to = c]
  <2>2. active \in Ledgers \cup {0} /\ "new_ledger" \in Kinds
    BY DEF IInv, TypeOK, Kinds
  <2>3. row \in Action /\ row.kind = "new_ledger" /\ row.ledger = l
    BY <2>2, LedgerRowType DEF Action
  <2>4. Append(row) /\ UNCHANGED undone /\ active' = l
    BY <2>1 DEF NewLedger
  <2> HIDE DEF row
  <2>5. /\ made' = made + 1 /\ made \in Nat /\ made' \in ActionIds
        /\ log'[made'] = row /\ made' \notin undone
    BY <2>3, <2>4, NewRowFlat DEF IInv, TypeOK
  <2>6. made' > made
    BY <2>5
  <2> QED BY <2>3, <2>4, <2>5, <2>6 DEF Justified
<1>2. CASE SwitchLedger(l) \/ ArchiveLedger(l) \/ UnarchiveLedger(l)
  <2>1. active' = active \/ status[active'] = "open"
    BY <1>2, MostRecentOpenIn DEF SwitchLedger, ArchiveLedger, UnarchiveLedger
  <2> QED BY <2>1 DEF Justified
<1> QED BY <1>1, <1>2

LEMMA UndoJustified == ASSUME IInv, Undo PROVE Justified
<1> PICK a \in ActionIds :
      \/ UndoCreation(a)  \/ UndoDelete(a) \/ UndoEdit(a)
      \/ UndoNewLedger(a) \/ UndoSwitch(a) \/ UndoArchive(a) \/ UndoUnarchive(a)
      \/ UndoFlip(a)
  BY DEF Undo
<1>1. CASE UndoCreation(a) \/ UndoDelete(a) \/ UndoEdit(a) \/ UndoUnarchive(a) \/ UndoFlip(a)
  BY <1>1 DEF UndoCreation, UndoDelete, UndoEdit, UndoUnarchive, UndoFlip, Justified
<1>2. CASE UndoNewLedger(a)
  <2>1. status[active'] = "open"
    BY <1>2, MostRecentOpenIn DEF UndoNewLedger
  <2> QED BY <2>1 DEF Justified
<1>3. CASE UndoSwitch(a)
  <2>1. status[active'] = "open"
    BY <1>3, MostRecentOpenIn DEF UndoSwitch, RepointTarget
  <2> QED BY <2>1 DEF Justified
<1>4. CASE UndoArchive(a)
  <2> DEFINE reopened == [status EXCEPT ![log[a].ledger] = "open"]
  <2>1. /\ log[a].kind = "archive_ledger" /\ a \notin undone /\ undone' = undone \cup {a}
        /\ log' = log
        /\ active' \in IF log[a].previous = 0 THEN {active}
                       ELSE RepointTarget(reopened, log[a].previous)
    BY <1>4 DEF UndoArchive, Undoable
  <2>2. log[a].ledger \in Ledgers /\ log[a].previous \in {0, log[a].ledger}
    BY <2>1 DEF IInv, LogOK, RowOK, LedgerKinds
  <2>3. CASE log[a].previous = 0
    BY <2>1, <2>3 DEF Justified
  <2>4. CASE log[a].previous # 0
    <3>1. log[a].previous = log[a].ledger /\ reopened[log[a].previous] = "open"
      BY <2>2, <2>4 DEF IInv, TypeOK
    <3>2. active' = log[a].previous
      BY <2>1, <2>4, <3>1 DEF RepointTarget
    <3> QED BY <2>1, <3>1, <3>2 DEF Justified
  <2> QED BY <2>3, <2>4
<1> QED BY <1>1, <1>2, <1>3, <1>4

LEMMA RedoJustified == ASSUME IInv, Redo PROVE Justified
<1> PICK a \in ActionIds :
      \/ RedoAdd(a)       \/ RedoSettleUp(a) \/ RedoDelete(a)  \/ RedoEdit(a)
      \/ RedoNewLedger(a) \/ RedoSwitch(a)   \/ RedoArchive(a) \/ RedoUnarchive(a)
      \/ RedoFlip(a)
  BY DEF Redo
<1>1. CASE RedoAdd(a) \/ RedoSettleUp(a) \/ RedoDelete(a) \/ RedoEdit(a) \/ RedoUnarchive(a) \/ RedoFlip(a)
  BY <1>1 DEF RedoAdd, RedoSettleUp, RedoDelete, RedoEdit, RedoUnarchive, RedoFlip, Justified
<1>2. CASE RedoNewLedger(a)
  <2>1. /\ log[a].kind = "new_ledger" /\ a \in undone /\ undone' = undone \ {a} /\ log' = log
        /\ active' = log[a].ledger
    BY <1>2 DEF RedoNewLedger, Redoable
  <2> QED BY <2>1 DEF Justified
<1>3. CASE RedoSwitch(a)
  <2>1. log[a].kind = "switch_ledger" /\ active' = log[a].ledger /\ status[log[a].ledger] # "archived"
    BY <1>3 DEF RedoSwitch, Redoable
  <2>2. log[a].ledger \in Ledgers /\ status[log[a].ledger] # "none"
    BY <2>1 DEF IInv, LogOK, RowOK, LedgerKinds
  <2>3. status[active'] = "open"
    BY <2>1, <2>2 DEF IInv, TypeOK
  <2> QED BY <2>3 DEF Justified
<1>4. CASE RedoArchive(a)
  <2>1. active' = active \/ status[active'] = "open"
    BY <1>4, MostRecentOpenIn DEF RedoArchive
  <2> QED BY <2>1 DEF Justified
<1> QED BY <1>1, <1>2, <1>3, <1>4

LEMMA StepJustified == IInv /\ [Next]_vars => Justified
<1> SUFFICES ASSUME IInv, [Next]_vars PROVE Justified
  OBVIOUS
<1>1. CASE Record
  BY <1>1 DEF Record, AddExpense, SettleUp, SettleTap, RecordSettlement, DeleteExpense, EditExpense,
              Justified
<1>2. CASE Configure
  BY <1>2 DEF Configure, ClearFxRate, SetHomeCurrency, SetFxRate, SetLoggingCurrency, Flip, Justified
<1>3. CASE UNCHANGED vars
  BY <1>3 DEF vars, Justified
<1> QED BY <1>1, <1>2, <1>3, ManageJustified, UndoJustified, RedoJustified DEF Next

\* Reopening is not switching, for any number of ledgers: the pointer lands on a
\* ledger that was not open only by its creation, the redo of that, or the undo of
\* the archive that took the pointer away.
THEOREM ReopeningNeverActivates == Spec => ReopeningDoesNotActivate
<1>1. IInv /\ [Next]_vars =>
        [active' # active /\ status[active'] # "open" =>
           \E a \in ActionIds :
             /\ log'[a].ledger = active'
             /\ \/ log'[a].kind = "new_ledger" /\ (a > made \/ a \in undone) /\ a \notin undone'
                \/ /\ log[a].kind = "archive_ledger" /\ log[a].previous = active'
                   /\ a \in undone' \ undone]_vars
  BY StepJustified DEF Justified
<1> QED BY <1>1, Invariance, PTL DEF Spec, ReopeningDoesNotActivate
=============================================================================
