--------------------------- MODULE BooksTextProofs ---------------------------
(***************************************************************************)
(* What expenses and settings of Books show after any edits and flips,     *)
(* undone and redone in any order, for any number of them.                 *)
(*                                                                         *)
(* A toggle works from what its row saved when it was made.  So each proof *)
(* adds what the rows saved: the before-image of the only edit of a field  *)
(* is the logged text (BeforeImages), the before-image of the only flip of *)
(* a setting is what it was first (FirstImages).                           *)
(***************************************************************************)
EXTENDS BooksProofs

-----------------------------------------------------------------------------
(* Steps, as far as texts, marks and settings are concerned *)

\* The row an operation appends is a new one.
LEMMA Fresh ==
  ASSUME IInv, NEW row \in Action, Append(row)
  PROVE  \E m \in ActionIds :
           /\ m = made + 1 /\ log'[m] = row /\ log[m].kind = "none" /\ m \notin undone
           /\ \A a \in ActionIds : a # m => log'[a] = log[a]
           /\ \A a \in ActionIds : log[a].kind # "none" => a < m
<1>1. /\ made' = made + 1 /\ made' \in ActionIds /\ log'[made'] = row
      /\ \A a \in ActionIds : a # made' => log'[a] = log[a]
      /\ log[made'].kind = "none" /\ made' \notin undone
  BY NewRowFlat
<1>2. \A a \in ActionIds : log[a].kind # "none" => a < made + 1
  BY DEF IInv, LogOK, TypeOK, ActionIds
<1> QED BY <1>1, <1>2

LEMMA AddRow ==
  ASSUME IInv, NEW l \in Ledgers, NEW t \in FirstTexts, AddExpense(l, t)
  PROVE  \E row \in Action :
           /\ Append(row) /\ row.kind = "add_expense" /\ row.change = t
           /\ text' = [text EXCEPT ![made + 1] = t]
           /\ UNCHANGED <<undone, edited, settings>>
<1>1. t \in Changes /\ "add_expense" \in Kinds
  BY TextsAssumption, TextsAreChanges DEF Kinds
<1> DEFINE row == ExpenseRow("add_expense", l, 0, 0, t, NoChange)
<1>2. row \in Action /\ row.kind = "add_expense"
  BY <1>1, NoChangeType, ExpenseRowType
<1>3. row.change = t
  BY DEF ExpenseRow, NoAction
<1> QED BY <1>2, <1>3 DEF AddExpense

LEMMA EditRow ==
  ASSUME IInv, NEW e \in ActionIds, NEW n \in {0, e}, NEW c \in Changes, EditExpense(e, n, c)
  PROVE  \E row \in Action :
           /\ Append(row) /\ row.kind = "edit_expense" /\ row.hit = e /\ row.expense = n
           /\ row.change = c /\ row.before = Displaced(text[e], c)
           /\ log[e].kind = "add_expense"
           /\ text' = [text EXCEPT ![e] = Overlay(text[e], c)]
           /\ edited' = [edited EXCEPT ![e] = made + 1]
           /\ UNCHANGED <<undone, settings>>
<1> DEFINE row == ExpenseRow("edit_expense", log[e].ledger, n, e, c, Displaced(text[e], c))
<1>1. log[e].ledger \in Ledgers \cup {0} /\ Displaced(text[e], c) \in Changes
  BY OverlayType DEF IInv, TypeOK, Action
<1>2. row \in Action /\ row.kind = "edit_expense"
  BY <1>1, EditRowType
<1>3. row.hit = e /\ row.expense = n /\ row.change = c /\ row.before = Displaced(text[e], c)
  BY DEF ExpenseRow, NoAction
<1>4. Append(row) /\ log[e].kind = "add_expense"
  BY DEF EditExpense, Expenses, OfKind
<1> QED BY <1>2, <1>3, <1>4 DEF EditExpense

LEMMA SettlementRow ==
  ASSUME IInv, NEW l \in Ledgers, RecordSettlement(l)
  PROVE  \E row \in Action : /\ Append(row) /\ row.kind = "settle_up"
                             /\ UNCHANGED <<undone, text, edited, settings>>
<1>1. LedgerRow("settle_up", l, 0) \in Action /\ LedgerRow("settle_up", l, 0).kind = "settle_up"
  BY LedgerRowType DEF Kinds
<1> QED BY <1>1 DEF RecordSettlement

LEMMA DeleteRow ==
  ASSUME IInv, NEW e \in ActionIds, NEW n \in {0, e}, DeleteExpense(e, n)
  PROVE  \E row \in Action : /\ Append(row) /\ row.kind = "delete_expense"
                             /\ UNCHANGED <<undone, text, edited, settings>>
<1>1. /\ log[e].ledger \in Ledgers \cup {0} /\ "delete_expense" \in Kinds
      /\ n \in ActionIds \cup {0} /\ e \in ActionIds \cup {0}
  BY DEF IInv, TypeOK, Action, Kinds
<1> DEFINE row == ExpenseRow("delete_expense", log[e].ledger, n, e, NoChange, NoChange)
<1>2. row \in Action /\ row.kind = "delete_expense"
  BY <1>1, NoChangeType, ExpenseRowType
<1>3. Append(row)
  BY DEF DeleteExpense
<1> HIDE DEF row
<1> QED BY <1>2, <1>3 DEF DeleteExpense

LEMMA NewLedgerRow ==
  ASSUME IInv, NEW l \in Ledgers, NEW c \in Settable, NewLedger(l, c)
  PROVE  \E row \in Action :
           /\ Append(row) /\ row.kind = "new_ledger" /\ row.ledger = l /\ row.to = c
           /\ settings' = [settings EXCEPT ![<<"logging", l>>] = c]
           /\ UNCHANGED <<undone, text, edited>>
<1> DEFINE row == [LedgerRow("new_ledger", l, active) EXCEPT !.to = c]
<1>1. active \in Ledgers \cup {0} /\ "new_ledger" \in Kinds
  BY DEF IInv, TypeOK, Kinds
<1>2. row \in Action /\ row.kind = "new_ledger" /\ row.ledger = l
  BY <1>1, LedgerRowType DEF Action
<1>3. row.to = c
  BY <1>1, LedgerRowType DEF Action
<1> QED BY <1>2, <1>3 DEF NewLedger

LEMMA LedgerRows ==
  ASSUME IInv, NEW l \in Ledgers, SwitchLedger(l) \/ ArchiveLedger(l) \/ UnarchiveLedger(l)
  PROVE  \E row \in Action :
           /\ Append(row) /\ row.kind \in {"switch_ledger", "archive_ledger", "unarchive_ledger"}
           /\ UNCHANGED <<undone, text, edited, settings>>
<1>1. active \in Ledgers \cup {0}
  BY DEF IInv, TypeOK
<1>2. PICK k \in {"switch_ledger", "archive_ledger", "unarchive_ledger"}, p \in Ledgers \cup {0} :
        Append(LedgerRow(k, l, p)) /\ UNCHANGED <<undone, text, edited, settings>>
  BY <1>1 DEF SwitchLedger, ArchiveLedger, UnarchiveLedger
<1>3. LedgerRow(k, l, p) \in Action /\ LedgerRow(k, l, p).kind = k
  BY LedgerRowType DEF Kinds
<1> QED BY <1>2, <1>3

LEMMA FlipRows ==
  ASSUME IInv, NEW k \in FlipKinds, NEW c \in Settable, Flip(k, c)
  PROVE  \E row \in Action :
           /\ Append(row) /\ row.kind = k /\ row.ledger = active /\ row.to = c
           /\ row.from = settings[Slot(k, active)]
           /\ settings' = [settings EXCEPT ![Slot(k, active)] = c]
           /\ UNCHANGED <<status, undone, text, edited>>
<1> DEFINE row == FlipRow(k, active, c, settings[Slot(k, active)])
<1>1. active \in Ledgers /\ k \in Kinds /\ settings[Slot(k, active)] \in Settable
  BY SlotType DEF IInv, TypeOK, FlipKinds, Kinds
<1>2. row \in Action /\ row.kind = k /\ row.ledger = active
  BY <1>1, FlipRowType
<1>3. row.to = c /\ row.from = settings[Slot(k, active)]
  BY DEF FlipRow, NoAction
<1> QED BY <1>2, <1>3 DEF Flip

LEMMA ConfigureFlips == ASSUME Configure PROVE \E k \in FlipKinds, c \in Settable : Flip(k, c)
BY DEF Configure, ClearFxRate, SetHomeCurrency, SetFxRate, SetLoggingCurrency, FlipKinds, Settable

\* Every operation that is neither an add nor an edit leaves texts and marks alone.
LEMMA OtherRows ==
  ASSUME IInv, Record \/ Manage \/ Configure
  PROVE  \/ \E l \in Ledgers, t \in FirstTexts : AddExpense(l, t)
         \/ \E e \in ActionIds : \E n \in {0, e}, c \in Changes : EditExpense(e, n, c)
         \/ \E row \in Action : /\ Append(row) /\ row.kind \notin {"add_expense", "edit_expense"}
                                /\ UNCHANGED <<undone, text, edited>>
<1>1. CASE Record
  BY <1>1, SettlementRow, DeleteRow DEF Record, SettleUp, SettleTap
<1>2. CASE Manage
  BY <1>2, NewLedgerRow, LedgerRows DEF Manage
<1>3. CASE Configure
  <2>1. PICK k \in FlipKinds, c \in Settable : Flip(k, c)
    BY <1>3, ConfigureFlips
  <2> QED BY <2>1, FlipRows DEF FlipKinds
<1> QED BY <1>1, <1>2, <1>3

\* What is undone or redone, and what that does to texts and marks.
LEMMA TextToggles ==
  ASSUME Undo \/ Redo
  PROVE  \E a \in ActionIds :
           /\ log' = log
           /\ \/ UndoEdit(a) \/ RedoEdit(a)
              \/ /\ log[a].kind # "edit_expense" /\ UNCHANGED <<text, edited>>
                 /\ undone' \in {undone \cup {a}, undone \ {a}}
BY DEF Undo, Redo, UndoCreation, UndoDelete, UndoEdit, UndoNewLedger, UndoSwitch, UndoArchive,
       UndoUnarchive, UndoFlip, RedoAdd, RedoSettleUp, RedoDelete, RedoEdit, RedoNewLedger,
       RedoSwitch, RedoArchive, RedoUnarchive, RedoFlip, Undoable, Redoable, FlipKinds

-----------------------------------------------------------------------------
(* The edited mark *)

StandingEdit(d) == log[d].kind = "edit_expense" /\ d \notin undone

MarkNewest == \A e \in ActionIds : log[e].kind = "add_expense" =>
                \A d \in ActionIds : StandingEdit(d) /\ log[d].expense = e => d <= edited[e]
MarkStands == \A e \in ActionIds : edited[e] # 0 =>
                /\ log[e].kind = "add_expense"
                /\ StandingEdit(edited[e]) /\ log[edited[e]].hit = e

Marks == MarkNewest /\ MarkStands


LEMMA MarksShow == IInv /\ Marks => EditMarkDerived
<1> SUFFICES ASSUME IInv, Marks, NEW e \in Expenses
             PROVE  /\ \A d \in StandingEdits(e) : d <= edited[e]
                    /\ edited[e] # 0 => /\ edited[e] \in OfKind("edit_expense") \cap Standing
                                        /\ log[edited[e]].hit = e
  BY DEF EditMarkDerived
<1>1. e \in ActionIds /\ log[e].kind = "add_expense" /\ edited[e] \in ActionIds \cup {0}
  BY DEF Expenses, OfKind, IInv, TypeOK
<1>2. \A d \in StandingEdits(e) : d <= edited[e]
  BY <1>1 DEF StandingEdits, OfKind, Standing, StandingEdit, Marks, MarkNewest
<1>3. edited[e] # 0 => /\ edited[e] \in OfKind("edit_expense") \cap Standing
                       /\ log[edited[e]].hit = e
  BY <1>1 DEF OfKind, Standing, StandingEdit, Marks, MarkStands
<1> QED BY <1>2, <1>3

LEMMA EditsHit ==
  ASSUME IInv, NEW d \in ActionIds, log[d].kind = "edit_expense"
  PROVE  /\ log[d].hit \in ActionIds /\ log[log[d].hit].kind = "add_expense"
         /\ log[d].expense \in {0, log[d].hit}
BY DEF IInv, LogOK, RowOK, Expenses, OfKind

\* A row that is no edit, appended.
LEMMA AppendKeepsMarks ==
  ASSUME IInv, Marks, NEW row \in Action, Append(row), row.kind # "edit_expense",
         UNCHANGED <<undone, edited>>
  PROVE  Marks'
<1>1. PICK m \in ActionIds :
        /\ m = made + 1 /\ log'[m] = row /\ log[m].kind = "none" /\ m \notin undone
        /\ \A a \in ActionIds : a # m => log'[a] = log[a]
  BY Fresh
<1>2. 0 \notin ActionIds /\ \A e \in ActionIds : edited[e] \in ActionIds \cup {0}
  BY DEF ActionIds, IInv, TypeOK
<1>3. MarkNewest'
  <2> SUFFICES ASSUME NEW e \in ActionIds, log'[e].kind = "add_expense",
                      NEW d \in ActionIds, StandingEdit(d)', log'[d].expense = e
               PROVE  d <= edited[e]
    BY DEF MarkNewest
  <2>1. d # m /\ log'[d] = log[d] /\ StandingEdit(d)
    BY <1>1 DEF StandingEdit
  <2>2. log[e].kind = "add_expense"
    BY <1>1, <1>2, <2>1, EditsHit DEF StandingEdit
  <2> QED BY <2>1, <2>2 DEF Marks, MarkNewest
<1>4. MarkStands'
  BY <1>1, <1>2 DEF Marks, MarkStands, StandingEdit
<1> QED BY <1>3, <1>4 DEF Marks

LEMMA EditKeepsMarks ==
  ASSUME IInv, Marks, NEW e \in ActionIds, NEW n \in {0, e}, NEW c \in Changes, EditExpense(e, n, c)
  PROVE  Marks'
<1>1. PICK row \in Action :
        /\ Append(row) /\ row.kind = "edit_expense" /\ row.hit = e /\ row.expense = n
        /\ log[e].kind = "add_expense" /\ edited' = [edited EXCEPT ![e] = made + 1]
        /\ UNCHANGED undone
  BY EditRow
<1>2. PICK m \in ActionIds :
        /\ m = made + 1 /\ log'[m] = row /\ log[m].kind = "none" /\ m \notin undone
        /\ \A a \in ActionIds : a # m => log'[a] = log[a]
        /\ \A a \in ActionIds : log[a].kind # "none" => a < m
  BY <1>1, Fresh
<1>3. /\ 0 \notin ActionIds /\ ActionIds \subseteq Nat
      /\ \A x \in ActionIds : edited[x] \in ActionIds \cup {0}
      /\ edited'[e] = m /\ \A x \in ActionIds : x # e => edited'[x] = edited[x]
  BY <1>1, <1>2 DEF ActionIds, IInv, TypeOK
<1>4. MarkNewest'
  <2> SUFFICES ASSUME NEW x \in ActionIds, log'[x].kind = "add_expense",
                      NEW d \in ActionIds, StandingEdit(d)', log'[d].expense = x
               PROVE  d <= edited'[x]
    BY DEF MarkNewest
  <2>1. CASE x = e
    <3>1. d # m => log[d].kind # "none"
      BY <1>2 DEF StandingEdit
    <3>2. d <= m /\ edited'[x] = m
      BY <1>2, <1>3, <2>1, <3>1
    <3> QED BY <3>2
  <2>2. CASE x # e
    <3>1. d # m
      BY <1>1, <1>2, <1>3, <2>2 DEF StandingEdit
    <3>2. log'[d] = log[d] /\ StandingEdit(d) /\ log[x].kind = "add_expense"
      BY <1>1, <1>2, <3>1 DEF StandingEdit
    <3> QED BY <1>3, <2>2, <3>2 DEF Marks, MarkNewest
  <2> QED BY <2>1, <2>2
<1>5. MarkStands'
  <2> SUFFICES ASSUME NEW x \in ActionIds, edited'[x] # 0
               PROVE  /\ log'[x].kind = "add_expense" /\ log'[edited'[x]].kind = "edit_expense"
                      /\ edited'[x] \notin undone' /\ log'[edited'[x]].hit = x
    BY DEF MarkStands, StandingEdit
  <2>1. CASE x = e
    BY <1>1, <1>2, <1>3, <2>1
  <2>2. CASE x # e
    <3>1. edited'[x] = edited[x] /\ edited[x] \in ActionIds
      BY <1>3, <2>2
    <3>2. /\ log[x].kind = "add_expense" /\ log[edited[x]].kind = "edit_expense"
          /\ edited[x] \notin undone /\ log[edited[x]].hit = x
      BY <2>2, <3>1 DEF Marks, MarkStands, StandingEdit
    <3>3. log'[x] = log[x] /\ log'[edited[x]] = log[edited[x]]
      BY <1>2, <3>1, <3>2
    <3> QED BY <1>1, <3>1, <3>2, <3>3
  <2> QED BY <2>1, <2>2
<1> QED BY <1>4, <1>5 DEF Marks

\* The mark an undo or a redo derives: of the edits that stand afterwards.
LEMMA EditMarkIs ==
  ASSUME NEW S, NEW m \in EditMark(S)
  PROVE  (S = {} /\ m = 0) \/ (m \in S /\ \A y \in S : y <= m)
BY LatestIn DEF EditMark

LEMMA ToggleKeepsMarks ==
  ASSUME IInv, Marks, NEW a \in ActionIds, UndoEdit(a) \/ RedoEdit(a) PROVE Marks'
<1> DEFINE e == log[a].expense
<1>1. /\ log[a].kind = "edit_expense" /\ log' = log /\ e # 0
      /\ undone' \in {undone \cup {a}, undone \ {a}}
  BY DEF UndoEdit, RedoEdit, Undoable, Redoable
<1>2. e \in ActionIds /\ log[e].kind = "add_expense" /\ log[a].hit = e
  BY <1>1, EditsHit
<1> DEFINE S == {d \in ActionIds : StandingEdit(d)' /\ log[d].expense = e}
<1>3. PICK m \in EditMark(S) : edited' = [edited EXCEPT ![e] = m]
  <2>1. CASE UndoEdit(a)
    <3>1. S = StandingEdits(e) \ {a}
      BY <1>1, <2>1 DEF StandingEdits, OfKind, Standing, StandingEdit, UndoEdit, Undoable
    <3> QED BY <2>1, <3>1 DEF UndoEdit
  <2>2. CASE RedoEdit(a)
    <3>1. S = StandingEdits(e) \cup {a}
      BY <1>1, <2>2 DEF StandingEdits, OfKind, Standing, StandingEdit, RedoEdit, Redoable
    <3> QED BY <2>2, <3>1 DEF RedoEdit
  <2> QED BY <2>1, <2>2
<1>4. (S = {} /\ m = 0) \/ (m \in S /\ \A y \in S : y <= m)
  BY <1>3, EditMarkIs
<1>5. /\ \A x \in ActionIds : edited[x] \in ActionIds \cup {0}
      /\ edited'[e] = m /\ \A x \in ActionIds : x # e => edited'[x] = edited[x]
  BY <1>2, <1>3 DEF IInv, TypeOK
<1>6. \A d \in ActionIds : d \in S <=> StandingEdit(d)' /\ log[d].expense = e
  OBVIOUS
<1> HIDE DEF e, S
<1>7. MarkNewest'
  <2> SUFFICES ASSUME NEW x \in ActionIds, log[x].kind = "add_expense",
                      NEW d \in ActionIds, StandingEdit(d)', log[d].expense = x
               PROVE  d <= edited'[x]
    BY <1>1 DEF MarkNewest
  <2>1. CASE x = e
    BY <1>4, <1>5, <1>6, <2>1
  <2>2. CASE x # e
    <3>1. d # a
      BY <2>2 DEF e
    <3>2. StandingEdit(d)
      BY <1>1, <3>1 DEF StandingEdit
    <3> QED BY <1>5, <2>2, <3>2 DEF Marks, MarkNewest
  <2> QED BY <2>1, <2>2
<1>8. MarkStands'
  <2> SUFFICES ASSUME NEW x \in ActionIds, edited'[x] # 0
               PROVE  /\ log[x].kind = "add_expense"
                      /\ log[edited'[x]].kind = "edit_expense" /\ edited'[x] \notin undone'
                      /\ log[edited'[x]].hit = x
    BY <1>1 DEF MarkStands, StandingEdit
  <2>1. CASE x = e
    <3>1. m \in S /\ edited'[x] = m
      BY <1>4, <1>5, <2>1
    <3>2. m \in ActionIds /\ log[m].kind = "edit_expense" /\ m \notin undone' /\ log[m].expense = e
      BY <1>1, <3>1 DEF S, StandingEdit
    <3>3. log[m].hit = e
      BY <1>1, <3>2, EditsHit DEF e
    <3> QED BY <1>2, <2>1, <3>1, <3>2, <3>3
  <2>2. CASE x # e
    <3>1. /\ edited'[x] = edited[x] /\ edited[x] \in ActionIds /\ log[x].kind = "add_expense"
          /\ log[edited[x]].kind = "edit_expense" /\ edited[x] \notin undone
          /\ log[edited[x]].hit = x
      BY <1>5, <2>2 DEF Marks, MarkStands, StandingEdit
    <3>2. edited[x] # a
      BY <1>2, <2>2, <3>1
    <3> QED BY <1>1, <3>1, <3>2
  <2> QED BY <2>1, <2>2
<1> QED BY <1>7, <1>8 DEF Marks

LEMMA NextMarks == IInv /\ Marks /\ [Next]_vars => Marks'
<1> SUFFICES ASSUME IInv, Marks, [Next]_vars PROVE Marks'
  OBVIOUS
<1>1. CASE Record \/ Manage \/ Configure
  <2>1. ASSUME NEW l \in Ledgers, NEW t \in FirstTexts, AddExpense(l, t) PROVE Marks'
    BY <2>1, AddRow, AppendKeepsMarks
  <2> QED BY <1>1, <2>1, OtherRows, EditKeepsMarks, AppendKeepsMarks
<1>2. CASE Undo \/ Redo
  <2>1. PICK a \in ActionIds :
           /\ log' = log
           /\ \/ UndoEdit(a) \/ RedoEdit(a)
              \/ /\ log[a].kind # "edit_expense" /\ UNCHANGED <<text, edited>>
                 /\ undone' \in {undone \cup {a}, undone \ {a}}
    BY <1>2, TextToggles
  <2>2. CASE log[a].kind # "edit_expense" /\ UNCHANGED edited /\ undone' \in {undone \cup {a}, undone \ {a}}
    <3>1. \A d \in ActionIds : StandingEdit(d)' <=> StandingEdit(d)
      BY <2>1, <2>2 DEF StandingEdit
    <3>2. \A e \in ActionIds : edited[e] \in ActionIds \cup {0}
      BY DEF IInv, TypeOK
    <3>3. MarkNewest'
      BY <2>1, <2>2, <3>1 DEF Marks, MarkNewest
    <3>4. MarkStands'
      BY <2>1, <2>2, <3>2 DEF Marks, MarkStands, StandingEdit
    <3> QED BY <3>3, <3>4 DEF Marks
  <2> QED BY <2>1, <2>2, ToggleKeepsMarks
<1>3. CASE UNCHANGED vars
  BY <1>3 DEF vars, Marks, MarkNewest, MarkStands, StandingEdit
<1> QED BY <1>1, <1>2, <1>3 DEF Next

\* edited_at is derived again by every toggle of an edit (undo.py,
\* _latest_standing_edit_at): it dates from the newest standing edit that names the
\* expense or a newer one made to it, for any number of edits in any order.
THEOREM EditMarkAlwaysDerived == Spec => []EditMarkDerived
<1>1. Init => IInv /\ Marks
  BY InitIInv DEF Init, Marks, MarkNewest, MarkStands, NoAction
<1>2. IInv /\ Marks /\ [Next]_vars => (IInv /\ Marks)'
  BY NextIInv, NextMarks
<1>3. IInv /\ Marks => EditMarkDerived
  BY MarksShow
<1> QED BY <1>1, <1>2, <1>3, PTL DEF Spec

-----------------------------------------------------------------------------
(* The texts *)

EditOf(a, e, f)   == log[a].kind = "edit_expense" /\ log[a].hit = e /\ log[a].change[f] # Same
OnlyEdit(a, e, f) == EditOf(a, e, f) /\ \A b \in ActionIds : EditOf(b, e, f) => b = a
NoEdit(e, f)      == \A b \in ActionIds : ~ EditOf(b, e, f)

IsExpense(e) == log[e].kind = "add_expense"

WholeTexts == \A e \in ActionIds : IsExpense(e) =>
                \A f \in Fields : text[e][f] \in Values /\ log[e].change[f] \in Values
MinimalImages == \A a \in ActionIds : log[a].kind = "edit_expense" =>
                   \A f \in Fields : log[a].before[f] = Same <=> log[a].change[f] = Same
NeverEdited == \A e \in ActionIds : IsExpense(e) => \A f \in Fields :
                 NoEdit(e, f) => text[e][f] = log[e].change[f]
EditedOnce == \A e \in ActionIds : IsExpense(e) => \A f \in Fields : \A a \in ActionIds :
                OnlyEdit(a, e, f) =>
                  text[e][f] = IF a \in undone THEN log[e].change[f] ELSE log[a].change[f]
BeforeImages == \A e \in ActionIds : IsExpense(e) => \A f \in Fields : \A a \in ActionIds :
                  OnlyEdit(a, e, f) => log[a].before[f] = log[e].change[f]

Shown == WholeTexts /\ MinimalImages /\ NeverEdited /\ EditedOnce /\ BeforeImages

LEMMA ShownFollows == Shown => FieldFollowsItsOnlyEdit
<1> SUFFICES ASSUME Shown, NEW e \in Expenses, NEW f \in Fields
             PROVE  /\ EditsOf(e, f) = {} => text[e][f] = log[e].change[f]
                    /\ \A a \in EditsOf(e, f) :
                         EditsOf(e, f) = {a} =>
                           text[e][f] = IF a \in undone THEN log[e].change[f] ELSE log[a].change[f]
  BY DEF FieldFollowsItsOnlyEdit
<1>1. e \in ActionIds /\ IsExpense(e)
  BY DEF Expenses, OfKind, IsExpense
<1>2. \A a : a \in EditsOf(e, f) <=> a \in ActionIds /\ EditOf(a, e, f)
  BY DEF EditsOf, EditOf, OfKind
<1>3. EditsOf(e, f) = {} => NoEdit(e, f)
  BY <1>2 DEF NoEdit
<1>4. \A a \in EditsOf(e, f) : EditsOf(e, f) = {a} => a \in ActionIds /\ OnlyEdit(a, e, f)
  BY <1>2 DEF OnlyEdit
<1> QED BY <1>1, <1>3, <1>4 DEF Shown, NeverEdited, EditedOnce

\* A row that is no edit is appended, and no text changes but that of a new expense.
LEMMA AppendKeepsShown ==
  ASSUME IInv, Shown, NEW row \in Action, Append(row), row.kind # "edit_expense", UNCHANGED undone,
         \/ row.kind # "add_expense" /\ UNCHANGED text
         \/ row.change \in Texts /\ text' = [text EXCEPT ![made + 1] = row.change]
  PROVE  Shown'
<1>1. PICK m \in ActionIds :
        /\ m = made + 1 /\ log'[m] = row /\ log[m].kind = "none" /\ m \notin undone
        /\ \A a \in ActionIds : a # m => log'[a] = log[a]
  BY Fresh
<1>2. /\ \A x \in ActionIds : x # m => text'[x] = text[x]
      /\ IsExpense(m)' => text'[m] = row.change /\ \A f \in Fields : row.change[f] \in Values
  BY <1>1 DEF IInv, TypeOK, IsExpense, Texts
<1>3. \A x \in ActionIds : \A f \in Fields : \A a \in ActionIds : EditOf(a, x, f)' <=> EditOf(a, x, f)
  BY <1>1 DEF EditOf
<1>4. \A x \in ActionIds : \A f \in Fields :
        /\ NoEdit(x, f)' <=> NoEdit(x, f)
        /\ \A a \in ActionIds : OnlyEdit(a, x, f)' <=> OnlyEdit(a, x, f)
  BY <1>3 DEF NoEdit, OnlyEdit
<1>5. \A x \in ActionIds : x # m => (IsExpense(x)' <=> IsExpense(x))
  BY <1>1 DEF IsExpense
\* Nobody has edited what was not there.
<1>6. \A f \in Fields : \A a \in ActionIds : ~ EditOf(a, m, f)
  BY <1>1, EditsHit DEF EditOf
<1>7. \A x \in ActionIds : \A f \in Fields : \A a \in ActionIds : OnlyEdit(a, x, f) => a # m /\ x # m
  BY <1>1, <1>6 DEF OnlyEdit, EditOf
<1>8. WholeTexts'
  BY <1>1, <1>2, <1>5 DEF Shown, WholeTexts
<1>9. MinimalImages'
  BY <1>1 DEF Shown, MinimalImages
<1>10. NeverEdited'
  BY <1>1, <1>2, <1>4, <1>5 DEF Shown, NeverEdited
<1>11. EditedOnce'
  BY <1>1, <1>2, <1>4, <1>5, <1>7 DEF Shown, EditedOnce
<1>12. BeforeImages'
  BY <1>1, <1>4, <1>5, <1>7 DEF Shown, BeforeImages
<1> QED BY <1>8, <1>9, <1>10, <1>11, <1>12 DEF Shown

LEMMA EditKeepsShown ==
  ASSUME IInv, Shown, NEW e \in ActionIds, NEW n \in {0, e}, NEW c \in Changes, EditExpense(e, n, c)
  PROVE  Shown'
<1>1. PICK row \in Action :
        /\ Append(row) /\ row.kind = "edit_expense" /\ row.hit = e
        /\ row.change = c /\ row.before = Displaced(text[e], c) /\ log[e].kind = "add_expense"
        /\ text' = [text EXCEPT ![e] = Overlay(text[e], c)] /\ UNCHANGED undone
  BY EditRow
<1>2. PICK m \in ActionIds :
        /\ m = made + 1 /\ log'[m] = row /\ log[m].kind = "none" /\ m \notin undone
        /\ \A a \in ActionIds : a # m => log'[a] = log[a]
  BY <1>1, Fresh
<1>3. /\ \A x \in ActionIds : x # e => text'[x] = text[x]
      /\ \A f \in Fields : text'[e][f] = IF c[f] = Same THEN text[e][f] ELSE c[f]
      /\ \A f \in Fields : row.before[f] = IF c[f] = Same THEN Same ELSE text[e][f]
      /\ \A f \in Fields : c[f] \in Values \cup {Same} /\ text[e][f] \in Values
      /\ Same \notin Values
  BY <1>1, TextsAssumption DEF IInv, TypeOK, Overlay, Displaced, Changes, Shown, WholeTexts, IsExpense
<1>4. \A x \in ActionIds : (IsExpense(x)' <=> IsExpense(x)) /\ (IsExpense(x) => x # m /\ log'[x] = log[x])
  BY <1>1, <1>2 DEF IsExpense
<1>5. \A x \in ActionIds : \A f \in Fields : \A a \in ActionIds :
        EditOf(a, x, f)' <=> EditOf(a, x, f) \/ (a = m /\ x = e /\ c[f] # Same)
  BY <1>1, <1>2 DEF EditOf
<1>6. \A x \in ActionIds : \A f \in Fields : x # e \/ c[f] = Same =>
        /\ NoEdit(x, f)' <=> NoEdit(x, f)
        /\ \A a \in ActionIds : OnlyEdit(a, x, f)' <=> OnlyEdit(a, x, f)
        /\ IsExpense(x) => text'[x][f] = text[x][f]
  BY <1>3, <1>5 DEF NoEdit, OnlyEdit
<1>7. \A f \in Fields : c[f] # Same =>
        /\ ~ NoEdit(e, f)'
        /\ \A a \in ActionIds : OnlyEdit(a, e, f)' => a = m /\ NoEdit(e, f)
  BY <1>2, <1>5 DEF NoEdit, OnlyEdit, EditOf
<1>8. \A x \in ActionIds : \A f \in Fields : \A a \in ActionIds : OnlyEdit(a, x, f) => a # m /\ log'[a] = log[a]
  BY <1>2 DEF OnlyEdit, EditOf
<1>9. WholeTexts'
  <2> SUFFICES ASSUME NEW x \in ActionIds, IsExpense(x)', NEW f \in Fields
               PROVE  text'[x][f] \in Values /\ log'[x].change[f] \in Values
    BY DEF WholeTexts
  <2> QED BY <1>3, <1>4, <1>6 DEF Shown, WholeTexts
<1>10. MinimalImages'
  <2> SUFFICES ASSUME NEW a \in ActionIds, log'[a].kind = "edit_expense", NEW f \in Fields
               PROVE  log'[a].before[f] = Same <=> log'[a].change[f] = Same
    BY DEF MinimalImages
  <2>1. CASE a = m
    BY <1>1, <1>2, <1>3, <2>1
  <2>2. CASE a # m
    BY <1>2, <2>2 DEF Shown, MinimalImages
  <2> QED BY <2>1, <2>2
<1>11. NeverEdited'
  <2> SUFFICES ASSUME NEW x \in ActionIds, IsExpense(x)', NEW f \in Fields, NoEdit(x, f)'
               PROVE  text'[x][f] = log'[x].change[f]
    BY DEF NeverEdited
  <2>1. x # e \/ c[f] = Same
    BY <1>7
  <2>2. NoEdit(x, f) /\ IsExpense(x) /\ text'[x][f] = text[x][f] /\ log'[x] = log[x]
    BY <1>4, <1>6, <2>1
  <2> QED BY <2>2 DEF Shown, NeverEdited
<1>12. EditedOnce' /\ BeforeImages'
  <2> SUFFICES ASSUME NEW x \in ActionIds, IsExpense(x)', NEW f \in Fields,
                      NEW a \in ActionIds, OnlyEdit(a, x, f)'
               PROVE  /\ text'[x][f] = IF a \in undone' THEN log'[x].change[f] ELSE log'[a].change[f]
                      /\ log'[a].before[f] = log'[x].change[f]
    BY DEF EditedOnce, BeforeImages
  <2>1. IsExpense(x) /\ log'[x] = log[x]
    BY <1>4
  <2>2. CASE x # e \/ c[f] = Same
    <3>1. OnlyEdit(a, x, f) /\ text'[x][f] = text[x][f] /\ log'[a] = log[a]
      BY <1>6, <1>8, <2>1, <2>2
    <3> QED BY <1>1, <2>1, <3>1 DEF Shown, EditedOnce, BeforeImages
  <2>3. CASE x = e /\ c[f] # Same
    <3>1. a = m /\ NoEdit(e, f)
      BY <1>7, <2>3
    <3>2. text[e][f] = log[e].change[f]
      BY <2>1, <2>3, <3>1 DEF Shown, NeverEdited
    <3> QED BY <1>1, <1>2, <1>3, <2>1, <2>3, <3>1, <3>2
  <2> QED BY <2>2, <2>3
<1> QED BY <1>9, <1>10, <1>11, <1>12 DEF Shown

LEMMA ToggleKeepsShown ==
  ASSUME IInv, Shown, NEW a \in ActionIds, UndoEdit(a) \/ RedoEdit(a) PROVE Shown'
<1> DEFINE e == log[a].expense
<1>1. /\ log[a].kind = "edit_expense" /\ log' = log /\ e # 0
      /\ \/ undone' = undone \cup {a} /\ text' = [text EXCEPT ![e] = Overlay(text[e], log[a].before)]
         \/ undone' = undone \ {a} /\ text' = [text EXCEPT ![e] = Overlay(text[e], log[a].change)]
  BY DEF UndoEdit, RedoEdit, Undoable, Redoable
<1>2. e \in ActionIds /\ IsExpense(e) /\ log[a].hit = e
  BY <1>1, EditsHit DEF IsExpense
<1> HIDE DEF e
<1>3. /\ \A x \in ActionIds : x # e => text'[x] = text[x]
      /\ \/ /\ undone' = undone \cup {a}
            /\ \A f \in Fields : text'[e][f] = IF log[a].before[f] = Same THEN text[e][f] ELSE log[a].before[f]
         \/ /\ undone' = undone \ {a}
            /\ \A f \in Fields : text'[e][f] = IF log[a].change[f] = Same THEN text[e][f] ELSE log[a].change[f]
  BY <1>1, <1>2 DEF IInv, TypeOK, Overlay
<1>4. /\ \A f \in Fields : log[a].before[f] = Same <=> log[a].change[f] = Same
      /\ \A f \in Fields : log[a].before[f] \in Values \cup {Same} /\ log[a].change[f] \in Values \cup {Same}
  BY <1>1 DEF Shown, MinimalImages, IInv, TypeOK, Action, Changes
<1>5. \A f \in Fields : EditOf(a, e, f) <=> log[a].change[f] # Same
  BY <1>1, <1>2 DEF EditOf
<1>6. \A x \in ActionIds : \A f \in Fields : ~ EditOf(a, x, f) => text'[x][f] = text[x][f]
  BY <1>3, <1>4, <1>5
<1>7. WholeTexts'
  <2> SUFFICES ASSUME NEW x \in ActionIds, IsExpense(x), NEW f \in Fields
               PROVE  text'[x][f] \in Values /\ log'[x].change[f] \in Values
    BY <1>1 DEF WholeTexts, IsExpense
  <2>1. text[x][f] \in Values /\ log'[x].change[f] \in Values
    BY <1>1 DEF Shown, WholeTexts
  <2>2. CASE EditOf(a, x, f)
    BY <1>2, <1>3, <1>4, <2>1, <2>2 DEF EditOf
  <2> QED BY <1>6, <2>1, <2>2
<1>8. MinimalImages' /\ BeforeImages'
  BY <1>1 DEF Shown, MinimalImages, BeforeImages, OnlyEdit, EditOf, IsExpense
<1>9. NeverEdited'
  <2> SUFFICES ASSUME NEW x \in ActionIds, IsExpense(x), NEW f \in Fields, NoEdit(x, f)
               PROVE  text'[x][f] = log[x].change[f]
    BY <1>1 DEF NeverEdited, NoEdit, EditOf, IsExpense
  <2> QED BY <1>6 DEF Shown, NeverEdited, NoEdit
<1>10. EditedOnce'
  <2> SUFFICES ASSUME NEW x \in ActionIds, IsExpense(x), NEW f \in Fields,
                      NEW b \in ActionIds, OnlyEdit(b, x, f)
               PROVE  text'[x][f] = IF b \in undone' THEN log[x].change[f] ELSE log[b].change[f]
    BY <1>1 DEF EditedOnce, OnlyEdit, EditOf, IsExpense
  <2>1. CASE b = a
    <3>1. x = e /\ log[a].change[f] # Same /\ log[a].before[f] # Same
      BY <1>2, <1>4, <2>1 DEF OnlyEdit, EditOf
    <3>2. log[a].before[f] = log[x].change[f]
      BY <2>1 DEF Shown, BeforeImages
    <3> QED BY <1>3, <2>1, <3>1, <3>2
  <2>2. CASE b # a
    <3>1. ~ EditOf(a, x, f) /\ (b \in undone' <=> b \in undone)
      BY <1>3, <2>2 DEF OnlyEdit
    <3> QED BY <1>6, <3>1 DEF Shown, EditedOnce
  <2> QED BY <2>1, <2>2
<1> QED BY <1>7, <1>8, <1>9, <1>10 DEF Shown

LEMMA NextShown == IInv /\ Shown /\ [Next]_vars => Shown'
<1> SUFFICES ASSUME IInv, Shown, [Next]_vars PROVE Shown'
  OBVIOUS
<1>1. CASE Record \/ Manage \/ Configure
  <2>1. ASSUME NEW l \in Ledgers, NEW t \in FirstTexts, AddExpense(l, t) PROVE Shown'
    <3>1. t \in Texts
      BY TextsAssumption
    <3> QED BY <2>1, <3>1, AddRow, AppendKeepsShown
  <2> QED BY <1>1, <2>1, OtherRows, EditKeepsShown, AppendKeepsShown
<1>2. CASE Undo \/ Redo
  <2>1. PICK a \in ActionIds :
           /\ log' = log
           /\ \/ UndoEdit(a) \/ RedoEdit(a)
              \/ /\ log[a].kind # "edit_expense" /\ UNCHANGED <<text, edited>>
                 /\ undone' \in {undone \cup {a}, undone \ {a}}
    BY <1>2, TextToggles
  <2>2. CASE log[a].kind # "edit_expense" /\ UNCHANGED text /\ undone' \in {undone \cup {a}, undone \ {a}}
    <3>1. WholeTexts' /\ MinimalImages' /\ NeverEdited' /\ BeforeImages'
      BY <2>1, <2>2 DEF Shown, WholeTexts, MinimalImages, NeverEdited, BeforeImages, IsExpense,
                        NoEdit, OnlyEdit, EditOf
    <3>2. \A b, e \in ActionIds : \A f \in Fields :
            OnlyEdit(b, e, f)' => OnlyEdit(b, e, f) /\ (b \in undone' <=> b \in undone)
      BY <2>1, <2>2 DEF OnlyEdit, EditOf
    <3>3. EditedOnce'
      BY <2>1, <2>2, <3>2 DEF Shown, EditedOnce, IsExpense
    <3> QED BY <3>1, <3>3 DEF Shown
  <2> QED BY <2>1, <2>2, ToggleKeepsShown
<1>3. CASE UNCHANGED vars
  BY <1>3 DEF vars, Shown, WholeTexts, MinimalImages, NeverEdited, EditedOnce, BeforeImages,
              IsExpense, NoEdit, OnlyEdit, EditOf
<1> QED BY <1>1, <1>2, <1>3 DEF Next

\* The minimal before-image (apply.py) does what it is for: whatever edits of the
\* other field stand, are undone or redone, a field edited once shows that edit or
\* what was logged, for any number of edits in any order.
THEOREM FieldAlwaysFollows == Spec => []FieldFollowsItsOnlyEdit
<1>1. Init => IInv /\ Shown
  BY InitIInv DEF Init, Shown, WholeTexts, MinimalImages, NeverEdited, EditedOnce, BeforeImages,
                  IsExpense, OnlyEdit, EditOf, NoAction
<1>2. IInv /\ Shown /\ [Next]_vars => (IInv /\ Shown)'
  BY NextIInv, NextShown
<1> QED BY <1>1, <1>2, ShownFollows, PTL DEF Spec
-----------------------------------------------------------------------------
(* The settings *)

NeverFlipped == \A s \in Slots : FlipsOf(s) = {} => settings[s] \in FirstOf(s)
FlippedOnce == \A s \in Slots : \A a \in FlipsOf(s) : FlipsOf(s) = {a} =>
                 settings[s] \in IF a \in undone THEN FirstOf(s) ELSE {log[a].to}
FirstImages == \A s \in Slots : \A a \in FlipsOf(s) : FlipsOf(s) = {a} => log[a].from \in FirstOf(s)
FlipsLand == \A a \in ActionIds : log[a].kind \in FlipKinds =>
               log[a].ledger \in Ledgers /\ status[log[a].ledger] # "none"

SettingsOK == NeverFlipped /\ FlippedOnce /\ FirstImages /\ FlipsLand

LEMMA StatusStays == ASSUME IInv, [Next]_vars PROVE \A l \in Ledgers : status[l] # "none" => status'[l] # "none"
<1>1. CASE Record \/ Configure
  BY <1>1 DEF Record, AddExpense, SettleUp, SettleTap, RecordSettlement, DeleteExpense, EditExpense,
              Configure, ClearFxRate, SetHomeCurrency, SetFxRate, SetLoggingCurrency, Flip
<1>2. CASE Manage
  BY <1>2 DEF Manage, NewLedger, SwitchLedger, ArchiveLedger, UnarchiveLedger, IInv, TypeOK
<1>3. CASE Undo
  BY <1>3 DEF Undo, UndoCreation, UndoDelete, UndoEdit, UndoNewLedger, UndoSwitch, UndoArchive,
              UndoUnarchive, UndoFlip, IInv, TypeOK
<1>4. CASE Redo
  BY <1>4 DEF Redo, RedoAdd, RedoSettleUp, RedoDelete, RedoEdit, RedoNewLedger, RedoSwitch,
              RedoArchive, RedoUnarchive, RedoFlip, IInv, TypeOK
<1>5. CASE UNCHANGED vars
  BY <1>5 DEF vars
<1> QED BY <1>1, <1>2, <1>3, <1>4, <1>5 DEF Next

\* The logging currency of a ledger is set by its own flips only.
LEMMA SlotOf ==
  ASSUME NEW k \in FlipKinds, NEW j, NEW l, Slot(k, j) = <<"logging", l>> PROVE j = l
BY DEF Slot, FlipKinds

LEMMA OpenedIs ==
  ASSUME NEW s PROVE \A c : c \in OpenedWith(s) <=>
           \E b \in ActionIds : log[b].kind = "new_ledger" /\ <<"logging", log[b].ledger>> = s /\ log[b].to = c
BY DEF OpenedWith, OfKind

\* A row that neither flips a setting nor opens a ledger.
LEMMA AppendKeepsSettings ==
  ASSUME IInv, SettingsOK, FlipsLand', NEW row \in Action, Append(row),
         row.kind \notin FlipKinds \cup {"new_ledger"}, UNCHANGED <<undone, settings>>
  PROVE  SettingsOK'
<1>1. PICK m \in ActionIds :
        /\ log'[m] = row /\ log[m].kind = "none" /\ \A a \in ActionIds : a # m => log'[a] = log[a]
  BY Fresh
<1>2. \A s : FlipsOf(s)' = FlipsOf(s) /\ m \notin FlipsOf(s)
  BY <1>1 DEF FlipsOf, FlipKinds
<1>3. \A s : FirstOf(s)' = FirstOf(s)
  <2>1. ASSUME NEW s PROVE OpenedWith(s)' = OpenedWith(s)
    BY <1>1 DEF OpenedWith, OfKind
  <2> QED BY <2>1 DEF FirstOf
<1>4. \A s : \A a \in FlipsOf(s) : a \in ActionIds /\ log'[a] = log[a]
  BY <1>1, <1>2 DEF FlipsOf
<1>5. NeverFlipped'
  BY <1>2, <1>3 DEF SettingsOK, NeverFlipped
<1>6. FlippedOnce' /\ FirstImages'
  BY <1>2, <1>3, <1>4 DEF SettingsOK, FlippedOnce, FirstImages
<1> QED BY <1>5, <1>6 DEF SettingsOK

LEMMA NewLedgerKeepsSettings ==
  ASSUME IInv, SettingsOK, FlipsLand', NEW l \in Ledgers, NEW c \in Settable, NewLedger(l, c)
  PROVE  SettingsOK'
<1>1. PICK row \in Action :
        /\ Append(row) /\ row.kind = "new_ledger" /\ row.ledger = l /\ row.to = c
        /\ settings' = [settings EXCEPT ![<<"logging", l>>] = c] /\ UNCHANGED undone
  BY NewLedgerRow
<1>2. PICK m \in ActionIds :
        /\ log'[m] = row /\ log[m].kind = "none" /\ \A a \in ActionIds : a # m => log'[a] = log[a]
  BY <1>1, Fresh
<1> DEFINE o == <<"logging", l>>
<1>3. \A s : FlipsOf(s)' = FlipsOf(s) /\ \A a \in FlipsOf(s) : log'[a] = log[a]
  BY <1>1, <1>2 DEF FlipsOf, FlipKinds
<1>4. FlipsOf(o) = {}
  <2>1. status[l] = "none"
    BY DEF NewLedger, Unused
  <2>2. ASSUME NEW a \in FlipsOf(o) PROVE FALSE
    <3>1. a \in ActionIds /\ log[a].kind \in FlipKinds /\ Slot(log[a].kind, log[a].ledger) = o
      BY <2>2 DEF FlipsOf
    <3>2. log[a].ledger = l
      BY <3>1, SlotOf
    <3> QED BY <2>1, <3>1, <3>2 DEF SettingsOK, FlipsLand
  <2> QED BY <2>2
<1>5. c \in FirstOf(o)'
  <2>1. c \in OpenedWith(o)'
    BY <1>1, <1>2 DEF OpenedWith, OfKind
  <2> QED BY <2>1 DEF FirstOf
<1>6. \A s : s # o => FirstOf(s)' = FirstOf(s)
  <2>1. ASSUME NEW s, s # o PROVE OpenedWith(s)' = OpenedWith(s)
    BY <1>1, <1>2, <2>1 DEF OpenedWith, OfKind
  <2> QED BY <2>1 DEF FirstOf
<1>7. settings'[o] = c /\ \A s \in Slots : s # o => settings'[s] = settings[s]
  <2>1. o \in Slots
    BY DEF Slots
  <2> QED BY <1>1, <2>1 DEF IInv, TypeOK
<1> HIDE DEF o
<1>8. NeverFlipped'
  BY <1>3, <1>5, <1>6, <1>7 DEF SettingsOK, NeverFlipped
<1>9. FlippedOnce' /\ FirstImages'
  BY <1>1, <1>3, <1>4, <1>6, <1>7 DEF SettingsOK, FlippedOnce, FirstImages
<1> QED BY <1>8, <1>9 DEF SettingsOK

LEMMA FlipKeepsSettings ==
  ASSUME IInv, SettingsOK, FlipsLand', NEW k \in FlipKinds, NEW c \in Settable, Flip(k, c)
  PROVE  SettingsOK'
<1>1. PICK o \in Slots : o = Slot(k, active)
  BY SlotType DEF IInv, TypeOK, FlipKinds, Kinds
<1>2. PICK row \in Action :
        /\ Append(row) /\ row.kind = k /\ row.ledger = active /\ row.to = c
        /\ row.from = settings[o] /\ settings' = [settings EXCEPT ![o] = c] /\ UNCHANGED undone
  BY <1>1, FlipRows
<1>3. PICK m \in ActionIds :
        /\ log'[m] = row /\ log[m].kind = "none" /\ m \notin undone
        /\ \A a \in ActionIds : a # m => log'[a] = log[a]
  BY <1>2, Fresh
<1>4. settings'[o] = c /\ \A s \in Slots : s # o => settings'[s] = settings[s]
  BY <1>2 DEF IInv, TypeOK
<1>5. /\ \A s : s # o => FlipsOf(s)' = FlipsOf(s)
      /\ FlipsOf(o)' = FlipsOf(o) \cup {m}
      /\ \A s : m \notin FlipsOf(s) /\ \A a \in FlipsOf(s) : log'[a] = log[a]
  <2>1. "none" \notin FlipKinds
    BY DEF FlipKinds
  <2>2. \A s : m \notin FlipsOf(s) /\ \A a \in FlipsOf(s) : a \in ActionIds /\ log'[a] = log[a]
    BY <1>3, <2>1 DEF FlipsOf
  <2>3. \A s : \A a \in ActionIds : a # m => (a \in FlipsOf(s)' <=> a \in FlipsOf(s))
    BY <1>3 DEF FlipsOf
  <2>4. \A s : m \in FlipsOf(s)' <=> s = o
    BY <1>1, <1>2, <1>3 DEF FlipsOf
  <2>5. \A s : FlipsOf(s) \subseteq ActionIds /\ FlipsOf(s)' \subseteq ActionIds
    BY DEF FlipsOf
  <2>6. \A s : s # o => FlipsOf(s)' = FlipsOf(s)
    BY <2>2, <2>3, <2>4, <2>5
  <2>7. FlipsOf(o)' = FlipsOf(o) \cup {m}
    BY <2>2, <2>3, <2>4, <2>5
  <2> QED BY <2>2, <2>6, <2>7
<1>6. \A s : FirstOf(s)' = FirstOf(s)
  <2>1. k # "new_ledger"
    BY DEF FlipKinds
  <2>2. ASSUME NEW s PROVE OpenedWith(s)' = OpenedWith(s)
    BY <1>2, <1>3, <2>1 DEF OpenedWith, OfKind
  <2> QED BY <2>2 DEF FirstOf
<1>7. NeverFlipped'
  BY <1>4, <1>5, <1>6 DEF SettingsOK, NeverFlipped
<1>8. \A a \in FlipsOf(o)' : FlipsOf(o)' = {a} => a = m /\ settings[o] \in FirstOf(o)
  BY <1>5 DEF SettingsOK, NeverFlipped
<1>9. FlippedOnce' /\ FirstImages'
  <2> SUFFICES ASSUME NEW s \in Slots, NEW a \in FlipsOf(s)', FlipsOf(s)' = {a}
               PROVE  /\ settings'[s] \in IF a \in undone' THEN FirstOf(s)' ELSE {log'[a].to}
                      /\ log'[a].from \in FirstOf(s)'
    BY DEF FlippedOnce, FirstImages
  <2>1. CASE s = o
    BY <1>2, <1>3, <1>4, <1>6, <1>8, <2>1
  <2>2. CASE s # o
    BY <1>2, <1>4, <1>5, <1>6, <2>2 DEF SettingsOK, FlippedOnce, FirstImages
  <2> QED BY <2>1, <2>2
<1> QED BY <1>7, <1>9 DEF SettingsOK

\* A toggle of a flip restores what stood before it, or restates its own value.
LEMMA ToggleFlipKeepsSettings ==
  ASSUME IInv, SettingsOK, FlipsLand', NEW a \in ActionIds, UndoFlip(a) \/ RedoFlip(a) PROVE SettingsOK'
<1> DEFINE o == Slot(log[a].kind, log[a].ledger)
<1>1. /\ log[a].kind \in FlipKinds /\ log' = log
      /\ \/ undone' = undone \cup {a} /\ settings' = [settings EXCEPT ![o] = log[a].from]
         \/ undone' = undone \ {a} /\ settings' = [settings EXCEPT ![o] = log[a].to]
  BY DEF UndoFlip, RedoFlip, Undoable, Redoable
<1>2. o \in Slots /\ a \in FlipsOf(o)
  BY <1>1, SlotType DEF SettingsOK, FlipsLand, FlipKinds, Kinds, FlipsOf
<1>3. \A s : FlipsOf(s)' = FlipsOf(s) /\ FirstOf(s)' = FirstOf(s)
  BY <1>1 DEF FlipsOf, FirstOf, OpenedWith, OfKind
<1>4. \A s : s # o => a \notin FlipsOf(s)
  BY DEF FlipsOf
<1>5. /\ \A s \in Slots : s # o => settings'[s] = settings[s]
      /\ \/ undone' = undone \cup {a} /\ settings'[o] = log[a].from
         \/ undone' = undone \ {a} /\ settings'[o] = log[a].to
  BY <1>1, <1>2 DEF IInv, TypeOK
<1> HIDE DEF o
<1>6. NeverFlipped' /\ FirstImages'
  BY <1>1, <1>2, <1>3, <1>5 DEF SettingsOK, NeverFlipped, FirstImages
<1>7. FlippedOnce'
  <2> SUFFICES ASSUME NEW s \in Slots, NEW b \in FlipsOf(s), FlipsOf(s) = {b}
               PROVE  settings'[s] \in IF b \in undone' THEN FirstOf(s) ELSE {log[b].to}
    BY <1>1, <1>3 DEF FlippedOnce
  <2>1. CASE s = o
    <3>1. b = a /\ log[a].from \in FirstOf(o)
      BY <1>2, <2>1 DEF SettingsOK, FirstImages
    <3> QED BY <1>5, <2>1, <3>1
  <2>2. CASE s # o
    <3>1. settings'[s] = settings[s] /\ (b \in undone' <=> b \in undone)
      BY <1>4, <1>5, <2>2
    <3> QED BY <3>1 DEF SettingsOK, FlippedOnce
  <2> QED BY <2>1, <2>2
<1> QED BY <1>6, <1>7 DEF SettingsOK

\* What is undone or redone, and what that does to settings.
LEMMA SettingToggles ==
  ASSUME Undo \/ Redo
  PROVE  \E a \in ActionIds :
           /\ log' = log
           /\ \/ UndoFlip(a) \/ RedoFlip(a)
              \/ /\ log[a].kind \notin FlipKinds /\ UNCHANGED settings
                 /\ undone' \in {undone \cup {a}, undone \ {a}}
BY DEF Undo, Redo, UndoCreation, UndoDelete, UndoEdit, UndoNewLedger, UndoSwitch, UndoArchive,
       UndoUnarchive, UndoFlip, RedoAdd, RedoSettleUp, RedoDelete, RedoEdit, RedoNewLedger,
       RedoSwitch, RedoArchive, RedoUnarchive, RedoFlip, Undoable, Redoable, FlipKinds

\* Every operation that neither flips a setting nor opens a ledger leaves settings alone.
LEMMA SettingRows ==
  ASSUME IInv, Record \/ Manage \/ Configure
  PROVE  \/ \E l \in Ledgers, c \in Settable : NewLedger(l, c)
         \/ \E k \in FlipKinds, c \in Settable : Flip(k, c)
         \/ \E row \in Action : /\ Append(row) /\ row.kind \notin FlipKinds \cup {"new_ledger"}
                                /\ UNCHANGED <<undone, settings>>
<1>1. CASE Record
  <2> SUFFICES \E row \in Action :
                 /\ Append(row) /\ row.kind \in {"add_expense", "edit_expense", "settle_up", "delete_expense"}
                 /\ UNCHANGED <<undone, settings>>
    BY DEF FlipKinds
  <2>1. CASE \E l \in Ledgers, t \in FirstTexts : AddExpense(l, t)
    BY <2>1, AddRow
  <2>2. CASE \E l \in Ledgers : SettleUp(l) \/ SettleTap(l)
    BY <2>2, SettlementRow DEF SettleUp, SettleTap
  <2>3. CASE \E e \in ActionIds : \E n \in {0, e} : DeleteExpense(e, n) \/ \E c \in Changes : EditExpense(e, n, c)
    BY <2>3, DeleteRow, EditRow
  <2> QED BY <1>1, <2>1, <2>2, <2>3 DEF Record
<1>2. CASE Manage
  <2>1. ASSUME NEW l \in Ledgers, SwitchLedger(l) \/ ArchiveLedger(l) \/ UnarchiveLedger(l)
        PROVE  \E row \in Action : /\ Append(row) /\ row.kind \notin FlipKinds \cup {"new_ledger"}
                                   /\ UNCHANGED <<undone, settings>>
    BY <2>1, LedgerRows DEF FlipKinds
  <2> QED BY <1>2, <2>1 DEF Manage
<1>3. CASE Configure
  BY <1>3, ConfigureFlips
<1> QED BY <1>1, <1>2, <1>3

LEMMA NextLand == IInv /\ FlipsLand /\ [Next]_vars => FlipsLand'
<1> SUFFICES ASSUME IInv, FlipsLand, [Next]_vars, NEW a \in ActionIds, log'[a].kind \in FlipKinds
             PROVE  log'[a].ledger \in Ledgers /\ status'[log'[a].ledger] # "none"
  BY DEF FlipsLand
<1>1. CASE log'[a] = log[a]
  BY <1>1, StatusStays DEF FlipsLand
<1>2. CASE log'[a] # log[a]
  <2>1. Record \/ Manage \/ Configure
    BY <1>2, SettingToggles DEF Next, vars
  <2>2. CASE \E k \in FlipKinds, c \in Settable : Flip(k, c)
    <3>1. PICK row \in Action : Append(row) /\ row.ledger = active /\ UNCHANGED status
      BY <2>2, FlipRows
    <3>2. log'[a] = row
      BY <1>2, <3>1, Fresh
    <3>3. active \in Ledgers /\ status[active] = "open"
      BY DEF IInv, TypeOK, ActiveLedgerOpen
    <3> QED BY <3>1, <3>2, <3>3
  <2>3. ASSUME NEW row \in Action, Append(row), row.kind \notin FlipKinds PROVE FALSE
    BY <1>2, <2>3, Fresh
  <2>4. ASSUME NEW l \in Ledgers, NEW c \in Settable, NewLedger(l, c) PROVE FALSE
    <3>1. "new_ledger" \notin FlipKinds
      BY DEF FlipKinds
    <3> QED BY <2>3, <2>4, <3>1, NewLedgerRow
  <2> QED BY <2>1, <2>2, <2>3, <2>4, SettingRows
<1> QED BY <1>1, <1>2

LEMMA NextSettings == IInv /\ SettingsOK /\ [Next]_vars => SettingsOK'
<1> SUFFICES ASSUME IInv, SettingsOK, [Next]_vars PROVE SettingsOK'
  OBVIOUS
<1>1. FlipsLand'
  BY NextLand DEF SettingsOK
<1>2. CASE Record \/ Manage \/ Configure
  BY <1>1, <1>2, SettingRows, NewLedgerKeepsSettings, FlipKeepsSettings, AppendKeepsSettings
<1>3. CASE Undo \/ Redo
  <2>1. PICK a \in ActionIds :
           /\ log' = log
           /\ \/ UndoFlip(a) \/ RedoFlip(a)
              \/ /\ log[a].kind \notin FlipKinds /\ UNCHANGED settings
                 /\ undone' \in {undone \cup {a}, undone \ {a}}
    BY <1>3, SettingToggles
  <2>2. CASE log[a].kind \notin FlipKinds /\ UNCHANGED settings /\ undone' \in {undone \cup {a}, undone \ {a}}
    <3>1. \A s : FlipsOf(s)' = FlipsOf(s) /\ FirstOf(s)' = FirstOf(s)
      BY <2>1 DEF FlipsOf, FirstOf, OpenedWith, OfKind
    <3>2. \A s : \A b \in FlipsOf(s) : b \in undone' <=> b \in undone
      BY <2>2 DEF FlipsOf
    <3>3. NeverFlipped' /\ FirstImages'
      BY <2>1, <2>2, <3>1 DEF SettingsOK, NeverFlipped, FirstImages
    <3>4. FlippedOnce'
      BY <2>1, <2>2, <3>1, <3>2 DEF SettingsOK, FlippedOnce
    <3> QED BY <1>1, <3>3, <3>4 DEF SettingsOK
  <2> QED BY <1>1, <2>1, <2>2, ToggleFlipKeepsSettings
<1>4. CASE UNCHANGED vars
  <2>1. \A s : FlipsOf(s)' = FlipsOf(s) /\ FirstOf(s)' = FirstOf(s)
    BY <1>4 DEF vars, FlipsOf, FirstOf, OpenedWith, OfKind
  <2> QED BY <1>1, <1>4, <2>1 DEF vars, SettingsOK, NeverFlipped, FlippedOnce, FirstImages
<1> QED BY <1>2, <1>3, <1>4 DEF Next

\* undo.py finds the setting of a flip by its row, whichever ledger is active by then:
\* a home currency, a pin and the logging currency of each ledger keep clear of one
\* another, for any number of ledgers and flips, toggled in any order.
THEOREM SettingAlwaysFollows == Spec => []SettingFollowsItsOnlyFlip
<1>1. Init => IInv /\ SettingsOK
  <2> SUFFICES ASSUME Init PROVE SettingsOK
    BY InitIInv
  <2>1. \A s : FlipsOf(s) = {} /\ FirstOf(s) = {Unset}
    BY DEF Init, FlipsOf, FirstOf, OpenedWith, OfKind, NoAction, FlipKinds
  <2> QED BY <2>1 DEF Init, SettingsOK, NeverFlipped, FlippedOnce, FirstImages, FlipsLand, NoAction, FlipKinds
<1>2. IInv /\ SettingsOK /\ [Next]_vars => (IInv /\ SettingsOK)'
  BY NextIInv, NextSettings
<1>3. SettingsOK => SettingFollowsItsOnlyFlip
  BY DEF SettingsOK, NeverFlipped, FlippedOnce, SettingFollowsItsOnlyFlip
<1> QED BY <1>1, <1>2, <1>3, PTL DEF Spec
=============================================================================
