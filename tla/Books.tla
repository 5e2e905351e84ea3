------------------------------- MODULE Books -------------------------------
(***************************************************************************)
(* The books of one group: its ledgers and the pointer to the active one,  *)
(* its expenses and settlements, and the append-only log of actions whose  *)
(* entries can be undone and redone (domain/apply.py, domain/undo.py,      *)
(* domain/ledgers.py, domain/settle.py), and the settings that actions     *)
(* flip: home currency, pinned rates, logging currencies (domain/fx.py).   *)
(*                                                                         *)
(* Every operation runs inside one transaction that holds the group's      *)
(* advisory lock, so it is one action here.  A refusal (Rejection) and a   *)
(* failed assertion leave the books as they were: they are no step.        *)
(*                                                                         *)
(* Left out: who acts (any member may, and the operator may toggle for     *)
(* ever), amounts, what currencies and rates say, other groups.            *)
(***************************************************************************)
EXTENDS Naturals, FiniteSets

CONSTANTS
  MaxLedgers,      \* bound: ledgers the group ever creates
  MaxActions,      \* bound: entries of the log
  Mixes,           \* bound: the mixes of entries the log may hold
  FirstTexts,      \* texts an expense may be logged with
  Values,          \* values of a text field
  Same,            \* "this field is not part of the change" (JSON null / absent)
  Codes,           \* values of a setting: currencies, pinned rates
  Unset            \* NULL: no value is set

Fields == {"description", "occurred_on"}

Kinds == {"add_expense", "settle_up", "delete_expense", "edit_expense",
          "new_ledger", "switch_ledger", "archive_ledger", "unarchive_ledger",
          "set_home_currency", "set_fx_rate", "clear_fx_rate", "set_logging_currency"}

FlipKinds == {"set_home_currency", "set_fx_rate", "clear_fx_rate", "set_logging_currency"}

Texts   == [Fields -> Values]                     \* what an expense shows
Changes == [Fields -> Values \cup {Same}]         \* what an edit changes
NoChange == [f \in Fields |-> Same]

ASSUME BoundsAssumption == /\ MaxLedgers \in Nat \ {0}
                           /\ MaxActions \in Nat
ASSUME MixesAssumption  == \A mix \in Mixes : /\ mix.total \in Nat
                                               /\ mix.of \in [Kinds -> Nat]
ASSUME TextsAssumption  == /\ Same \notin Values
                           /\ FirstTexts \subseteq Texts
ASSUME CodesAssumption  == Unset \notin Codes

Ledgers   == 1 .. MaxLedgers       \* in the order of their creation
ActionIds == 1 .. MaxActions       \* in the order of their creation

\* What a setting may be, and the settings of a group: its home currency, the
\* pin of a pair of currencies (pairs do not interact: one stands for all), and
\* the logging currency of each ledger.
Settable == Codes \cup {Unset}
Slots    == ({"home", "pin"} \X {0}) \cup ({"logging"} \X Ledgers)

VARIABLES
  status,   \* Ledger.status; "none" before the ledger exists
  active,   \* Group.active_ledger_id
  log,      \* the action rows
  made,     \* how many of them there are
  undone,   \* those whose undone_at is set
  visible,  \* expenses and settlements whose deleted_at is NULL
  text,     \* description and occurred_on of each expense
  edited,   \* the edit an expense's edited_at dates from; 0 for NULL
  settings  \* the value of each setting

\* An expense or a settlement is named by the action that created it.

vars == <<status, active, log, made, undone, visible, text, edited, settings>>

(***************************************************************************)
(* The action row.  `expense` and `change` are intent_json, `before` and   *)
(* `previous` are before_image (previous = 0: no active_ledger_id in it).  *)
(* `to` is the value a setting gets, and `from` its before-image.          *)
(* `hit` is the expense a delete or an edit really touched, which differs  *)
(* from `expense` when the intent never named one; only properties read it.*)
(***************************************************************************)
Action == [kind     : Kinds \cup {"none"},
           ledger   : Ledgers \cup {0},
           expense  : ActionIds \cup {0},
           change   : Changes,
           before   : Changes,
           previous : Ledgers \cup {0},
           to       : Settable,
           from     : Settable,
           hit      : ActionIds \cup {0}]

NoAction == [kind |-> "none", ledger |-> 0, expense |-> 0, change |-> NoChange,
             before |-> NoChange, previous |-> 0, to |-> Unset, from |-> Unset, hit |-> 0]

TypeOK == /\ status \in [Ledgers -> {"none", "open", "archived"}]
          /\ active \in Ledgers
          /\ log \in [ActionIds -> Action]
          /\ made \in 0 .. MaxActions
          /\ undone \subseteq ActionIds
          /\ visible \subseteq ActionIds
          /\ text \in [ActionIds -> Changes]
          /\ edited \in [ActionIds -> ActionIds \cup {0}]
          /\ settings \in [Slots -> Settable]

-----------------------------------------------------------------------------
(* Queries *)

Open(st) == {l \in Ledgers : st[l] = "open"}

\* The one created last, as a singleton; empty when S is.
Latest(S) == {x \in S : \A y \in S : y <= x}

MostRecentOpen(st, X) == Latest(Open(st) \ X)

\* Variant: put back without asking whether the ledger is still open.
RepointBlindly(st, l) == {l}

\* Where the pointer goes when it is put back on l.
RepointTarget(st, l) == IF l # 0 /\ st[l] = "open" THEN {l} ELSE MostRecentOpen(st, {})

OfKind(k) == {a \in ActionIds : log[a].kind = k}
Standing  == {a \in ActionIds : log[a].kind # "none"} \ undone

Expenses == OfKind("add_expense")

HasTransactions(l) == \E a \in visible : log[a].ledger = l

\* The queries of undo.py find the deletes and edits of an expense by
\* intent_json.expense_id, so they miss an intent that carries none.
StandingDeletes(e) == {a \in OfKind("delete_expense") \cap Standing : log[a].expense = e}
StandingEdits(e)   == {a \in OfKind("edit_expense")   \cap Standing : log[a].expense = e}

ActiveDeleteExists(e, X) == StandingDeletes(e) \ X # {}

\* Variant: asks the deletes only, not the expense's own action.
VisibleUnlessDeleted(e, X) == ~ ActiveDeleteExists(e, X)

ShouldBeVisible(e, X) == e \in Standing /\ ~ ActiveDeleteExists(e, X)

\* What edited_at dates from when the edits of S stand.
EditMark(S) == IF S = {} THEN {0} ELSE Latest(S)

\* text t with the fields of change c replaced
Overlay(t, c) == [f \in Fields |-> IF c[f] = Same THEN t[f] ELSE c[f]]

\* Variant: the whole text of the expense as the before-image.
FullImage(t, c) == t

\* the fields of t that change c replaces: the minimal before-image
Displaced(t, c) == [f \in Fields |-> IF c[f] = Same THEN Same ELSE t[f]]

-----------------------------------------------------------------------------
Init == /\ status = [l \in Ledgers |-> IF l = 1 THEN "open" ELSE "none"]
        /\ active = 1
        /\ log = [a \in ActionIds |-> NoAction]
        /\ made = 0
        /\ undone = {}
        /\ visible = {}
        /\ text = [a \in ActionIds |-> NoChange]
        /\ edited = [a \in ActionIds |-> 0]
        /\ settings = [s \in Slots |-> Unset]

\* The row of an action on ledger l; p is the pointer it saves.
LedgerRow(k, l, p) == [NoAction EXCEPT !.kind = k, !.ledger = l, !.previous = p]

\* The row of an action on expense e of ledger l, which its intent calls n.
ExpenseRow(k, l, n, e, c, b) ==
  [NoAction EXCEPT !.kind = k, !.ledger = l, !.expense = n, !.hit = e,
                   !.change = c, !.before = b]

\* The row of an action that sets a setting, to c from b.
FlipRow(k, l, c, b) == [NoAction EXCEPT !.kind = k, !.ledger = l, !.to = c, !.from = b]

\* Bound: the row and those of the log are within one of the mixes together.
Fits(row) ==
  \E mix \in Mixes :
    /\ made < mix.total
    /\ Cardinality(OfKind(row.kind)) < mix.of[row.kind] /\ row.to \in mix.settings
    /\ \A a \in 1 .. made : /\ Cardinality(OfKind(log[a].kind)) <= mix.of[log[a].kind]
                           /\ log[a].to \in mix.settings

\* Appends one row; made + 1 is its id.
Append(row) ==
  /\ made < MaxActions
  /\ Fits(row)
  /\ made' = made + 1
  /\ log' = [log EXCEPT ![made + 1] = row]

\* A command aims at the active ledger whatever its status; a confirmed
\* proposal at the ledger it was pinned to, which must still be open.
Target(l) == l = active \/ status[l] = "open"

AddExpense(l, t) ==
  /\ Target(l)
  /\ Append(ExpenseRow("add_expense", l, 0, 0, t, NoChange))
  /\ visible' = visible \cup {made + 1}
  /\ text' = [text EXCEPT ![made + 1] = t]
  /\ UNCHANGED <<status, active, undone, edited, settings>>

RecordSettlement(l) ==
  /\ Append(LedgerRow("settle_up", l, 0))
  /\ visible' = visible \cup {made + 1}
  /\ UNCHANGED <<status, active, undone, text, edited, settings>>

SettleUp(l) == Target(l) /\ RecordSettlement(l)

\* A [Settle] button settles the ledger of the board it sits on, archived or
\* not; there is something to settle only where transactions are visible.
SettleTap(l) == HasTransactions(l) /\ RecordSettlement(l)

\* The description of o was edited, whether or not the edit still stands.
Reworded(o) == \E a \in OfKind("edit_expense") :
                 log[a].hit = o /\ log[a].change["description"] # Same

\* The intent of a delete or an edit names its expense.  The exception is a
\* descriptive match that had several candidates when it was proposed and has
\* one left when it is confirmed: then the intent names none.
Refers(e, named) ==
  \/ named = e
  \/ /\ named = 0
     /\ \E o \in Expenses \ {e} :
          /\ log[o].ledger = log[e].ledger
          /\ o \in visible =>
               Reworded(o) /\ text[o]["description"] # text[e]["description"]

DeleteExpense(e, named) ==
  /\ e \in Expenses /\ Target(log[e].ledger)
  /\ e \in visible
  /\ Refers(e, named)
  /\ Append(ExpenseRow("delete_expense", log[e].ledger, named, e, NoChange, NoChange))
  /\ visible' = visible \ {e}
  /\ UNCHANGED <<status, active, undone, text, edited, settings>>

EditExpense(e, named, c) ==
  /\ e \in Expenses /\ Target(log[e].ledger)
  /\ e \in visible
  /\ Refers(e, named)
  /\ c # NoChange
  /\ Append(ExpenseRow("edit_expense", log[e].ledger, named, e, c, Displaced(text[e], c)))
  /\ text' = [text EXCEPT ![e] = Overlay(text[e], c)]
  /\ edited' = [edited EXCEPT ![e] = made + 1]
  /\ UNCHANGED <<status, active, undone, visible, settings>>

-----------------------------------------------------------------------------
(* Ledger operations *)

Unused(l) == status[l] = "none" /\ \A k \in 1 .. l - 1 : status[k] # "none"

\* c is the logging currency it is opened with, if any.
NewLedger(l, c) ==
  /\ Unused(l)
  /\ Append([LedgerRow("new_ledger", l, active) EXCEPT !.to = c])
  /\ status' = [status EXCEPT ![l] = "open"]
  /\ active' = l
  /\ settings' = [settings EXCEPT ![<<"logging", l>>] = c]
  /\ UNCHANGED <<undone, visible, text, edited>>

SwitchLedger(l) ==
  /\ status[l] = "open" /\ l # active
  /\ Append(LedgerRow("switch_ledger", l, active))
  /\ active' = l
  /\ UNCHANGED <<status, undone, visible, text, edited, settings>>

ArchiveLedger(l) ==
  /\ status[l] = "open"
  /\ MostRecentOpen(status, {l}) # {}
  /\ Append(LedgerRow("archive_ledger", l, IF l = active THEN active ELSE 0))
  /\ status' = [status EXCEPT ![l] = "archived"]
  /\ active' \in IF l = active THEN MostRecentOpen(status, {l}) ELSE {active}
  /\ UNCHANGED <<undone, visible, text, edited, settings>>

\* Variant: reopening a ledger also switches to it.
UnarchiveAndSwitch(l) ==
  /\ status[l] = "archived"
  /\ Append(LedgerRow("unarchive_ledger", l, 0))
  /\ status' = [status EXCEPT ![l] = "open"]
  /\ active' = l
  /\ UNCHANGED <<undone, visible, text, edited, settings>>

UnarchiveLedger(l) ==
  /\ status[l] = "archived"
  /\ Append(LedgerRow("unarchive_ledger", l, 0))
  /\ status' = [status EXCEPT ![l] = "open"]
  /\ UNCHANGED <<active, undone, visible, text, edited, settings>>

-----------------------------------------------------------------------------
(* Settings.  A flip stamps the active ledger, whatever it was proposed in. *)

\* The setting that an action of kind k, stamped with ledger l, is about.
Slot(k, l) == CASE k = "set_home_currency" -> <<"home", 0>>
                [] k \in {"set_fx_rate", "clear_fx_rate"} -> <<"pin", 0>>
                [] OTHER -> <<"logging", l>>

Flip(k, c) ==
  LET s == Slot(k, active) IN
  /\ Append(FlipRow(k, active, c, settings[s]))
  /\ settings' = [settings EXCEPT ![s] = c]
  /\ UNCHANGED <<status, active, undone, visible, text, edited>>

SetHomeCurrency(c)    == Flip("set_home_currency", c)
SetFxRate(c)          == Flip("set_fx_rate", c)
ClearFxRate           == settings[<<"pin", 0>>] # Unset /\ Flip("clear_fx_rate", Unset)
SetLoggingCurrency(c) == Flip("set_logging_currency", c)

-----------------------------------------------------------------------------
(* The [Undo] button: one action per kind of row *)

Undoable(a, kind) == /\ log[a].kind = kind /\ a \notin undone
                     /\ undone' = undone \cup {a}
                     /\ UNCHANGED <<log, made>>

UndoCreation(a) ==
  /\ Undoable(a, "add_expense") \/ Undoable(a, "settle_up")
  /\ visible' = visible \ {a}
  /\ UNCHANGED <<status, active, text, edited, settings>>

\* log[a].expense = 0 fails an assertion of _target_expense: nothing commits.
UndoDelete(a) ==
  /\ Undoable(a, "delete_expense")
  /\ log[a].expense # 0
  /\ visible' = IF ShouldBeVisible(log[a].expense, {a})
                THEN visible \cup {log[a].expense} ELSE visible
  /\ UNCHANGED <<status, active, text, edited, settings>>

UndoEdit(a) ==
  LET e == log[a].expense IN
  /\ Undoable(a, "edit_expense")
  /\ e # 0
  /\ text' = [text EXCEPT ![e] = Overlay(text[e], log[a].before)]
  /\ \E m \in EditMark(StandingEdits(e) \ {a}) : edited' = [edited EXCEPT ![e] = m]
  /\ UNCHANGED <<status, active, visible, settings>>

UndoNewLedger(a) ==
  LET l == log[a].ledger
      p == log[a].previous
      heir == IF status[p] = "open" THEN {p} ELSE MostRecentOpen(status, {l})
  IN /\ Undoable(a, "new_ledger")
     /\ ~ HasTransactions(l)
     /\ active' \in heir
     /\ status' = [status EXCEPT ![l] = "archived"]
     /\ UNCHANGED <<visible, text, edited, settings>>

UndoSwitch(a) ==
  /\ Undoable(a, "switch_ledger")
  /\ active' \in RepointTarget(status, log[a].previous)
  /\ UNCHANGED <<status, visible, text, edited, settings>>

\* Variant: the pointer is put back even when the archive did not move it.
UndoArchiveAlways(a) ==
  /\ Undoable(a, "archive_ledger")
  /\ status' = [status EXCEPT ![log[a].ledger] = "open"]
  /\ active' = log[a].previous
  /\ UNCHANGED <<visible, text, edited, settings>>

UndoArchive(a) ==
  LET reopened == [status EXCEPT ![log[a].ledger] = "open"] IN
  /\ Undoable(a, "archive_ledger")
  /\ status' = reopened
  /\ active' \in IF log[a].previous = 0 THEN {active}
                 ELSE RepointTarget(reopened, log[a].previous)
  /\ UNCHANGED <<visible, text, edited, settings>>

UndoUnarchive(a) ==
  /\ Undoable(a, "unarchive_ledger")
  /\ active # log[a].ledger
  /\ status' = [status EXCEPT ![log[a].ledger] = "archived"]
  /\ UNCHANGED <<active, visible, text, edited, settings>>

\* Variant: the setting of the ledger that is active now.
UndoFlipHere(a) ==
  /\ \E k \in FlipKinds : Undoable(a, k)
  /\ settings' = [settings EXCEPT ![Slot(log[a].kind, active)] = log[a].from]
  /\ UNCHANGED <<status, active, visible, text, edited>>

\* Restores what stood before it, whatever was set since.
UndoFlip(a) ==
  /\ \E k \in FlipKinds : Undoable(a, k)
  /\ settings' = [settings EXCEPT ![Slot(log[a].kind, log[a].ledger)] = log[a].from]
  /\ UNCHANGED <<status, active, visible, text, edited>>

-----------------------------------------------------------------------------
(* The [Redo] button *)

Redoable(a, kind) == /\ log[a].kind = kind /\ a \in undone
                     /\ undone' = undone \ {a}
                     /\ UNCHANGED <<log, made>>

RedoAdd(a) ==
  /\ Redoable(a, "add_expense")
  /\ visible' = IF ActiveDeleteExists(a, {}) THEN visible ELSE visible \cup {a}
  /\ UNCHANGED <<status, active, text, edited, settings>>

RedoSettleUp(a) ==
  /\ Redoable(a, "settle_up")
  /\ visible' = visible \cup {a}
  /\ UNCHANGED <<status, active, text, edited, settings>>

RedoDelete(a) ==
  /\ Redoable(a, "delete_expense")
  /\ log[a].expense # 0
  /\ visible' = visible \ {log[a].expense}
  /\ UNCHANGED <<status, active, text, edited, settings>>

\* Variant: the redone edit is taken for the newest.
RedoEditAsNewest(a) ==
  LET e == log[a].expense IN
  /\ Redoable(a, "edit_expense")
  /\ e # 0
  /\ text' = [text EXCEPT ![e] = Overlay(text[e], log[a].change)]
  /\ edited' = [edited EXCEPT ![e] = a]
  /\ UNCHANGED <<status, active, visible, settings>>

RedoEdit(a) ==
  LET e == log[a].expense IN
  /\ Redoable(a, "edit_expense")
  /\ e # 0
  /\ text' = [text EXCEPT ![e] = Overlay(text[e], log[a].change)]
  /\ \E m \in EditMark(StandingEdits(e) \cup {a}) : edited' = [edited EXCEPT ![e] = m]
  /\ UNCHANGED <<status, active, visible, settings>>

\* Variant: the pointer moves back and the ledger stays archived.
RedoNewLedgerPointerOnly(a) ==
  /\ Redoable(a, "new_ledger")
  /\ active' = log[a].ledger
  /\ UNCHANGED <<status, visible, text, edited, settings>>

RedoNewLedger(a) ==
  /\ Redoable(a, "new_ledger")
  /\ status' = [status EXCEPT ![log[a].ledger] = "open"]
  /\ active' = log[a].ledger
  /\ UNCHANGED <<visible, text, edited, settings>>

RedoSwitch(a) ==
  /\ Redoable(a, "switch_ledger")
  /\ status[log[a].ledger] # "archived"
  /\ active' = log[a].ledger
  /\ UNCHANGED <<status, visible, text, edited, settings>>

RedoArchive(a) ==
  LET l == log[a].ledger IN
  /\ Redoable(a, "archive_ledger")
  /\ active' \in IF l = active THEN MostRecentOpen(status, {l}) ELSE {active}
  /\ status' = [status EXCEPT ![l] = "archived"]
  /\ UNCHANGED <<visible, text, edited, settings>>

RedoUnarchive(a) ==
  /\ Redoable(a, "unarchive_ledger")
  /\ status' = [status EXCEPT ![log[a].ledger] = "open"]
  /\ UNCHANGED <<active, visible, text, edited, settings>>

\* Restates its own value, whatever stands now.
RedoFlip(a) ==
  /\ \E k \in FlipKinds : Redoable(a, k)
  /\ settings' = [settings EXCEPT ![Slot(log[a].kind, log[a].ledger)] = log[a].to]
  /\ UNCHANGED <<status, active, visible, text, edited>>

-----------------------------------------------------------------------------
Record ==
  \/ \E l \in Ledgers : \/ \E t \in FirstTexts : AddExpense(l, t)
                        \/ SettleUp(l)
                        \/ SettleTap(l)
  \/ \E e \in ActionIds : \E named \in {0, e} :
       \/ DeleteExpense(e, named)
       \/ \E c \in Changes : EditExpense(e, named, c)

Manage == \E l \in Ledgers : \/ \E c \in Settable : NewLedger(l, c)
                             \/ SwitchLedger(l)
                             \/ ArchiveLedger(l)
                             \/ UnarchiveLedger(l)

Configure == \/ ClearFxRate
             \/ \E c \in Codes : SetHomeCurrency(c) \/ SetFxRate(c) \/ SetLoggingCurrency(c)

Undo == \E a \in ActionIds :
  \/ UndoCreation(a)  \/ UndoDelete(a) \/ UndoEdit(a)
  \/ UndoNewLedger(a) \/ UndoSwitch(a) \/ UndoArchive(a) \/ UndoUnarchive(a)
  \/ UndoFlip(a)

Redo == \E a \in ActionIds :
  \/ RedoAdd(a)       \/ RedoSettleUp(a) \/ RedoDelete(a)  \/ RedoEdit(a)
  \/ RedoNewLedger(a) \/ RedoSwitch(a)   \/ RedoArchive(a) \/ RedoUnarchive(a)
  \/ RedoFlip(a)

Next == Record \/ Manage \/ Configure \/ Undo \/ Redo

Spec == Init /\ [][Next]_vars

-----------------------------------------------------------------------------
(* Properties *)

\* ADR-0004: the active pointer always names an open ledger, through every
\* order of archiving, reopening, undoing and redoing; in particular some
\* ledger is always open.
ActiveLedgerOpen == status[active] = "open"

\* undo.py derives visibility from the log: an expense shows only while its
\* own action stands and no delete naming it does, and it is hidden only when
\* its action is undone or a delete that hit it stands.  A settlement shows
\* exactly while its action stands.  However undo and redo interleave.
VisibilityDerived ==
  /\ \A e \in Expenses \cap visible : e \in Standing /\ StandingDeletes(e) = {}
  /\ \A e \in Expenses \ visible :
       \/ e \in undone
       \/ \E d \in OfKind("delete_expense") \cap Standing : log[d].hit = e
  /\ OfKind("settle_up") \cap visible = OfKind("settle_up") \ undone

\* undo.py derives the edited mark of an expense (edited_at): no standing edit
\* that names the expense is newer than it, and it never dates from an edit
\* that is undone or was made to another expense.
EditMarkDerived ==
  \A e \in Expenses :
    /\ \A d \in StandingEdits(e) : d <= edited[e]
    /\ edited[e] # 0 => /\ edited[e] \in OfKind("edit_expense") \cap Standing
                        /\ log[edited[e]].hit = e

\* apply.py takes a minimal before-image so that undoing one edit leaves the
\* fields of another alone: a field that one edit only ever changed shows
\* that edit's value while the edit stands, and the logged one while it does
\* not, whatever happened to the edits of the other field.
EditsOf(e, f) == {a \in OfKind("edit_expense") : log[a].hit = e /\ log[a].change[f] # Same}
FieldFollowsItsOnlyEdit ==
  \A e \in Expenses : \A f \in Fields :
    /\ EditsOf(e, f) = {} => text[e][f] = log[e].change[f]
    /\ \A a \in EditsOf(e, f) :
         EditsOf(e, f) = {a} =>
           text[e][f] = IF a \in undone THEN log[e].change[f] ELSE log[a].change[f]

\* A setting that was flipped only once shows that flip's value while the flip
\* stands, and what it was before while it does not: a home currency, a pin and
\* the logging currency of each ledger keep clear of one another, whichever
\* ledger is active when a flip is undone or redone (undo.py finds the setting by
\* the row; the logging currency a ledger is opened with is no flip).
FlipsOf(s) == {a \in ActionIds : log[a].kind \in FlipKinds /\ Slot(log[a].kind, log[a].ledger) = s}
OpenedWith(s) == {log[a].to : a \in {b \in OfKind("new_ledger") : <<"logging", log[b].ledger>> = s}}
FirstOf(s) == IF OpenedWith(s) = {} THEN {Unset} ELSE OpenedWith(s)
SettingFollowsItsOnlyFlip ==
  \A s \in Slots :
    /\ FlipsOf(s) = {} => settings[s] \in FirstOf(s)
    /\ \A a \in FlipsOf(s) :
         FlipsOf(s) = {a} => settings[s] \in IF a \in undone THEN FirstOf(s) ELSE {log[a].to}

\* An archived ledger has a reason in the log: an archive that stands, a
\* creation that is undone or a reopening that is undone.  In whatever order
\* those were toggled, a ledger none of them explains is open.
ArchivedExplained ==
  \A l \in Ledgers : status[l] = "archived" =>
    \E a \in ActionIds : /\ log[a].ledger = l
                          /\ \/ log[a].kind = "archive_ledger" /\ a \notin undone
                             \/ log[a].kind \in {"new_ledger", "unarchive_ledger"}
                                /\ a \in undone

\* Reopening and switching are separate steps (CONTEXT.md): the pointer moves
\* onto a ledger that is not open before the step only if the step creates it,
\* redoes its creation, or undoes the archive that took the pointer away.
ReopeningDoesNotActivate ==
  [][active' # active /\ status[active'] # "open" =>
       \E a \in ActionIds :
         /\ log'[a].ledger = active'
         /\ \/ log'[a].kind = "new_ledger" /\ (a > made \/ a \in undone) /\ a \notin undone'
            \/ /\ log[a].kind = "archive_ledger" /\ log[a].previous = active'
               /\ a \in undone' \ undone]_vars

\* undo.py, on the redo of an add: "redo must never resurrect an expense a
\* standing delete action removed".
DeletedStaysDeleted ==
  \A d \in OfKind("delete_expense") \cap Standing : log[d].hit \notin visible

\* test_settle.py, on undoing /newledger: it "must not orphan it in an archived
\* shell": a ledger whose creation is undone and that is archived shows no
\* transaction.
NoOrphanInShell ==
  \A a \in OfKind("new_ledger") \cap undone :
    status[log[a].ledger] = "archived" => ~ HasTransactions(log[a].ledger)
=============================================================================
