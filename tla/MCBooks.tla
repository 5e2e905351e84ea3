------------------------------ MODULE MCBooks ------------------------------
(* Instances of Books for TLC. *)
EXTENDS Books

CONSTANTS v1, v2,    \* values of an expense's text
          c1, c2     \* values of a setting

MCValues == {v1, v2}

MCCodes == {c1, c2}
NoCodes == {}

\* every expense is logged with the same text
MCFirstTexts == {[f \in Fields |-> v1]}

LedgerKinds == {"new_ledger", "switch_ledger", "archive_ledger", "unarchive_ledger"}

\* Three ledgers opened, switched, archived and reopened.
LedgerMax == [k \in Kinds |-> CASE k = "new_ledger" -> 2
                                [] k \in LedgerKinds \ {"new_ledger"} -> 1
                                [] OTHER -> 0]

\* Two ledgers around an expense and a settlement.
UsedMax == [k \in Kinds |-> IF k \in LedgerKinds \cup {"add_expense", "settle_up"} THEN 1 ELSE 0]

\* Expenses logged, deleted and edited, with two ledgers to be active.
ExpenseMax ==
  [k \in Kinds |-> CASE k \in {"add_expense", "delete_expense", "edit_expense"} -> 2
                     [] k \in {"new_ledger", "switch_ledger"} -> 1
                     [] OTHER -> 0]

\* Settings flipped and a debt settled, with two ledgers to be active.
FlipMax ==
  [k \in Kinds |-> IF k \in FlipKinds \cup {"settle_up", "new_ledger", "switch_ledger"} THEN 1
                   ELSE 0]

\* A ledger with one expense.
ShellMax == [k \in Kinds |-> IF k \in {"new_ledger", "add_expense"} THEN 1 ELSE 0]

Mix(total, max) == [total |-> total, of |-> max, settings |-> Settable]

Plain(mix) == [mix EXCEPT !.settings = {Unset}]

AllMixes     == {Plain(Mix(5, LedgerMax)), Plain(Mix(4, UsedMax)),
                 Mix(4, ExpenseMax), Mix(4, FlipMax)}
ExpenseMixes == {Mix(4, ExpenseMax)}
ShellMixes   == {Mix(2, ShellMax)}
=============================================================================
