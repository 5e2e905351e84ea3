--------------------------- MODULE MCTransactions ---------------------------
(* Instances of Transactions for TLC. *)
EXTENDS Transactions, TLC

MCPeople == 1 .. 4

Expense(payer, amount, type, part, rank) ==
  [kind |-> "expense", payer |-> payer, amount |-> amount,
   split |-> [type |-> type, part |-> part], rank |-> rank]

Payment(from, to, amount) ==
  [kind |-> "settlement", from |-> from, to |-> to, amount |-> amount]

Up   == [u \in MCPeople |-> u]
Down == [u \in MCPeople |-> 5 - u]

\* A dinner of 7 for all, a gift by percentages that add up to 99, one of which
\* comes out whole; parts that add up, and parts that do not; an expense of nothing;
\* a payment, and one to oneself.
MCOffers ==
  {Expense(1, 7, "equal", [u \in MCPeople |-> 1], Down),
   Expense(3, 12, "percent", (2 :> 33 @@ 3 :> 22 @@ 4 :> 44), Up),
   Expense(2, 5, "exact", (1 :> 5), Up),
   Expense(2, 5, "exact", (1 :> 2 @@ 2 :> 2), Up),
   Expense(2, 0, "equal", (1 :> 1 @@ 2 :> 1), Up),
   Payment(1, 2, 5), Payment(3, 3, 2)}
=============================================================================
