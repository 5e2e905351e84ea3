------------------------------- MODULE Money -------------------------------
(***************************************************************************)
(* The arithmetic of the books, in minor units of one currency: the shares *)
(* of an expense (domain/allocate.py), what everyone owes (balances.py),   *)
(* the transfers that would settle it (simplify.py) and the credits that   *)
(* settlements explain (settle.py).  Nothing here has a state; a           *)
(* transaction is an expense or a settlement.                              *)
(*                                                                         *)
(* Weights are whole numbers: the code makes exact fractions of what was   *)
(* typed, and shares only depend on their proportions.                     *)
(***************************************************************************)
EXTENDS Integers, FiniteSets, FiniteSetsExt

CONSTANT People   \* user ids; ties between people are broken by id

ASSUME PeopleAssumption == IsFiniteSet(People) /\ People \subseteq Nat

Total(f) == MapThenSumSet(LAMBDA u : f[u], DOMAIN f)

-----------------------------------------------------------------------------
(* Shares *)

\* Variant: the units that rounding down leaves over are given to nobody.
FloorOnly(total, weight, rank) ==
  [u \in DOMAIN weight |-> (total * weight[u]) \div Total(weight)]

\* Variant: the units left over are handed out by rank alone.
ByRank(total, weight, rank) ==
  LET base  == [u \in DOMAIN weight |-> (total * weight[u]) \div Total(weight)]
      short == total - Total(base)
  IN [u \in DOMAIN weight |->
        base[u] + IF Cardinality({v \in DOMAIN weight : rank[v] < rank[u]}) < short THEN 1 ELSE 0]

\* Largest remainders first; a tie goes by rank, which the hash of the seed
\* makes different for every expense.
Allocate(total, weight, rank) ==
  LET scaled == [u \in DOMAIN weight |-> total * weight[u]]
      base   == [u \in DOMAIN weight |-> scaled[u] \div Total(weight)]
      rest   == [u \in DOMAIN weight |-> scaled[u] % Total(weight)]
      short  == total - Total(base)
      before(v, u) == rest[v] > rest[u] \/ (rest[v] = rest[u] /\ rank[v] < rank[u])
  IN [u \in DOMAIN weight |->
        base[u] + IF Cardinality({v \in DOMAIN weight : before(v, u)}) < short THEN 1 ELSE 0]

\* A stated split is accepted if its parts add up; a percentage if it comes within
\* one of a hundred; and allocate refuses totals and weights that are not positive.
Accepted(total, split) ==
  IF split.type = "exact" THEN Total(split.part) = total
  ELSE /\ split.type = "percent" => Total(split.part) \in 99 .. 101
       /\ total > 0 /\ DOMAIN split.part # {}
       /\ \A u \in DOMAIN split.part : split.part[u] > 0

SplitShares(total, split, rank) ==
  IF split.type = "exact" THEN split.part ELSE Allocate(total, split.part, rank)

-----------------------------------------------------------------------------
(* Balances: what a member owes the pool is positive *)

Delta(event, u) ==
  IF event.kind = "expense"
  THEN (IF u \in DOMAIN event.shares THEN event.shares[u] ELSE 0)
       - (IF u = event.payer THEN event.amount ELSE 0)
  ELSE (IF u = event.to THEN event.amount ELSE 0) - (IF u = event.from THEN event.amount ELSE 0)

Replay(events) ==     \* events: a function from ids to transactions
  [u \in People |-> MapThenSumSet(LAMBDA i : Delta(events[i], u), DOMAIN events)]

-----------------------------------------------------------------------------
(* Suggested transfers *)

Debtors(net)   == {u \in People : net[u] > 0}
Creditors(net) == {u \in People : net[u] < 0}

Magnitude(n) == IF n < 0 THEN -n ELSE n

Lesser(m, n) == IF m < n THEN m ELSE n

\* The one with the largest position, the lowest id among equals.
Largest(net, S) ==
  CHOOSE u \in S : \A v \in S : \/ Magnitude(net[u]) > Magnitude(net[v])
                                \/ Magnitude(net[u]) = Magnitude(net[v]) /\ u <= v

ChiefDebtor(net) == Largest(net, Debtors(net))

ChiefCreditor(net) == Largest(net, Creditors(net))

\* Variant: a transfer pays all that the debtor owes.
PayInFull(debt, credit) == debt

TransferAmount(debt, credit) == Lesser(debt, credit)

Paid(net, t) == [net EXCEPT ![t.from] = @ - t.amount, ![t.to] = @ + t.amount]

Suggestion(net) ==
  LET debtor   == ChiefDebtor(net)
      creditor == ChiefCreditor(net)
  IN [from |-> debtor, to |-> creditor,
      amount |-> TransferAmount(net[debtor], -net[creditor])]

\* Each round closes at least one position, so there are fewer rounds than people.
Simplify(net) ==
  LET round[k \in 0 .. Cardinality(People)] ==
        IF k = 0 THEN [net |-> net, transfers |-> {}]
        ELSE LET r == round[k - 1] IN
             IF Debtors(r.net) = {} \/ Creditors(r.net) = {} THEN r
             ELSE [net |-> Paid(r.net, Suggestion(r.net)),
                   transfers |-> r.transfers \cup {Suggestion(r.net)}]
  IN round[Cardinality(People)].transfers

-----------------------------------------------------------------------------
(* Credits *)

\* What u paid in settlements beyond what u received.
PaidNet(events, u) ==
  -MapThenSumSet(LAMBDA i : IF events[i].kind = "settlement" THEN Delta(events[i], u) ELSE 0,
                 DOMAIN events)

OverpaymentCredit(events, u) ==
  LET credit == Lesser(-Replay(events)[u], PaidNet(events, u))
  IN IF credit > 0 THEN credit ELSE 0
=============================================================================
