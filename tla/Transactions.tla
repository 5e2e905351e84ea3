---------------------------- MODULE Transactions ----------------------------
(***************************************************************************)
(* The transactions of one ledger as they are read: the balances replayed  *)
(* from those that stand (see Money), and the listing of /transactions     *)
(* (domain/transactions.py), a message that shows a page of them and whose *)
(* buttons carry the position to go on from.  Transactions are recorded    *)
(* and hidden, and shown again, while people page.                         *)
(*                                                                         *)
(* A transaction is named by its place in rows.  Its row id in its own     *)
(* table grows with it, its creation time need not: instances of the       *)
(* service have clocks of their own, and two instants may be equal.        *)
(***************************************************************************)
EXTENDS Money, Sequences, Functions

CONSTANTS
  Offers,      \* what may be recorded: expenses with their split and the order in
               \* which the hash of their seed puts people, settlements
  Times,       \* instants
  MaxRows,     \* bound: transactions ever recorded
  PageSize     \* rows of a page

ASSUME PagingAssumption == MaxRows \in Nat /\ PageSize \in Nat \ {0} /\ Times \subseteq Nat

\* The parties are people, amounts and parts are whole, and nobody is tied in a rank:
\* sorting leaves equal hashes in the order they came in.
ASSUME OffersAssumption ==
  \A offer \in Offers :
    /\ offer.amount \in Int
    /\ offer.kind = "settlement" => offer.from \in People /\ offer.to \in People
    /\ offer.kind = "expense" =>
         /\ offer.payer \in People
         /\ \E S \in SUBSET People :
              /\ offer.split.part \in [S -> Int]
              /\ \A u, v \in S : offer.rank[u] \in Int /\ (offer.rank[u] = offer.rank[v] => u = v)

VARIABLES
  rows,        \* transactions, in the order they were recorded
  standing,    \* those that are not deleted
  warned,      \* whom the last undo named as overpaid
  listing,     \* the listing's message
  shown,       \* what the walk down from the first page has shown
  steady       \* what has stood since that walk began

vars == <<rows, standing, warned, listing, shown, steady>>

NoListing == [page |-> <<>>, newer |-> FALSE, older |-> FALSE, anchor |-> 0, total |-> 0]

Ids == 1 .. Len(rows)

TypeOK ==
  /\ Len(rows) <= MaxRows
  /\ standing \subseteq Ids /\ steady \subseteq standing
  /\ shown \in Seq(Ids)
  /\ warned \subseteq People
  /\ listing.page \in Seq(Ids) /\ Len(listing.page) <= PageSize
  /\ listing.newer \in BOOLEAN /\ listing.older \in BOOLEAN
  /\ listing.anchor \in {0} \cup Ids /\ listing.total \in 0 .. MaxRows

-----------------------------------------------------------------------------
(* The stream: newest first; an expense before a settlement of the same     *)
(* instant, then by id *)

Kinds == <<"expense", "settlement">>

IsOf(i, kind) == rows[i].event.kind = kind

Before(i, j) ==
  \/ rows[i].at > rows[j].at
  \/ /\ rows[i].at = rows[j].at
     /\ \/ IsOf(i, "expense") /\ IsOf(j, "settlement")
        \/ rows[i].event.kind = rows[j].event.kind /\ rows[i].row < rows[j].row

\* Variant: the row the button was made for is shown again.
FromAnchor(c, side) ==
  {i \in standing : IF side = "older" THEN ~ Before(i, c) ELSE ~ Before(c, i)}

\* What lies past the row c on one side; c itself need not stand.
Beyond(c, side) ==
  {i \in standing : IF side = "older" THEN Before(c, i) ELSE Before(i, c)}

\* Variant: off by one.
FirstAndOneMore(n, S) == {i \in S : Cardinality({j \in S : Before(j, i)}) <= n}

\* The n of S that come first in the stream, or last.
First(n, S) == {i \in S : Cardinality({j \in S : Before(j, i)}) < n}
Last(n, S)  == {i \in S : Cardinality({j \in S : Before(i, j)}) < n}

InOrder(S) == [k \in 1 .. Cardinality(S) |->
                 CHOOSE i \in S : Cardinality({j \in S : Before(j, i)}) = k - 1]

Exists(c, side) == c # 0 /\ Beyond(c, side) # {}

\* Variant: a page over the two tables fetches no row more than it shows.
NoOverfetch == PageSize

Overfetch == PageSize + 1

\* Each table gives its rows nearest the anchor, and the page is cut from both.
Fetched(S, side) ==
  UNION {LET T == {i \in S : IsOf(i, kind)}
         IN IF side = "older" THEN First(Overfetch, T) ELSE Last(Overfetch, T) :
         kind \in {Kinds[1], Kinds[2]}}

FirstPage ==
  LET merged == Fetched(standing, "older")
  IN [page |-> InOrder(First(PageSize, merged)), newer |-> FALSE,
      older |-> Cardinality(merged) > PageSize, anchor |-> 0, total |-> Cardinality(standing)]

PageBeyond(c, side) ==
  LET merged == Fetched(Beyond(c, side), side)
      page   == InOrder(IF side = "older" THEN First(PageSize, merged)
                                          ELSE Last(PageSize, merged))
      more   == Cardinality(merged) > PageSize
      edge(k) == IF page = <<>> THEN c ELSE page[k]
  IN [page  |-> page,
      newer |-> IF side = "newer" THEN more ELSE Exists(edge(1), "newer"),
      older |-> IF side = "older" THEN more ELSE Exists(edge(Len(page)), "older"),
      anchor |-> c, total |-> Cardinality(standing)]

\* Variant: a page past the end is shown as it is.
NeverDeadEnd(page) == FALSE

\* Nothing on either side of the anchor although something stands.
DeadEnd(page) == page.page = <<>> /\ page.total > 0 /\ ~ page.newer /\ ~ page.older

OlderAnchor == IF listing.page = <<>> THEN listing.anchor ELSE listing.page[Len(listing.page)]
NewerAnchor == IF listing.page = <<>> THEN listing.anchor ELSE listing.page[1]

-----------------------------------------------------------------------------
Init == /\ rows = <<>> /\ standing = {} /\ warned = {}
        /\ listing = NoListing /\ shown = <<>> /\ steady = {}

Row(event, at) ==
  [event |-> event, at |-> at,
   row |-> 1 + Cardinality({i \in Ids : IsOf(i, event.kind)})]

Insert(event, at) ==
  /\ rows' = Append(rows, Row(event, at))
  /\ standing' = standing \cup {Len(rows) + 1}

AddExpense(offer, at) ==
  /\ Len(rows) < MaxRows
  /\ offer.kind = "expense"
  /\ Accepted(offer.amount, offer.split)
  /\ Insert([kind |-> "expense", payer |-> offer.payer, amount |-> offer.amount,
             split |-> offer.split, shares |-> SplitShares(offer.amount, offer.split, offer.rank)], at)
  /\ UNCHANGED <<warned, listing, shown, steady>>

\* A payment is of a positive amount and to somebody else; anything more is a stated fact.
Payable(offer) == offer.amount > 0 /\ offer.from # offer.to

Settle(offer, at) ==
  /\ Len(rows) < MaxRows
  /\ offer.kind = "settlement"
  /\ Payable(offer)
  /\ Insert(offer, at)
  /\ UNCHANGED <<warned, listing, shown, steady>>

Events(S) == [i \in S |-> rows[i].event]

Balances == Replay(Events(standing))

\* Variant: the credits to compare with are taken after the undo.
CreditAfterwards(i, u) == OverpaymentCredit(Events(standing \ {i}), u)

CreditBefore(i, u) == OverpaymentCredit(Events(standing), u)

\* Undoing an expense names those whose settlements now overpay more than before.
Undo(i) ==
  /\ i \in standing
  /\ standing' = standing \ {i}
  /\ warned' = IF IsOf(i, "expense")
               THEN {u \in People : OverpaymentCredit(Events(standing \ {i}), u) > CreditBefore(i, u)}
               ELSE {}
  /\ steady' = steady \ {i}
  /\ UNCHANGED <<rows, listing, shown>>

Redo(i) ==
  /\ i \in Ids \ standing
  /\ standing' = standing \cup {i}
  /\ warned' = {}
  /\ UNCHANGED <<rows, listing, shown, steady>>

\* A page is shown; a page down goes on with the walk, any other begins one anew
\* (from the first page) or ends it.
Show(page, walk) ==
  /\ listing' = page
  /\ shown' = CASE walk = "begin" -> page.page
                [] walk = "on"    -> shown \o page.page
                [] walk = "end"   -> <<>>
  /\ steady' = CASE walk = "begin" -> standing [] walk = "on" -> steady [] walk = "end" -> {}
  /\ UNCHANGED <<rows, standing, warned>>

Open == listing = NoListing /\ Show(FirstPage, "begin")

Older ==
  /\ listing.older
  /\ LET page == PageBeyond(OlderAnchor, "older")
     IN IF DeadEnd(page) THEN Show(FirstPage, "begin") ELSE Show(page, "on")

Newer ==
  /\ listing.newer
  /\ LET page == PageBeyond(NewerAnchor, "newer")
     IN IF DeadEnd(page) THEN Show(FirstPage, "begin") ELSE Show(page, "end")

Next ==
  \/ \E offer \in Offers, at \in Times : AddExpense(offer, at) \/ Settle(offer, at)
  \/ \E i \in Ids : Undo(i) \/ Redo(i)
  \/ Open \/ Older \/ Newer

Spec == Init /\ [][Next]_vars

-----------------------------------------------------------------------------
(* Properties *)

\* Whatever is recorded, split, undone and redone, the books balance: every
\* minor unit of every expense is owed by somebody (allocate's own assertion,
\* and "the net is a sum of deltas" of balances.py).
BooksBalance == Total(Balances) = 0

\* Nobody's share is off their exact proportion by a whole unit, and nobody with
\* a larger weight gets less, whatever the remainders and the tie-break are.
SharesFair ==
  \A i \in Ids : IsOf(i, "expense") /\ rows[i].event.split.type # "exact" =>
    LET e == rows[i].event
        part == e.split.part
    IN \A u \in DOMAIN part :
         /\ Magnitude(e.shares[u] * Total(part) - e.amount * part[u]) < Total(part)
         /\ \A v \in DOMAIN part : part[u] > part[v] => e.shares[u] >= e.shares[v]

\* The transfers the board and the sheet suggest settle everything: whoever owes
\* only pays, whoever is owed only receives, exactly what they owe or are owed,
\* in fewer transfers than there are people to settle.
SuggestionsSettle ==
  LET net == Balances
      T == Simplify(net)
      out(u) == MapThenSumSet(LAMBDA t : t.amount, {t \in T : t.from = u})
      in(u)  == MapThenSumSet(LAMBDA t : t.amount, {t \in T : t.to = u})
  IN /\ net \in [People -> Int]
     /\ \A u \in People : /\ out(u) = IF net[u] > 0 THEN net[u] ELSE 0
                          /\ in(u)  = IF net[u] < 0 THEN -net[u] ELSE 0
     /\ T # {} => Cardinality(T) < Cardinality({u \in People : net[u] # 0})

\* When everyone is square and an expense is undone, the answer names exactly
\* those who owed a share of it and had paid more than they received
\* ("a later settlement now overpays").
OverpaymentNoticed ==
  [][\A i \in standing \ standing' :
       IsOf(i, "expense") /\ (\A u \in People : Balances[u] = 0) =>
         warned' = {u \in People : /\ Delta(rows[i].event, u) > 0
                                  /\ PaidNet(Events(standing), u) > 0}]_vars

\* Paging down never shows a transaction twice, whatever is recorded, undone and
\* redone between the taps, and whatever the clocks say ("forward paging never
\* repeats", ADR-0012).
WalkShowsOnce == IsInjective(shown)

\* And it skips nothing: when no button leads further down, every transaction
\* that stood all along has been shown.
WalkSkipsNothing == shown # <<>> /\ ~ listing.older => steady \subseteq Range(shown)

\* The listing never strands its readers: if anything stands when a page is
\* rendered, the page shows something or has a button that leads on.
NeverStranded == listing.total > 0 => listing.page # <<>> \/ listing.newer \/ listing.older
=============================================================================
