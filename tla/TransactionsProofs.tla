------------------------- MODULE TransactionsProofs -------------------------
(***************************************************************************)
(* Paging for any size of a page and any number of transactions: nothing   *)
(* is shown twice, nothing skipped, nobody stranded.                       *)
(***************************************************************************)
EXTENDS Transactions, MoneyProofs

-----------------------------------------------------------------------------
(* What is recorded *)

Recorded ==
  {offer \in Offers : offer.kind = "settlement"} \cup
  {[kind |-> "expense", payer |-> offer.payer, amount |-> offer.amount, split |-> offer.split,
    shares |-> SplitShares(offer.amount, offer.split, offer.rank)] :
     offer \in {o \in Offers : o.kind = "expense" /\ Accepted(o.amount, o.split)}}

Rows == [event : Recorded, at : Times, row : Nat]

OfKind(kind) == {i \in Ids : IsOf(i, kind)}

\* Row ids grow in each table.
RowsGrow ==
  /\ \A i, j \in Ids : i < j /\ rows[i].event.kind = rows[j].event.kind => rows[i].row < rows[j].row
  /\ \A kind \in {"expense", "settlement"} :
       \A i \in OfKind(kind) : rows[i].row <= Cardinality(OfKind(kind))

RowsOK == rows \in Seq(Rows) /\ Len(rows) <= MaxRows /\ RowsGrow

\* The stream, from the newest and from the oldest.
Stream    == {x \in Ids \X Ids : Before(x[1], x[2])}
Backwards == {x \in Ids \X Ids : Before(x[2], x[1])}

LEMMA RowTypes ==
  ASSUME RowsOK, NEW i \in Ids
  PROVE  /\ i \in Nat \ {0} /\ rows[i].at \in Nat /\ rows[i].row \in Nat
         /\ rows[i].event.kind \in {"expense", "settlement"}
<1>1. rows[i] \in Rows /\ i \in Nat \ {0}
  BY DEF RowsOK, Ids
<1>2. \A e \in Recorded : e.kind \in {"expense", "settlement"}
  BY DEF Recorded
<1> QED BY <1>1, <1>2, PagingAssumption DEF Rows

LEMMA IdsFinite ==
  ASSUME RowsOK
  PROVE  /\ IsFiniteSet(Ids) /\ Len(rows) \in Nat /\ Cardinality(Ids) = Len(rows)
         /\ \A S \in SUBSET Ids : /\ IsFiniteSet(S) /\ Cardinality(S) \in Nat
                                  /\ Cardinality(S) <= Len(rows)
<1>1. Len(rows) \in Nat
  BY DEF RowsOK
<1>2. IsFiniteSet(Ids) /\ Cardinality(Ids) = Len(rows)
  <2>1. PICK n \in Nat : n = Len(rows)
    BY <1>1
  <2>2. IsFiniteSet(1 .. n) /\ Cardinality(1 .. n) = n
    BY FS_Interval
  <2> QED BY <2>1, <2>2 DEF Ids
<1>3. ASSUME NEW S \in SUBSET Ids
      PROVE  IsFiniteSet(S) /\ Cardinality(S) <= Cardinality(Ids) /\ Cardinality(S) \in Nat
  <2>1. IsFiniteSet(S) /\ Cardinality(S) <= Cardinality(Ids)
    BY <1>2, FS_Subset
  <2> QED BY <2>1, FS_CardinalityType
<1> QED BY <1>1, <1>2, <1>3

LEMMA BeforeOrders ==
  ASSUME RowsOK
  PROVE  /\ \A i \in Ids : ~ Before(i, i)
         /\ \A i, j \in Ids : i # j => Before(i, j) \/ Before(j, i)
         /\ \A i, j, k \in Ids : Before(i, j) /\ Before(j, k) => Before(i, k)
<1>1. \A i, j \in Ids : i < j /\ rows[i].event.kind = rows[j].event.kind => rows[i].row < rows[j].row
  BY DEF RowsOK, RowsGrow
<1>2. \A i \in Ids : ~ Before(i, i)
  BY RowTypes DEF Before, IsOf
<1>3. ASSUME NEW i \in Ids, NEW j \in Ids, i # j PROVE Before(i, j) \/ Before(j, i)
  <2>1. /\ i \in Nat /\ j \in Nat /\ rows[i].at \in Nat /\ rows[j].at \in Nat
        /\ rows[i].event.kind \in {"expense", "settlement"}
        /\ rows[j].event.kind \in {"expense", "settlement"}
    BY RowTypes
  <2>2. rows[i].event.kind = rows[j].event.kind =>
          rows[i].row < rows[j].row \/ rows[j].row < rows[i].row
    BY <1>1, <1>3, <2>1
  <2> QED BY <2>1, <2>2 DEF Before, IsOf
<1>4. ASSUME NEW i \in Ids, NEW j \in Ids, NEW k \in Ids, Before(i, j), Before(j, k)
      PROVE  Before(i, k)
  <2>1. /\ rows[i].at \in Nat /\ rows[j].at \in Nat /\ rows[k].at \in Nat
        /\ rows[i].row \in Nat /\ rows[j].row \in Nat /\ rows[k].row \in Nat
        /\ rows[i].event.kind \in {"expense", "settlement"}
        /\ rows[j].event.kind \in {"expense", "settlement"}
        /\ rows[k].event.kind \in {"expense", "settlement"}
    BY RowTypes
  <2> QED BY <1>4, <2>1 DEF Before, IsOf
<1> QED BY <1>2, <1>3, <1>4

LEMMA StreamOrders ==
  ASSUME RowsOK PROVE Orders(Stream, Ids) /\ Orders(Backwards, Ids)
<1>1. \A i, j \in Ids : /\ <<i, j>> \in Stream <=> Before(i, j)
                        /\ <<i, j>> \in Backwards <=> Before(j, i)
  BY DEF Stream, Backwards
<1> QED BY <1>1, BeforeOrders DEF Orders

\* First, Last and the positions of InOrder are places in the stream.
LEMMA Places ==
  ASSUME NEW S \in SUBSET Ids
  PROVE  /\ \A i \in S : /\ {j \in S : Before(j, i)} = Ahead(Stream, S, i)
                         /\ {j \in S : Before(i, j)} = Ahead(Backwards, S, i)
         /\ \A n : First(n, S) = Front(Stream, S, n) /\ Last(n, S) = Front(Backwards, S, n)
<1>1. \A i \in S : /\ {j \in S : Before(j, i)} = Ahead(Stream, S, i)
                   /\ {j \in S : Before(i, j)} = Ahead(Backwards, S, i)
  BY DEF Ahead, Stream, Backwards
<1> QED BY <1>1 DEF First, Last, Front, Place

LEMMA FirstIs ==
  ASSUME RowsOK, NEW S \in SUBSET Ids, NEW n \in Nat
  PROVE  /\ First(n, S) \in SUBSET S /\ Last(n, S) \in SUBSET S
         /\ Cardinality(First(n, S)) <= n /\ Cardinality(Last(n, S)) <= n
         /\ n > 0 /\ S # {} => First(n, S) # {} /\ Last(n, S) # {}
         /\ Cardinality(S) >= n => Cardinality(First(n, S)) = n
<1>1. Orders(Stream, S) /\ Orders(Backwards, S) /\ IsFiniteSet(S)
  BY StreamOrders, OrdersPart, IdsFinite
<1> QED BY <1>1, FrontIs, Places

LEMMA InOrderIs ==
  ASSUME RowsOK, NEW S \in SUBSET Ids, NEW s, s = InOrder(S)
  PROVE  /\ s \in Seq(S) /\ Len(s) = Cardinality(S) /\ Range(s) = S /\ IsInjective(s)
         /\ s = <<>> <=> S = {}
         /\ s # <<>> => /\ Len(s) \in DOMAIN s /\ 1 \in DOMAIN s
                        /\ \A i \in S : i = s[Len(s)] \/ Before(i, s[Len(s)])
<1>1. Orders(Stream, S) /\ IsFiniteSet(S) /\ Cardinality(S) \in Nat
  BY StreamOrders, OrdersPart, IdsFinite
<1>2. PICK n \in Nat : n = Cardinality(S)
  BY <1>1
<1>3. s = [k \in 1 .. n |-> CHOOSE i \in S : Cardinality({j \in S : Before(j, i)}) = k - 1]
  BY <1>2 DEF InOrder
<1>4. ASSUME NEW k \in 1 .. n PROVE s[k] \in S /\ Place(Stream, S, s[k]) = k - 1
  <2>1. k - 1 \in 0 .. Cardinality(S) - 1
    BY <1>2
  <2>2. \E i \in S : Place(Stream, S, i) = k - 1
    BY <1>1, <2>1, PlaceTaken
  <2>3. \A i \in S : Place(Stream, S, i) = Cardinality({j \in S : Before(j, i)})
    BY Places DEF Place
  <2> QED BY <1>3, <2>2, <2>3
<1>5. s \in Seq(S) /\ Len(s) = n /\ DOMAIN s = 1 .. n
  <2>1. s = [k \in 1 .. n |-> s[k]]
    BY <1>3
  <2>2. s \in [1 .. n -> S]
    BY <1>4, <2>1
  <2> QED BY <2>2
<1>6. IsInjective(s)
  <2> SUFFICES ASSUME NEW k \in 1 .. n, NEW l \in 1 .. n, s[k] = s[l] PROVE k = l
    BY <1>5 DEF IsInjective
  <2>1. k - 1 = l - 1
    BY <1>4
  <2> QED BY <2>1
<1>7. ASSUME NEW i \in S PROVE \E k \in 1 .. n : s[k] = i /\ k - 1 = Place(Stream, S, i)
  <2>1. Place(Stream, S, i) \in 0 .. n - 1
    BY <1>1, <1>2, PlaceType
  <2>2. PICK k \in 1 .. n : k - 1 = Place(Stream, S, i)
    <3>1. PICK p \in 0 .. n - 1 : p = Place(Stream, S, i)
      BY <2>1
    <3>2. p + 1 \in 1 .. n /\ (p + 1) - 1 = p
      OBVIOUS
    <3>3. WITNESS p + 1 \in 1 .. n
    <3> QED BY <3>1, <3>2
  <2>3. s[k] = i
    BY <1>1, <1>4, <2>2, PlaceOrders
  <2> QED BY <2>2, <2>3
<1>8. Range(s) = S
  BY <1>4, <1>5, <1>7 DEF Range
<1>9. s = <<>> <=> S = {}
  <2>1. n = 0 <=> S = {}
    BY <1>1, <1>2, FS_EmptySet
  <2>2. s = <<>> <=> n = 0
    BY <1>5
  <2> QED BY <2>1, <2>2
<1>10. ASSUME s # <<>>
       PROVE  /\ Len(s) \in DOMAIN s /\ 1 \in DOMAIN s
              /\ \A i \in S : i = s[Len(s)] \/ Before(i, s[Len(s)])
  <2>1. n \in 1 .. n /\ 1 \in 1 .. n
    BY <1>5, <1>10
  <2>2. ASSUME NEW i \in S PROVE i = s[n] \/ Before(i, s[n])
    <3>1. PICK k \in 1 .. n : s[k] = i /\ k - 1 = Place(Stream, S, i)
      BY <1>7
    <3>2. s[n] \in S /\ Place(Stream, S, s[n]) = n - 1
      BY <1>4, <2>1
    <3>3. CASE k = n
      BY <3>1, <3>3
    <3>4. CASE k # n
      <4>1. Place(Stream, S, i) < Place(Stream, S, s[n])
        BY <3>1, <3>2, <3>4
      <4>2. <<i, s[n]>> \in Stream
        BY <1>1, <3>2, <4>1, PlaceOrders
      <4> QED BY <4>2 DEF Stream
    <3> QED BY <3>3, <3>4
  <2> QED BY <1>5, <2>1, <2>2
<1> QED BY <1>2, <1>5, <1>6, <1>8, <1>9, <1>10
-----------------------------------------------------------------------------
(* What a page shows and what it leaves *)

LEMMA FetchedIs ==
  ASSUME RowsOK, NEW S \in SUBSET Ids, NEW side \in {"older", "newer"}
  PROVE  Fetched(S, side) \in SUBSET S /\ (S # {} => Fetched(S, side) # {})
<1> DEFINE T(kind) == {i \in S : IsOf(i, kind)}
           F(kind) == IF side = "older" THEN First(Overfetch, T(kind)) ELSE Last(Overfetch, T(kind))
<1>1. Fetched(S, side) = F("expense") \cup F("settlement")
  BY DEF Fetched, Kinds
<1>2. Overfetch \in Nat /\ Overfetch > 0
  BY PagingAssumption DEF Overfetch
<1>3. ASSUME NEW kind PROVE F(kind) \in SUBSET T(kind) /\ (T(kind) # {} => F(kind) # {})
  <2>1. T(kind) \in SUBSET Ids
    OBVIOUS
  <2> HIDE DEF T
  <2> QED BY <1>2, <2>1, FirstIs DEF F
<1>4. \A i \in S : i \in T("expense") \/ i \in T("settlement")
  BY RowTypes DEF IsOf
<1> HIDE DEF F
<1> QED BY <1>1, <1>3, <1>4

LEMMA Cut ==
  ASSUME RowsOK, NEW S \in SUBSET Ids, NEW M, M = Fetched(S, "older"),
         NEW P, P = First(PageSize, M), NEW i \in S \ P
  PROVE  Cardinality(M) > PageSize /\ \A l \in P : Before(l, i)
<1>1. M \in SUBSET S /\ M \in SUBSET Ids /\ P \in SUBSET M
  <2>1. M \in SUBSET S
    BY FetchedIs
  <2> QED BY <2>1, FirstIs, PagingAssumption
<1>2. Orders(Stream, M) /\ Orders(Stream, Ids) /\ IsFiniteSet(M) /\ Cardinality(M) \in Nat
  BY <1>1, StreamOrders, OrdersPart, IdsFinite
<1>3. P = Front(Stream, M, PageSize)
  BY <1>1, Places
<1>4. \A l \in M : Place(Stream, M, l) \in 0 .. Cardinality(M) - 1
  BY <1>2, PlaceType
<1>5. CASE i \in M
  <2>1. Place(Stream, M, i) >= PageSize
    BY <1>3, <1>4, <1>5, PagingAssumption DEF Front
  <2>2. Cardinality(M) > PageSize
    BY <1>2, <1>4, <1>5, <2>1, PagingAssumption
  <2>3. ASSUME NEW l \in P PROVE Before(l, i)
    <3>1. l \in M /\ Place(Stream, M, l) < PageSize
      BY <1>3, <2>3 DEF Front
    <3>2. Place(Stream, M, l) < Place(Stream, M, i)
      BY <1>4, <1>5, <2>1, <3>1, PagingAssumption
    <3> QED BY <1>2, <1>5, <3>1, <3>2, PlaceOrders DEF Stream
  <2> QED BY <2>2, <2>3
<1>6. CASE i \notin M
  <2>1. PICK kind \in {"expense", "settlement"} : IsOf(i, kind)
    BY RowTypes DEF IsOf
  <2> DEFINE T == {j \in S : IsOf(j, kind)}
             F == First(Overfetch, T)
  <2>2. T \in SUBSET Ids /\ i \in T
    BY <2>1
  <2>3. F \in SUBSET M
    BY DEF Fetched, Kinds
  <2>4. /\ Orders(Stream, T) /\ IsFiniteSet(T) /\ Cardinality(T) \in Nat
        /\ F = Front(Stream, T, Overfetch)
    <3> HIDE DEF T
    <3> QED BY <2>2, StreamOrders, OrdersPart, IdsFinite, Places
  <2>5. Overfetch = PageSize + 1 /\ PageSize \in Nat
    BY PagingAssumption DEF Overfetch
  <2> HIDE DEF T, F
  <2>6. Place(Stream, T, i) \in 0 .. Cardinality(T) - 1 /\ Place(Stream, T, i) >= Overfetch
    <3>1. Place(Stream, T, i) \in 0 .. Cardinality(T) - 1
      BY <2>2, <2>4, PlaceType
    <3>2. ~ (Place(Stream, T, i) < Overfetch)
      BY <1>6, <2>2, <2>3, <2>4 DEF Front
    <3> QED BY <2>4, <2>5, <3>1, <3>2
  <2>7. Cardinality(F) = PageSize + 1
    <3>1. Cardinality(T) >= Overfetch /\ Overfetch \in Nat
      BY <2>4, <2>5, <2>6
    <3> QED BY <2>4, <2>5, <3>1, FrontIs
  <2>8. \A f \in F : Before(f, i)
    <3> SUFFICES ASSUME NEW f \in F PROVE Before(f, i)
      OBVIOUS
    <3>1. f \in T /\ Place(Stream, T, f) < Overfetch
      BY <2>4 DEF Front
    <3>2. Place(Stream, T, f) \in 0 .. Cardinality(T) - 1
      BY <2>4, <3>1, PlaceType
    <3>3. Place(Stream, T, f) < Place(Stream, T, i)
      BY <2>4, <2>5, <2>6, <3>1, <3>2
    <3> QED BY <2>2, <2>4, <3>1, <3>3, PlaceOrders DEF Stream
  <2>9. Cardinality(M) > PageSize
    <3>1. Cardinality(F) <= Cardinality(M)
      BY <1>2, <2>3, FS_Subset
    <3> QED BY <1>2, <2>5, <2>7, <3>1
  <2>10. ASSUME NEW l \in P, ~ Before(l, i) PROVE FALSE
    <3>1. l \in M /\ l \in Ids /\ i \in Ids /\ Place(Stream, M, l) < PageSize
      BY <1>1, <1>3, <2>10 DEF Front
    <3>2. Before(i, l)
      BY <1>6, <2>10, <3>1, BeforeOrders
    <3>3. F \in SUBSET Ahead(Stream, M, l)
      <4> SUFFICES ASSUME NEW f \in F PROVE f \in Ahead(Stream, M, l)
        OBVIOUS
      <4>1. f \in M /\ f \in Ids /\ Before(f, i)
        BY <1>1, <2>3, <2>8
      <4>2. Before(f, l)
        BY <3>1, <3>2, <4>1, BeforeOrders
      <4> QED BY <3>1, <4>1, <4>2 DEF Ahead, Stream
    <3>4. IsFiniteSet(Ahead(Stream, M, l)) /\ Place(Stream, M, l) \in Nat
      BY <1>2, <3>1, PlaceType
    <3>5. PageSize + 1 <= Place(Stream, M, l)
      BY <2>7, <3>3, <3>4, FS_Subset DEF Place
    <3> QED BY <2>5, <3>1, <3>4, <3>5
  <2> QED BY <2>9, <2>10
<1> QED BY <1>5, <1>6
-----------------------------------------------------------------------------
(* The invariant of the walk *)

OlderEdge(p) == IF p.page = <<>> THEN p.anchor ELSE p.page[Len(p.page)]
NewerEdge(p) == IF p.page = <<>> THEN p.anchor ELSE p.page[1]

\* Every button has a row to go on from.
PageOK(p) ==
  /\ p.page \in Seq(Ids) /\ Len(p.page) <= PageSize
  /\ p.newer \in BOOLEAN /\ p.older \in BOOLEAN
  /\ p.anchor \in {0} \cup Ids /\ p.total \in 0 .. MaxRows
  /\ p.older => OlderEdge(p) \in Ids
  /\ p.newer => NewerEdge(p) \in Ids
  /\ p.total > 0 => p.page # <<>> \/ p.newer \/ p.older

\* What was shown lies before the row that [Older] goes on from, or is that row.
Walked(p, s) ==
  /\ s \in Seq(Ids) /\ IsInjective(s)
  /\ \A i \in Range(s) : OlderEdge(p) \in Ids /\ (i = OlderEdge(p) \/ Before(i, OlderEdge(p)))

\* What was not shown lies after that row, and there is the button.
Left(p, s, S) == \A i \in S \ Range(s) : p.older /\ Before(OlderEdge(p), i)

Standings == standing \in SUBSET Ids /\ steady \in SUBSET standing /\ warned \in SUBSET People

IInv == /\ RowsOK /\ Standings /\ PageOK(listing)
        /\ Walked(listing, shown) /\ Left(listing, shown, steady)

LEMMA Edges == OlderAnchor = OlderEdge(listing) /\ NewerAnchor = NewerEdge(listing)
BY DEF OlderAnchor, NewerAnchor, OlderEdge, NewerEdge

LEMMA InvIs ==
  ASSUME IInv PROVE TypeOK /\ WalkShowsOnce /\ WalkSkipsNothing /\ NeverStranded
<1>1. /\ Len(rows) <= MaxRows /\ standing \in SUBSET Ids /\ steady \in SUBSET standing
      /\ warned \in SUBSET People
  BY DEF IInv, RowsOK, Standings
<1>2. PageOK(listing) /\ Walked(listing, shown) /\ Left(listing, shown, steady)
  BY DEF IInv
<1>3. TypeOK
  BY <1>1, <1>2 DEF TypeOK, PageOK, Walked
<1>4. WalkShowsOnce /\ NeverStranded
  BY <1>2 DEF WalkShowsOnce, NeverStranded, PageOK, Walked
<1>5. WalkSkipsNothing
  BY <1>2 DEF WalkSkipsNothing, Left
<1> QED BY <1>3, <1>4, <1>5

\* Two walks, one after the other.
LEMMA Joined ==
  ASSUME NEW S, NEW s \in Seq(S), NEW t \in Seq(S), IsInjective(s), IsInjective(t),
         Range(s) \cap Range(t) = {}
  PROVE  s \o t \in Seq(S) /\ IsInjective(s \o t) /\ Range(s \o t) = Range(s) \cup Range(t)
<1>1. PICK w : w = s \o t
  OBVIOUS
<1>2. /\ w \in Seq(S) /\ Len(s) \in Nat /\ Len(t) \in Nat
      /\ DOMAIN s = 1 .. Len(s) /\ DOMAIN t = 1 .. Len(t) /\ DOMAIN w = 1 .. Len(s) + Len(t)
      /\ \A k \in 1 .. Len(s) : w[k] = s[k]
      /\ \A k \in 1 .. Len(t) : w[Len(s) + k] = t[k]
  BY <1>1
<1>3. \A k \in DOMAIN w : k \in DOMAIN s \/ (k - Len(s) \in DOMAIN t /\ Len(s) + (k - Len(s)) = k)
  BY <1>2
<1>4. \A k \in DOMAIN w : k \notin DOMAIN s => w[k] = t[k - Len(s)] /\ k - Len(s) \in DOMAIN t
  BY <1>2, <1>3
<1>5. Range(w) = Range(s) \cup Range(t)
  <2>1. \A k \in DOMAIN s : k \in DOMAIN w /\ w[k] = s[k]
    BY <1>2
  <2>2. \A k \in DOMAIN t : Len(s) + k \in DOMAIN w /\ w[Len(s) + k] = t[k]
    BY <1>2
  <2>3. \A k \in DOMAIN w : w[k] \in Range(s) \cup Range(t)
    BY <1>2, <1>4 DEF Range
  <2>4. \A i \in Range(s) \cup Range(t) : i \in Range(w)
    BY <2>1, <2>2 DEF Range
  <2> QED BY <2>3, <2>4 DEF Range
<1>6. ASSUME NEW k \in DOMAIN w, NEW l \in DOMAIN w, w[k] = w[l] PROVE k = l
  <2>1. CASE k \in DOMAIN s /\ l \in DOMAIN s
    BY <1>2, <1>6, <2>1 DEF IsInjective
  <2>2. CASE k \notin DOMAIN s /\ l \notin DOMAIN s
    <3>1. k - Len(s) = l - Len(s)
      BY <1>4, <1>6, <2>2 DEF IsInjective
    <3> QED BY <1>2, <3>1
  <2>3. CASE k \in DOMAIN s /\ l \notin DOMAIN s
    <3>1. w[k] \in Range(s) /\ w[l] \in Range(t)
      BY <1>2, <1>4, <2>3 DEF Range
    <3> QED BY <1>6, <3>1
  <2>4. CASE k \notin DOMAIN s /\ l \in DOMAIN s
    <3>1. w[l] \in Range(s) /\ w[k] \in Range(t)
      BY <1>2, <1>4, <2>4 DEF Range
    <3> QED BY <1>6, <3>1
  <2> QED BY <2>1, <2>2, <2>3, <2>4
<1>7. IsInjective(w)
  BY <1>6 DEF IsInjective
<1> QED BY <1>1, <1>2, <1>5, <1>7
-----------------------------------------------------------------------------
(* The three pages *)

\* A page cut from S, in the order of the stream.
LEMMA PageIs ==
  ASSUME RowsOK, NEW S \in SUBSET Ids, NEW side \in {"older", "newer"},
         NEW M, M = Fetched(S, side),
         NEW P, P = (IF side = "older" THEN First(PageSize, M) ELSE Last(PageSize, M)),
         NEW s, s = InOrder(P)
  PROVE  /\ P \in SUBSET S /\ (S # {} => P # {})
         /\ s \in Seq(Ids) /\ Len(s) <= PageSize /\ Range(s) = P /\ IsInjective(s)
         /\ s = <<>> <=> P = {}
         /\ s # <<>> => /\ s[1] \in P /\ s[Len(s)] \in P
                        /\ \A i \in P : i = s[Len(s)] \/ Before(i, s[Len(s)])
<1>1. M \in SUBSET S /\ M \in SUBSET Ids /\ (S # {} => M # {})
  <2>1. M \in SUBSET S /\ (S # {} => M # {})
    BY FetchedIs
  <2> QED BY <2>1
<1>2. PageSize \in Nat /\ PageSize > 0
  BY PagingAssumption
<1>3. P \in SUBSET M /\ Cardinality(P) <= PageSize /\ (M # {} => P # {})
  BY <1>1, <1>2, FirstIs
<1>4. P \in SUBSET Ids
  BY <1>1, <1>3
<1>5. /\ s \in Seq(P) /\ Len(s) = Cardinality(P) /\ Range(s) = P /\ IsInjective(s)
      /\ s = <<>> <=> P = {}
      /\ s # <<>> => /\ Len(s) \in DOMAIN s /\ 1 \in DOMAIN s
                     /\ \A i \in P : i = s[Len(s)] \/ Before(i, s[Len(s)])
  BY <1>4, InOrderIs
<1>6. s \in Seq(Ids)
  BY <1>4, <1>5
<1>7. s # <<>> => s[1] \in P /\ s[Len(s)] \in P
  BY <1>5 DEF Range
<1> QED BY <1>1, <1>3, <1>5, <1>6, <1>7

\* What is left of S after a page down lies behind the page, and there is more.
LEMMA DownLeaves ==
  ASSUME RowsOK, NEW S \in SUBSET Ids, NEW p, NEW c,
         p.page = InOrder(First(PageSize, Fetched(S, "older"))),
         p.older = (Cardinality(Fetched(S, "older")) > PageSize),
         p.anchor = c
  PROVE  /\ p.page \in Seq(Ids) /\ Len(p.page) <= PageSize /\ IsInjective(p.page)
         /\ Range(p.page) \in SUBSET S /\ (S # {} => p.page # <<>>)
         /\ p.page # <<>> => OlderEdge(p) \in S /\ OlderEdge(p) \in Ids /\ NewerEdge(p) \in Ids
         /\ p.page = <<>> => OlderEdge(p) = c /\ NewerEdge(p) = c
         /\ p.older => p.page # <<>>
         /\ \A i \in Range(p.page) : i = OlderEdge(p) \/ Before(i, OlderEdge(p))
         /\ Left(p, p.page, S)
<1>1. PICK M, P, s : /\ M = Fetched(S, "older") /\ P = First(PageSize, M) /\ s = InOrder(P)
                     /\ s = p.page
  OBVIOUS
<1>2. /\ P \in SUBSET S /\ (S # {} => P # {})
      /\ s \in Seq(Ids) /\ Len(s) <= PageSize /\ Range(s) = P /\ IsInjective(s)
      /\ s = <<>> <=> P = {}
      /\ s # <<>> => /\ s[1] \in P /\ s[Len(s)] \in P
                     /\ \A i \in P : i = s[Len(s)] \/ Before(i, s[Len(s)])
  BY <1>1, PageIs
<1>3. s # <<>> => OlderEdge(p) = s[Len(s)] /\ NewerEdge(p) = s[1]
  BY <1>1 DEF OlderEdge, NewerEdge
<1>4. s = <<>> => OlderEdge(p) = c /\ NewerEdge(p) = c
  BY <1>1 DEF OlderEdge, NewerEdge
<1>5. p.older => s # <<>>
  <2>1. S = {} => M = {}
    BY <1>1, FetchedIs
  <2>2. Cardinality(M) > PageSize => M # {}
    BY FS_EmptySet, PagingAssumption
  <2> QED BY <1>1, <1>2, <2>1, <2>2
<1>6. Left(p, s, S)
  <2> SUFFICES ASSUME NEW i \in S \ Range(s) PROVE p.older /\ Before(OlderEdge(p), i)
    BY DEF Left
  <2>1. i \in S \ P /\ s # <<>>
    BY <1>2
  <2>2. Cardinality(M) > PageSize /\ \A l \in P : Before(l, i)
    BY <1>1, <2>1, Cut
  <2> QED BY <1>1, <1>2, <1>3, <2>1, <2>2
<1> QED BY <1>1, <1>2, <1>3, <1>4, <1>5, <1>6

LEMMA Totals ==
  ASSUME RowsOK, standing \in SUBSET Ids
  PROVE  Cardinality(standing) \in 0 .. MaxRows /\ (Cardinality(standing) > 0 => standing # {})
<1>1. Cardinality(standing) \in Nat /\ Cardinality(standing) <= Len(rows) /\ Len(rows) \in Nat
  BY IdsFinite
<1>2. Len(rows) <= MaxRows /\ MaxRows \in Nat
  BY PagingAssumption DEF RowsOK
<1>3. standing = {} => Cardinality(standing) = 0
  BY FS_EmptySet
<1> QED BY <1>1, <1>2, <1>3

LEMMA FirstPageIs ==
  ASSUME RowsOK, standing \in SUBSET Ids, NEW p, p = FirstPage
  PROVE  PageOK(p) /\ Walked(p, p.page) /\ Left(p, p.page, standing)
<1>1. /\ p.page = InOrder(First(PageSize, Fetched(standing, "older")))
      /\ p.older = (Cardinality(Fetched(standing, "older")) > PageSize)
      /\ p.older \in BOOLEAN /\ p.newer = FALSE /\ p.anchor = 0 /\ p.total = Cardinality(standing)
  BY DEF FirstPage
<1>2. /\ p.page \in Seq(Ids) /\ Len(p.page) <= PageSize /\ IsInjective(p.page)
      /\ (standing # {} => p.page # <<>>)
      /\ p.page # <<>> => OlderEdge(p) \in Ids /\ NewerEdge(p) \in Ids
      /\ p.older => p.page # <<>>
      /\ \A i \in Range(p.page) : i = OlderEdge(p) \/ Before(i, OlderEdge(p))
      /\ Left(p, p.page, standing)
  BY <1>1, DownLeaves
<1>3. PageOK(p)
  <2>1. p.older \in BOOLEAN /\ p.newer \in BOOLEAN /\ p.anchor \in {0} \cup Ids
    BY <1>1
  <2>2. p.total \in 0 .. MaxRows /\ (p.total > 0 => p.page # <<>>)
    BY <1>1, <1>2, Totals
  <2>3. (p.older => OlderEdge(p) \in Ids) /\ (p.newer => NewerEdge(p) \in Ids)
    BY <1>1, <1>2
  <2> QED BY <1>2, <2>1, <2>2, <2>3 DEF PageOK
<1>4. Walked(p, p.page)
  <2>1. \A i \in Range(p.page) : p.page # <<>>
    BY DEF Range
  <2> QED BY <1>2, <2>1 DEF Walked
<1> QED BY <1>2, <1>3, <1>4

LEMMA OlderPageIs ==
  ASSUME RowsOK, standing \in SUBSET Ids, NEW c \in Ids, NEW p, p = PageBeyond(c, "older"),
         ~ DeadEnd(p)
  PROVE  /\ PageOK(p) /\ IsInjective(p.page) /\ OlderEdge(p) \in Ids
         /\ OlderEdge(p) = c \/ Before(c, OlderEdge(p))
         /\ \A i \in Range(p.page) : /\ i \in Ids /\ Before(c, i)
                                     /\ i = OlderEdge(p) \/ Before(i, OlderEdge(p))
         /\ Left(p, p.page, Beyond(c, "older"))
<1> DEFINE S == Beyond(c, "older")
<1>1. S \in SUBSET Ids /\ \A i \in S : Before(c, i)
  BY DEF Beyond
<1>2. /\ p.page = InOrder(First(PageSize, Fetched(S, "older")))
      /\ p.older = (Cardinality(Fetched(S, "older")) > PageSize)
      /\ p.older \in BOOLEAN /\ p.newer \in BOOLEAN /\ p.anchor = c /\ p.total = Cardinality(standing)
  BY DEF PageBeyond, Exists
<1> HIDE DEF S
<1>3. /\ p.page \in Seq(Ids) /\ Len(p.page) <= PageSize /\ IsInjective(p.page)
      /\ Range(p.page) \in SUBSET S
      /\ p.page # <<>> => OlderEdge(p) \in S /\ OlderEdge(p) \in Ids /\ NewerEdge(p) \in Ids
      /\ p.page = <<>> => OlderEdge(p) = c /\ NewerEdge(p) = c
      /\ \A i \in Range(p.page) : i = OlderEdge(p) \/ Before(i, OlderEdge(p))
      /\ Left(p, p.page, S)
  BY <1>1, <1>2, DownLeaves
<1>4. OlderEdge(p) \in Ids /\ NewerEdge(p) \in Ids
  BY <1>3
<1>5. PageOK(p)
  <2>1. p.older \in BOOLEAN /\ p.newer \in BOOLEAN /\ p.anchor \in {0} \cup Ids
    BY <1>2
  <2>2. p.total \in 0 .. MaxRows /\ (p.total > 0 => p.page # <<>> \/ p.newer \/ p.older)
    BY <1>2, Totals DEF DeadEnd
  <2> QED BY <1>3, <1>4, <2>1, <2>2 DEF PageOK
<1> QED BY <1>1, <1>3, <1>4, <1>5 DEF S

LEMMA NewerPageIs ==
  ASSUME RowsOK, standing \in SUBSET Ids, NEW c \in Ids, NEW p, p = PageBeyond(c, "newer"),
         ~ DeadEnd(p)
  PROVE  PageOK(p)
<1>1. PICK S : S = Beyond(c, "newer") /\ S \in SUBSET Ids
  BY DEF Beyond
<1>2. /\ p.page = InOrder(Last(PageSize, Fetched(S, "newer")))
      /\ p.newer = (Cardinality(Fetched(S, "newer")) > PageSize)
      /\ p.older \in BOOLEAN /\ p.newer \in BOOLEAN /\ p.anchor = c /\ p.total = Cardinality(standing)
  BY <1>1 DEF PageBeyond, Exists
<1>3. PICK M, P, s : /\ M = Fetched(S, "newer") /\ P = Last(PageSize, M) /\ s = InOrder(P)
                     /\ s = p.page
  BY <1>2
<1>4. /\ P \in SUBSET S /\ s \in Seq(Ids) /\ Len(s) <= PageSize
      /\ s # <<>> => s[1] \in P /\ s[Len(s)] \in P
  BY <1>1, <1>3, PageIs
<1>5. OlderEdge(p) \in Ids /\ NewerEdge(p) \in Ids
  BY <1>1, <1>2, <1>3, <1>4 DEF OlderEdge, NewerEdge
<1>6. p.older \in BOOLEAN /\ p.newer \in BOOLEAN /\ p.anchor \in {0} \cup Ids
  BY <1>2
<1>7. p.total \in 0 .. MaxRows /\ (p.total > 0 => p.page # <<>> \/ p.newer \/ p.older)
  BY <1>2, Totals DEF DeadEnd
<1>8. p.page \in Seq(Ids) /\ Len(p.page) <= PageSize
  BY <1>3, <1>4
<1> QED BY <1>5, <1>6, <1>7, <1>8 DEF PageOK
-----------------------------------------------------------------------------
(* A page is shown *)

LEMMA SameRows ==
  ASSUME rows' = rows, NEW p, listing' = p, NEW s, shown' = s, NEW S, steady' = S
  PROVE  /\ RowsOK <=> RowsOK' /\ Ids' = Ids
         /\ PageOK(p) <=> PageOK(listing)'
         /\ Walked(p, s) <=> Walked(listing, shown)'
         /\ Left(p, s, S) <=> Left(listing, shown, steady)'
<1>1. Ids' = Ids
  BY DEF Ids
<1>2. RowsOK <=> RowsOK'
  BY DEF RowsOK, RowsGrow, OfKind, IsOf, Ids
<1>3. PageOK(p) <=> PageOK(listing)'
  BY <1>1 DEF PageOK, OlderEdge, NewerEdge
<1>4. Walked(p, s) <=> Walked(listing, shown)'
  BY DEF Walked, Before, IsOf, OlderEdge, Ids
<1>5. Left(p, s, S) <=> Left(listing, shown, steady)'
  BY DEF Left, Before, IsOf, OlderEdge
<1> QED BY <1>1, <1>2, <1>3, <1>4, <1>5

LEMMA Shows ==
  ASSUME IInv, NEW p, PageOK(p), NEW s, Walked(p, s), NEW S \in SUBSET standing, Left(p, s, S),
         listing' = p, shown' = s, steady' = S, UNCHANGED <<rows, standing, warned>>
  PROVE  IInv'
<1>1. RowsOK /\ Standings
  BY DEF IInv
<1>2. /\ RowsOK' /\ Ids' = Ids /\ PageOK(listing)' /\ Walked(listing, shown)'
      /\ Left(listing, shown, steady)'
  BY <1>1, SameRows
<1>3. Standings'
  BY <1>1, <1>2 DEF Standings
<1> QED BY <1>2, <1>3 DEF IInv

LEMMA Begins ==
  ASSUME IInv, Show(FirstPage, "begin") PROVE IInv'
<1>1. PICK p : p = FirstPage
  OBVIOUS
<1>2. listing' = p /\ shown' = p.page /\ steady' = standing /\ UNCHANGED <<rows, standing, warned>>
  BY <1>1 DEF Show
<1>3. RowsOK /\ standing \in SUBSET Ids
  BY DEF IInv, Standings
<1>4. PageOK(p) /\ Walked(p, p.page) /\ Left(p, p.page, standing)
  BY <1>1, <1>3, FirstPageIs
<1>5. PICK S \in SUBSET standing : S = standing
  OBVIOUS
<1> QED BY <1>2, <1>4, <1>5, Shows

LEMMA GoesOn ==
  ASSUME IInv, listing.older, NEW c, c = OlderAnchor, NEW p, p = PageBeyond(c, "older"),
         ~ DeadEnd(p), Show(p, "on")
  PROVE  IInv'
<1>1. RowsOK /\ Standings /\ PageOK(listing) /\ Walked(listing, shown) /\ Left(listing, shown, steady)
  BY DEF IInv
<1>2. c = OlderEdge(listing) /\ c \in Ids
  BY <1>1, Edges DEF PageOK
<1>3. /\ PageOK(p) /\ IsInjective(p.page) /\ OlderEdge(p) \in Ids
      /\ OlderEdge(p) = c \/ Before(c, OlderEdge(p))
      /\ \A i \in Range(p.page) : /\ i \in Ids /\ Before(c, i)
                                  /\ i = OlderEdge(p) \/ Before(i, OlderEdge(p))
      /\ Left(p, p.page, Beyond(c, "older"))
  BY <1>1, <1>2, OlderPageIs DEF Standings
<1>4. PICK s, t, b : s = shown /\ t = p.page /\ b = shown \o p.page
  OBVIOUS
<1>5. /\ s \in Seq(Ids) /\ t \in Seq(Ids) /\ IsInjective(s) /\ IsInjective(t)
      /\ \A i \in Range(s) : i \in Ids /\ (i = c \/ Before(i, c))
  <2>1. t \in Seq(Ids) /\ IsInjective(t)
    BY <1>3, <1>4 DEF PageOK
  <2>2. s \in Seq(Ids) /\ IsInjective(s) /\ \A i \in Range(s) : i = c \/ Before(i, c)
    BY <1>1, <1>2, <1>4, Zenon DEF Walked
  <2>3. \A i \in Range(s) : i \in Ids
    BY <2>2 DEF Range
  <2> QED BY <2>1, <2>2, <2>3
<1>6. Range(s) \cap Range(t) = {}
  <2> SUFFICES ASSUME NEW i \in Range(s), i \in Range(t) PROVE FALSE
    OBVIOUS
  <2>1. i \in Ids /\ Before(c, i)
    BY <1>3, <1>4
  <2>2. i = c \/ Before(i, c)
    BY <1>5
  <2> QED BY <1>1, <1>2, <2>1, <2>2, BeforeOrders
<1>7. b \in Seq(Ids) /\ IsInjective(b) /\ Range(b) = Range(s) \cup Range(t)
  BY <1>4, <1>5, <1>6, Joined
<1>8. ASSUME NEW i \in Range(s) PROVE i = OlderEdge(p) \/ Before(i, OlderEdge(p))
  BY <1>1, <1>2, <1>3, <1>5, <1>8, BeforeOrders
<1>9. Walked(p, b)
  BY <1>3, <1>4, <1>7, <1>8 DEF Walked
<1>10. Left(p, b, steady)
  <2> SUFFICES ASSUME NEW i \in steady \ Range(b) PROVE p.older /\ Before(OlderEdge(p), i)
    BY DEF Left
  <2>1. i \notin Range(s) /\ i \notin Range(t) /\ i \in standing
    BY <1>1, <1>7 DEF Standings
  <2>2. Before(c, i)
    BY <1>1, <1>2, <1>4, <2>1 DEF Left
  <2>3. i \in Beyond(c, "older")
    BY <2>1, <2>2 DEF Beyond
  <2> QED BY <1>3, <1>4, <2>1, <2>3 DEF Left
<1>11. listing' = p /\ shown' = b /\ steady' = steady /\ UNCHANGED <<rows, standing, warned>>
  BY <1>4 DEF Show
<1>12. PICK S \in SUBSET standing : S = steady
  BY <1>1 DEF Standings
<1> QED BY <1>3, <1>9, <1>10, <1>11, <1>12, Shows

LEMMA Ends ==
  ASSUME IInv, listing.newer, NEW c, c = NewerAnchor, NEW p, p = PageBeyond(c, "newer"),
         ~ DeadEnd(p), Show(p, "end")
  PROVE  IInv'
<1>1. RowsOK /\ Standings /\ PageOK(listing)
  BY DEF IInv
<1>2. c \in Ids
  BY <1>1, Edges DEF PageOK
<1>3. PageOK(p)
  BY <1>1, <1>2, NewerPageIs DEF Standings
<1>4. PICK s : s = <<>>
  OBVIOUS
<1> DEFINE S == {}
<1>5. Walked(p, s) /\ Left(p, s, S)
  BY <1>4 DEF Walked, Left, Range, IsInjective
<1>6. /\ listing' = p /\ shown' = s /\ steady' = S /\ S \in SUBSET standing
      /\ UNCHANGED <<rows, standing, warned>>
  BY <1>4 DEF Show
<1> HIDE DEF S
<1> QED BY <1>3, <1>5, <1>6, Shows
-----------------------------------------------------------------------------
(* A transaction is recorded, undone and redone *)

LEMMA InsertDoes ==
  ASSUME RowsOK, Len(rows) < MaxRows, NEW event \in Recorded, NEW at \in Times, Insert(event, at)
  PROVE  /\ Ids' = Ids \cup {Len(rows) + 1} /\ \A i \in Ids : rows'[i] = rows[i]
         /\ RowsOK'
<1>1. PICK n \in Nat : n = Len(rows)
  BY DEF RowsOK
<1>2. PICK r : r = Row(event, at)
  OBVIOUS
<1>3. r.event = event /\ r.at = at /\ r.row = 1 + Cardinality(OfKind(event.kind))
  BY <1>2 DEF Row, OfKind
<1>4. \A kind : /\ OfKind(kind) \in SUBSET Ids /\ IsFiniteSet(OfKind(kind))
                /\ Cardinality(OfKind(kind)) \in Nat
  <2>1. \A kind : OfKind(kind) \in SUBSET Ids
    BY DEF OfKind
  <2> QED BY <2>1, IdsFinite
<1>5. event.kind \in {"expense", "settlement"}
  BY DEF Recorded
<1>6. r \in Rows
  BY <1>2, <1>3, <1>4 DEF Row, Rows, OfKind
<1>7. PICK w : w = rows' /\ w = Append(rows, r)
  BY <1>2 DEF Insert
<1>8. /\ w \in Seq(Rows) /\ Len(w) = n + 1 /\ w[n + 1] = r
      /\ \A i \in 1 .. n : w[i] = rows[i]
  BY <1>1, <1>6, <1>7 DEF RowsOK
<1>9. Ids = 1 .. n /\ Ids' = 1 .. n + 1
  BY <1>1, <1>7, <1>8 DEF Ids
<1>10. Ids' = Ids \cup {n + 1} /\ n + 1 \notin Ids
  BY <1>9
<1>11. \A i \in Ids : rows'[i] = rows[i]
  BY <1>7, <1>8, <1>9
<1>12. rows'[n + 1] = r
  BY <1>7, <1>8
<1>13. ASSUME NEW kind
       PROVE  OfKind(kind)' = IF event.kind = kind THEN OfKind(kind) \cup {n + 1} ELSE OfKind(kind)
  BY <1>3, <1>10, <1>11, <1>12 DEF OfKind, IsOf
<1>14. ASSUME NEW kind \in {"expense", "settlement"}, NEW i \in OfKind(kind)'
       PROVE  rows'[i].row <= Cardinality(OfKind(kind)')
  <2>1. \A j \in OfKind(kind) : /\ j \in Ids /\ rows[j].row \in Nat
                              /\ rows[j].row <= Cardinality(OfKind(kind))
    BY <1>4, RowTypes DEF RowsOK, RowsGrow
  <2>2. CASE event.kind # kind
    BY <1>11, <1>13, <2>1, <2>2
  <2>3. CASE event.kind = kind
    <3>1. OfKind(kind)' = OfKind(kind) \cup {n + 1}
      BY <1>13, <2>3
    <3>2. Cardinality(OfKind(kind)') = Cardinality(OfKind(kind)) + 1
      BY <1>4, <1>10, <3>1, FS_AddElement
    <3>3. CASE i = n + 1
      BY <1>3, <1>4, <1>12, <2>3, <3>2, <3>3
    <3>4. CASE i \in OfKind(kind)
      BY <1>4, <1>11, <2>1, <3>2, <3>4
    <3> QED BY <3>1, <3>3, <3>4
  <2> QED BY <2>2, <2>3
<1>15. ASSUME NEW i \in Ids', NEW j \in Ids', i < j, rows'[i].event.kind = rows'[j].event.kind
       PROVE  rows'[i].row < rows'[j].row
  <2>1. CASE j \in Ids
    <3>1. i \in Ids
      BY <1>9, <1>15, <2>1
    <3> QED BY <1>11, <1>15, <2>1, <3>1 DEF RowsOK, RowsGrow
  <2>2. CASE j = n + 1
    <3>1. i \in Ids /\ rows[i].event.kind = event.kind
      BY <1>3, <1>9, <1>11, <1>12, <1>15, <2>2
    <3>2. i \in OfKind(event.kind)
      BY <3>1 DEF OfKind, IsOf
    <3>3. rows[i].row <= Cardinality(OfKind(event.kind)) /\ rows[i].row \in Nat
      BY <1>5, <3>1, <3>2, RowTypes DEF RowsOK, RowsGrow
    <3>4. rows'[j].row = 1 + Cardinality(OfKind(event.kind)) /\ rows'[i].row = rows[i].row
      BY <1>3, <1>11, <1>12, <2>2, <3>1
    <3> QED BY <1>4, <3>3, <3>4
  <2> QED BY <1>10, <2>1, <2>2
<1>16. RowsGrow'
  BY <1>14, <1>15 DEF RowsGrow
<1>17. rows' \in Seq(Rows) /\ Len(rows') <= MaxRows
  BY <1>1, <1>7, <1>8, PagingAssumption
<1>18. Rows' = Rows
  BY DEF Rows, Recorded
<1> QED BY <1>1, <1>10, <1>11, <1>16, <1>17, <1>18 DEF RowsOK

\* Transactions are added: what was ordered stays in order.
LEMMA Adds ==
  ASSUME IInv, Ids \in SUBSET Ids', \A i \in Ids : rows'[i] = rows[i], RowsOK', Standings',
         steady' \in SUBSET steady, UNCHANGED <<listing, shown>>
  PROVE  IInv'
<1>1. PageOK(listing) /\ Walked(listing, shown) /\ Left(listing, shown, steady) /\ Standings
  BY DEF IInv
<1>2. ASSUME NEW i \in Ids, NEW j \in Ids PROVE Before(i, j)' <=> Before(i, j)
  BY DEF Before, IsOf
<1>3. PageOK(listing)'
  <2>1. listing.page \in Seq(Ids')
    BY <1>1 DEF PageOK
  <2> QED BY <1>1, <2>1 DEF PageOK, OlderEdge, NewerEdge
<1>4. PICK s, p, c : s = shown /\ p = listing /\ c = OlderEdge(p)
  OBVIOUS
<1>5. shown' = s /\ listing' = p /\ OlderEdge(listing)' = c
  BY <1>4 DEF OlderEdge
<1>6. s \in Seq(Ids) /\ IsInjective(s) /\ \A i \in Range(s) : c \in Ids /\ (i = c \/ Before(i, c))
  BY <1>1, <1>4, Zenon DEF Walked
<1>7. \A i \in Range(s) : i \in Ids
  BY <1>6 DEF Range
<1>8. s \in Seq(Ids') /\ \A i \in Range(s) : c \in Ids' /\ (i = c \/ Before(i, c)')
  BY <1>2, <1>6, <1>7
<1>9. Walked(listing, shown)'
  BY <1>5, <1>6, <1>8 DEF Walked, Before, IsOf
<1>10. \A i \in steady \ Range(s) : p.older /\ Before(c, i) /\ c \in Ids /\ i \in Ids
  BY <1>1, <1>4 DEF Left, PageOK, Standings
<1>11. \A i \in steady' \ Range(s) : p.older /\ Before(c, i)'
  BY <1>2, <1>10
<1>12. Left(listing, shown, steady)'
  BY <1>5, <1>11 DEF Left, Before, IsOf
<1> QED BY <1>3, <1>9, <1>12 DEF IInv

LEMMA Records ==
  ASSUME IInv, Len(rows) < MaxRows, NEW event \in Recorded, NEW at \in Times, Insert(event, at),
         UNCHANGED <<warned, listing, shown, steady>>
  PROVE  IInv'
<1>1. RowsOK /\ Standings
  BY DEF IInv
<1>2. Ids' = Ids \cup {Len(rows) + 1} /\ (\A i \in Ids : rows'[i] = rows[i]) /\ RowsOK'
  BY <1>1, InsertDoes
<1>3. Standings'
  BY <1>1, <1>2 DEF Standings, Insert
<1> QED BY <1>2, <1>3, Adds

LEMMA Hides ==
  ASSUME IInv, UNCHANGED <<rows, listing, shown>>, standing' \in SUBSET Ids,
         steady' \in SUBSET standing', steady' \in SUBSET steady, warned' \in SUBSET People
  PROVE  IInv'
<1>1. RowsOK /\ Ids' = Ids /\ Standings'
  BY DEF IInv, Standings, Ids
<1>2. RowsOK'
  BY <1>1 DEF RowsOK, RowsGrow, OfKind, IsOf, Ids
<1> QED BY <1>1, <1>2, Adds

LEMMA Invariance == Spec => []IInv
<1>1. Init => IInv
  <2> SUFFICES ASSUME Init PROVE IInv
    OBVIOUS
  <2>1. /\ rows = <<>> /\ standing = {} /\ warned = {} /\ listing = NoListing
        /\ shown = <<>> /\ steady = {}
    BY DEF Init
  <2>2. Len(rows) = 0 /\ Ids = {}
    BY <2>1 DEF Ids
  <2>3. RowsOK
    BY <2>1, <2>2, PagingAssumption DEF RowsOK, RowsGrow, OfKind
  <2>4. PageOK(listing)
    BY <2>1, PagingAssumption DEF PageOK, NoListing
  <2>5. Walked(listing, shown) /\ Left(listing, shown, steady)
    BY <2>1 DEF Walked, Left, Range, IsInjective
  <2>6. Standings
    BY <2>1 DEF Standings
  <2> QED BY <2>3, <2>4, <2>5, <2>6 DEF IInv
<1>2. IInv /\ [Next]_vars => IInv'
  <2> SUFFICES ASSUME IInv, [Next]_vars PROVE IInv'
    OBVIOUS
  <2>1. ASSUME NEW offer \in Offers, NEW at \in Times, AddExpense(offer, at) PROVE IInv'
    <3>1. PICK event : event = [kind |-> "expense", payer |-> offer.payer, amount |-> offer.amount,
               split |-> offer.split, shares |-> SplitShares(offer.amount, offer.split, offer.rank)]
      OBVIOUS
    <3>2. event \in Recorded
      BY <2>1, <3>1 DEF AddExpense, Recorded
    <3>3. Len(rows) < MaxRows /\ Insert(event, at) /\ UNCHANGED <<warned, listing, shown, steady>>
      BY <2>1, <3>1 DEF AddExpense
    <3> QED BY <3>2, <3>3, Records
  <2>2. ASSUME NEW offer \in Offers, NEW at \in Times, Settle(offer, at) PROVE IInv'
    <3>1. offer \in Recorded
      BY <2>2 DEF Settle, Recorded
    <3>2. Len(rows) < MaxRows /\ Insert(offer, at) /\ UNCHANGED <<warned, listing, shown, steady>>
      BY <2>2 DEF Settle
    <3> QED BY <3>1, <3>2, Records
  <2>3. ASSUME NEW i \in Ids, Undo(i) PROVE IInv'
    <3>1. /\ UNCHANGED <<rows, listing, shown>> /\ standing' = standing \ {i} /\ steady' = steady \ {i}
          /\ warned' \in SUBSET People
      BY <2>3 DEF Undo
    <3>2. standing \in SUBSET Ids /\ steady \in SUBSET standing
      BY DEF IInv, Standings
    <3> QED BY <3>1, <3>2, Hides
  <2>4. ASSUME NEW i \in Ids, Redo(i) PROVE IInv'
    <3>1. /\ UNCHANGED <<rows, listing, shown>> /\ standing' = standing \cup {i} /\ steady' = steady
          /\ warned' \in SUBSET People
      BY <2>4 DEF Redo
    <3>2. standing \in SUBSET Ids /\ steady \in SUBSET standing
      BY DEF IInv, Standings
    <3> QED BY <3>1, <3>2, Hides
  <2>5. CASE Open
    BY <2>5, Begins DEF Open
  <2>6. CASE Older
    <3>1. PICK c, p : c = OlderAnchor /\ p = PageBeyond(c, "older")
      OBVIOUS
    <3>2. listing.older /\ (IF DeadEnd(p) THEN Show(FirstPage, "begin") ELSE Show(p, "on"))
      BY <2>6, <3>1 DEF Older
    <3> QED BY <3>1, <3>2, Begins, GoesOn
  <2>7. CASE Newer
    <3>1. PICK c, p : c = NewerAnchor /\ p = PageBeyond(c, "newer")
      OBVIOUS
    <3>2. listing.newer /\ (IF DeadEnd(p) THEN Show(FirstPage, "begin") ELSE Show(p, "end"))
      BY <2>7, <3>1 DEF Newer
    <3> QED BY <3>1, <3>2, Begins, Ends
  <2>8. CASE UNCHANGED vars
    <3>1. /\ UNCHANGED <<rows, listing, shown>> /\ standing' = standing /\ steady' = steady
          /\ warned' = warned
      BY <2>8 DEF vars
    <3>2. standing \in SUBSET Ids /\ steady \in SUBSET standing /\ warned \in SUBSET People
      BY DEF IInv, Standings
    <3> QED BY <3>1, <3>2, Hides
  <2> QED BY <2>1, <2>2, <2>3, <2>4, <2>5, <2>6, <2>7, <2>8 DEF Next
<1> QED BY <1>1, <1>2, PTL DEF Spec

-----------------------------------------------------------------------------
(* The theorems, for pages of any size *)

\* Whatever is recorded, undone, redone and paged, rows, walk and listing stay well-formed,
\* and a page holds no more than PageSize rows although two tables give it PageSize + 1 each.
THEOREM TypeCorrect == Spec => []TypeOK
BY Invariance, InvIs, PTL

\* Paging down never shows a transaction twice, whatever is recorded, undone and redone
\* between the taps and whatever the clocks say (fetch_page of domain/transactions.py).
THEOREM WalkAlwaysShowsOnce == Spec => []WalkShowsOnce
BY Invariance, InvIs, PTL

\* When no button leads further down, everything that stood all along has been shown: one
\* row more than a page from each table is enough to know that nothing is left.
THEOREM WalkNeverSkips == Spec => []WalkSkipsNothing
BY Invariance, InvIs, PTL

\* A page never leaves its readers with nothing to see and nowhere to go while something
\* stands (the fall back to the first page in _handle_tx_tap).
THEOREM NobodyEverStranded == Spec => []NeverStranded
BY Invariance, InvIs, PTL
-----------------------------------------------------------------------------
(* The books, for any people, offers and amounts *)

FairShares(e) ==
  e.kind = "expense" /\ e.split.type # "exact" =>
    \A u \in DOMAIN e.split.part :
      /\ Magnitude(e.shares[u] * Total(e.split.part) - e.amount * e.split.part[u])
           < Total(e.split.part)
      /\ \A v \in DOMAIN e.split.part :
           e.split.part[u] > e.split.part[v] => e.shares[u] >= e.shares[v]

\* Whatever is recorded has shares that make up its amount, and fair ones.
LEMMA RecordedIs == \A e \in Recorded : WellFormed(e) /\ FairShares(e)
<1> SUFFICES ASSUME NEW e \in Recorded PROVE WellFormed(e) /\ FairShares(e)
  OBVIOUS
<1>1. CASE e \in Offers /\ e.kind = "settlement"
  BY <1>1, OffersAssumption DEF WellFormed, FairShares
<1>2. CASE ~ (e \in Offers /\ e.kind = "settlement")
  <2>1. PICK o \in Offers :
          /\ o.kind = "expense" /\ Accepted(o.amount, o.split)
          /\ e = [kind |-> "expense", payer |-> o.payer, amount |-> o.amount, split |-> o.split,
                  shares |-> SplitShares(o.amount, o.split, o.rank)]
    BY <1>2 DEF Recorded
  <2>2. PICK a, p, w : a = o.amount /\ p = o.payer /\ w = o.split.part
    OBVIOUS
  <2>3. a \in Int /\ p \in People
    BY <2>1, <2>2, OffersAssumption
  <2>4. PICK S \in SUBSET People :
          /\ w \in [S -> Int]
          /\ \A u, v \in S : o.rank[u] \in Int /\ (o.rank[u] = o.rank[v] => u = v)
    BY <2>1, <2>2, OffersAssumption
  <2>5. IsFiniteSet(S) /\ DOMAIN w = S
    BY <2>4, PeopleAssumption, FS_Subset
  <2>6. PICK h : h = SplitShares(a, o.split, o.rank)
    OBVIOUS
  <2>7. /\ e.kind = "expense" /\ e.payer = p /\ e.amount = a /\ e.shares = h
        /\ e.split = o.split /\ e.split.part = w
    BY <2>1, <2>2, <2>6
  <2>8. CASE o.split.type = "exact"
    <3>1. h = w /\ Total(w) = a
      BY <2>1, <2>2, <2>6, <2>8 DEF SplitShares, Accepted
    <3> QED BY <2>3, <2>4, <2>5, <2>7, <2>8, <3>1 DEF WellFormed, FairShares
  <2>9. CASE o.split.type # "exact"
    <3>1. h = Allocate(a, w, o.rank)
      BY <2>2, <2>6, <2>9 DEF SplitShares
    <3>2. a > 0 /\ S # {} /\ \A u \in S : w[u] > 0
      BY <2>1, <2>2, <2>5, <2>9 DEF Accepted
    <3>3. a \in Nat \ {0} /\ w \in [S -> Nat \ {0}]
      BY <2>3, <2>4, <3>2
    <3>4. PICK r : r = o.rank
      OBVIOUS
    <3>5. /\ h \in [S -> Int] /\ Total(h) = a
          /\ \A u \in S : Magnitude(h[u] * Total(w) - a * w[u]) < Total(w)
          /\ \A u, v \in S : w[u] > w[v] => h[u] >= h[v]
      <4>1. \A u, v \in S : r[u] \in Int /\ (r[u] = r[v] => u = v)
        BY <2>4, <3>4
      <4>2. h = Allocate(a, w, r)
        BY <3>1, <3>4
      <4> QED BY <2>5, <3>2, <3>3, <4>1, <4>2, AllocateIs
    <3>6. WellFormed(e)
      BY <2>3, <2>4, <2>7, <3>5 DEF WellFormed
    <3>7. FairShares(e)
      BY <2>5, <2>7, <3>5 DEF FairShares
    <3> QED BY <3>6, <3>7
  <2> QED BY <2>8, <2>9
<1> QED BY <1>1, <1>2

\* What stands is finitely many transactions, each of which has been recorded.
LEMMA EventsAre ==
  ASSUME IInv, NEW S \in SUBSET standing
  PROVE  /\ IsFiniteSet(DOMAIN Events(S)) /\ DOMAIN Events(S) = S /\ S \in SUBSET Ids
         /\ \A i \in S : Events(S)[i] = rows[i].event /\ WellFormed(rows[i].event)
<1>1. S \in SUBSET Ids /\ RowsOK
  BY DEF IInv, Standings
<1>2. IsFiniteSet(S)
  BY <1>1, IdsFinite
<1>3. \A i \in S : rows[i] \in Rows
  BY <1>1 DEF RowsOK, Ids
<1>4. \A i \in S : WellFormed(rows[i].event)
  BY <1>3, RecordedIs DEF Rows
<1> QED BY <1>1, <1>2, <1>4 DEF Events

LEMMA BalancesAre ==
  ASSUME IInv PROVE Balances \in [People -> Int] /\ Total(Balances) = 0
<1>1. PICK events : events = Events(standing)
  OBVIOUS
<1>2. IsFiniteSet(DOMAIN events) /\ \A i \in DOMAIN events : WellFormed(events[i])
  BY <1>1, EventsAre
<1>3. Replay(events) \in [People -> Int] /\ Total(Replay(events)) = 0
  BY <1>2, ReplayBalances
<1> QED BY <1>1, <1>3 DEF Balances

LEMMA BooksInv == ASSUME IInv PROVE BooksBalance /\ SharesFair /\ SuggestionsSettle
<1>1. BooksBalance
  BY BalancesAre DEF BooksBalance
<1>2. SharesFair
  <2>1. \A i \in Ids : rows[i].event \in Recorded
    <3>1. \A i \in Ids : rows[i] \in Rows
      BY DEF IInv, RowsOK, Ids
    <3> QED BY <3>1 DEF Rows
  <2>2. \A i \in Ids : FairShares(rows[i].event)
    BY <2>1, RecordedIs
  <2> QED BY <2>2 DEF SharesFair, FairShares, IsOf
<1>3. SuggestionsSettle
  <2>1. PICK net : net = Balances
    OBVIOUS
  <2>2. PICK T : T = Simplify(net)
    OBVIOUS
  <2>3. net \in [People -> Int] /\ Total(net) = 0
    BY <2>1, BalancesAre
  <2>4. /\ \A u \in People : /\ PaidBy(T, u) = IF net[u] > 0 THEN net[u] ELSE 0
                             /\ PaidTo(T, u) = IF net[u] < 0 THEN -net[u] ELSE 0
        /\ T # {} => Cardinality(T) < Cardinality(Positions(net))
    BY <2>2, <2>3, SimplifySettles
  <2> QED BY <2>1, <2>2, <2>3, <2>4 DEF SuggestionsSettle, PaidBy, PaidTo, Amounts, Positions
<1> QED BY <1>1, <1>2, <1>3

\* An expense that is undone while everyone is square.
LEMMA UndoneWhileSquare ==
  ASSUME IInv, NEW i \in standing, IsOf(i, "expense"), \A u \in People : Balances[u] = 0, Undo(i)
  PROVE  warned' = {u \in People : /\ Delta(rows[i].event, u) > 0
                                   /\ PaidNet(Events(standing), u) > 0}
<1>1. PICK before, after : before = Events(standing) /\ after = Events(standing \ {i})
  OBVIOUS
<1>2. /\ IsFiniteSet(DOMAIN before) /\ DOMAIN before = standing
      /\ \A j \in DOMAIN before : WellFormed(before[j]) /\ before[j] = rows[j].event
  BY <1>1, EventsAre
<1>3. after = [j \in DOMAIN before \ {i} |-> before[j]]
  BY <1>1, <1>2 DEF Events
<1>4. i \in DOMAIN before /\ before[i].kind = "expense" /\ before[i] = rows[i].event
  BY <1>2 DEF IsOf
<1>5. \A u \in People : Replay(before)[u] = 0
  BY <1>1 DEF Balances
<1>6. warned' = {u \in People : OverpaymentCredit(after, u) > OverpaymentCredit(before, u)}
  BY <1>1 DEF Undo, CreditBefore
<1>7. ASSUME NEW u \in People
      PROVE  OverpaymentCredit(after, u) > OverpaymentCredit(before, u)
               <=> Delta(before[i], u) > 0 /\ PaidNet(before, u) > 0
  BY <1>2, <1>3, <1>4, <1>5, SquareThenUndone
<1> QED BY <1>1, <1>4, <1>6, <1>7

\* Every minor unit of every expense is owed by somebody, whatever is recorded, undone and
\* redone (allocate's assertion, and replay of domain/balances.py).
THEOREM BooksAlwaysBalance == Spec => []BooksBalance
BY Invariance, BooksInv, PTL

\* The largest remainders get the units left over (allocate): nobody is a whole unit off
\* their proportion, and nobody with a larger weight gets less.
THEOREM SharesAlwaysFair == Spec => []SharesFair
BY Invariance, BooksInv, PTL

\* The greedy loop of simplify settles every position exactly, in fewer transfers than
\* there are people to settle, whatever the books have come to.
THEOREM SuggestionsAlwaysSettle == Spec => []SuggestionsSettle
BY Invariance, BooksInv, PTL

\* When everyone is square and an expense is undone, the warning of _overpayment_warning
\* names exactly those who owed a share of it and had paid more than they received.
THEOREM OverpaymentsAlwaysNoticed == Spec => OverpaymentNoticed
<1>1. IInv /\ [Next]_vars =>
        [\A i \in standing \ standing' :
           IsOf(i, "expense") /\ (\A u \in People : Balances[u] = 0) =>
             warned' = {u \in People : /\ Delta(rows[i].event, u) > 0
                                      /\ PaidNet(Events(standing), u) > 0}]_vars
  <2> SUFFICES ASSUME IInv, [Next]_vars, NEW i \in standing \ standing', IsOf(i, "expense"),
                      \A u \in People : Balances[u] = 0
               PROVE  warned' = {u \in People : /\ Delta(rows[i].event, u) > 0
                                                /\ PaidNet(Events(standing), u) > 0}
    OBVIOUS
  <2>1. Undo(i)
    <3>1. ASSUME NEW offer \in Offers, NEW at \in Times, AddExpense(offer, at) PROVE FALSE
      BY <3>1 DEF AddExpense, Insert
    <3>2. ASSUME NEW offer \in Offers, NEW at \in Times, Settle(offer, at) PROVE FALSE
      BY <3>2 DEF Settle, Insert
    <3>3. ASSUME NEW j \in Ids, Redo(j) PROVE FALSE
      BY <3>3 DEF Redo
    <3>4. ASSUME NEW j \in Ids, Undo(j) PROVE Undo(i)
      <4>1. j = i
        BY <3>4 DEF Undo
      <4> QED BY <3>4, <4>1
    <3>5. CASE Open \/ Older \/ Newer \/ UNCHANGED vars
      <4>1. standing' = standing
        BY <3>5 DEF Open, Older, Newer, Show, vars
      <4> QED BY <4>1
    <3> QED BY <3>1, <3>2, <3>3, <3>4, <3>5 DEF Next
  <2> QED BY <2>1, UndoneWhileSquare
<1> QED BY <1>1, Invariance, PTL DEF Spec, OverpaymentNoticed
=============================================================================
