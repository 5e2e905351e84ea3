---------------------------- MODULE MembersProofs ----------------------------
(***************************************************************************)
(* What holds of registration for any number of people and of updates that *)
(* race, and any contents of them.                                         *)
(*                                                                         *)
(* The invariant says, of each handler, what the statements it has left    *)
(* and the rows it wrote are to one another: which statements may follow   *)
(* which (Shape), what has been found before one runs (Ordered, Returns),  *)
(* who is still to be registered (Registers), on whose behalf it writes    *)
(* (Entitled), what is left of a departure (Leaves), and that a handler    *)
(* which registers its author only locks rows in one order (Climbs).       *)
(***************************************************************************)
EXTENDS Members, TLAPS

Known(h, r) == Reads(h, r) # "none"

\* The statements of _find_or_create_identity and what follows it, and all statements.
Finding == {"find", "insert_identity", "refresh", "find_member"}

Stmts == [do : {"group", "insert_group"}, who : {"nobody"}, value : {"there"}]
         \cup [do : {"lock"}, who : {"nobody"}, value : {"held"}]
         \cup [do : Finding, who : People, value : {"live", "snapshot"}]
         \cup [do : {"insert_member", "back", "late_back"}, who : People, value : {"in"}]
         \cup [do : {"look"}, who : People, value : {"snapshot"}]
         \cup [do : {"leave", "mark"}, who : People, value : {"left"}]

\* Which row may hold which value.
WriteOK(r, v) ==
  \/ r = GroupRow /\ v = "there"
  \/ r = LockRow /\ v = "held"
  \/ \E p \in People : r = IdentityRow(p) /\ v \in {"live", "snapshot"}
  \/ \E p \in People : r = MemberRow(p) /\ v \in {"in", "left"}

Later == {"find", "look", "lock", "leave", "late_back"}

\* After the first statement come searches, the lock, a departure, which is last, and
\* a late return; but a membership is searched right after its identity was written.
Follows(t) == \A i \in DOMAIN t :
  /\ i > 1 =>
       \/ t[i].do \in Later
       \/ /\ i = 2 /\ t[2].do = "find_member" /\ t[2].who = t[1].who
          /\ t[1].do \in {"insert_identity", "refresh"}
  /\ t[i].do \in {"leave", "mark"} => i = Len(t)

Shape(h) == Follows(todo[h])

\* A statement runs after what it needs was found or written.
Ordered(h) ==
  /\ Known(h, GroupRow) \/ (todo[h] # <<>> /\ todo[h][1].do \in {"group", "insert_group"})
  /\ todo[h] # <<>> =>
       /\ todo[h][1].do \in {"find_member", "insert_member"} => Known(h, IdentityRow(todo[h][1].who))
       /\ todo[h][1].do \in {"back", "mark"} => Known(h, MemberRow(todo[h][1].who))

\* A late return is one of an Undo or Redo tap, of somebody who was found.
Returns(h) == \A i \in DOMAIN todo[h] : todo[h][i].do = "late_back" =>
  Known(h, MemberRow(todo[h][i].who)) /\ inbox[h].kind = "toggle"

\* A membership is written where the identity and the group are known.
Linked(h) == \A p \in People :
  MemberRow(p) \in DOMAIN writes[h] => Known(h, IdentityRow(p)) /\ Known(h, GroupRow)

\* Whom the update of h registers: they are registered, or a statement is left that will.
Expects(h, p) == \/ inbox[h].by = p
                 \/ /\ inbox[h].kind \in {"join", "setup"}
                    /\ \E i \in DOMAIN inbox[h].whom : inbox[h].whom[i] = p

Registers(h) == \A p \in People : Expects(h, p) =>
  \/ Known(h, MemberRow(p))
  \/ \E i \in DOMAIN todo[h] : /\ todo[h][i].who = p
                               /\ todo[h][i].do \in {"find", "look", "find_member", "insert_member"}

\* Statements that register somebody.
Registrations == Finding \cup {"insert_member", "back", "late_back"}
Registering(x) == x.do \in Registrations

\* Identities are written, and memberships set, on behalf of who speaks, or of a target.
MayRegister(h, p) == Speaks(h, p) \/ (inbox[h].kind = "setup" /\ p \in missed[h])

Entitled(h) ==
  /\ \A i \in DOMAIN todo[h] :
       /\ todo[h][i].do \in Registrations => MayRegister(h, todo[h][i].who)
       /\ todo[h][i].do = "look" => inbox[h].kind = "setup"
  /\ \A p \in People :
       /\ IdentityRow(p) \in DOMAIN writes[h] => MayRegister(h, p)
       /\ MemberRow(p) \in DOMAIN writes[h] /\ writes[h][MemberRow(p)] = "in" => MayRegister(h, p)

\* A departure of the author is to come, or is written and nothing comes after it.
LeavesItself(h) == inbox[h].kind = "leave" /\ inbox[h].whom[1] = inbox[h].by

Leaves(h) == LeavesItself(h) =>
  \/ \E i \in DOMAIN todo[h] : /\ todo[h][i].do \in {"leave", "mark"} /\ todo[h][i].who = inbox[h].by
  \/ /\ MemberRow(inbox[h].by) \in DOMAIN writes[h]
     /\ writes[h][MemberRow(inbox[h].by)] = "left"
     /\ todo[h] = <<>>
  \/ h \in done

\* The first row a statement may lock, and the last, in the order group, identity,
\* membership, lock; a late return comes after all of them.
Level(s) == IF s.do \in {"group", "insert_group"} THEN 0
            ELSE IF s.do \in {"find", "insert_identity", "refresh"} THEN 1
            ELSE IF s.do \in {"find_member", "insert_member", "back"} THEN 2
            ELSE IF s.do = "late_back" THEN 4 ELSE 3
Reach(s) == IF s.do = "find" THEN 2 ELSE Level(s)

RowLevel(r) == IF r = GroupRow THEN 0 ELSE IF r[1] = "identity" THEN 1
               ELSE IF r[1] = "member" THEN 2 ELSE 3

Plain(h) == inbox[h].kind \in {"talk", "command", "toggle"}

\* The rows of s are below those of u, or u is a late return.
Under(s, u) == u.do = "late_back" \/ Reach(s) < Level(u)

\* A plain update locks rows from the lowest to the highest, but for a late return.
Climbs(h) == Plain(h) =>
  /\ \A i \in DOMAIN todo[h] : todo[h][i].do \notin {"look", "leave", "mark"}
  /\ \A i, j \in DOMAIN todo[h] : i < j => Under(todo[h][i], todo[h][j])
  /\ \A i \in DOMAIN todo[h] : \A r \in DOMAIN writes[h] : RowLevel(r) < Level(todo[h][i])

HandlerOK(h) == /\ \A r \in DOMAIN writes[h] : WriteOK(r, writes[h][r])
                /\ Shape(h) /\ Ordered(h) /\ Returns(h) /\ Linked(h) /\ Registers(h)
                /\ Entitled(h) /\ Leaves(h) /\ Climbs(h)
                /\ h \in done => todo[h] = <<>> /\ writes[h] = <<>>

Types == /\ inbox \in Inboxes /\ group \in BOOLEAN
         /\ name \in [People -> Names] /\ member \in [People -> {"none", "in", "left"}]
         /\ todo \in [Handlers -> Seq(Stmts)]
         /\ writes = [h \in Handlers |-> writes[h]]
         /\ missed \in [Handlers -> SUBSET People]
         /\ done \subseteq Handlers

Exclusive == \A h, g \in Handlers : h # g => DOMAIN writes[h] \cap DOMAIN writes[g] = {}
Rooted == \A p \in People : member[p] # "none" => name[p] # "none" /\ group

IInv == Types /\ Exclusive /\ Rooted /\ \A h \in Handlers : HandlerOK(h)

-----------------------------------------------------------------------------
(* Rows, reads and sequences of statements *)

LEMMA RowsDiffer ==
  /\ GroupRow # LockRow
  /\ \A p : /\ IdentityRow(p) # GroupRow /\ IdentityRow(p) # LockRow
            /\ MemberRow(p) # GroupRow /\ MemberRow(p) # LockRow
            /\ \A q : /\ IdentityRow(p) # MemberRow(q)
                      /\ IdentityRow(p) = IdentityRow(q) => p = q
                      /\ MemberRow(p) = MemberRow(q) => p = q
BY DEF GroupRow, LockRow, IdentityRow, MemberRow

LEMMA CommittedIs ==
  /\ Committed(GroupRow) = IF group THEN "there" ELSE "none"
  /\ Committed(LockRow) = "none"
  /\ \A p : Committed(IdentityRow(p)) = name[p] /\ Committed(MemberRow(p)) = member[p]
BY DEF Committed, GroupRow, LockRow, IdentityRow, MemberRow

LEMMA RowOfIs ==
  ASSUME NEW s
  PROVE  /\ s.do = "insert_group" => RowOf(s) = GroupRow
         /\ s.do = "lock" => RowOf(s) = LockRow
         /\ s.do \in {"insert_identity", "refresh"} => RowOf(s) = IdentityRow(s.who)
         /\ s.do \in {"insert_member", "back", "late_back", "mark"} => RowOf(s) = MemberRow(s.who)
BY DEF RowOf

LEMMA InboxType ==
  ASSUME inbox \in Inboxes, NEW h \in Handlers
  PROVE  /\ inbox[h].kind \in MessageKinds /\ inbox[h].by \in People
         /\ inbox[h].whom \in Seq(People)
         /\ inbox[h].kind = "leave" => inbox[h].whom # <<>>
BY InboxAssumption

\* The statements <<>>, <<x>> and <<x, y>> in front of the rest of a sequence.
LEMMA None ==
  ASSUME NEW S, NEW t \in Seq(S), t # <<>>
  PROVE  LET w == <<>> \o Tail(t) IN
         /\ w \in Seq(S) /\ Len(w) = Len(t) - 1
         /\ \A i \in DOMAIN w : i + 1 \in DOMAIN t /\ w[i] = t[i + 1]
         /\ \A i \in DOMAIN t : i # 1 => i - 1 \in DOMAIN w /\ w[i - 1] = t[i]
BY <<>> \in Seq(S)

LEMMA One ==
  ASSUME NEW S, NEW t \in Seq(S), t # <<>>, NEW x \in S
  PROVE  LET w == <<x>> \o Tail(t) IN
         /\ w \in Seq(S) /\ Len(w) = Len(t) /\ w[1] = x /\ w # <<>>
         /\ \A i \in DOMAIN w : i # 1 => i \in DOMAIN t /\ w[i] = t[i]
         /\ \A i \in DOMAIN t : i # 1 => i \in DOMAIN w /\ w[i] = t[i]
OBVIOUS

Expanded(t, w, x, y) ==
  /\ Len(w) = Len(t) + 1 /\ w[1] = x /\ w[2] = y
  /\ \A i \in DOMAIN w : i \notin {1, 2} => i - 1 \in DOMAIN t /\ i - 1 # 1 /\ w[i] = t[i - 1]
  /\ \A i \in DOMAIN t : i # 1 => i + 1 \in DOMAIN w /\ w[i + 1] = t[i]

LEMMA Two ==
  ASSUME NEW S, NEW t \in Seq(S), t # <<>>, NEW x \in S, NEW y \in S,
         NEW w, w = <<x, y>> \o Tail(t)
  PROVE  w \in Seq(S) /\ Expanded(t, w, x, y)
<1>1. PICK u, v : u = Tail(t) /\ v = <<x, y>> /\ w = v \o u
  OBVIOUS
<1>2. /\ u \in Seq(S) /\ Len(t) \in Nat \ {0} /\ Len(u) = Len(t) - 1
      /\ \A i \in 1 .. Len(u) : u[i] = t[i + 1]
  BY <1>1
<1>3. v \in Seq(S) /\ Len(v) = 2 /\ v[1] = x /\ v[2] = y
  BY <1>1
<1>4. /\ w \in Seq(S) /\ Len(w) = 2 + Len(u)
      /\ \A i \in 1 .. 2 : w[i] = v[i]
      /\ \A i \in 1 .. Len(u) : w[i + 2] = u[i]
  BY <1>1, <1>2, <1>3
<1>5. DOMAIN w = 1 .. Len(t) + 1 /\ DOMAIN t = 1 .. Len(t) /\ Len(w) = Len(t) + 1
  BY <1>2, <1>4
<1>6. w[1] = x /\ w[2] = y /\ w # <<>>
  BY <1>3, <1>4, <1>5
<1>7. ASSUME NEW i \in DOMAIN w, i \notin {1, 2}
      PROVE  i - 1 \in DOMAIN t /\ i - 1 # 1 /\ w[i] = t[i - 1]
  <2>1. i - 2 \in 1 .. Len(u) /\ (i - 2) + 2 = i /\ (i - 2) + 1 = i - 1
    BY <1>2, <1>5, <1>7
  <2>2. w[(i - 2) + 2] = u[i - 2] /\ u[i - 2] = t[(i - 2) + 1]
    BY <1>2, <1>4, <2>1
  <2>3. w[i] = t[i - 1]
    BY <2>1, <2>2
  <2> QED BY <1>2, <1>5, <1>7, <2>3
<1>8. ASSUME NEW i \in DOMAIN t, i # 1 PROVE i + 1 \in DOMAIN w /\ w[i + 1] = t[i]
  <2>1. i - 1 \in 1 .. Len(u) /\ (i - 1) + 2 = i + 1 /\ (i - 1) + 1 = i
    BY <1>2, <1>5, <1>8
  <2>2. w[(i - 1) + 2] = u[i - 1] /\ u[i - 1] = t[(i - 1) + 1]
    BY <1>2, <1>4, <2>1
  <2> QED BY <1>2, <1>5, <1>8, <2>1, <2>2
<1> QED BY <1>4, <1>5, <1>6, <1>7, <1>8, ZenonT(20) DEF Expanded

\* The first statement is dropped, and x comes last.
Appended(t, w, x) ==
  /\ Len(w) = Len(t) /\ w[Len(t)] = x
  /\ \A i \in DOMAIN w : i # Len(t) => i + 1 \in DOMAIN t /\ w[i] = t[i + 1]
  /\ \A i \in DOMAIN t : i # 1 => i - 1 \in DOMAIN w /\ w[i - 1] = t[i]

LEMMA Behind ==
  ASSUME NEW S, NEW t \in Seq(S), t # <<>>, NEW x \in S, NEW w, w = Append(Tail(t), x)
  PROVE  w \in Seq(S) /\ Appended(t, w, x)
<1>1. PICK u : u = Tail(t) /\ w = Append(u, x)
  OBVIOUS
<1>2. /\ u \in Seq(S) /\ Len(t) \in Nat \ {0} /\ Len(u) = Len(t) - 1
      /\ \A i \in 1 .. Len(u) : u[i] = t[i + 1]
  BY <1>1
<1>3. /\ w \in Seq(S) /\ Len(w) = Len(u) + 1 /\ w[Len(u) + 1] = x
      /\ \A i \in 1 .. Len(u) : w[i] = u[i]
  BY <1>1, <1>2
<1>4. DOMAIN w = 1 .. Len(t) /\ DOMAIN t = 1 .. Len(t) /\ Len(w) = Len(t) /\ Len(u) + 1 = Len(t)
  BY <1>2, <1>3
<1>5. ASSUME NEW i \in DOMAIN w, i # Len(t) PROVE i + 1 \in DOMAIN t /\ w[i] = t[i + 1]
  BY <1>2, <1>3, <1>4, <1>5
<1>6. ASSUME NEW i \in DOMAIN t, i # 1 PROVE i - 1 \in DOMAIN w /\ w[i - 1] = t[i]
  <2>1. i - 1 \in 1 .. Len(u) /\ (i - 1) + 1 = i
    BY <1>2, <1>4, <1>6
  <2> QED BY <1>2, <1>3, <1>4, <2>1
<1>7. Len(w) = Len(t) /\ w[Len(t)] = x /\ w \in Seq(S)
  BY <1>3, <1>4
<1> QED BY <1>5, <1>6, <1>7 DEF Appended

-----------------------------------------------------------------------------
(* One statement: what is left afterwards, and what is known *)

\* The first statement is dropped, replaced by x, or replaced by x and y.
Popped(t, w) ==
  /\ Len(w) = Len(t) - 1
  /\ \A i \in DOMAIN w : i + 1 \in DOMAIN t /\ w[i] = t[i + 1]
  /\ \A i \in DOMAIN t : i # 1 => i - 1 \in DOMAIN w /\ w[i - 1] = t[i]
Swapped(t, w, x) ==
  /\ Len(w) = Len(t) /\ w[1] = x
  /\ \A i \in DOMAIN w : i # 1 => i \in DOMAIN t /\ w[i] = t[i]
  /\ \A i \in DOMAIN t : i # 1 => i \in DOMAIN w /\ w[i] = t[i]

Pops(h)          == Popped(todo[h], todo'[h])
Swaps(h, x)      == Swapped(todo[h], todo'[h], x)
Expands(h, x, y) == Expanded(todo[h], todo'[h], x, y)
Appends(h, x)    == Appended(todo[h], todo'[h], x)

TodoStays(h) == /\ todo' \in [Handlers -> Seq(Stmts)]
                /\ \A g \in Handlers \ {h} : todo'[g] = todo[g]

LEMMA Heads ==
  ASSUME Types, NEW h \in Handlers, todo[h] # <<>>
  PROVE  /\ todo[h] \in Seq(Stmts) /\ Now(h) = todo[h][1] /\ Now(h) \in Stmts
         /\ 1 \in DOMAIN todo[h] /\ Len(todo[h]) \in Nat \ {0}
BY DEF Types, Now

LEMMA ThenNone ==
  ASSUME Types, NEW h \in Handlers, todo[h] # <<>>, Then(h, <<>>)
  PROVE  Pops(h) /\ TodoStays(h)
<1>1. todo'[h] = <<>> \o Tail(todo[h]) /\ todo' = [todo EXCEPT ![h] = <<>> \o Tail(todo[h])]
  BY DEF Then, Types
<1>2. todo[h] \in Seq(Stmts)
  BY DEF Types
<1> DEFINE w == <<>> \o Tail(todo[h])
<1>3. /\ w \in Seq(Stmts) /\ Len(w) = Len(todo[h]) - 1
      /\ \A i \in DOMAIN w : i + 1 \in DOMAIN todo[h] /\ w[i] = todo[h][i + 1]
      /\ \A i \in DOMAIN todo[h] : i # 1 => i - 1 \in DOMAIN w /\ w[i - 1] = todo[h][i]
  BY <1>2, None
<1> HIDE DEF w
<1>4. TodoStays(h)
  BY <1>1, <1>3 DEF TodoStays, Types, w
<1> QED BY <1>1, <1>3, <1>4 DEF Pops, Popped, w

LEMMA ThenOne ==
  ASSUME Types, NEW h \in Handlers, todo[h] # <<>>, NEW x \in Stmts, Then(h, <<x>>)
  PROVE  Swaps(h, x) /\ TodoStays(h)
<1>1. todo'[h] = <<x>> \o Tail(todo[h]) /\ todo' = [todo EXCEPT ![h] = <<x>> \o Tail(todo[h])]
  BY DEF Then, Types
<1>2. todo[h] \in Seq(Stmts)
  BY DEF Types
<1> DEFINE w == <<x>> \o Tail(todo[h])
<1>3. /\ w \in Seq(Stmts) /\ Len(w) = Len(todo[h]) /\ w[1] = x
      /\ \A i \in DOMAIN w : i # 1 => i \in DOMAIN todo[h] /\ w[i] = todo[h][i]
      /\ \A i \in DOMAIN todo[h] : i # 1 => i \in DOMAIN w /\ w[i] = todo[h][i]
  BY <1>2, One
<1> HIDE DEF w
<1>4. TodoStays(h)
  BY <1>1, <1>3 DEF TodoStays, Types, w
<1> QED BY <1>1, <1>3, <1>4 DEF Swaps, Swapped, w

LEMMA ThenTwo ==
  ASSUME Types, NEW h \in Handlers, todo[h] # <<>>, NEW x \in Stmts, NEW y \in Stmts,
         Then(h, <<x, y>>)
  PROVE  Expands(h, x, y) /\ TodoStays(h)
<1>1. todo'[h] = <<x, y>> \o Tail(todo[h]) /\ todo' = [todo EXCEPT ![h] = <<x, y>> \o Tail(todo[h])]
  BY DEF Then, Types
<1>2. todo[h] \in Seq(Stmts)
  BY DEF Types
<1>3. PICK t, w : t = todo[h] /\ w = <<x, y>> \o Tail(t)
  OBVIOUS
<1>4. todo' = [todo EXCEPT ![h] = w] /\ todo'[h] = w
  BY <1>1, <1>3, Zenon
<1>5. t \in Seq(Stmts) /\ t # <<>> /\ w = <<x, y>> \o Tail(t)
  BY <1>2, <1>3
<1>6. w \in Seq(Stmts) /\ Expanded(t, w, x, y)
  BY <1>5, Two, Zenon
<1>7. TodoStays(h)
  BY <1>4, <1>6 DEF TodoStays, Types
<1> QED BY <1>3, <1>4, <1>6, <1>7 DEF Expands

\* The statements that read, by what they find.
LEMMA FindGroupDoes ==
  ASSUME Types, NEW h \in Handlers, todo[h] # <<>>, FindGroup(h)
  PROVE  /\ todo[h][1].do = "group" /\ TodoStays(h)
         /\ UNCHANGED <<inbox, db, writes, missed, done>>
         /\ \/ Pops(h) /\ Known(h, GroupRow)
            \/ \E x \in Stmts : x.do = "insert_group" /\ x.who = "nobody" /\ Swaps(h, x)
<1> DEFINE x == Statement("insert_group", "nobody", "there")
<1>1. x \in Stmts /\ x.do = "insert_group" /\ x.who = "nobody"
  BY DEF Statement, Stmts
<1>2. todo[h][1].do = "group" /\ UNCHANGED <<inbox, db, writes, missed, done>>
  BY Heads DEF FindGroup, Read
<1> HIDE DEF x
<1>3. CASE Known(h, GroupRow)
  BY <1>2, <1>3, ThenNone DEF FindGroup, Read, Known
<1>4. CASE ~ Known(h, GroupRow)
  BY <1>1, <1>2, <1>4, ThenOne DEF FindGroup, Read, Known, x
<1> QED BY <1>3, <1>4

LEMMA FindIdentityDoes ==
  ASSUME Types, NEW h \in Handlers, todo[h] # <<>>, FindIdentity(h)
  PROVE  /\ todo[h][1].do = "find" /\ TodoStays(h)
         /\ UNCHANGED <<inbox, db, writes, missed, done>>
         /\ \E y \in Stmts : /\ y.do = "find_member" /\ y.who = todo[h][1].who
                             /\ \/ Known(h, IdentityRow(y.who)) /\ Swaps(h, y)
                                \/ \E x \in Stmts : /\ x.do \in {"insert_identity", "refresh"}
                                                    /\ x.who = y.who /\ Expands(h, x, y)
<1> DEFINE s == todo[h][1]
           y == Statement("find_member", s.who, s.value)
           x1 == Statement("insert_identity", s.who, s.value)
           x2 == Statement("refresh", s.who, s.value)
<1>1. s.do = "find" /\ s = Now(h) /\ s \in Stmts /\ UNCHANGED <<inbox, db, writes, missed, done>>
  BY Heads DEF FindIdentity, Read
<1>2. s.who \in People /\ s.value \in {"live", "snapshot"}
  BY <1>1 DEF Stmts
<1>3. /\ y \in Stmts /\ y.do = "find_member" /\ y.who = s.who
      /\ x1 \in Stmts /\ x1.do = "insert_identity" /\ x1.who = s.who
      /\ x2 \in Stmts /\ x2.do = "refresh" /\ x2.who = s.who
  BY <1>2 DEF Statement, Stmts, Finding
<1>4. \/ Then(h, <<y>>) /\ Known(h, IdentityRow(s.who))
      \/ Then(h, <<x1, y>>)
      \/ Then(h, <<x2, y>>)
  BY <1>1 DEF FindIdentity, Read, Known
<1> HIDE DEF s, y, x1, x2
<1>5. TodoStays(h) /\ (\/ Swaps(h, y) /\ Known(h, IdentityRow(s.who))
                       \/ Expands(h, x1, y)
                       \/ Expands(h, x2, y))
  BY <1>3, <1>4, ThenOne, ThenTwo
<1> QED BY <1>1, <1>3, <1>5 DEF s

LEMMA ReadsType ==
  ASSUME Types, NEW h \in Handlers, \A r \in DOMAIN writes[h] : WriteOK(r, writes[h][r])
  PROVE  \A p \in People : /\ Reads(h, MemberRow(p)) \in {"none", "in", "left"}
                           /\ Reads(h, IdentityRow(p)) \in Names
<1> SUFFICES ASSUME NEW p \in People
             PROVE  /\ Reads(h, MemberRow(p)) \in {"none", "in", "left"}
                    /\ Reads(h, IdentityRow(p)) \in Names
  OBVIOUS
<1>1. \A v : /\ WriteOK(MemberRow(p), v) => v \in {"in", "left"}
             /\ WriteOK(IdentityRow(p), v) => v \in {"live", "snapshot"}
  BY RowsDiffer DEF WriteOK
<1> QED BY <1>1, CommittedIs DEF Reads, Types, Names

LEMMA FindMemberDoes ==
  ASSUME Types, NEW h \in Handlers, todo[h] # <<>>, FindMember(h),
         \A r \in DOMAIN writes[h] : WriteOK(r, writes[h][r])
  PROVE  /\ todo[h][1].do = "find_member" /\ TodoStays(h)
         /\ UNCHANGED <<inbox, db, writes, missed, done>>
         /\ \/ Pops(h) /\ Known(h, MemberRow(todo[h][1].who))
            \/ \E x \in Stmts : /\ x.who = todo[h][1].who /\ Swaps(h, x)
                                /\ \/ x.do = "insert_member"
                                   \/ x.do = "back" /\ Known(h, MemberRow(x.who))
<1> DEFINE s == todo[h][1]
           x1 == Statement("insert_member", s.who, "in")
           x2 == Statement("back", s.who, "in")
<1>1. s.do = "find_member" /\ s = Now(h) /\ s \in Stmts /\ UNCHANGED <<inbox, db, writes, missed, done>>
  BY Heads DEF FindMember, Read
<1>2. s.who \in People
  BY <1>1 DEF Stmts
<1>3. /\ x1 \in Stmts /\ x1.do = "insert_member" /\ x1.who = s.who
      /\ x2 \in Stmts /\ x2.do = "back" /\ x2.who = s.who
  BY <1>2 DEF Statement, Stmts
<1>4. \/ Then(h, <<>>) /\ Known(h, MemberRow(s.who))
      \/ Then(h, <<x1>>)
      \/ Then(h, <<x2>>) /\ Known(h, MemberRow(s.who))
  BY <1>1, <1>2, ReadsType DEF FindMember, Read, Known
<1> HIDE DEF s, x1, x2
<1>5. TodoStays(h) /\ (\/ Pops(h) /\ Known(h, MemberRow(s.who))
                       \/ Swaps(h, x1)
                       \/ Swaps(h, x2) /\ Known(h, MemberRow(s.who)))
  BY <1>3, <1>4, ThenNone, ThenOne
<1> QED BY <1>1, <1>3, <1>5 DEF s

LEMMA FindReturningDoes ==
  ASSUME Types, NEW h \in Handlers, todo[h] # <<>>, FindReturning(h)
  PROVE  /\ todo[h][1].do = "find_member" /\ TodoStays(h) /\ inbox[h].kind = "toggle"
         /\ UNCHANGED <<inbox, db, writes, missed, done>>
         /\ \E x \in Stmts : /\ x.do = "late_back" /\ x.who = todo[h][1].who /\ Appends(h, x)
                             /\ Known(h, MemberRow(x.who))
<1> DEFINE s == todo[h][1]
           x == Statement("late_back", s.who, "in")
<1>1. /\ s.do = "find_member" /\ s = Now(h) /\ s \in Stmts /\ inbox[h].kind = "toggle"
      /\ UNCHANGED <<inbox, db, writes, missed, done>> /\ Known(h, MemberRow(s.who))
  BY Heads DEF FindReturning, Known
<1>2. x \in Stmts /\ x.do = "late_back" /\ x.who = s.who
  BY <1>1 DEF Statement, Stmts
<1>3. PICK t, w : t = todo[h] /\ w = Append(Tail(t), x)
  OBVIOUS
<1>4. todo' = [todo EXCEPT ![h] = w] /\ todo'[h] = w
  BY <1>1, <1>3 DEF FindReturning, Types
<1>5. t \in Seq(Stmts) /\ t # <<>>
  BY <1>3 DEF Types
<1> HIDE DEF x, s
<1>6. w \in Seq(Stmts) /\ Appended(t, w, x)
  BY <1>2, <1>3, <1>5, Behind, Zenon
<1>7. TodoStays(h)
  BY <1>4, <1>6 DEF TodoStays, Types
<1>8. Appends(h, x)
  BY <1>3, <1>4, <1>6 DEF Appends
<1> QED BY <1>1, <1>2, <1>7, <1>8 DEF s

LEMMA FindLeaverDoes ==
  ASSUME Types, NEW h \in Handlers, todo[h] # <<>>, FindLeaver(h)
  PROVE  /\ todo[h][1].do = "leave" /\ TodoStays(h)
         /\ UNCHANGED <<inbox, db, writes, missed, done>>
         /\ \/ Pops(h) /\ ~ Known(h, MemberRow(todo[h][1].who))
            \/ \E x \in Stmts : /\ x.do = "mark" /\ x.who = todo[h][1].who /\ Swaps(h, x)
                                /\ Known(h, MemberRow(x.who))
<1> DEFINE s == todo[h][1]
           x == Statement("mark", s.who, "left")
<1>1. s.do = "leave" /\ s = Now(h) /\ s \in Stmts /\ UNCHANGED <<inbox, db, writes, missed, done>>
  BY Heads DEF FindLeaver, Read
<1>2. s.who \in People
  BY <1>1 DEF Stmts
<1>3. x \in Stmts /\ x.do = "mark" /\ x.who = s.who
  BY <1>2 DEF Statement, Stmts
<1>4. \/ Then(h, <<>>) /\ ~ Known(h, MemberRow(s.who))
      \/ Then(h, <<x>>) /\ Known(h, MemberRow(s.who))
  BY <1>1, <1>2 DEF FindLeaver, Read, Known
<1> HIDE DEF s, x
<1>5. TodoStays(h) /\ (\/ Pops(h) /\ ~ Known(h, MemberRow(s.who))
                       \/ Swaps(h, x) /\ Known(h, MemberRow(s.who)))
  BY <1>3, <1>4, ThenNone, ThenOne
<1> QED BY <1>1, <1>3, <1>5 DEF s

LEMMA LookForTargetDoes ==
  ASSUME Types, NEW h \in Handlers, todo[h] # <<>>, LookForTarget(h)
  PROVE  /\ todo[h][1].do = "look" /\ todo[h][1].who \in People /\ TodoStays(h)
         /\ UNCHANGED <<inbox, db, writes, done>>
         /\ \/ Pops(h) /\ Known(h, MemberRow(todo[h][1].who)) /\ UNCHANGED missed
            \/ \E x \in Stmts : /\ x.do = "find" /\ x.who = todo[h][1].who /\ Swaps(h, x)
                                /\ missed' = [missed EXCEPT ![h] = @ \cup {x.who}]
<1> DEFINE s == todo[h][1]
           x == Statement("find", s.who, "snapshot")
<1>1. s.do = "look" /\ s = Now(h) /\ s \in Stmts /\ UNCHANGED <<inbox, db, writes, done>>
  BY Heads DEF LookForTarget
<1>2. s.who \in People
  BY <1>1 DEF Stmts
<1>3. x \in Stmts /\ x.do = "find" /\ x.who = s.who
  BY <1>2 DEF Statement, Stmts, Finding
<1>4. \/ Then(h, <<>>) /\ Known(h, MemberRow(s.who)) /\ UNCHANGED missed
      \/ Then(h, <<x>>) /\ missed' = [missed EXCEPT ![h] = @ \cup {s.who}]
  <2>1. CASE Known(h, MemberRow(s.who))
    <3>1. missed' = [missed EXCEPT ![h] = @]
      BY <1>1, <2>1 DEF LookForTarget, Known
    <3> QED BY <1>1, <2>1, <3>1 DEF LookForTarget, Known, IsMember, Types
  <2>2. CASE ~ Known(h, MemberRow(s.who))
    BY <1>1, <2>2 DEF LookForTarget, Known, IsMember, Register
  <2> QED BY <2>1, <2>2
<1> HIDE DEF s, x
<1>5. TodoStays(h) /\ (\/ Pops(h) /\ Known(h, MemberRow(s.who)) /\ UNCHANGED missed
                       \/ Swaps(h, x) /\ missed' = [missed EXCEPT ![h] = @ \cup {s.who}])
  BY <1>3, <1>4, ThenNone, ThenOne
<1> QED BY <1>1, <1>2, <1>3, <1>5 DEF s

\* The statements that write.
Holds(h, r, value) ==
  /\ writes' = [g \in Handlers |-> writes'[g]]
  /\ \A g \in Handlers \ {h} : writes'[g] = writes[g]
  /\ DOMAIN writes'[h] = DOMAIN writes[h] \cup {r} /\ writes'[h][r] = value
  /\ \A q \in DOMAIN writes[h] : q # r => writes'[h][q] = writes[h][q]
  /\ \A g \in Handlers \ {h} : r \notin DOMAIN writes[g]

LEMMA PutHolds ==
  ASSUME Types, NEW h \in Handlers, NEW r, NEW v, Put(h, r, v), ~ HeldByOthers(h, r)
  PROVE  Holds(h, r, v)
<1>1. writes' = [writes EXCEPT ![h] =
        [q \in DOMAIN writes[h] \cup {r} |-> IF q = r THEN v ELSE writes[h][q]]]
  BY DEF Put, Types
<1>2. writes = [g \in Handlers |-> writes[g]]
  BY DEF Types
<1> QED BY <1>1, <1>2 DEF Holds, HeldByOthers

LEMMA InsertDoes ==
  ASSUME Types, NEW h \in Handlers, todo[h] # <<>>, Insert(h)
  PROVE  LET s == todo[h][1] IN
         /\ s \in Stmts /\ s.do \in Inserts /\ Pops(h) /\ TodoStays(h)
         /\ UNCHANGED <<inbox, db, missed, done>>
         /\ \/ Known(h, RowOf(s)) /\ UNCHANGED writes
            \/ Holds(h, RowOf(s), s.value)
<1> DEFINE s == todo[h][1]
<1>1. s \in Stmts /\ s.do \in Inserts /\ s = Now(h) /\ UNCHANGED <<inbox, db, missed, done>>
  BY Heads DEF Insert
<1>2. Pops(h) /\ TodoStays(h)
  BY ThenNone DEF Insert
<1>3. \/ Known(h, RowOf(s)) /\ UNCHANGED writes
      \/ Holds(h, RowOf(s), s.value)
  BY <1>1, PutHolds DEF Insert, Known
<1> QED BY <1>1, <1>2, <1>3

LEMMA UpdateDoes ==
  ASSUME Types, NEW h \in Handlers, todo[h] # <<>>, Update(h)
  PROVE  LET s == todo[h][1] IN
         /\ s \in Stmts /\ s.do \in Updates \cup {"lock"} /\ Pops(h) /\ TodoStays(h)
         /\ UNCHANGED <<inbox, db, missed, done>>
         /\ Holds(h, RowOf(s), s.value)
<1> DEFINE s == todo[h][1]
<1>1. /\ s \in Stmts /\ s.do \in Updates \cup {"lock"} /\ s = Now(h)
      /\ UNCHANGED <<inbox, db, missed, done>>
  BY Heads DEF Update
<1>2. Pops(h) /\ TodoStays(h)
  BY ThenNone DEF Update
<1>3. Holds(h, RowOf(s), s.value)
  BY <1>1, PutHolds DEF Update
<1> QED BY <1>1, <1>2, <1>3

LEMMA HoldsReads ==
  ASSUME NEW h \in Handlers, NEW r, NEW v, Holds(h, r, v), UNCHANGED db
  PROVE  /\ Reads(h, r)' = v /\ \A q : q # r => Reads(h, q)' = Reads(h, q)
         /\ \A g \in Handlers \ {h} : \A q : Reads(g, q)' = Reads(g, q)
<1>1. \A q : Committed(q)' = Committed(q)
  BY DEF Committed, db
<1> QED BY <1>1 DEF Holds, Reads

\* A statement that writes row r: what is written and known afterwards.
Moves(h, r, value) ==
  /\ Pops(h) /\ TodoStays(h) /\ UNCHANGED <<inbox, db, missed, done>>
  /\ Known(h, r)' /\ \A q : Known(h, q) => Known(h, q)'
  /\ DOMAIN writes[h] \subseteq DOMAIN writes'[h]
  /\ \A q \in DOMAIN writes[h] : q # r => writes'[h][q] = writes[h][q]
  /\ \A q \in DOMAIN writes'[h] :
       (q \in DOMAIN writes[h] /\ writes'[h][q] = writes[h][q]) \/ (q = r /\ writes'[h][q] = value)
  /\ \A g \in Handlers \ {h} : /\ writes'[g] = writes[g]
                               /\ r \in DOMAIN writes'[h] => r \notin DOMAIN writes[g]
  /\ writes' = [g \in Handlers |-> writes'[g]]

LEMMA WriteMoves ==
  ASSUME IInv, NEW h \in Handlers, todo[h] # <<>>, Insert(h) \/ Update(h)
  PROVE  \E s \in Stmts :
           /\ s = todo[h][1] /\ s.do \in Statements /\ Moves(h, RowOf(s), s.value)
           /\ s.do \in Updates \cup {"lock"} =>
                RowOf(s) \in DOMAIN writes'[h] /\ writes'[h][RowOf(s)] = s.value
<1>1. PICK s \in Stmts :
        /\ s = todo[h][1] /\ s.do \in Statements /\ Pops(h) /\ TodoStays(h)
        /\ UNCHANGED <<inbox, db, missed, done>>
        /\ \/ s.do \in Inserts /\ Known(h, RowOf(s)) /\ UNCHANGED writes
           \/ Holds(h, RowOf(s), s.value)
  BY InsertDoes, UpdateDoes DEF Statements, IInv
<1>2. s.value # "none" /\ (s.do \in Updates \cup {"lock"} => s.do \notin Inserts)
  BY <1>1 DEF Stmts, Updates, Inserts
<1>3. PICK r : r = RowOf(s)
  OBVIOUS
<1>4. CASE s.do \in Inserts /\ Known(h, r) /\ UNCHANGED writes
  <2>1. \A g : \A q : Known(g, q) <=> Known(g, q)'
    BY <1>1, <1>4 DEF Known, Reads, Committed, db
  <2>2. \A g \in Handlers \ {h} : r \in DOMAIN writes[h] => r \notin DOMAIN writes[g]
    BY DEF IInv, Exclusive
  <2>3. /\ Pops(h) /\ TodoStays(h) /\ UNCHANGED <<inbox, db, missed, done>> /\ writes' = writes
        /\ Known(h, r)' /\ \A q : Known(h, q) => Known(h, q)'
    BY <1>1, <1>4, <2>1
  <2>4. writes' = [g \in Handlers |-> writes'[g]]
    BY <2>3 DEF IInv, Types
  <2>5. Moves(h, r, s.value)
    BY <2>2, <2>3, <2>4 DEF Moves
  <2> QED BY <1>1, <1>2, <1>3, <1>4, <2>5
<1>5. CASE Holds(h, r, s.value)
  <2>1. Known(h, r)' /\ \A q : Known(h, q) => Known(h, q)'
    BY <1>1, <1>2, <1>5, HoldsReads DEF Known
  <2>2. /\ Pops(h) /\ TodoStays(h) /\ UNCHANGED <<inbox, db, missed, done>>
    BY <1>1
  <2>3. /\ DOMAIN writes[h] \subseteq DOMAIN writes'[h]
        /\ \A q \in DOMAIN writes[h] : q # r => writes'[h][q] = writes[h][q]
        /\ \A q \in DOMAIN writes'[h] :
            \/ q \in DOMAIN writes[h] /\ writes'[h][q] = writes[h][q]
            \/ q = r /\ writes'[h][q] = s.value
        /\ \A g \in Handlers \ {h} : /\ writes'[g] = writes[g]
                                     /\ r \in DOMAIN writes'[h] => r \notin DOMAIN writes[g]
        /\ writes' = [g \in Handlers |-> writes'[g]]
    BY <1>5 DEF Holds
  <2>4. Moves(h, r, s.value)
    BY <2>1, <2>2, <2>3 DEF Moves
  <2> QED BY <1>1, <1>3, <1>5, <2>4 DEF Holds
<1> QED BY <1>1, <1>3, <1>4, <1>5

\* The statements that read, all of them.
Looks(h) == \/ FindGroup(h) \/ FindIdentity(h) \/ FindMember(h) \/ FindReturning(h)
            \/ FindLeaver(h) \/ LookForTarget(h)

LEMMA LooksDoes ==
  ASSUME IInv, NEW h \in Handlers, todo[h] # <<>>, Looks(h)
  PROVE  /\ TodoStays(h) /\ UNCHANGED <<inbox, db, writes, done>>
         /\ missed' \in [Handlers -> SUBSET People] /\ missed[h] \subseteq missed'[h]
         /\ \A g \in Handlers \ {h} : missed'[g] = missed[g]
         /\ \A g, q : Known(g, q)' <=> Known(g, q)
<1>1. \A r \in DOMAIN writes[h] : WriteOK(r, writes[h][r])
  BY DEF IInv, HandlerOK
<1>2. /\ TodoStays(h) /\ UNCHANGED <<inbox, db, writes, done>>
      /\ \/ UNCHANGED missed
         \/ \E p \in People : missed' = [missed EXCEPT ![h] = @ \cup {p}]
  BY <1>1, FindGroupDoes, FindIdentityDoes, FindMemberDoes, FindReturningDoes, FindLeaverDoes,
     LookForTargetDoes DEF Looks, IInv
<1>3. \A g, q : Known(g, q)' <=> Known(g, q)
  BY <1>2 DEF Known, Reads, Committed, db
<1>4. missed \in [Handlers -> SUBSET People]
  BY DEF IInv, Types
<1> QED BY <1>2, <1>3, <1>4

LEMMA ExecuteLooks ==
  ASSUME NEW h \in Handlers, Execute(h) PROVE todo[h] # <<>> /\ (Looks(h) \/ Insert(h) \/ Update(h))
BY DEF Execute, Looks

-----------------------------------------------------------------------------
(* A statement of h keeps what is said of h *)

LEMMA ExecuteWritten ==
  ASSUME IInv, NEW h \in Handlers, Execute(h)
  PROVE  \A r \in DOMAIN writes'[h] : WriteOK(r, writes'[h][r])
<1>1. \A r \in DOMAIN writes[h] : WriteOK(r, writes[h][r])
  BY DEF IInv, HandlerOK
<1>2. CASE Looks(h)
  BY <1>1, <1>2, ExecuteLooks, LooksDoes
<1>3. CASE Insert(h) \/ Update(h)
  <2>1. PICK s \in Stmts : s = todo[h][1] /\ s.do \in Statements /\ Moves(h, RowOf(s), s.value)
    BY <1>3, ExecuteLooks, WriteMoves
  <2>2. WriteOK(RowOf(s), s.value)
    BY <2>1, RowOfIs DEF WriteOK, Stmts, Statements, Inserts, Updates, Finding
  <2> QED BY <1>1, <2>1, <2>2 DEF Moves
<1> QED BY <1>2, <1>3, ExecuteLooks

\* Indices, apart from what the statements are.
LEMMA Indices ==
  ASSUME NEW t \in Seq(Stmts), NEW w \in Seq(Stmts), t # <<>>
  PROVE  /\ DOMAIN t = 1 .. Len(t) /\ Len(t) \in Nat \ {0}
         /\ DOMAIN w = 1 .. Len(w) /\ Len(w) \in Nat
         /\ 1 \in DOMAIN t /\ \A i \in DOMAIN w : i \in Nat \ {0}
OBVIOUS

LEMMA PoppedFollows ==
  ASSUME NEW t \in Seq(Stmts), NEW w \in Seq(Stmts), t # <<>>, Popped(t, w), Follows(t)
  PROVE  Follows(w)
<1>1. /\ Len(w) = Len(t) - 1 /\ Len(t) \in Nat \ {0} /\ DOMAIN w = 1 .. Len(w)
      /\ \A i \in DOMAIN w : i + 1 \in DOMAIN t /\ w[i] = t[i + 1]
  BY Indices DEF Popped
<1>2. ASSUME NEW i \in DOMAIN w
      PROVE  /\ i > 1 => w[i].do \in Later
             /\ w[i].do \in {"leave", "mark"} => i = Len(w)
  <2>1. i \in Nat /\ i + 1 \in DOMAIN t /\ w[i] = t[i + 1] /\ (i > 1 => i + 1 > 1 /\ i + 1 # 2)
    BY <1>1
  <2>2. i > 1 => t[i + 1].do \in Later
    BY <2>1 DEF Follows
  <2>3. t[i + 1].do \in {"leave", "mark"} => i + 1 = Len(t)
    BY <2>1 DEF Follows
  <2> QED BY <1>1, <2>1, <2>2, <2>3
<1> QED BY <1>2 DEF Follows

LEMMA SwappedFollows ==
  ASSUME NEW t \in Seq(Stmts), NEW w \in Seq(Stmts), t # <<>>, NEW x \in Stmts, Swapped(t, w, x),
         Follows(t), t[1].do \notin {"insert_identity", "refresh"}, x.do # "leave",
         x.do = "mark" => t[1].do = "leave"
  PROVE  Follows(w)
<1>1. Len(w) = Len(t) /\ w[1] = x /\ \A i \in DOMAIN w : i # 1 => i \in DOMAIN t /\ w[i] = t[i]
  BY DEF Swapped
<1>2. 1 \in DOMAIN t
  BY Indices
<1>3. ASSUME NEW i \in DOMAIN w
      PROVE  /\ i > 1 => w[i].do \in Later
             /\ w[i].do \in {"leave", "mark"} => i = Len(w)
  <2>1. CASE i = 1
    <3>1. w[i] = x /\ (t[1].do = "leave" => 1 = Len(t))
      BY <1>1, <1>2, <2>1 DEF Follows
    <3> QED BY <1>1, <2>1, <3>1
  <2>2. CASE i # 1
    <3>1. i \in DOMAIN t /\ w[i] = t[i] /\ i > 1
      BY <1>1, <2>2, Indices
    <3> QED BY <1>1, <3>1 DEF Follows
  <2> QED BY <2>1, <2>2
<1> QED BY <1>3 DEF Follows

LEMMA ExpandedFollows ==
  ASSUME NEW t \in Seq(Stmts), NEW w \in Seq(Stmts), t # <<>>, NEW x \in Stmts, NEW y \in Stmts,
         Expanded(t, w, x, y), Follows(t), t[1].do = "find",
         y.do = "find_member", x.do \in {"insert_identity", "refresh"}, x.who = y.who
  PROVE  Follows(w)
<1>1. /\ Len(w) = Len(t) + 1 /\ Len(t) \in Nat \ {0} /\ DOMAIN w = 1 .. Len(w)
      /\ w[1] = x /\ w[2] = y
      /\ \A i \in DOMAIN w : i \notin {1, 2} => i - 1 \in DOMAIN t /\ i - 1 # 1 /\ w[i] = t[i - 1]
      /\ \A i \in DOMAIN w : i \in Nat \ {0}
  BY Indices DEF Expanded
<1>2. ASSUME NEW i \in DOMAIN w
      PROVE  /\ i \notin {1, 2} => w[i].do \in Later
             /\ w[i].do \in {"leave", "mark"} => i = Len(w)
  <2>1. CASE i \in {1, 2}
    BY <1>1, <2>1
  <2>2. CASE i \notin {1, 2}
    <3>0. i \in Nat \ {0} /\ i # 1 /\ i # 2
      BY <1>1, <2>2
    <3>1. i \in Nat /\ i - 1 \in DOMAIN t /\ i - 1 > 1 /\ w[i] = t[i - 1]
      BY <1>1, <3>0
    <3>2. t[i - 1].do \in Later
      BY <3>1, <2>2 DEF Follows
    <3>3. t[i - 1].do \in {"leave", "mark"} => i - 1 = Len(t)
      BY <3>1 DEF Follows
    <3> QED BY <1>1, <3>1, <3>2, <3>3
  <2> QED BY <2>1, <2>2
<1>3. ASSUME NEW i \in DOMAIN w, i > 1
      PROVE  \/ w[i].do \in Later
             \/ /\ i = 2 /\ w[2].do = "find_member" /\ w[2].who = w[1].who
                /\ w[1].do \in {"insert_identity", "refresh"}
  <2>1. i # 1
    BY <1>1, <1>3
  <2> QED BY <1>1, <1>2, <2>1
<1> QED BY <1>2, <1>3 DEF Follows

LEMMA AppendedFollows ==
  ASSUME NEW t \in Seq(Stmts), NEW w \in Seq(Stmts), t # <<>>, NEW x \in Stmts, Appended(t, w, x),
         Follows(t), \A i \in DOMAIN t : t[i].do \notin {"leave", "mark"},
         t[1].do = "find_member", x.do = "late_back"
  PROVE  Follows(w)
<1>1. /\ Len(w) = Len(t) /\ Len(t) \in Nat \ {0} /\ DOMAIN w = 1 .. Len(w) /\ w[Len(t)] = x
      /\ \A i \in DOMAIN w : i # Len(t) => i + 1 \in DOMAIN t /\ w[i] = t[i + 1]
  BY Indices DEF Appended
<1>2. ASSUME NEW i \in DOMAIN w
      PROVE  /\ i > 1 => w[i].do \in Later
             /\ w[i].do \notin {"leave", "mark"}
  <2>1. CASE i = Len(t)
    BY <1>1, <2>1 DEF Later
  <2>2. CASE i # Len(t)
    <3>1. i \in Nat /\ i + 1 \in DOMAIN t /\ w[i] = t[i + 1] /\ (i > 1 => i + 1 > 1 /\ i + 1 # 2)
      BY <1>1, <2>2
    <3>2. i > 1 => t[i + 1].do \in Later
      BY <3>1 DEF Follows
    <3> QED BY <3>1, <3>2
  <2> QED BY <2>1, <2>2
<1> QED BY <1>2 DEF Follows

LEMMA ExecuteShape ==
  ASSUME IInv, NEW h \in Handlers, Execute(h) PROVE Shape(h)'
<1>1. /\ Types /\ Follows(todo[h]) /\ todo[h] # <<>> /\ todo[h] \in Seq(Stmts)
      /\ \A r \in DOMAIN writes[h] : WriteOK(r, writes[h][r])
  BY ExecuteLooks DEF IInv, HandlerOK, Shape, Types
<1>2. todo'[h] \in Seq(Stmts)
  BY <1>1, ExecuteLooks, LooksDoes, WriteMoves DEF TodoStays, Moves
<1>3. ASSUME Pops(h) PROVE Shape(h)'
  BY <1>1, <1>2, <1>3, PoppedFollows DEF Pops, Shape
<1>4. ASSUME NEW x \in Stmts, Swaps(h, x), todo[h][1].do \notin {"insert_identity", "refresh"},
             x.do = "mark" => todo[h][1].do = "leave", x.do # "leave"
      PROVE  Shape(h)'
  BY <1>1, <1>2, <1>4, SwappedFollows DEF Swaps, Shape
<1>5. ASSUME NEW x \in Stmts, NEW y \in Stmts, Expands(h, x, y), todo[h][1].do = "find",
             y.do = "find_member", x.do \in {"insert_identity", "refresh"}, x.who = y.who
      PROVE  Shape(h)'
  BY <1>1, <1>2, <1>5, ExpandedFollows DEF Expands, Shape
<1>6. CASE FindGroup(h)
  BY <1>1, <1>3, <1>4, <1>6, FindGroupDoes
<1>7. CASE FindIdentity(h)
  BY <1>1, <1>4, <1>5, <1>7, FindIdentityDoes
<1>8. CASE FindMember(h)
  BY <1>1, <1>3, <1>4, <1>8, FindMemberDoes
<1>9. CASE FindLeaver(h)
  BY <1>1, <1>3, <1>4, <1>9, FindLeaverDoes
<1>12. CASE FindReturning(h)
  <2>1. PICK x \in Stmts : /\ x.do = "late_back" /\ Appends(h, x) /\ todo[h][1].do = "find_member"
                           /\ inbox[h].kind = "toggle"
    BY <1>1, <1>12, FindReturningDoes
  <2>2. \A i \in DOMAIN todo[h] : todo[h][i].do \notin {"leave", "mark"}
    BY <2>1 DEF IInv, HandlerOK, Climbs, Plain
  <2> QED BY <1>1, <1>2, <2>1, <2>2, AppendedFollows DEF Appends, Shape
<1>10. CASE LookForTarget(h)
  BY <1>1, <1>3, <1>4, <1>10, LookForTargetDoes
<1>11. CASE Insert(h) \/ Update(h)
  BY <1>1, <1>3, <1>11, WriteMoves DEF Moves
<1> QED BY <1>6, <1>7, <1>8, <1>9, <1>10, <1>11, <1>12, ExecuteLooks DEF Looks

\* What every proof below starts from.
LEMMA Setting ==
  ASSUME IInv, NEW h \in Handlers, Execute(h)
  PROVE  /\ Types /\ HandlerOK(h) /\ todo[h] # <<>> /\ todo[h] \in Seq(Stmts)
         /\ todo[h][1] \in Stmts /\ 1 \in DOMAIN todo[h] /\ todo'[h] \in Seq(Stmts)
         /\ \A r \in DOMAIN writes[h] : WriteOK(r, writes[h][r])
         /\ UNCHANGED <<inbox, db, done>> /\ \A q : Known(h, q) => Known(h, q)'
         /\ todo' \in [Handlers -> Seq(Stmts)]
         /\ \A g \in Handlers \ {h} : todo'[g] = todo[g] /\ writes'[g] = writes[g]
<1>1. /\ Types /\ HandlerOK(h) /\ todo[h] # <<>> /\ \A r \in DOMAIN writes[h] : WriteOK(r, writes[h][r])
  BY ExecuteLooks DEF IInv, HandlerOK
<1>2. todo[h] \in Seq(Stmts) /\ todo[h][1] \in Stmts /\ 1 \in DOMAIN todo[h]
  BY <1>1, Heads
<1>3. /\ TodoStays(h) /\ UNCHANGED <<inbox, db, done>> /\ \A q : Known(h, q) => Known(h, q)'
      /\ \A g \in Handlers \ {h} : writes'[g] = writes[g]
  <2>1. CASE Looks(h)
    BY <1>1, <2>1, LooksDoes
  <2>2. CASE Insert(h) \/ Update(h)
    BY <1>1, <2>2, WriteMoves DEF Moves
  <2> QED BY <2>1, <2>2, ExecuteLooks
<1> QED BY <1>1, <1>2, <1>3 DEF TodoStays

LEMMA NextHead ==
  ASSUME NEW t \in Seq(Stmts), NEW w \in Seq(Stmts), t # <<>>, Popped(t, w), Follows(t), w # <<>>
  PROVE  \/ w[1].do \in Later
         \/ /\ w[1].do = "find_member" /\ w[1].who = t[1].who
            /\ t[1].do \in {"insert_identity", "refresh"}
<1>1. 1 \in DOMAIN w
  BY Indices
<1>2. 1 + 1 \in DOMAIN t /\ w[1] = t[1 + 1]
  BY <1>1 DEF Popped
<1>3. 2 \in DOMAIN t /\ w[1] = t[2]
  BY <1>2
<1> QED BY <1>3 DEF Follows

LEMMA SwapHead ==
  ASSUME NEW h \in Handlers, todo[h] # <<>>, todo[h] \in Seq(Stmts), todo'[h] \in Seq(Stmts),
         NEW x, Swaps(h, x) \/ \E y : Expands(h, x, y)
  PROVE  todo'[h] # <<>> /\ todo'[h][1] = x
<1>1. Len(todo[h]) \in Nat \ {0} /\ Len(todo'[h]) \in Nat \ {0}
  BY DEF Swaps, Swapped, Expands, Expanded
<1> QED BY <1>1 DEF Swaps, Swapped, Expands, Expanded

LEMMA AppendHead ==
  ASSUME NEW t \in Seq(Stmts), NEW w \in Seq(Stmts), t # <<>>, NEW x, Appended(t, w, x), Follows(t),
         t[1].do = "find_member", x.do = "late_back"
  PROVE  w[1].do \in Later
<1>1. /\ Len(t) \in Nat \ {0} /\ w[Len(t)] = x /\ 1 \in DOMAIN w
      /\ \A i \in DOMAIN w : i # Len(t) => i + 1 \in DOMAIN t /\ w[i] = t[i + 1]
  BY Indices DEF Appended
<1>2. CASE Len(t) = 1
  BY <1>1, <1>2 DEF Later
<1>3. CASE Len(t) # 1
  <2>1. 1 + 1 \in DOMAIN t /\ w[1] = t[1 + 1]
    BY <1>1, <1>3
  <2>2. 2 \in DOMAIN t /\ w[1] = t[2]
    BY <2>1
  <2> QED BY <2>2 DEF Follows
<1> QED BY <1>2, <1>3

LEMMA ExecuteOrdered ==
  ASSUME IInv, NEW h \in Handlers, Execute(h) PROVE Ordered(h)'
<1>1. /\ Types /\ todo[h] # <<>> /\ todo[h] \in Seq(Stmts) /\ todo'[h] \in Seq(Stmts)
      /\ Follows(todo[h]) /\ Ordered(h)
      /\ \A r \in DOMAIN writes[h] : WriteOK(r, writes[h][r])
      /\ \A q : Known(h, q) => Known(h, q)'
  BY Setting DEF HandlerOK, Shape
<1>2. PICK s \in Stmts : s = todo[h][1]
  BY Setting
<1>3. /\ Known(h, GroupRow) \/ s.do \in {"group", "insert_group"}
      /\ s.do \in {"find_member", "insert_member"} => Known(h, IdentityRow(s.who))
  BY <1>1, <1>2 DEF Ordered
<1>4. ASSUME Pops(h), Known(h, GroupRow)',
             s.do \in {"insert_identity", "refresh"} => Known(h, IdentityRow(s.who))'
      PROVE  Ordered(h)'
  <2>1. \/ todo'[h] = <<>>
        \/ todo'[h][1].do \in Later
        \/ /\ todo'[h][1].do = "find_member" /\ todo'[h][1].who = s.who
           /\ s.do \in {"insert_identity", "refresh"}
    BY <1>1, <1>2, <1>4, NextHead DEF Pops
  <2> QED BY <1>4, <2>1 DEF Ordered, Later
<1>5. ASSUME NEW x \in Stmts, Swaps(h, x) \/ \E y : Expands(h, x, y),
             Known(h, GroupRow)' \/ x.do = "insert_group",
             x.do \in {"find_member", "insert_member"} => Known(h, IdentityRow(x.who))',
             x.do \in {"back", "mark"} => Known(h, MemberRow(x.who))'
      PROVE  Ordered(h)'
  <2>1. todo'[h] # <<>> /\ todo'[h][1] = x
    BY <1>1, <1>5, SwapHead
  <2> QED BY <1>5, <2>1 DEF Ordered
<1>6. CASE FindGroup(h)
  BY <1>1, <1>2, <1>4, <1>5, <1>6, FindGroupDoes
<1>7. CASE FindIdentity(h)
  BY <1>1, <1>2, <1>3, <1>5, <1>7, FindIdentityDoes
<1>8. CASE FindMember(h)
  BY <1>1, <1>2, <1>3, <1>4, <1>5, <1>8, FindMemberDoes
<1>9. CASE FindLeaver(h)
  BY <1>1, <1>2, <1>3, <1>4, <1>5, <1>9, FindLeaverDoes
<1>10. CASE LookForTarget(h)
  BY <1>1, <1>2, <1>3, <1>4, <1>5, <1>10, LookForTargetDoes
<1>11. CASE Insert(h) \/ Update(h)
  <2>1. s.do \in Statements /\ Pops(h) /\ Known(h, RowOf(s))'
    BY <1>1, <1>2, <1>11, WriteMoves DEF Moves
  <2>2. Known(h, GroupRow)'
    BY <1>1, <1>3, <2>1, RowOfIs DEF Statements, Inserts, Updates
  <2>3. s.do \in {"insert_identity", "refresh"} => Known(h, IdentityRow(s.who))'
    BY <2>1, RowOfIs
  <2> QED BY <1>4, <2>1, <2>2, <2>3
<1>12. CASE FindReturning(h)
  <2>1. PICK x \in Stmts : /\ x.do = "late_back" /\ Appends(h, x) /\ todo[h][1].do = "find_member"
    BY <1>1, <1>12, FindReturningDoes
  <2>2. todo'[h] # <<>> => todo'[h][1].do \in Later
    BY <1>1, <2>1, AppendHead DEF Appends
  <2>3. Known(h, GroupRow)'
    BY <1>1, <1>2, <1>3, <2>1
  <2> QED BY <2>2, <2>3 DEF Ordered, Later
<1> QED BY <1>1, <1>6, <1>7, <1>8, <1>9, <1>10, <1>11, <1>12, ExecuteLooks DEF Looks

\* What was left but for the first statement is left still, and nothing else is but
\* what the first one was replaced by.
LEMMA Kept ==
  ASSUME NEW h \in Handlers, NEW x, NEW y,
         Pops(h) \/ Swaps(h, x) \/ Expands(h, x, y) \/ Appends(h, x)
  PROVE  /\ \A i \in DOMAIN todo[h] : i # 1 => \E j \in DOMAIN todo'[h] : todo'[h][j] = todo[h][i]
         /\ \A j \in DOMAIN todo'[h] :
              \/ \E i \in DOMAIN todo[h] : todo'[h][j] = todo[h][i]
              \/ ~ Pops(h) /\ todo'[h][j] = x
              \/ Expands(h, x, y) /\ todo'[h][j] = y
BY DEF Pops, Popped, Swaps, Swapped, Expands, Expanded, Appends, Appended

LEMMA ExecuteReturns ==
  ASSUME IInv, NEW h \in Handlers, Execute(h) PROVE Returns(h)'
<1>1. /\ Types /\ Returns(h) /\ todo[h] # <<>> /\ inbox' = inbox
      /\ \A r \in DOMAIN writes[h] : WriteOK(r, writes[h][r])
      /\ \A q : Known(h, q) => Known(h, q)'
  BY Setting DEF HandlerOK
<1>6. PICK M : M = {p \in People : Known(h, MemberRow(p))'}
  OBVIOUS
<1>7. PICK b \in BOOLEAN : b <=> inbox[h].kind = "toggle"
  OBVIOUS
<1>8. \A x \in Stmts : x.do = "late_back" => x.who \in People
  BY DEF Stmts, Finding
<1> DEFINE Fine(x) == x.do = "late_back" => x.who \in M /\ b
<1>2. \A i \in DOMAIN todo[h] : Fine(todo[h][i])
  BY <1>1, <1>6, <1>7, <1>8 DEF Returns, Types
<1>3. \/ Pops(h)
      \/ \E x \in Stmts : Fine(x) /\ (Swaps(h, x) \/ Appends(h, x))
      \/ \E x \in Stmts, y \in Stmts : Fine(x) /\ Fine(y) /\ Expands(h, x, y)
  <2>1. ASSUME NEW x, x.do # "late_back" PROVE Fine(x)
    BY <2>1
  <2>2. ASSUME NEW x \in Stmts, inbox[h].kind = "toggle", Known(h, MemberRow(x.who)) PROVE Fine(x)
    BY <1>1, <1>6, <1>7, <1>8, <2>2
  <2> HIDE DEF Fine
  <2>3. CASE FindGroup(h) \/ FindLeaver(h) \/ LookForTarget(h)
    BY <1>1, <2>1, <2>3, FindGroupDoes, FindLeaverDoes, LookForTargetDoes
  <2>4. CASE FindIdentity(h)
    <3>1. PICK y \in Stmts :
            /\ y.do = "find_member"
            /\ \/ Swaps(h, y)
               \/ \E x \in Stmts : x.do \in {"insert_identity", "refresh"} /\ Expands(h, x, y)
      BY <1>1, <2>4, FindIdentityDoes
    <3> QED BY <2>1, <3>1
  <2>5. CASE FindMember(h)
    BY <1>1, <2>1, <2>5, FindMemberDoes
  <2>6. CASE FindReturning(h)
    BY <1>1, <2>2, <2>6, FindReturningDoes
  <2>7. CASE Insert(h) \/ Update(h)
    BY <1>1, <2>7, WriteMoves DEF Moves
  <2> QED BY <2>3, <2>4, <2>5, <2>6, <2>7, ExecuteLooks DEF Looks
<1>4. \A j \in DOMAIN todo'[h] : Fine(todo'[h][j])
  <2> HIDE DEF Fine
  <2>1. ASSUME NEW x, NEW y, Pops(h) \/ Swaps(h, x) \/ Expands(h, x, y) \/ Appends(h, x),
               Pops(h) \/ Fine(x), Expands(h, x, y) => Fine(y)
        PROVE  \A j \in DOMAIN todo'[h] : Fine(todo'[h][j])
    <3>1. \A j \in DOMAIN todo'[h] : \/ \E i \in DOMAIN todo[h] : todo'[h][j] = todo[h][i]
                                     \/ ~ Pops(h) /\ todo'[h][j] = x
                                     \/ Expands(h, x, y) /\ todo'[h][j] = y
      BY <2>1, Kept
    <3> QED BY <1>2, <2>1, <3>1
  <2>2. CASE Pops(h)
    BY <1>2, <2>2 DEF Pops, Popped
  <2>3. ASSUME NEW x \in Stmts, Fine(x), Swaps(h, x) \/ Appends(h, x)
        PROVE  \A j \in DOMAIN todo'[h] : Fine(todo'[h][j])
    BY <2>1, <2>3
  <2>4. ASSUME NEW x \in Stmts, NEW y \in Stmts, Fine(x), Fine(y), Expands(h, x, y)
        PROVE  \A j \in DOMAIN todo'[h] : Fine(todo'[h][j])
    BY <2>1, <2>4
  <2> QED BY <1>3, <2>2, <2>3, <2>4
<1>5. \A j \in DOMAIN todo'[h] : \A p : todo'[h][j].do = "late_back" /\ p = todo'[h][j].who =>
        Known(h, MemberRow(p))' /\ inbox'[h].kind = "toggle"
  BY <1>1, <1>4, <1>6, <1>7
<1> QED BY <1>5 DEF Returns

LEMMA ExecuteLinked ==
  ASSUME IInv, NEW h \in Handlers, Execute(h) PROVE Linked(h)'
<1>1. /\ Types /\ Linked(h) /\ Ordered(h) /\ Returns(h) /\ todo[h] # <<>> /\ 1 \in DOMAIN todo[h]
      /\ \A q : Known(h, q) => Known(h, q)'
  BY Setting DEF HandlerOK
<1>2. CASE Looks(h)
  BY <1>1, <1>2, LooksDoes DEF Linked
<1>3. CASE Insert(h) \/ Update(h)
  <2>1. PICK s \in Stmts : s = todo[h][1] /\ s.do \in Statements /\ Moves(h, RowOf(s), s.value)
    BY <1>1, <1>3, WriteMoves
  <2> SUFFICES ASSUME NEW p \in People, MemberRow(p) \in DOMAIN writes'[h]
               PROVE  Known(h, IdentityRow(p))' /\ Known(h, GroupRow)'
    BY DEF Linked
  <2>2. CASE MemberRow(p) \in DOMAIN writes[h]
    BY <1>1, <2>2 DEF Linked
  <2>3. CASE MemberRow(p) = RowOf(s)
    <3>1. s.do \in {"insert_member", "back", "late_back", "mark"} /\ s.who = p
      BY <2>1, <2>3, RowOfIs, RowsDiffer DEF Statements, Inserts, Updates
    <3>2. Known(h, GroupRow)
      BY <1>1, <2>1, <3>1 DEF Ordered
    <3>3. CASE s.do = "insert_member"
      BY <1>1, <2>1, <3>1, <3>2, <3>3 DEF Ordered
    <3>4. CASE s.do \in {"back", "late_back", "mark"}
      <4>1. Known(h, MemberRow(p))
        BY <1>1, <2>1, <3>1, <3>4 DEF Ordered, Returns
      <4>2. MemberRow(p) \in DOMAIN writes[h] \/ member[p] # "none"
        BY <4>1, CommittedIs DEF Known, Reads
      <4>3. CASE member[p] # "none"
        <5>1. name[p] # "none"
          BY <4>3 DEF IInv, Rooted
        <5>2. Known(h, IdentityRow(p))
          <6>1. \A v : WriteOK(IdentityRow(p), v) => v # "none"
            BY RowsDiffer DEF WriteOK
          <6> QED BY <5>1, <6>1, Setting, CommittedIs DEF Known, Reads
        <5> QED BY <1>1, <3>2, <5>2
      <4> QED BY <1>1, <4>2, <4>3 DEF Linked
    <3> QED BY <3>1, <3>3, <3>4
  <2> QED BY <2>1, <2>2, <2>3 DEF Moves
<1> QED BY <1>2, <1>3, ExecuteLooks

LEMMA Replaced ==
  ASSUME NEW h \in Handlers, todo[h] \in Seq(Stmts), todo[h] # <<>>, todo'[h] \in Seq(Stmts),
         NEW x, NEW y, Swaps(h, x) \/ Expands(h, x, y)
  PROVE  /\ \E j \in DOMAIN todo'[h] : todo'[h][j] = x
         /\ Expands(h, x, y) => \E j \in DOMAIN todo'[h] : todo'[h][j] = y
<1>1. Len(todo[h]) \in Nat \ {0} /\ DOMAIN todo'[h] = 1 .. Len(todo'[h])
  OBVIOUS
<1>2. 1 \in DOMAIN todo'[h] /\ todo'[h][1] = x
  BY <1>1 DEF Swaps, Swapped, Expands, Expanded
<1>3. Expands(h, x, y) => 2 \in DOMAIN todo'[h] /\ todo'[h][2] = y
  BY <1>1 DEF Expands, Expanded
<1> QED BY <1>2, <1>3

Promises == {"find", "look", "find_member", "insert_member"}

LEMMA ExecuteRegisters ==
  ASSUME IInv, NEW h \in Handlers, Execute(h) PROVE Registers(h)'
<1>1. /\ Types /\ todo[h] # <<>> /\ todo[h] \in Seq(Stmts) /\ todo'[h] \in Seq(Stmts)
      /\ Registers(h) /\ \A r \in DOMAIN writes[h] : WriteOK(r, writes[h][r])
      /\ \A q : Known(h, q) => Known(h, q)'
      /\ \A p : Expects(h, p)' <=> Expects(h, p)
  BY Setting DEF HandlerOK, Expects
<1>2. PICK s \in Stmts : s = todo[h][1]
  BY Setting
<1> SUFFICES ASSUME NEW p \in People, Expects(h, p), ~ Known(h, MemberRow(p))'
             PROVE  \E j \in DOMAIN todo'[h] : todo'[h][j].who = p /\ todo'[h][j].do \in Promises
  BY <1>1 DEF Registers, Promises
<1>3. PICK i \in DOMAIN todo[h] : todo[h][i].who = p /\ todo[h][i].do \in Promises
  BY <1>1 DEF Registers, Promises
<1>4. ASSUME i = 1 PROVE s.who = p /\ s.do \in Promises
  BY <1>2, <1>3, <1>4
<1>5. CASE FindGroup(h)
  <2>1. i # 1
    BY <1>1, <1>2, <1>4, <1>5, FindGroupDoes DEF Promises
  <2>2. Pops(h) \/ \E x \in Stmts : Swaps(h, x)
    BY <1>1, <1>5, FindGroupDoes
  <2> QED BY <1>3, <2>1, <2>2, Kept
<1>6. CASE FindIdentity(h)
  <2>1. PICK y \in Stmts : /\ y.do = "find_member" /\ y.who = s.who
                           /\ Swaps(h, y) \/ \E x \in Stmts : Expands(h, x, y)
    BY <1>1, <1>2, <1>6, FindIdentityDoes
  <2>2. CASE i # 1
    BY <1>3, <2>1, <2>2, Kept
  <2>3. CASE i = 1
    BY <1>1, <1>4, <2>1, <2>3, Replaced DEF Promises
  <2> QED BY <2>2, <2>3
<1>7. CASE FindMember(h)
  <2>1. \/ Pops(h) /\ Known(h, MemberRow(s.who))
        \/ \E x \in Stmts : /\ x.who = s.who /\ Swaps(h, x)
                            /\ x.do = "insert_member" \/ Known(h, MemberRow(x.who))
    BY <1>1, <1>2, <1>7, FindMemberDoes
  <2>2. CASE i # 1
    BY <1>3, <2>1, <2>2, Kept
  <2>3. CASE i = 1
    BY <1>1, <1>4, <2>1, <2>3, Replaced DEF Promises
  <2> QED BY <2>2, <2>3
<1>8. CASE FindLeaver(h)
  <2>1. i # 1
    BY <1>1, <1>2, <1>4, <1>8, FindLeaverDoes DEF Promises
  <2>2. Pops(h) \/ \E x \in Stmts : Swaps(h, x)
    BY <1>1, <1>8, FindLeaverDoes
  <2> QED BY <1>3, <2>1, <2>2, Kept
<1>9. CASE LookForTarget(h)
  <2>1. \/ Pops(h) /\ Known(h, MemberRow(s.who))
        \/ \E x \in Stmts : x.who = s.who /\ Swaps(h, x) /\ x.do = "find"
    BY <1>1, <1>2, <1>9, LookForTargetDoes
  <2>2. CASE i # 1
    BY <1>3, <2>1, <2>2, Kept
  <2>3. CASE i = 1
    BY <1>1, <1>4, <2>1, <2>3, Replaced DEF Promises
  <2> QED BY <2>2, <2>3
<1>11. CASE FindReturning(h)
  <2>1. Known(h, MemberRow(s.who)) /\ \E x \in Stmts : Appends(h, x)
    BY <1>1, <1>2, <1>11, FindReturningDoes
  <2>2. CASE i # 1
    BY <1>3, <2>1, <2>2, Kept
  <2>3. CASE i = 1
    BY <1>1, <1>4, <2>1, <2>3
  <2> QED BY <2>2, <2>3
<1>10. CASE Insert(h) \/ Update(h)
  <2>1. s.do \in Statements /\ Pops(h) /\ Known(h, RowOf(s))'
    BY <1>1, <1>2, <1>10, WriteMoves DEF Moves
  <2>2. CASE i # 1
    BY <1>3, <2>1, <2>2, Kept
  <2>3. CASE i = 1
    <3>1. s.do = "insert_member" /\ s.who = p
      BY <1>4, <2>1, <2>3 DEF Promises, Statements, Inserts, Updates
    <3> QED BY <2>1, <3>1, RowOfIs
  <2> QED BY <2>2, <2>3
<1> QED BY <1>5, <1>6, <1>7, <1>8, <1>9, <1>10, <1>11, ExecuteLooks DEF Looks

LEMMA ExecuteEntitled ==
  ASSUME IInv, NEW h \in Handlers, Execute(h) PROVE Entitled(h)'
<1>1. /\ Types /\ todo[h] # <<>> /\ todo[h] \in Seq(Stmts) /\ todo'[h] \in Seq(Stmts)
      /\ Entitled(h) /\ \A r \in DOMAIN writes[h] : WriteOK(r, writes[h][r])
      /\ inbox' = inbox
  BY Setting DEF HandlerOK
<1>2. PICK s \in Stmts : s = todo[h][1] /\ 1 \in DOMAIN todo[h]
  BY Setting
<1>3. missed[h] \subseteq missed'[h]
  BY <1>1, ExecuteLooks, LooksDoes, WriteMoves DEF Moves
<1>4. \A p : MayRegister(h, p) => MayRegister(h, p)'
  BY <1>1, <1>3 DEF MayRegister, Speaks
<1>5. PICK M : M = {p \in People : MayRegister(h, p)'}
  OBVIOUS
<1>6. PICK b \in BOOLEAN : b <=> inbox[h].kind = "setup"
  OBVIOUS
<1> DEFINE Fine(x) == (Registering(x) => x.who \in M) /\ (x.do = "look" => b)
<1>7. \A i \in DOMAIN todo[h] : Fine(todo[h][i])
  <2>1. \A i \in DOMAIN todo[h] : Registering(todo[h][i]) => todo[h][i].who \in People
    <3>1. \A x \in Stmts : Registering(x) => x.who \in People
      BY DEF Registering, Registrations, Stmts, Finding
    <3>2. \A i \in DOMAIN todo[h] : todo[h][i] \in Stmts
      BY <1>1
    <3> QED BY <3>1, <3>2
  <2> QED BY <1>5, <1>6, <1>1, <1>4, <2>1 DEF Entitled, Registering, Registrations
<1>8. Fine(s)
  BY <1>2, <1>7
<1>9. Pops(h) \/ \E x \in Stmts, y \in Stmts : /\ Swaps(h, x) \/ Expands(h, x, y) \/ Appends(h, x)
                                               /\ Fine(x) /\ (Expands(h, x, y) => Fine(y))
  <2>1. ASSUME NEW x, x.do \in {"insert_group", "mark"} PROVE Fine(x)
    BY <2>1 DEF Registering, Registrations, Finding
  <2>2. ASSUME NEW x, x.who = s.who, Registering(s), Registering(x) PROVE Fine(x)
    BY <1>8, <2>2 DEF Registering, Registrations, Finding
  <2> HIDE DEF Fine
  <2>3. CASE FindGroup(h)
    BY <1>1, <2>1, <2>3, FindGroupDoes
  <2>4. CASE FindIdentity(h)
    <3>1. Registering(s)
      BY <1>1, <1>2, <2>4, FindIdentityDoes DEF Registering, Registrations, Finding
    <3>2. PICK y \in Stmts :
            /\ y.do = "find_member" /\ y.who = s.who
            /\ \/ Swaps(h, y)
               \/ \E x \in Stmts : /\ x.do \in {"insert_identity", "refresh"} /\ x.who = y.who
                                   /\ Expands(h, x, y)
      BY <1>1, <1>2, <2>4, FindIdentityDoes
    <3>3. Fine(y)
      BY <2>2, <3>1, <3>2 DEF Registering, Registrations, Finding
    <3>4. ASSUME NEW x \in Stmts, x.do \in {"insert_identity", "refresh"}, x.who = y.who PROVE Fine(x)
      BY <2>2, <3>1, <3>2, <3>4 DEF Registering, Registrations, Finding
    <3> QED BY <3>2, <3>3, <3>4
  <2>5. CASE FindMember(h)
    <3>1. Registering(s)
      BY <1>1, <1>2, <2>5, FindMemberDoes DEF Registering, Registrations, Finding
    <3>2. \/ Pops(h)
          \/ \E x \in Stmts : /\ x.who = s.who /\ Swaps(h, x) /\ x.do \in {"insert_member", "back"}
      BY <1>1, <1>2, <2>5, FindMemberDoes
    <3>3. ASSUME NEW x \in Stmts, x.do \in {"insert_member", "back"}, x.who = s.who PROVE Fine(x)
      BY <2>2, <3>1, <3>3 DEF Registering, Registrations
    <3> QED BY <3>2, <3>3
  <2>9. CASE FindReturning(h)
    <3>1. /\ Registering(s)
          /\ \E x \in Stmts : x.who = s.who /\ Appends(h, x) /\ x.do = "late_back"
      BY <1>1, <1>2, <2>9, FindReturningDoes DEF Registering, Registrations, Finding
    <3>2. ASSUME NEW x \in Stmts, x.do = "late_back", x.who = s.who PROVE Fine(x)
      BY <2>2, <3>1, <3>2 DEF Registering, Registrations
    <3> QED BY <3>1, <3>2
  <2>6. CASE FindLeaver(h)
    BY <1>1, <2>1, <2>6, FindLeaverDoes
  <2>7. CASE LookForTarget(h)
    <3>1. \/ Pops(h)
          \/ \E x \in Stmts : /\ x.do = "find" /\ x.who = s.who /\ Swaps(h, x)
                              /\ missed' = [missed EXCEPT ![h] = @ \cup {x.who}]
      BY <1>1, <1>2, <2>7, LookForTargetDoes
    <3>2. ASSUME NEW x \in Stmts, x.do = "find", missed' = [missed EXCEPT ![h] = @ \cup {x.who}]
          PROVE  Fine(x)
      <4>1. inbox'[h].kind = "setup" /\ x.who \in missed'[h]
        BY <1>6, <1>1, <1>2, <1>8, <2>7, <3>2, LookForTargetDoes DEF Fine, Types
      <4>2. MayRegister(h, x.who)' /\ x.who \in People
        BY <3>2, <4>1 DEF MayRegister, Stmts, Finding
      <4> QED BY <1>5, <3>2, <4>2 DEF Fine
    <3> QED BY <3>1, <3>2
  <2>8. CASE Insert(h) \/ Update(h)
    BY <1>1, <2>8, WriteMoves DEF Moves
  <2> QED BY <2>3, <2>4, <2>5, <2>6, <2>7, <2>8, <2>9, ExecuteLooks DEF Looks
<1>10. \A j \in DOMAIN todo'[h] : Fine(todo'[h][j])
  <2> HIDE DEF Fine
  <2>1. CASE Pops(h)
    <3>1. \A j \in DOMAIN todo'[h] : \E i \in DOMAIN todo[h] : todo'[h][j] = todo[h][i]
      BY <2>1 DEF Pops, Popped
    <3> QED BY <1>7, <3>1
  <2>2. ASSUME NEW x \in Stmts, NEW y \in Stmts,
               Swaps(h, x) \/ Expands(h, x, y) \/ Appends(h, x), Fine(x), Expands(h, x, y) => Fine(y)
        PROVE  \A j \in DOMAIN todo'[h] : Fine(todo'[h][j])
    <3>1. \A j \in DOMAIN todo'[h] : \/ \E i \in DOMAIN todo[h] : todo'[h][j] = todo[h][i]
                                     \/ todo'[h][j] = x
                                     \/ Expands(h, x, y) /\ todo'[h][j] = y
      BY <2>2, Kept
    <3> QED BY <1>7, <2>2, <3>1
  <2> QED BY <1>9, <2>1, <2>2
<1>11. ASSUME NEW p \in People
      PROVE  /\ IdentityRow(p) \in DOMAIN writes'[h] => MayRegister(h, p)'
             /\ MemberRow(p) \in DOMAIN writes'[h] /\ writes'[h][MemberRow(p)] = "in" =>
                  MayRegister(h, p)'
  <2>1. CASE Looks(h)
    BY <1>1, <1>4, <2>1, LooksDoes DEF Entitled
  <2>2. CASE Insert(h) \/ Update(h)
    <3>1. s.do \in Statements /\ Moves(h, RowOf(s), s.value)
      BY <1>1, <1>2, <2>2, WriteMoves
    <3>2. IdentityRow(p) = RowOf(s) => s.do \in {"insert_identity", "refresh"} /\ s.who = p
      BY <3>1, RowOfIs, RowsDiffer DEF Statements, Inserts, Updates
    <3>3. MemberRow(p) = RowOf(s) /\ s.value = "in" =>
            s.do \in {"insert_member", "back", "late_back"} /\ s.who = p
      BY <3>1, RowOfIs, RowsDiffer DEF Statements, Inserts, Updates, Stmts
    <3>4. \/ IdentityRow(p) = RowOf(s)
          \/ MemberRow(p) = RowOf(s) /\ s.value = "in"
          => MayRegister(h, p)'
      BY <1>5, <1>8, <3>2, <3>3 DEF Registering, Registrations, Finding
    <3> QED BY <1>1, <1>4, <3>1, <3>4 DEF Moves, Entitled
  <2> QED BY <2>1, <2>2, ExecuteLooks
<1>12. \A j \in DOMAIN todo'[h] :
         /\ todo'[h][j].do \in Registrations => MayRegister(h, todo[h][j].who)'
         /\ todo'[h][j].do = "look" => inbox'[h].kind = "setup"
  <2> SUFFICES ASSUME NEW j \in DOMAIN todo'[h], NEW p, p = todo'[h][j].who
               PROVE  /\ todo'[h][j].do \in Registrations => MayRegister(h, p)'
                      /\ todo'[h][j].do = "look" => inbox'[h].kind = "setup"
    OBVIOUS
  <2> QED BY <1>5, <1>6, <1>1, <1>10 DEF Registering, Registrations
<1> QED BY <1>11, <1>12 DEF Entitled

LEMMA ExecuteLeaves ==
  ASSUME IInv, NEW h \in Handlers, Execute(h) PROVE Leaves(h)'
<1>1. /\ Types /\ todo[h] # <<>> /\ todo[h] \in Seq(Stmts) /\ todo'[h] \in Seq(Stmts)
      /\ Leaves(h) /\ Follows(todo[h]) /\ Registers(h) /\ h \notin done
      /\ \A r \in DOMAIN writes[h] : WriteOK(r, writes[h][r])
      /\ inbox' = inbox
  BY Setting DEF HandlerOK, Shape
<1>2. PICK s \in Stmts : s = todo[h][1]
  BY Setting
<1>3. PICK p \in People : p = inbox[h].by
  BY <1>1, InboxType DEF Types
<1> SUFFICES ASSUME LeavesItself(h)
             PROVE  \/ \E j \in DOMAIN todo'[h] : /\ todo'[h][j].do \in {"leave", "mark"}
                                                  /\ todo'[h][j].who = p
                    \/ /\ MemberRow(p) \in DOMAIN writes'[h] /\ writes'[h][MemberRow(p)] = "left"
                       /\ todo'[h] = <<>>
  BY <1>1, <1>3 DEF Leaves, LeavesItself
<1>4. PICK i \in DOMAIN todo[h] : todo[h][i].do \in {"leave", "mark"} /\ todo[h][i].who = p
  BY <1>1, <1>3 DEF Leaves
<1>5. ASSUME i = 1 PROVE s.who = p /\ s.do \in {"leave", "mark"} /\ Len(todo[h]) = 1
  BY <1>1, <1>2, <1>4, <1>5 DEF Follows
<1>6. CASE \/ FindGroup(h) \/ FindIdentity(h) \/ FindMember(h) \/ LookForTarget(h)
  <2>1. s.do \notin {"leave", "mark"}
    BY <1>1, <1>2, <1>6, FindGroupDoes, FindIdentityDoes, FindMemberDoes, LookForTargetDoes
  <2>2. i # 1
    BY <1>5, <2>1
  <2>3. \/ Pops(h)
        \/ \E x \in Stmts : Swaps(h, x)
        \/ \E x \in Stmts, y \in Stmts : Expands(h, x, y)
    BY <1>1, <1>6, FindGroupDoes, FindIdentityDoes, FindMemberDoes, LookForTargetDoes
  <2> QED BY <1>4, <2>2, <2>3, Kept
<1>7. CASE FindLeaver(h)
  <2>1. \/ Pops(h) /\ ~ Known(h, MemberRow(s.who))
        \/ \E x \in Stmts : x.do = "mark" /\ x.who = s.who /\ Swaps(h, x)
    BY <1>1, <1>2, <1>7, FindLeaverDoes
  <2>2. CASE i # 1
    BY <1>4, <2>1, <2>2, Kept
  <2>3. CASE i = 1
    <3>1. Known(h, MemberRow(p))
      <4>1. Expects(h, p)
        BY <1>3 DEF Expects
      <4>2. \A j \in DOMAIN todo[h] : j = 1
        BY <1>1, <1>5, <2>3
      <4> QED BY <1>1, <1>2, <1>5, <2>3, <4>1, <4>2 DEF Registers
    <3> QED BY <1>1, <1>5, <2>1, <2>3, <3>1, Replaced
  <2> QED BY <2>2, <2>3
<1>8. CASE Insert(h) \/ Update(h)
  <2>1. /\ s.do \in Statements /\ Pops(h)
        /\ s.do \in Updates => RowOf(s) \in DOMAIN writes'[h] /\ writes'[h][RowOf(s)] = s.value
    BY <1>1, <1>2, <1>8, WriteMoves DEF Moves
  <2>2. CASE i # 1
    BY <1>4, <2>1, <2>2, Kept
  <2>3. CASE i = 1
    <3>1. s.do = "mark" /\ s.who = p /\ Len(todo[h]) = 1
      BY <1>5, <2>1, <2>3 DEF Statements, Inserts, Updates
    <3>2. s.value = "left" /\ RowOf(s) = MemberRow(p)
      BY <3>1, RowOfIs DEF Stmts, Finding
    <3>3. Len(todo'[h]) = 0
      BY <2>1, <3>1 DEF Pops, Popped
    <3>4. todo'[h] = <<>>
      BY <1>1, <3>3
    <3> QED BY <2>1, <3>1, <3>2, <3>4 DEF Updates
  <2> QED BY <2>2, <2>3
<1>9. CASE FindReturning(h)
  BY <1>1, <1>9, FindReturningDoes DEF LeavesItself
<1> QED BY <1>6, <1>7, <1>8, <1>9, ExecuteLooks DEF Looks

\* The order in which rows are locked.
Sorted(t) == \A i, j \in DOMAIN t : i < j => Under(t[i], t[j])

Within(x, s) == /\ x.do \notin {"look", "leave", "mark"}
                /\ Level(s) <= Level(x) /\ Reach(x) <= Reach(s)

LEMMA Levels ==
  ASSUME NEW s
  PROVE  /\ Level(s) \in 0 .. 4 /\ Reach(s) \in 0 .. 4 /\ Level(s) <= Reach(s)
         /\ s.do = "late_back" <=> Level(s) = 4
BY DEF Level, Reach

LEMMA RowLevels ==
  /\ RowLevel(GroupRow) = 0 /\ RowLevel(LockRow) = 3
  /\ \A p : RowLevel(IdentityRow(p)) = 1 /\ RowLevel(MemberRow(p)) = 2
BY RowsDiffer DEF RowLevel, GroupRow, LockRow, IdentityRow, MemberRow

LEMMA LevelOfRow ==
  ASSUME NEW s, s.do \in Statements, s.do \notin {"mark", "late_back"}
  PROVE  RowLevel(RowOf(s)) = Level(s)
<1>1. /\ s.do = "insert_group" => Level(s) = 0
      /\ s.do \in {"insert_identity", "refresh"} => Level(s) = 1
      /\ s.do \in {"insert_member", "back"} => Level(s) = 2
      /\ s.do = "lock" => Level(s) = 3
  BY DEF Level
<1> QED BY <1>1, RowOfIs, RowLevels DEF Statements, Inserts, Updates

LEMMA PoppedSorted ==
  ASSUME NEW t \in Seq(Stmts), NEW w \in Seq(Stmts), t # <<>>, Popped(t, w), Sorted(t)
  PROVE  Sorted(w) /\ \A j \in DOMAIN w : Under(t[1], w[j])
<1>1. /\ \A i \in DOMAIN w : i \in Nat \ {0} /\ i + 1 \in DOMAIN t /\ w[i] = t[i + 1]
      /\ 1 \in DOMAIN t
  BY Indices DEF Popped
<1>2. ASSUME NEW i \in DOMAIN w, NEW j \in DOMAIN w, i < j PROVE Under(w[i], w[j])
  <2>1. /\ i + 1 \in DOMAIN t /\ j + 1 \in DOMAIN t /\ i + 1 < j + 1
        /\ w[i] = t[i + 1] /\ w[j] = t[j + 1]
    BY <1>1, <1>2
  <2> QED BY <2>1 DEF Sorted
<1>3. ASSUME NEW j \in DOMAIN w PROVE Under(t[1], w[j])
  <2>1. j + 1 \in DOMAIN t /\ 1 < j + 1 /\ w[j] = t[j + 1]
    BY <1>1
  <2> QED BY <1>1, <2>1 DEF Sorted
<1> QED BY <1>2, <1>3 DEF Sorted

LEMMA SwappedSorted ==
  ASSUME NEW t \in Seq(Stmts), NEW w \in Seq(Stmts), t # <<>>, NEW x \in Stmts, Swapped(t, w, x),
         Sorted(t), Within(x, t[1])
  PROVE  Sorted(w)
<1>1. /\ w[1] = x /\ \A i \in DOMAIN w : i \in Nat \ {0} /\ (i # 1 => i \in DOMAIN t /\ w[i] = t[i])
      /\ 1 \in DOMAIN t
  BY Indices DEF Swapped
<1>2. ASSUME NEW i \in DOMAIN w, NEW j \in DOMAIN w, i < j PROVE Under(w[i], w[j])
  <2>1. j # 1 /\ j \in DOMAIN t /\ w[j] = t[j]
    BY <1>1, <1>2
  <2>2. CASE i = 1
    <3>1. Under(t[1], t[j])
      BY <1>1, <1>2, <2>1, <2>2 DEF Sorted
    <3>2. Reach(x) <= Reach(t[1])
      BY DEF Within
    <3> QED BY <1>1, <2>1, <2>2, <3>1, <3>2, Levels DEF Under
  <2>3. CASE i # 1
    BY <1>1, <1>2, <2>1, <2>3 DEF Sorted
  <2> QED BY <2>2, <2>3
<1> QED BY <1>2 DEF Sorted

LEMMA ExpandedSorted ==
  ASSUME NEW t \in Seq(Stmts), NEW w \in Seq(Stmts), t # <<>>, NEW x \in Stmts, NEW y \in Stmts,
         Expanded(t, w, x, y), Sorted(t), Within(x, t[1]), Within(y, t[1]), Reach(x) < Level(y)
  PROVE  Sorted(w)
<1>1. /\ w[1] = x /\ w[2] = y /\ 1 \in DOMAIN t
      /\ \A i \in DOMAIN w : /\ i \in Nat \ {0}
                             /\ i \notin {1, 2} => i - 1 \in DOMAIN t /\ i - 1 # 1 /\ w[i] = t[i - 1]
  BY Indices DEF Expanded
<1>2. ASSUME NEW i \in DOMAIN w, NEW j \in DOMAIN w, i < j PROVE Under(w[i], w[j])
  <2>1. CASE j = 2
    BY <1>1, <1>2, <2>1 DEF Under
  <2>2. CASE j \notin {1, 2} /\ i \in {1, 2}
    <3>1. j - 1 \in DOMAIN t /\ 1 < j - 1 /\ w[j] = t[j - 1]
      BY <1>1, <1>2, <2>2
    <3>2. Under(t[1], w[j])
      BY <1>1, <3>1 DEF Sorted
    <3>3. w[i] = x \/ w[i] = y
      BY <1>1, <2>2
    <3>4. Reach(w[i]) <= Reach(t[1])
      BY <3>3 DEF Within
    <3> QED BY <3>2, <3>4, Levels DEF Under
  <2>3. CASE j \notin {1, 2} /\ i \notin {1, 2}
    <3>1. /\ i - 1 \in DOMAIN t /\ j - 1 \in DOMAIN t /\ i - 1 < j - 1
          /\ w[i] = t[i - 1] /\ w[j] = t[j - 1]
      BY <1>1, <1>2, <2>3
    <3> QED BY <3>1 DEF Sorted
  <2>4. j # 1
    BY <1>1, <1>2
  <2> QED BY <2>1, <2>2, <2>3, <2>4
<1> QED BY <1>2 DEF Sorted

LEMMA AppendedSorted ==
  ASSUME NEW t \in Seq(Stmts), NEW w \in Seq(Stmts), t # <<>>, NEW x, Appended(t, w, x), Sorted(t),
         x.do = "late_back"
  PROVE  Sorted(w)
<1>1. /\ Len(t) \in Nat \ {0} /\ w[Len(t)] = x /\ DOMAIN w = 1 .. Len(t)
      /\ \A i \in DOMAIN w : i # Len(t) => i + 1 \in DOMAIN t /\ w[i] = t[i + 1]
  BY Indices DEF Appended
<1>2. ASSUME NEW i \in DOMAIN w, NEW j \in DOMAIN w, i < j PROVE Under(w[i], w[j])
  <2>1. CASE j = Len(t)
    BY <1>1, <2>1 DEF Under
  <2>2. CASE j # Len(t)
    <3>1. /\ i + 1 \in DOMAIN t /\ j + 1 \in DOMAIN t /\ i + 1 < j + 1
          /\ w[i] = t[i + 1] /\ w[j] = t[j + 1]
      BY <1>1, <1>2, <2>2
    <3> QED BY <3>1 DEF Sorted
  <2> QED BY <2>1, <2>2
<1> QED BY <1>2 DEF Sorted

\* What is below the first statement is below what it is replaced by.
LEMMA ClimbsOn ==
  ASSUME NEW h \in Handlers, todo[h] # <<>>, todo[h] \in Seq(Stmts), todo'[h] \in Seq(Stmts),
         UNCHANGED <<inbox, writes>>, Plain(h), Climbs(h), NEW x \in Stmts, NEW y \in Stmts,
         Within(x, todo[h][1]), Within(y, todo[h][1]),
         Pops(h) \/ Swaps(h, x) \/ (Expands(h, x, y) /\ Reach(x) < Level(y))
  PROVE  Climbs(h)'
<1>1. 1 \in DOMAIN todo[h]
  BY Indices
<1>2. /\ \A i \in DOMAIN todo[h] : todo[h][i].do \notin {"look", "leave", "mark"}
      /\ Sorted(todo[h])
      /\ \A i \in DOMAIN todo[h] : \A r \in DOMAIN writes[h] : RowLevel(r) < Level(todo[h][i])
  BY DEF Climbs, Sorted
<1>3. PICK w : w = todo'[h]
  OBVIOUS
<1>4. Sorted(w)
  <2>1. CASE Pops(h)
    BY <1>2, <1>3, <2>1, PoppedSorted DEF Pops
  <2>2. CASE Swaps(h, x)
    BY <1>2, <1>3, <2>2, SwappedSorted DEF Swaps
  <2>3. CASE Expands(h, x, y) /\ Reach(x) < Level(y)
    BY <1>2, <1>3, <2>3, ExpandedSorted DEF Expands
  <2> QED BY <2>1, <2>2, <2>3
<1>5. \A j \in DOMAIN w : (\E i \in DOMAIN todo[h] : w[j] = todo[h][i]) \/ w[j] = x \/ w[j] = y
  BY <1>3 DEF Pops, Popped, Swaps, Swapped, Expands, Expanded
<1>6. ASSUME NEW j \in DOMAIN w PROVE w[j].do \notin {"look", "leave", "mark"}
  BY <1>2, <1>5 DEF Within
<1>7. ASSUME NEW j \in DOMAIN w, NEW r \in DOMAIN writes[h] PROVE RowLevel(r) < Level(w[j])
  <2>1. RowLevel(r) \in 0 .. 3
    BY DEF RowLevel
  <2>2. ASSUME NEW z, Level(todo[h][1]) <= Level(z) PROVE RowLevel(r) < Level(z)
    BY <1>1, <1>2, <2>1, <2>2, Levels
  <2> QED BY <1>2, <1>5, <2>2 DEF Within
<1> QED BY <1>3, <1>4, <1>6, <1>7 DEF Climbs, Plain, Sorted

LEMMA ExecuteClimbs ==
  ASSUME IInv, NEW h \in Handlers, Execute(h) PROVE Climbs(h)'
<1> SUFFICES ASSUME Plain(h)' PROVE Climbs(h)'
  BY DEF Climbs
<1>1. /\ Types /\ todo[h] # <<>> /\ todo[h] \in Seq(Stmts) /\ todo'[h] \in Seq(Stmts)
      /\ Climbs(h) /\ inbox' = inbox /\ Plain(h)
      /\ \A r \in DOMAIN writes[h] : WriteOK(r, writes[h][r])
  BY Setting DEF HandlerOK, Plain
<1>2. PICK s \in Stmts : s = todo[h][1] /\ 1 \in DOMAIN todo[h]
  BY Setting
<1>3. s.do \notin {"look", "leave", "mark"}
  BY <1>1, <1>2 DEF Climbs
<1>4. ASSUME NEW x \in Stmts, Within(x, s), Pops(h) \/ Swaps(h, x), UNCHANGED writes
      PROVE  Climbs(h)'
  BY <1>1, <1>2, <1>4, ClimbsOn
<1>5. Within(s, s)
  BY <1>3, Levels DEF Within
<1>6. CASE FindGroup(h)
  <2>1. s.do = "group" /\ UNCHANGED writes
    BY <1>1, <1>2, <1>6, FindGroupDoes
  <2>2. Pops(h) \/ \E x \in Stmts : x.do = "insert_group" /\ Swaps(h, x)
    BY <1>1, <1>6, FindGroupDoes
  <2>3. \A x : x.do = "insert_group" => Within(x, s)
    BY <2>1 DEF Within, Level, Reach
  <2> QED BY <1>4, <1>5, <2>1, <2>2, <2>3
<1>7. CASE FindIdentity(h)
  <2>1. s.do = "find" /\ UNCHANGED writes
    BY <1>1, <1>2, <1>7, FindIdentityDoes
  <2>2. PICK y \in Stmts :
          /\ y.do = "find_member"
          /\ \/ Swaps(h, y)
             \/ \E x \in Stmts : x.do \in {"insert_identity", "refresh"} /\ Expands(h, x, y)
    BY <1>1, <1>7, FindIdentityDoes
  <2>3. Within(y, s)
    BY <2>1, <2>2 DEF Within, Level, Reach
  <2>4. ASSUME NEW x \in Stmts, x.do \in {"insert_identity", "refresh"}, Expands(h, x, y)
        PROVE  Climbs(h)'
    <3>1. Within(x, s) /\ Reach(x) < Level(y)
      BY <2>1, <2>2, <2>4 DEF Within, Level, Reach
    <3> QED BY <1>1, <1>2, <2>1, <2>3, <2>4, <3>1, ClimbsOn
  <2> QED BY <1>4, <2>1, <2>2, <2>3, <2>4
<1>8. CASE FindMember(h)
  <2>1. s.do = "find_member" /\ UNCHANGED writes
    BY <1>1, <1>2, <1>8, FindMemberDoes
  <2>2. Pops(h) \/ \E x \in Stmts : x.do \in {"insert_member", "back"} /\ Swaps(h, x)
    BY <1>1, <1>8, FindMemberDoes
  <2>3. \A x : x.do \in {"insert_member", "back"} => Within(x, s)
    BY <2>1 DEF Within, Level, Reach
  <2> QED BY <1>4, <1>5, <2>1, <2>2, <2>3
<1>11. CASE FindReturning(h)
  <2>1. PICK x \in Stmts : x.do = "late_back" /\ Appends(h, x) /\ UNCHANGED writes
    BY <1>1, <1>11, FindReturningDoes
  <2>2. PICK t, w : t = todo[h] /\ w = todo'[h]
    OBVIOUS
  <2>3. Sorted(w)
    BY <1>1, <2>1, <2>2, AppendedSorted DEF Climbs, Sorted, Appends
  <2>4. \A j \in DOMAIN w : (\E i \in DOMAIN t : w[j] = t[i]) \/ w[j] = x
    BY <2>1, <2>2 DEF Appends, Appended
  <2>5. ASSUME NEW j \in DOMAIN w PROVE w[j].do \notin {"look", "leave", "mark"}
    BY <1>1, <2>1, <2>2, <2>4 DEF Climbs
  <2>6. ASSUME NEW j \in DOMAIN w, NEW r \in DOMAIN writes[h] PROVE RowLevel(r) < Level(w[j])
    <3>1. RowLevel(r) \in 0 .. 3 /\ Level(x) = 4
      BY <2>1, Levels DEF RowLevel
    <3> QED BY <1>1, <2>2, <2>4, <3>1 DEF Climbs
  <2> QED BY <2>1, <2>2, <2>3, <2>5, <2>6 DEF Climbs, Sorted
<1>9. CASE FindLeaver(h) \/ LookForTarget(h)
  BY <1>1, <1>2, <1>3, <1>9, FindLeaverDoes, LookForTargetDoes
<1>10. CASE Insert(h) \/ Update(h)
  <2>1. s.do \in Statements /\ Moves(h, RowOf(s), s.value)
    BY <1>1, <1>2, <1>10, WriteMoves
  <2>2. PICK t, w : t = todo[h] /\ w = todo'[h]
    OBVIOUS
  <2>3. Sorted(t) /\ Popped(t, w)
    BY <1>1, <2>1, <2>2 DEF Climbs, Sorted, Moves, Pops
  <2>4. Sorted(w) /\ \A j \in DOMAIN w : Under(s, w[j])
    BY <1>1, <1>2, <2>2, <2>3, PoppedSorted
  <2>5. \A j \in DOMAIN w : \E i \in DOMAIN t : w[j] = t[i]
    BY <2>3 DEF Popped
  <2>6. ASSUME NEW j \in DOMAIN w PROVE w[j].do \notin {"look", "leave", "mark"}
    BY <1>1, <2>2, <2>5 DEF Climbs
  <2>7. ASSUME NEW j \in DOMAIN w, NEW r \in DOMAIN writes'[h] PROVE RowLevel(r) < Level(w[j])
    <3>1. CASE r \in DOMAIN writes[h]
      BY <1>1, <2>2, <2>5, <3>1 DEF Climbs
    <3>2. CASE r = RowOf(s)
      <4>1. RowLevel(r) \in 0 .. 3
        BY DEF RowLevel
      <4>2. w[j].do = "late_back" \/ Reach(s) < Level(w[j])
        BY <2>4 DEF Under
      <4>3. CASE w[j].do = "late_back"
        BY <4>1, <4>3, Levels
      <4>4. CASE Reach(s) < Level(w[j])
        <5>1. s.do = "late_back" => FALSE
          BY <4>4, Levels
        <5>2. RowLevel(r) = Level(s)
          BY <1>3, <2>1, <3>2, <5>1, LevelOfRow
        <5> QED BY <4>4, <5>2, Levels
      <4> QED BY <4>2, <4>3, <4>4
    <3> QED BY <2>1, <3>1, <3>2 DEF Moves
  <2> QED BY <2>2, <2>4, <2>6, <2>7 DEF Climbs, Sorted
<1> QED BY <1>6, <1>7, <1>8, <1>9, <1>10, <1>11, ExecuteLooks DEF Looks

-----------------------------------------------------------------------------
(* One step *)

Rows == {GroupRow} \cup {IdentityRow(p) : p \in People} \cup {MemberRow(p) : p \in People}

\* A handler that a step leaves alone, while others are registered.
LEMMA Undisturbed ==
  ASSUME Types, NEW g \in Handlers, HandlerOK(g), inbox' = inbox,
         todo'[g] = todo[g], writes'[g] = writes[g], missed'[g] = missed[g],
         g \in done' <=> g \in done, \A q \in Rows : Known(g, q) => Known(g, q)'
  PROVE  HandlerOK(g)'
<1>1. GroupRow \in Rows /\ \A p \in People : IdentityRow(p) \in Rows /\ MemberRow(p) \in Rows
  BY DEF Rows
<1>2. (\A r \in DOMAIN writes[g] : WriteOK(r, writes[g][r]))'
  BY DEF HandlerOK
<1>3. Shape(g)' /\ Leaves(g)' /\ Climbs(g)' /\ (g \in done => todo[g] = <<>> /\ writes[g] = <<>>)'
  BY DEF HandlerOK, Shape, Leaves, LeavesItself, Climbs, Plain
<1>4. Ordered(g)'
  <2>1. ASSUME todo[g] # <<>> PROVE todo[g][1] \in Stmts
    BY <2>1, Heads DEF Now
  <2>2. PICK s : s = todo[g][1]
    OBVIOUS
  <2>3. todo[g] # <<>> /\ s.do \in {"find_member", "insert_member", "back", "mark"} => s.who \in People
    BY <2>1, <2>2 DEF Stmts, Finding
  <2>4. /\ Known(g, GroupRow) \/ (todo[g] # <<>> /\ s.do \in {"group", "insert_group"})
        /\ todo[g] # <<>> =>
             /\ s.do \in {"find_member", "insert_member"} => Known(g, IdentityRow(s.who))
             /\ s.do \in {"back", "mark"} => Known(g, MemberRow(s.who))
    BY <2>2 DEF HandlerOK, Ordered
  <2>5. /\ Known(g, GroupRow)' \/ (todo[g] # <<>> /\ s.do \in {"group", "insert_group"})
        /\ todo[g] # <<>> =>
             /\ s.do \in {"find_member", "insert_member"} => Known(g, IdentityRow(s.who))'
             /\ s.do \in {"back", "mark"} => Known(g, MemberRow(s.who))'
    BY <1>1, <2>3, <2>4
  <2>6. todo'[g] = todo[g] /\ todo'[g][1] = s
    BY <2>2
  <2> QED BY <2>5, <2>6 DEF Ordered
<1>5. Linked(g)'
  BY <1>1 DEF HandlerOK, Linked
<1>8. Returns(g)'
  <2>1. \A i \in DOMAIN todo[g] : todo[g][i].do = "late_back" => todo[g][i].who \in People
    BY DEF Types, Stmts, Finding
  <2>2. \A i \in DOMAIN todo[g] : \A p : todo[g][i].do = "late_back" /\ p = todo[g][i].who =>
          Known(g, MemberRow(p))' /\ inbox'[g].kind = "toggle"
    BY <1>1, <2>1 DEF HandlerOK, Returns
  <2> QED BY <2>2 DEF Returns
<1>6. Registers(g)'
  BY <1>1 DEF HandlerOK, Registers, Expects
<1>7. Entitled(g)'
  BY DEF HandlerOK, Entitled, MayRegister, Speaks
<1> QED BY <1>2, <1>3, <1>4, <1>5, <1>6, <1>7, <1>8 DEF HandlerOK

LEMMA ExecuteKeeps ==
  ASSUME IInv, NEW h \in Handlers, Execute(h) PROVE IInv'
<1>1. /\ UNCHANGED <<inbox, db, done>> /\ h \notin done
      /\ todo' \in [Handlers -> Seq(Stmts)] /\ \A q : Known(h, q) => Known(h, q)'
      /\ \A g \in Handlers \ {h} : todo'[g] = todo[g] /\ writes'[g] = writes[g]
  BY Setting DEF HandlerOK
<1>2. /\ writes' = [g \in Handlers |-> writes'[g]] /\ missed' \in [Handlers -> SUBSET People]
      /\ \A g \in Handlers \ {h} : missed'[g] = missed[g]
      /\ \A g \in Handlers \ {h} : DOMAIN writes'[h] \cap DOMAIN writes[g] = {}
  <2>1. CASE Looks(h)
    BY <2>1, ExecuteLooks, LooksDoes DEF IInv, Types, Exclusive
  <2>2. CASE Insert(h) \/ Update(h)
    <3>1. PICK s \in Stmts : Moves(h, RowOf(s), s.value)
      BY <2>2, ExecuteLooks, WriteMoves
    <3>2. PICK r : Moves(h, r, s.value)
      BY <3>1
    <3> QED BY <3>2 DEF Moves, IInv, Types, Exclusive
  <2> QED BY <2>1, <2>2, ExecuteLooks
<1>3. Types'
  BY <1>1, <1>2 DEF IInv, Types, db
<1>4. Exclusive'
  BY <1>1, <1>2 DEF IInv, Exclusive
<1>5. Rooted'
  BY <1>1 DEF IInv, Rooted, db
<1>6. HandlerOK(h)'
  BY <1>1, ExecuteWritten, ExecuteShape, ExecuteOrdered, ExecuteReturns, ExecuteLinked,
     ExecuteRegisters, ExecuteEntitled, ExecuteLeaves, ExecuteClimbs DEF HandlerOK
<1>7. ASSUME NEW g \in Handlers \ {h} PROVE HandlerOK(g)'
  <2>1. \A q : Known(g, q)' <=> Known(g, q)
    BY <1>1 DEF Known, Reads, Committed, db
  <2> QED BY <1>1, <1>2, <2>1, Undisturbed DEF IInv
<1> QED BY <1>3, <1>4, <1>5, <1>6, <1>7 DEF IInv

\* What a commit makes of the database.
LEMMA CommitDoes ==
  ASSUME IInv, NEW h \in Handlers, Commit(h)
  PROVE  /\ UNCHANGED <<inbox, todo, missed>> /\ done' = done \cup {h}
         /\ writes' = [writes EXCEPT ![h] = <<>>]
         /\ group' \in BOOLEAN /\ name' \in [People -> Names]
         /\ member' \in [People -> {"none", "in", "left"}]
         /\ (group => group') /\ (group' <=> Known(h, GroupRow))
         /\ \A p \in People : /\ name[p] # "none" => name'[p] # "none"
                              /\ name'[p] # "none" <=> Known(h, IdentityRow(p))
                              /\ member[p] # "none" => member'[p] # "none"
                              /\ member'[p] # "none" <=> Known(h, MemberRow(p))
<1>1. /\ UNCHANGED <<inbox, todo, missed>> /\ done' = done \cup {h}
      /\ writes' = [writes EXCEPT ![h] = <<>>]
      /\ group' = Known(h, GroupRow)
      /\ name' = [p \in People |-> Reads(h, IdentityRow(p))]
      /\ member' = [p \in People |-> Reads(h, MemberRow(p))]
  BY DEF Commit, Known
<1>2. /\ Types /\ \A r \in DOMAIN writes[h] : WriteOK(r, writes[h][r])
  BY DEF IInv, HandlerOK
<1>3. /\ group' \in BOOLEAN /\ name' \in [People -> Names]
      /\ member' \in [People -> {"none", "in", "left"}]
  BY <1>1, <1>2, ReadsType DEF Known
<1>4. \A r \in DOMAIN writes[h] : writes[h][r] # "none"
  BY <1>2 DEF WriteOK
<1>5. /\ group => Known(h, GroupRow)
      /\ \A p \in People : /\ name[p] # "none" => Known(h, IdentityRow(p))
                           /\ member[p] # "none" => Known(h, MemberRow(p))
  BY <1>4, CommittedIs DEF Known, Reads
<1>6. \A p \in People : /\ name'[p] # "none" <=> Known(h, IdentityRow(p))
                        /\ member'[p] # "none" <=> Known(h, MemberRow(p))
  BY <1>1 DEF Known
<1> QED BY <1>1, <1>3, <1>5, <1>6

LEMMA CommitKeeps ==
  ASSUME IInv, NEW h \in Handlers, Commit(h) PROVE IInv'
<1>1. /\ UNCHANGED <<inbox, todo, missed>> /\ done' = done \cup {h}
      /\ writes' = [writes EXCEPT ![h] = <<>>]
      /\ group' \in BOOLEAN /\ name' \in [People -> Names]
      /\ member' \in [People -> {"none", "in", "left"}]
      /\ (group => group') /\ (group' <=> Known(h, GroupRow))
      /\ \A p \in People : /\ name[p] # "none" => name'[p] # "none"
                           /\ name'[p] # "none" <=> Known(h, IdentityRow(p))
                           /\ member[p] # "none" => member'[p] # "none"
                           /\ member'[p] # "none" <=> Known(h, MemberRow(p))
  BY CommitDoes
<1>2. todo[h] = <<>> /\ Types /\ HandlerOK(h)
  BY DEF IInv, Commit
<1>3. writes'[h] = <<>> /\ DOMAIN writes'[h] = {} /\ \A g \in Handlers \ {h} : writes'[g] = writes[g]
  BY <1>1, <1>2 DEF Types
<1>4. Types'
  BY <1>1, <1>2 DEF Types
<1>5. Exclusive'
  BY <1>3 DEF IInv, Exclusive
<1>6. Rooted'
  <2> SUFFICES ASSUME NEW p \in People, member'[p] # "none" PROVE name'[p] # "none" /\ group'
    BY DEF Rooted
  <2>1. CASE member[p] # "none"
    BY <1>1, <2>1 DEF IInv, Rooted
  <2>2. CASE MemberRow(p) \in DOMAIN writes[h]
    BY <1>1, <1>2, <2>2 DEF HandlerOK, Linked
  <2> QED BY <1>1, <2>1, <2>2, CommittedIs DEF Known, Reads
<1>7. /\ Committed(GroupRow)' = IF group' THEN "there" ELSE "none"
      /\ \A p : Committed(IdentityRow(p))' = name'[p] /\ Committed(MemberRow(p))' = member'[p]
  BY DEF Committed, GroupRow, LockRow, IdentityRow, MemberRow
<1>8. HandlerOK(h)'
  <2>1. \A q \in Rows : Known(h, q) => Known(h, q)'
    BY <1>1, <1>3, <1>7 DEF Rows, Known, Reads
  <2>2. GroupRow \in Rows /\ \A p \in People : MemberRow(p) \in Rows
    BY DEF Rows
  <2>3. todo'[h] = <<>> /\ DOMAIN todo'[h] = {} /\ h \in done' /\ DOMAIN todo[h] = {}
    BY <1>1, <1>2
  <2>4. (\A r \in DOMAIN writes[h] : WriteOK(r, writes[h][r]))' /\ Linked(h)' /\ Climbs(h)'
    BY <1>3, <2>3 DEF Linked, Climbs
  <2>5. Shape(h)' /\ Leaves(h)' /\ Entitled(h)' /\ Returns(h)'
    BY <1>3, <2>3 DEF Shape, Follows, Leaves, Entitled, Returns
  <2>6. Ordered(h)'
    BY <1>2, <2>1, <2>2, <2>3 DEF HandlerOK, Ordered
  <2>7. Registers(h)'
    BY <1>1, <1>2, <2>1, <2>2, <2>3 DEF HandlerOK, Registers, Expects
  <2> QED BY <1>3, <2>3, <2>4, <2>5, <2>6, <2>7 DEF HandlerOK
<1>9. ASSUME NEW g \in Handlers \ {h} PROVE HandlerOK(g)'
  <2>1. \A q \in Rows : Known(g, q) => Known(g, q)'
    BY <1>1, <1>3, <1>7, CommittedIs DEF Rows, Known, Reads
  <2>2. HandlerOK(g) /\ (g \in done' <=> g \in done)
    BY <1>1 DEF IInv
  <2> QED BY <1>1, <1>2, <1>3, <2>1, <2>2, Undisturbed
<1> QED BY <1>4, <1>5, <1>6, <1>8, <1>9 DEF IInv
\* A message's statements, before any of them has run.
LEMMA Prefixed ==
  ASSUME NEW S, NEW x \in S, NEW u \in Seq(S)
  PROVE  LET t == <<x>> \o u IN
         /\ t \in Seq(S) /\ Len(t) = Len(u) + 1 /\ t # <<>> /\ t[1] = x /\ 1 \in DOMAIN t
         /\ \A i \in DOMAIN t : i # 1 => i - 1 \in DOMAIN u /\ t[i] = u[i - 1]
         /\ \A i \in DOMAIN u : i + 1 \in DOMAIN t /\ t[i + 1] = u[i]
OBVIOUS

LEMMA Prepended ==
  ASSUME NEW S, NEW x \in S, NEW y \in S, NEW u \in Seq(S), NEW t, t = <<x>> \o (<<y>> \o u)
  PROVE  /\ t \in Seq(S) /\ Len(t) = Len(u) + 2 /\ t # <<>> /\ t[1] = x /\ t[2] = y
         /\ 1 \in DOMAIN t /\ 2 \in DOMAIN t
         /\ \A i \in DOMAIN t : i \in Nat \ {0}
         /\ \A i \in DOMAIN t : i \notin {1, 2} => i - 2 \in DOMAIN u /\ t[i] = u[i - 2]
         /\ \A i \in DOMAIN u : i + 2 \in DOMAIN t /\ t[i + 2] = u[i]
<1>1. PICK v : v = <<y>> \o u
  OBVIOUS
<1>2. /\ v \in Seq(S) /\ Len(v) = Len(u) + 1 /\ v[1] = y /\ 1 \in DOMAIN v
      /\ \A i \in DOMAIN v : i # 1 => i - 1 \in DOMAIN u /\ v[i] = u[i - 1]
      /\ \A i \in DOMAIN u : i + 1 \in DOMAIN v /\ v[i + 1] = u[i]
  BY <1>1, Prefixed
<1>3. /\ t \in Seq(S) /\ Len(t) = Len(v) + 1 /\ t # <<>> /\ t[1] = x /\ 1 \in DOMAIN t
      /\ \A i \in DOMAIN t : i # 1 => i - 1 \in DOMAIN v /\ t[i] = v[i - 1]
      /\ \A i \in DOMAIN v : i + 1 \in DOMAIN t /\ t[i + 1] = v[i]
  BY <1>1, <1>2, Prefixed
<1>4. \A i \in DOMAIN t : i \in Nat \ {0}
  BY <1>3
<1>5. Len(u) \in Nat /\ \A i \in DOMAIN u : i \in Nat \ {0}
  OBVIOUS
<1>6. Len(t) = Len(u) + 2 /\ 2 \in DOMAIN t /\ t[2] = y
  <2>1. Len(t) = Len(u) + 2 /\ 1 + 1 \in DOMAIN t /\ t[1 + 1] = y
    BY <1>2, <1>3, <1>5
  <2> QED BY <2>1
<1>7. ASSUME NEW i \in DOMAIN t, i \notin {1, 2} PROVE i - 2 \in DOMAIN u /\ t[i] = u[i - 2]
  <2>1. i - 1 \in DOMAIN v /\ t[i] = v[i - 1] /\ i - 1 # 1
    BY <1>3, <1>4, <1>7
  <2>2. i - 1 - 1 \in DOMAIN u /\ v[i - 1] = u[i - 1 - 1]
    BY <1>2, <2>1
  <2>3. i - 1 - 1 = i - 2
    BY <1>4
  <2> QED BY <2>1, <2>2, <2>3
<1>8. ASSUME NEW i \in DOMAIN u PROVE i + 2 \in DOMAIN t /\ t[i + 2] = u[i]
  <2>1. i + 1 \in DOMAIN v /\ v[i + 1] = u[i]
    BY <1>2
  <2>2. i + 1 + 1 \in DOMAIN t /\ t[i + 1 + 1] = v[i + 1]
    BY <1>3, <2>1
  <2>3. i + 1 + 1 = i + 2
    BY <1>5
  <2> QED BY <2>1, <2>2, <2>3
<1>9. /\ \A i \in DOMAIN t : i \notin {1, 2} => i - 2 \in DOMAIN u /\ t[i] = u[i - 2]
      /\ \A i \in DOMAIN u : i + 2 \in DOMAIN t /\ t[i + 2] = u[i]
  BY <1>7, <1>8, Zenon
<1>10. t \in Seq(S) /\ t # <<>> /\ t[1] = x /\ 1 \in DOMAIN t
  BY <1>3, Zenon
<1> QED BY <1>4, <1>6, <1>9, <1>10, Zenon

IsMessage(m) == /\ m.kind \in MessageKinds /\ m.by \in People /\ m.whom \in Seq(People)
                /\ m.kind = "leave" => m.whom # <<>>

LEMMA ProgramIs ==
  ASSUME NEW m
  PROVE  Program(m) = <<Statement("group", "nobody", "there")>> \o
                        (<<Statement("find", m.by, "live")>> \o Rest(m))
BY DEF Program, Handling, Register

LEMMA RestIs ==
  ASSUME NEW m, IsMessage(m)
  PROVE  /\ Rest(m) \in Seq(Stmts)
         /\ m.kind = "talk" => Rest(m) = <<>>
         /\ m.kind \in {"command", "toggle"} => Len(Rest(m)) = 1 /\ Rest(m)[1].do = "lock"
         /\ m.kind = "leave" =>
              Len(Rest(m)) = 1 /\ Rest(m)[1].do = "leave" /\ Rest(m)[1].who = m.whom[1]
         /\ m.kind = "join" =>
              /\ DOMAIN Rest(m) = DOMAIN m.whom
              /\ \A i \in DOMAIN m.whom : Rest(m)[i].do = "find" /\ Rest(m)[i].who = m.whom[i]
         /\ m.kind = "setup" =>
              /\ \A i \in DOMAIN Rest(m) : Rest(m)[i].do \in {"lock", "look"}
              /\ \A i \in DOMAIN m.whom : /\ i + 1 \in DOMAIN Rest(m)
                                          /\ Rest(m)[i + 1].do = "look"
                                          /\ Rest(m)[i + 1].who = m.whom[i]
<1>1. m.kind \in MessageKinds /\ m.whom \in Seq(People) /\ (m.kind = "leave" => m.whom # <<>>)
  BY DEF IsMessage
<1>2. TakeLock \in Seq(Stmts) /\ Len(TakeLock) = 1 /\ TakeLock[1].do = "lock"
  <2>1. Statement("lock", "nobody", "held") \in Stmts
    BY DEF Stmts, Statement
  <2> QED BY <2>1 DEF TakeLock, Statement
<1>3. CASE m.kind = "talk"
  BY <1>3 DEF Rest
<1>4. CASE m.kind \in {"command", "toggle"}
  BY <1>2, <1>4 DEF Rest
<1>5. CASE m.kind = "leave"
  <2>1. m.whom[1] \in People
    BY <1>1, <1>5
  <2>2. Statement("leave", m.whom[1], "left") \in Stmts
    BY <2>1 DEF Stmts, Statement
  <2>3. Rest(m) = <<Statement("leave", m.whom[1], "left")>>
    BY <1>5 DEF Rest
  <2> QED BY <1>5, <2>2, <2>3 DEF Statement
<1>6. CASE m.kind = "join"
  <2>1. Rest(m) = [i \in DOMAIN m.whom |-> Statement("find", m.whom[i], "live")]
    BY <1>6 DEF Rest, RegisterAll
  <2>2. \A p \in People : Statement("find", p, "live") \in Stmts
    BY DEF Stmts, Statement, Finding
  <2>3. Rest(m) \in Seq(Stmts)
    BY <1>1, <2>1, <2>2
  <2> QED BY <1>6, <2>1, <2>3 DEF Statement
<1>7. CASE m.kind = "setup"
  <2>1. PICK u : u = [i \in DOMAIN m.whom |-> Statement("look", m.whom[i], "snapshot")]
    OBVIOUS
  <2>2. \A p \in People : Statement("look", p, "snapshot") \in Stmts
    BY DEF Stmts, Statement
  <2>3. u \in Seq(Stmts) /\ DOMAIN u = DOMAIN m.whom
    BY <1>1, <2>1, <2>2
  <2>4. \A i \in DOMAIN u : u[i].do = "look" /\ u[i].who = m.whom[i]
    BY <2>1 DEF Statement
  <2>5. PICK v : v = TakeLock \o u
    OBVIOUS
  <2>6. Rest(m) = v
    BY <1>7, <2>1, <2>5 DEF Rest, SetUpAll
  <2>7. /\ v \in Seq(Stmts) /\ v[1].do = "lock"
        /\ \A i \in DOMAIN v : i # 1 => i - 1 \in DOMAIN u /\ v[i] = u[i - 1]
        /\ \A i \in DOMAIN u : i + 1 \in DOMAIN v /\ v[i + 1] = u[i]
    <3>1. PICK z \in Stmts : TakeLock = <<z>> /\ z.do = "lock"
      BY <1>2 DEF TakeLock
    <3>2. v = <<z>> \o u
      BY <2>5, <3>1
    <3> HIDE DEF TakeLock
    <3> QED BY <2>3, <3>1, <3>2, Prefixed
  <2>8. \A i \in DOMAIN v : v[i].do \in {"lock", "look"}
    <3> SUFFICES ASSUME NEW i \in DOMAIN v PROVE v[i].do \in {"lock", "look"}
      OBVIOUS
    <3>1. i # 1 => i - 1 \in DOMAIN u /\ v[i] = u[i - 1]
      BY <2>7, Zenon
    <3>2. CASE i = 1
      BY <2>7, <3>2
    <3>3. CASE i # 1
      <4>1. PICK k \in DOMAIN u : v[i] = u[k]
        BY <3>1, <3>3
      <4> QED BY <2>4, <4>1
    <3> QED BY <3>2, <3>3
  <2> QED BY <1>7, <2>3, <2>4, <2>6, <2>7, <2>8
<1> QED BY <1>1, <1>3, <1>4, <1>5, <1>6, <1>7 DEF MessageKinds
LEMMA ProgramType ==
  ASSUME NEW m, IsMessage(m) PROVE Program(m) \in Seq(Stmts)
<1>1. PICK u, x, y : /\ u = Rest(m) /\ x = Statement("group", "nobody", "there")
                     /\ y = Statement("find", m.by, "live")
  OBVIOUS
<1>2. x \in Stmts /\ y \in Stmts /\ u \in Seq(Stmts)
  BY <1>1, RestIs DEF Statement, Stmts, Finding, IsMessage
<1>3. PICK t : t = <<x>> \o (<<y>> \o u)
  OBVIOUS
<1>4. t \in Seq(Stmts)
  BY <1>2, <1>3, Prepended
<1> QED BY <1>1, <1>3, <1>4, ProgramIs

\* A transaction that begins.
LEMMA Fresh ==
  ASSUME NEW h \in Handlers
  PROVE  /\ IsMessage(inbox[h]) /\ todo[h] = Program(inbox[h]) /\ writes[h] = <<>>
         /\ h \notin done
         => HandlerOK(h)
<1> SUFFICES ASSUME IsMessage(inbox[h]), todo[h] = Program(inbox[h]), writes[h] = <<>>, h \notin done
             PROVE  HandlerOK(h)
  OBVIOUS
<1>1. PICK m, t, u : m = inbox[h] /\ t = todo[h] /\ u = Rest(m)
  OBVIOUS
<1>2. PICK x, y : x = Statement("group", "nobody", "there") /\ y = Statement("find", m.by, "live")
  OBVIOUS
<1>3. /\ x \in Stmts /\ y \in Stmts /\ x.do = "group" /\ y.do = "find" /\ y.who = m.by
      /\ m.by \in People
  BY <1>1, <1>2 DEF Statement, Stmts, Finding, IsMessage
<1>4. t = <<x>> \o (<<y>> \o u) /\ u \in Seq(Stmts)
  BY <1>1, <1>2, ProgramIs, RestIs
<1>5. /\ t \in Seq(Stmts) /\ Len(t) = Len(u) + 2 /\ t # <<>> /\ t[1] = x /\ t[2] = y
      /\ 1 \in DOMAIN t /\ 2 \in DOMAIN t
      /\ \A i \in DOMAIN t : i \in Nat \ {0}
      /\ \A i \in DOMAIN t : i \notin {1, 2} => i - 2 \in DOMAIN u /\ t[i] = u[i - 2]
      /\ \A i \in DOMAIN u : i + 2 \in DOMAIN t /\ t[i + 2] = u[i]
  BY <1>3, <1>4, Prepended, SMTT(20)
<1>6. /\ m.kind \in MessageKinds
      /\ m.kind = "talk" => u = <<>>
      /\ m.kind \in {"command", "toggle"} => Len(u) = 1 /\ u[1].do = "lock"
      /\ m.kind = "leave" => Len(u) = 1 /\ u[1].do = "leave" /\ u[1].who = m.whom[1]
      /\ m.kind = "join" =>
           /\ DOMAIN u = DOMAIN m.whom
           /\ \A i \in DOMAIN m.whom : u[i].do = "find" /\ u[i].who = m.whom[i]
      /\ m.kind = "setup" =>
           /\ \A i \in DOMAIN u : u[i].do \in {"lock", "look"}
           /\ \A i \in DOMAIN m.whom : /\ i + 1 \in DOMAIN u
                                       /\ u[i + 1].do = "look" /\ u[i + 1].who = m.whom[i]
  BY <1>1, RestIs DEF IsMessage
<1>7. DOMAIN u = 1 .. Len(u) /\ Len(u) \in Nat
  BY <1>4
<1>8. ASSUME NEW k \in DOMAIN u
      PROVE  /\ u[k].do \in {"find", "look", "lock", "leave"}
             /\ u[k].do = "leave" => k = Len(u)
             /\ u[k].do = "find" => m.kind = "join" /\ u[k].who \in Range(m.whom)
             /\ u[k].do = "look" => m.kind = "setup"
  <2>1. CASE m.kind \in {"talk", "command", "toggle", "leave"}
    BY <1>6, <1>7, <2>1
  <2>2. CASE m.kind \in {"join", "setup"}
    BY <1>6, <2>2 DEF Range
  <2> QED BY <1>6, <2>1, <2>2 DEF MessageKinds
<1>9. ASSUME NEW i \in DOMAIN t, i \notin {1, 2}
      PROVE  \E k \in DOMAIN u : i = k + 2 /\ t[i] = u[k]
  <2>1. i - 2 \in DOMAIN u /\ t[i] = u[i - 2] /\ i = (i - 2) + 2
    BY <1>5, <1>9
  <2> QED BY <2>1
<1>10. (\A r \in DOMAIN writes[h] : WriteOK(r, writes[h][r])) /\ Linked(h)
  BY DEF Linked
<1>11. Shape(h) /\ Returns(h)
  <2>1. ASSUME NEW i \in DOMAIN t
        PROVE  /\ i > 1 => t[i].do \in {"find", "look", "lock", "leave"}
               /\ t[i].do \in {"leave", "mark"} => i = Len(t)
               /\ t[i].do # "late_back"
    <3>1. CASE i \in {1, 2}
      BY <1>3, <1>5, <3>1
    <3>2. CASE i \notin {1, 2}
      <4>1. PICK k \in DOMAIN u : i = k + 2 /\ t[i] = u[k]
        BY <1>9, <3>2
      <4> QED BY <1>5, <1>8, <4>1
    <3> QED BY <3>1, <3>2
  <2> QED BY <1>1, <2>1 DEF Shape, Follows, Later, Returns
<1>12. Ordered(h)
  BY <1>1, <1>3, <1>5 DEF Ordered
<1>13. Registers(h)
  <2> SUFFICES ASSUME NEW p \in People, Expects(h, p)
               PROVE  \E i \in DOMAIN t : t[i].who = p /\ t[i].do \in {"find", "look"}
    BY <1>1 DEF Registers
  <2>1. CASE m.by = p
    BY <1>3, <1>5, <2>1
  <2>2. ASSUME NEW k \in DOMAIN u, u[k].who = p, u[k].do \in {"find", "look"}
        PROVE  \E i \in DOMAIN t : t[i].who = p /\ t[i].do \in {"find", "look"}
    BY <1>5, <2>2
  <2>3. ASSUME m.kind \in {"join", "setup"}, NEW j \in DOMAIN m.whom, m.whom[j] = p
        PROVE  \E k \in DOMAIN u : u[k].who = p /\ u[k].do \in {"find", "look"}
    <3>1. CASE m.kind = "join"
      BY <1>6, <2>3, <3>1
    <3>2. CASE m.kind = "setup"
      BY <1>6, <2>3, <3>2
    <3> QED BY <2>3, <3>1, <3>2
  <2> QED BY <1>1, <2>1, <2>2, <2>3 DEF Expects
<1>14. Entitled(h)
  <2>1. ASSUME NEW i \in DOMAIN t
        PROVE  /\ t[i].do \in Registrations => Speaks(h, t[i].who)
               /\ t[i].do = "look" => m.kind = "setup"
    <3>1. CASE i \in {1, 2}
      BY <1>1, <1>3, <1>5, <3>1 DEF Speaks, Finding, Registrations
    <3>2. CASE i \notin {1, 2}
      <4>1. PICK k \in DOMAIN u : t[i] = u[k]
        BY <1>9, <3>2
      <4>2. u[k].do \in Registrations => u[k].do = "find"
        BY <1>8 DEF Finding, Registrations
      <4> QED BY <1>1, <1>8, <4>1, <4>2 DEF Speaks
    <3> QED BY <3>1, <3>2
  <2> QED BY <1>1, <2>1 DEF Entitled, MayRegister
<1>15. Leaves(h)
  <2> SUFFICES ASSUME m.kind = "leave", m.whom[1] = m.by
               PROVE  \E i \in DOMAIN t : t[i].do \in {"leave", "mark"} /\ t[i].who = m.by
    BY <1>1 DEF Leaves, LeavesItself
  <2>1. 1 \in DOMAIN u /\ u[1].do = "leave" /\ u[1].who = m.by
    BY <1>6, <1>7
  <2> QED BY <1>5, <2>1
<1>16. Climbs(h)
  <2> SUFFICES ASSUME m.kind \in {"talk", "command", "toggle"}
               PROVE  /\ \A i \in DOMAIN t : t[i].do \notin {"look", "leave", "mark"}
                      /\ Sorted(t)
    BY <1>1 DEF Climbs, Plain, Sorted
  <2>1. Len(u) = 0 \/ (Len(u) = 1 /\ u[1].do = "lock")
    BY <1>6
  <2>2. \A i \in DOMAIN t : i \in {1, 2} \/ (i = 3 /\ t[3].do = "lock")
    <3> SUFFICES ASSUME NEW i \in DOMAIN t, i \notin {1, 2} PROVE i = 3 /\ t[3].do = "lock"
      OBVIOUS
    <3>1. PICK k \in DOMAIN u : i = k + 2 /\ t[i] = u[k]
      BY <1>9
    <3>2. k = 1
      BY <1>7, <2>1
    <3> QED BY <1>7, <2>1, <3>1, <3>2
  <2>3. /\ Level(x) = 0 /\ Reach(x) = 0 /\ Level(y) = 1 /\ Reach(y) = 2
        /\ \A z : z.do = "lock" => Level(z) = 3
    BY <1>3 DEF Level, Reach
  <2>4. Sorted(t)
    <3> SUFFICES ASSUME NEW i \in DOMAIN t, NEW j \in DOMAIN t, i < j
                 PROVE  Reach(t[i]) < Level(t[j])
      BY DEF Sorted, Under
    <3>1. CASE i = 1 /\ j = 2
      BY <1>5, <2>3, <3>1
    <3>2. CASE i \in {1, 2} /\ j = 3 /\ t[3].do = "lock"
      BY <1>5, <2>3, <3>2
    <3> QED BY <2>2, <3>1, <3>2
  <2> QED BY <1>3, <1>5, <2>2, <2>4
<1> QED BY <1>10, <1>11, <1>12, <1>13, <1>14, <1>15, <1>16 DEF HandlerOK

LEMMA FreshNext ==
  ASSUME NEW h \in Handlers
  PROVE  (/\ IsMessage(inbox[h]) /\ todo[h] = Program(inbox[h]) /\ writes[h] = <<>>
          /\ h \notin done)'
         => HandlerOK(h)'
<1>1. /\ IsMessage(inbox[h]) /\ todo[h] = Program(inbox[h]) /\ writes[h] = <<>>
      /\ h \notin done
      => HandlerOK(h)
  BY Fresh
<1> QED BY <1>1, PTL
LEMMA AbortKeeps ==
  ASSUME IInv, NEW h \in Handlers, Abort(h) PROVE IInv'
<1>1. /\ todo' = [todo EXCEPT ![h] = Program(inbox[h])] /\ writes' = [writes EXCEPT ![h] = <<>>]
      /\ missed' = [missed EXCEPT ![h] = {}] /\ UNCHANGED <<inbox, db, done>>
  BY DEF Abort
<1>2. Types /\ HandlerOK(h)
  BY DEF IInv
<1>3. todo[h] # <<>>
  BY DEF Abort, InCircle, Circle, Waits
<1>4. h \notin done
  BY <1>2, <1>3 DEF HandlerOK
<1>5. IsMessage(inbox[h])
  BY <1>2, InboxType DEF Types, IsMessage
<1>6. /\ todo'[h] = Program(inbox[h]) /\ writes'[h] = <<>> /\ DOMAIN writes'[h] = {}
      /\ \A g \in Handlers \ {h} :
           todo'[g] = todo[g] /\ writes'[g] = writes[g] /\ missed'[g] = missed[g]
  BY <1>1, <1>2 DEF Types
<1>7. Program(inbox[h]) \in Seq(Stmts)
  BY <1>5, ProgramType
<1>8. Types'
  BY <1>1, <1>2, <1>7 DEF Types, db
<1>9. Exclusive'
  BY <1>6 DEF IInv, Exclusive
<1>10. Rooted'
  BY <1>1 DEF IInv, Rooted, db
<1>11. HandlerOK(h)'
  BY <1>1, <1>4, <1>5, <1>6, FreshNext
<1>12. ASSUME NEW g \in Handlers \ {h} PROVE HandlerOK(g)'
  <2>1. \A q : Known(g, q)' <=> Known(g, q)
    BY <1>1, <1>6 DEF Known, Reads, Committed, db
  <2> QED BY <1>1, <1>6, <2>1, Undisturbed DEF IInv
<1> QED BY <1>8, <1>9, <1>10, <1>11, <1>12 DEF IInv

LEMMA Starting == Init => IInv
<1> SUFFICES ASSUME Init PROVE IInv
  OBVIOUS
<1>1. /\ inbox \in Inboxes /\ todo = [h \in Handlers |-> Program(inbox[h])]
      /\ writes = [h \in Handlers |-> <<>>] /\ missed = [h \in Handlers |-> {}] /\ done = {}
  BY DEF Init
<1>2. /\ group \in BOOLEAN /\ name \in [People -> Names]
      /\ member \in [People -> {"none", "in", "left"}]
      /\ Rooted
  BY StartAssumption DEF Init, Names, Rooted
<1>3. ASSUME NEW h \in Handlers PROVE HandlerOK(h) /\ Program(inbox[h]) \in Seq(Stmts)
  <2>1. IsMessage(inbox[h])
    BY <1>1, InboxType DEF IsMessage
  <2>2. HandlerOK(h)
    BY <1>1, <2>1, Fresh
  <2> QED BY <2>1, <2>2, ProgramType
<1>4. Types
  <2>1. todo \in [Handlers -> Seq(Stmts)]
    BY <1>1, <1>3
  <2> QED BY <1>1, <1>2, <2>1 DEF Types
<1>5. Exclusive
  BY <1>1 DEF Exclusive
<1> QED BY <1>2, <1>3, <1>4, <1>5 DEF IInv

LEMMA Idle == ASSUME IInv, UNCHANGED vars PROVE IInv'
<1>1. Types' /\ Exclusive' /\ Rooted'
  BY DEF IInv, vars, Types, Exclusive, Rooted
<1>2. ASSUME NEW g \in Handlers PROVE HandlerOK(g)'
  <2>1. \A q : Known(g, q)' <=> Known(g, q)
    BY DEF Known, Reads, Committed, vars
  <2> QED BY <2>1, Undisturbed DEF IInv, vars
<1> QED BY <1>1, <1>2 DEF IInv

-----------------------------------------------------------------------------
(* What follows *)

LEMMA Invariance == Spec => []IInv
<1>1. Init => IInv
  BY Starting
<1>2. IInv /\ [Next]_vars => IInv'
  BY ExecuteKeeps, CommitKeeps, AbortKeeps, Idle DEF Next
<1> QED BY <1>1, <1>2, PTL DEF Spec

\* No two transactions ever hold one row, a membership is never without its identity
\* and its group, and a transaction that committed has nothing left (upsert_group,
\* upsert_identity and upsert_membership of domain/identity.py, with their foreign keys).
THEOREM TypeCorrect == Spec => []TypeOK
<1>1. IInv => TypeOK
  BY DEF IInv, Types, Exclusive, Rooted, HandlerOK, TypeOK
<1> QED BY <1>1, Invariance, PTL

\* Whoever an update registers, its author, the people who join or the targets of a
\* /setup, has a membership once the update is handled, whichever of the transactions
\* that raced to insert it was the one that did.
THEOREM RegisteredAlwaysOnceHandled == Spec => []RegisteredOnceHandled
<1>1. ASSUME IInv PROVE RegisteredOnceHandled
  <2> SUFFICES ASSUME NEW h \in done, NEW p \in People, Expects(h, p) PROVE member[p] # "none"
    <3>1. ASSUME NEW h \in done
          PROVE  inbox[h].by \in People /\ inbox[h].whom \in Seq(People)
      BY <1>1, InboxType DEF IInv, Types
    <3> QED BY <3>1 DEF RegisteredOnceHandled, Expects
  <2>1. h \in Handlers
    BY <1>1 DEF IInv, Types
  <2>2. todo[h] = <<>> /\ writes[h] = <<>> /\ Registers(h)
    BY <1>1, <2>1 DEF IInv, HandlerOK
  <2>3. Known(h, MemberRow(p))
    BY <2>2 DEF Registers
  <2> QED BY <2>2, <2>3, CommittedIs DEF Known, Reads
<1> QED BY <1>1, Invariance, PTL

\* Who waits for a plain update that waits itself, waits for a lower row than it does.
LEMMA WaitsClimb ==
  ASSUME IInv, NEW h \in Handlers, NEW g \in Handlers, Plain(h), Plain(g),
         Waits(h, g), todo[g] # <<>>, Now(h).do # "late_back"
  PROVE  Level(todo[h][1]) < Level(todo[g][1])
<1>1. PICK s, r : s = todo[h][1] /\ r = RowOf(s)
  OBVIOUS
<1>2. /\ s = Now(h) /\ 1 \in DOMAIN todo[h] /\ 1 \in DOMAIN todo[g] /\ Climbs(h) /\ Climbs(g)
  BY <1>1, Heads DEF IInv, HandlerOK, Waits
<1>3. s.do \in Statements /\ s.do \notin {"mark", "late_back"} /\ r \in DOMAIN writes[g]
  BY <1>1, <1>2 DEF Climbs, Waits
<1>4. RowLevel(r) = Level(s)
  BY <1>1, <1>3, LevelOfRow
<1> QED BY <1>1, <1>2, <1>3, <1>4 DEF Climbs

\* Messages, commands and taps, which register their author and nobody else, lock the
\* group, the identity, the membership and the advisory lock in that order.  However
\* many they are, they wait for one another in a circle only where an Undo or Redo tap
\* writes its returning author after the lock (session.refresh, domain/undo.py).
THEOREM DeadlockAlwaysTakesAnother == Spec => []DeadlockTakesAnother
<1>1. ASSUME IInv PROVE DeadlockTakesAnother
  <2> SUFFICES ASSUME NEW S \in SUBSET Handlers, Circle(S),
                      \A h \in S : inbox[h].kind \notin {"join", "setup", "leave"},
                      \A h \in S : inbox[h].kind = "toggle" => Now(h).do # "late_back"
               PROVE  FALSE
    BY DEF DeadlockTakesAnother
  <2>1. \A h \in S : Plain(h)
    BY <1>1, InboxType DEF IInv, Types, Plain, MessageKinds
  <2>9. \A h \in S : todo[h] # <<>> /\ Now(h).do # "late_back"
    <3> SUFFICES ASSUME NEW h \in S PROVE todo[h] # <<>> /\ Now(h).do # "late_back"
      OBVIOUS
    <3>1. todo[h] # <<>>
      BY DEF Circle, Waits
    <3>2. Now(h) = todo[h][1] /\ 1 \in DOMAIN todo[h]
      BY <1>1, <3>1, Heads DEF IInv
    <3> QED BY <1>1, <3>1, <3>2 DEF IInv, HandlerOK, Returns
  <2>2. ASSUME NEW h \in S PROVE \E g \in S : Level(todo[h][1]) < Level(todo[g][1])
    <3>1. PICK g \in S : Waits(h, g)
      BY DEF Circle
    <3>2. todo[g] # <<>>
      BY DEF Circle, Waits
    <3> QED BY <1>1, <2>1, <2>9, <3>1, <3>2, WaitsClimb
  <2>3. PICK h0 \in S : TRUE
    BY DEF Circle
  <2>4. PICK h1 \in S : Level(todo[h0][1]) < Level(todo[h1][1])
    BY <2>2
  <2>5. PICK h2 \in S : Level(todo[h1][1]) < Level(todo[h2][1])
    BY <2>2
  <2>6. PICK h3 \in S : Level(todo[h2][1]) < Level(todo[h3][1])
    BY <2>2
  <2>7. PICK h4 \in S : Level(todo[h3][1]) < Level(todo[h4][1])
    BY <2>2
  <2>10. PICK h5 \in S : Level(todo[h4][1]) < Level(todo[h5][1])
    BY <2>2
  <2>8. /\ Level(todo[h0][1]) \in 0 .. 4 /\ Level(todo[h1][1]) \in 0 .. 4
        /\ Level(todo[h2][1]) \in 0 .. 4 /\ Level(todo[h3][1]) \in 0 .. 4
        /\ Level(todo[h4][1]) \in 0 .. 4 /\ Level(todo[h5][1]) \in 0 .. 4
    BY Levels
  <2> QED BY <2>4, <2>5, <2>6, <2>7, <2>8, <2>10
<1> QED BY <1>1, Invariance, PTL

\* Nothing but a commit changes what is committed.
LEMMA OnlyCommits ==
  ASSUME [Next]_vars PROVE UNCHANGED <<db, done>> \/ \E h \in Handlers : Commit(h)
BY DEF Next, Execute, Abort, FindGroup, FindIdentity, FindMember, FindReturning, FindLeaver,
       LookForTarget, Insert, Update, Read, vars, db

\* Who left comes back, and a name they gave is replaced by a remembered one, only by
\* an update of their own or of a join that names them, or by a /setup that found no
\* membership when it looked (seed_snapshot, identity.py).
THEOREM OnlySelfEverReturns == Spec => OnlySelfReturns
<1>1. ASSUME IInv, [Next]_vars, NEW p \in People,
             \/ member[p] = "left" /\ member'[p] = "in"
             \/ name[p] = "live" /\ name'[p] = "snapshot"
      PROVE  \E h \in Handlers : /\ Commits(h)
                                 /\ Speaks(h, p) \/ (inbox[h].kind = "setup" /\ p \in missed[h])
  <2>1. PICK h \in Handlers : Commit(h)
    BY <1>1, OnlyCommits DEF db
  <2>2. Commits(h)
    BY <2>1 DEF Commit, Commits
  <2>3. Entitled(h)
    BY <1>1 DEF IInv, HandlerOK
  <2>4. member'[p] = Reads(h, MemberRow(p)) /\ name'[p] = Reads(h, IdentityRow(p))
    BY <2>1 DEF Commit
  <2>5. MayRegister(h, p)
    BY <1>1, <2>3, <2>4, CommittedIs DEF Reads, Entitled
  <2> QED BY <2>2, <2>5 DEF MayRegister
<1>2. IInv /\ [Next]_vars =>
        [\A p \in People :
           (member[p] = "left" /\ member'[p] = "in") \/ (name[p] = "live" /\ name'[p] = "snapshot") =>
             \E h \in Handlers :
               /\ Commits(h)
               /\ Speaks(h, p) \/ (inbox[h].kind = "setup" /\ p \in missed[h])]_vars
  BY <1>1
<1> QED BY <1>2, Invariance, PTL DEF Spec, OnlySelfReturns

\* Once somebody's own departure is handled they are marked as gone, even when the
\* departure is the first that is heard of them, or another update registers them.
THEOREM LeaveAlwaysSticks == Spec => LeaveSticks
<1>1. ASSUME IInv, [Next]_vars, NEW h \in Handlers, Commits(h), LeavesItself(h)
      PROVE  member'[inbox[h].by] = "left"
  <2>1. PICK g \in Handlers : Commit(g)
    BY <1>1, OnlyCommits DEF Commits
  <2>2. h = g /\ todo[h] = <<>> /\ h \notin done
    BY <1>1, <2>1 DEF Commit, Commits
  <2>3. PICK p \in People : p = inbox[h].by
    BY <1>1, InboxType DEF IInv, Types
  <2>4. MemberRow(p) \in DOMAIN writes[h] /\ writes[h][MemberRow(p)] = "left"
    BY <1>1, <2>2, <2>3 DEF IInv, HandlerOK, Leaves
  <2> QED BY <2>1, <2>2, <2>3, <2>4 DEF Commit, Reads
<1>2. IInv /\ [Next]_vars =>
        [\A h \in Handlers :
           Commits(h) /\ inbox[h].kind = "leave" /\ inbox[h].whom[1] = inbox[h].by =>
             member'[inbox[h].by] = "left"]_vars
  BY <1>1 DEF LeavesItself
<1> QED BY <1>2, Invariance, PTL DEF Spec, LeaveSticks
=============================================================================
