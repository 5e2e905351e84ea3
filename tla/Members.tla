------------------------------- MODULE Members -------------------------------
(***************************************************************************)
(* Registration (domain/identity.py, §11) as the updates of one new group  *)
(* race for it.  Every update ensures the group and registers its author,  *)
(* joins and /setup register others, a departure marks one of them; each   *)
(* does so in one transaction, in the order of its handler, and takes the  *)
(* group's advisory lock only after that.  But the return of a member who  *)
(* had left is written with the next query of the session, and in an Undo  *)
(* or Redo tap that one follows the lock.                                  *)
(*                                                                         *)
(* The database is Postgres under READ COMMITTED: a transaction reads what *)
(* is committed and its own writes; it holds every row it wrote until it   *)
(* ends, and who would insert or update a held row waits.  An insert that  *)
(* waited for one that committed fails on the unique key and only undoes   *)
(* its savepoint.  Of transactions that wait in a circle one is aborted,   *)
(* and the webhook has its update delivered again (see Delivery).          *)
(***************************************************************************)
EXTENDS Naturals, Sequences, Functions

CONSTANTS
  People,
  Handlers,    \* updates that are handled together
  Inboxes,     \* the messages they may be: functions from Handlers
  Starts       \* what may be there before: a group or none, identities, memberships

\* A command stands for taps on Confirm and on [Settle], too; a toggle is a tap on
\* Undo or Redo.
MessageKinds == {"talk", "command", "toggle", "leave", "join", "setup"}

ASSUME InboxAssumption ==
  \A messages \in Inboxes : \A h \in Handlers :
    /\ messages[h].kind \in MessageKinds /\ messages[h].by \in People
    /\ messages[h].whom \in Seq(People)
    /\ messages[h].kind = "leave" => messages[h].whom # <<>>
ASSUME StartAssumption ==
  \A start \in Starts :
    /\ start.group \in BOOLEAN
    /\ start.name \in [People -> {"none", "live", "snapshot"}]
    /\ start.member \in [People -> {"none", "in", "left"}]
    /\ \A p \in People : start.member[p] # "none" => start.name[p] # "none" /\ start.group

VARIABLES
  inbox,       \* of each handler: its message
  group,       \* the group's row is there
  name,        \* identities: what the stored name comes from
  member,      \* memberships in the group
  todo,        \* of each handler: the statements that are left
  writes,      \* and what its transaction wrote: a function from rows to values
  missed,      \* people whose membership a /setup did not find when it looked
  before,      \* who waited for it when it was aborted, and goes on before it
  done         \* handlers that committed

vars == <<inbox, group, name, member, todo, writes, missed, before, done>>
db   == <<group, name, member>>

GroupRow == <<"group", "nobody">>
LockRow  == <<"lock", "nobody">>    \* the advisory lock: held, and waited for, like a row
IdentityRow(p) == <<"identity", p>>
MemberRow(p)   == <<"member", p>>

Committed(r) ==
  CASE r = GroupRow -> IF group THEN "there" ELSE "none"
    [] r = LockRow  -> "none"
    [] r[1] = "identity" -> name[r[2]]
    [] r[1] = "member"   -> member[r[2]]

Reads(h, r) == IF r \in DOMAIN writes[h] THEN writes[h][r] ELSE Committed(r)

Statement(do, p, value) == [do |-> do, who |-> p, value |-> value]

Names == {"none", "live", "snapshot"}

TypeOK ==
  /\ inbox \in Inboxes /\ group \in BOOLEAN
  /\ name \in [People -> Names] /\ member \in [People -> {"none", "in", "left"}]
  /\ \A p \in People : member[p] # "none" => name[p] # "none" /\ group
  /\ \A h, g \in Handlers : h # g => DOMAIN writes[h] \cap DOMAIN writes[g] = {}
  /\ \A h \in Handlers : missed[h] \subseteq People
  /\ \A h \in done : todo[h] = <<>> /\ writes[h] = <<>>

-----------------------------------------------------------------------------
(* What the handlers do, as statements *)

Register(p, value) == <<Statement("find", p, value)>>

RegisterAll(people, value) == [i \in DOMAIN people |-> Statement("find", people[i], value)]

SetUpAll(people) == [i \in DOMAIN people |-> Statement("look", people[i], "snapshot")]

TakeLock == <<Statement("lock", "nobody", "held")>>

\* What comes after the group and the author.
Rest(m) ==
  CASE m.kind \in {"command", "toggle"} -> TakeLock
    [] m.kind = "join"  -> RegisterAll(m.whom, "live")
    [] m.kind = "leave" -> <<Statement("leave", m.whom[1], "left")>>
    [] m.kind = "setup" -> TakeLock \o SetUpAll(m.whom)
    [] OTHER -> <<>>

\* Variant: commands take the lock before they register their author.
CommandLocksFirst(m) ==
  IF m.kind = "command" THEN TakeLock \o Register(m.by, "live")
  ELSE Register(m.by, "live") \o Rest(m)

\* Variant: a departure is marked before its author is registered.
LeaveBeforeAuthor(m) ==
  IF m.kind = "leave" THEN Rest(m) \o Register(m.by, "live")
  ELSE Register(m.by, "live") \o Rest(m)

Handling(m) == Register(m.by, "live") \o Rest(m)

\* Variant: the group is taken to be there.
GroupAssumed(m) == Handling(m)

Program(m) == <<Statement("group", "nobody", "there")>> \o Handling(m)

Init == /\ inbox \in Inboxes
        /\ \E start \in Starts : /\ group = start.group
                                 /\ name = start.name /\ member = start.member
        /\ todo = [h \in Handlers |-> Program(inbox[h])]
        /\ writes = [h \in Handlers |-> <<>>]
        /\ missed = [h \in Handlers |-> {}]
        /\ before = [h \in Handlers |-> {}]
        /\ done = {}

Now(h) == Head(todo[h])

-----------------------------------------------------------------------------
(* One statement of h *)

Then(h, statements) == todo' = [todo EXCEPT ![h] = statements \o Tail(@)]

HasItsTurn(h) == before' = [g \in Handlers |-> before[g] \ {h}]

HeldByOthers(h, r) == \E g \in Handlers \ {h} : r \in DOMAIN writes[g]

Put(h, r, value) ==
  writes' = [writes EXCEPT ![h] = [q \in DOMAIN @ \cup {r} |-> IF q = r THEN value ELSE @[q]]]

\* Reads decide what is to be written, and do not write.
Read(h, statements) == Then(h, statements) /\ UNCHANGED <<inbox, db, writes, missed, before, done>>

FindGroup(h) ==
  /\ Now(h).do = "group"
  /\ Read(h, IF Reads(h, GroupRow) = "none"
             THEN <<Statement("insert_group", "nobody", "there")>> ELSE <<>>)

\* A known identity is refreshed, to what this update says.
FindIdentity(h) ==
  /\ Now(h).do = "find"
  /\ LET p == Now(h).who
         known == Reads(h, IdentityRow(p))
         findMember == Statement("find_member", p, Now(h).value)
     IN Read(h, IF known = "none"
                THEN <<Statement("insert_identity", p, Now(h).value), findMember>>
                ELSE IF known # Now(h).value
                     THEN <<Statement("refresh", p, Now(h).value), findMember>>
                     ELSE <<findMember>>)

\* A member who left is back.
FindMember(h) ==
  /\ Now(h).do = "find_member"
  /\ LET known == Reads(h, MemberRow(Now(h).who))
     IN /\ known = "left" => inbox[h].kind # "toggle"
        /\ Read(h, CASE known = "none" -> <<Statement("insert_member", Now(h).who, "in")>>
                     [] known = "left" -> <<Statement("back", Now(h).who, "in")>>
                     [] known = "in"   -> <<>>)

\* In an Undo or Redo tap that is written after what is left to do: the lock.
FindReturning(h) ==
  /\ Now(h).do = "find_member"
  /\ inbox[h].kind = "toggle" /\ Reads(h, MemberRow(Now(h).who)) = "left"
  /\ todo' = [todo EXCEPT ![h] = Append(Tail(@), Statement("late_back", Now(h).who, "in"))]
  /\ UNCHANGED <<inbox, db, writes, missed, before, done>>

\* A departure of somebody unknown is ignored.
FindLeaver(h) ==
  /\ Now(h).do = "leave"
  /\ Read(h, IF Reads(h, MemberRow(Now(h).who)) = "none" THEN <<>>
             ELSE <<Statement("mark", Now(h).who, "left")>>)

\* Variant: whoever has an identity is taken for a member.
IdentityIsEnough(h, p) == Reads(h, IdentityRow(p)) # "none"

\* Variant: a member who left is set up again.
IsIn(h, p) == Reads(h, MemberRow(p)) = "in"

\* A /setup leaves members alone, those who left included.
IsMember(h, p) == Reads(h, MemberRow(p)) # "none"

LookForTarget(h) ==
  /\ Now(h).do = "look"
  /\ LET p == Now(h).who
     IN /\ Then(h, IF IsMember(h, p) THEN <<>> ELSE Register(p, "snapshot"))
        /\ missed' = [missed EXCEPT ![h] = IF Reads(h, MemberRow(p)) = "none" THEN @ \cup {p} ELSE @]
  /\ UNCHANGED <<inbox, db, writes, before, done>>

RowOf(statement) ==
  CASE statement.do = "insert_group" -> GroupRow
    [] statement.do = "lock" -> LockRow
    [] statement.do \in {"insert_identity", "refresh"} -> IdentityRow(statement.who)
    [] statement.do \in {"insert_member", "back", "late_back", "mark"} -> MemberRow(statement.who)

Inserts == {"insert_group", "insert_identity", "insert_member"}
Updates == {"refresh", "back", "late_back", "mark"}
Statements == Inserts \cup Updates \cup {"lock"}

\* The loser of a race goes on with the winner's row, and does not touch it.
Insert(h) ==
  /\ Now(h).do \in Inserts
  /\ LET r == RowOf(Now(h))
     IN /\ ~ HeldByOthers(h, r)
        /\ IF Reads(h, r) = "none" THEN Put(h, r, Now(h).value) ELSE UNCHANGED writes
  /\ Then(h, <<>>)
  /\ HasItsTurn(h)
  /\ UNCHANGED <<inbox, db, missed, done>>

\* An update, or the lock, waits and then goes ahead.
Update(h) ==
  /\ Now(h).do \in Updates \cup {"lock"}
  /\ ~ HeldByOthers(h, RowOf(Now(h)))
  /\ Put(h, RowOf(Now(h)), Now(h).value)
  /\ Then(h, <<>>)
  /\ HasItsTurn(h)
  /\ UNCHANGED <<inbox, db, missed, done>>

Commit(h) ==
  /\ h \notin done /\ todo[h] = <<>>
  /\ group' = (Reads(h, GroupRow) # "none")
  /\ name' = [p \in People |-> Reads(h, IdentityRow(p))]
  /\ member' = [p \in People |-> Reads(h, MemberRow(p))]
  /\ writes' = [writes EXCEPT ![h] = <<>>]
  /\ done' = done \cup {h}
  /\ UNCHANGED <<inbox, todo, missed, before>>

-----------------------------------------------------------------------------
(* Deadlocks *)

Waits(h, g) == /\ todo[h] # <<>>
               /\ Now(h).do \in Statements
               /\ h # g /\ RowOf(Now(h)) \in DOMAIN writes[g]

\* A row is held by one: who waits in a circle waits for one of it, and is waited for.
Circle(S) == /\ S # {}
             /\ \A h \in S : \E g \in S : Waits(h, g)
             /\ \A h \in S : \E g \in S : Waits(g, h)

InCircle(h) == \E S \in SUBSET Handlers : h \in S /\ Circle(S)

\* Variant: the update of an aborted transaction is not delivered again.
AbortedForGood(h) ==
  /\ InCircle(h)
  /\ todo' = [todo EXCEPT ![h] = <<Statement("nothing", "nobody", "none")>>]
  /\ writes' = [writes EXCEPT ![h] = <<>>]
  /\ HasItsTurn(h)
  /\ UNCHANGED <<inbox, db, missed, done>>

Abort(h) ==
  /\ InCircle(h)
  /\ todo' = [todo EXCEPT ![h] = Program(inbox[h])]
  /\ writes' = [writes EXCEPT ![h] = <<>>]
  /\ missed' = [missed EXCEPT ![h] = {}]
  /\ before' = [g \in Handlers |-> IF g = h THEN {f \in Handlers : Waits(f, h)}
                                   ELSE before[g] \ {h}]
  /\ UNCHANGED <<inbox, db, done>>

Execute(h) ==
  /\ todo[h] # <<>> /\ before[h] = {}
  /\ \/ FindGroup(h) \/ FindIdentity(h) \/ FindMember(h) \/ FindReturning(h)
     \/ FindLeaver(h) \/ LookForTarget(h) \/ Insert(h) \/ Update(h)

Next == \E h \in Handlers : Execute(h) \/ Commit(h) \/ Abort(h)

\* Transactions go on; rows and the lock are granted in the order of the queue; a
\* circle is noticed.
Fairness == /\ \A h \in Handlers : SF_vars(Execute(h)) /\ WF_vars(Commit(h))
            /\ WF_vars(\E h \in Handlers : Abort(h))

Spec == Init /\ [][Next]_vars /\ Fairness

-----------------------------------------------------------------------------
(* Properties *)

Commits(h) == done' = done \cup {h} /\ h \notin done

Speaks(h, p) == \/ inbox[h].by = p
                \/ inbox[h].kind = "join" /\ p \in Range(inbox[h].whom)

\* "Snapshots seed unknown people but never touch an existing member"
\* (identity.py): who left comes back, and a stored name changes, only by an
\* update of their own, whatever else is registered meanwhile.  The exception is a
\* /setup that found no membership when it looked, and whose target then
\* registered, and even left, before it registered them.
OnlySelfReturns ==
  [][\A p \in People :
       (member[p] = "left" /\ member'[p] = "in") \/ (name[p] = "live" /\ name'[p] = "snapshot") =>
         \E h \in Handlers :
           /\ Commits(h)
           /\ Speaks(h, p) \/ (inbox[h].kind = "setup" /\ p \in missed[h])]_vars

\* Who leaves is marked as gone when their departure is handled, even if it is the
\* first that is heard of them and they are being registered elsewhere at the time
\* ("must not outlive their leave", handler.py).
LeaveSticks ==
  [][\A h \in Handlers :
       Commits(h) /\ inbox[h].kind = "leave" /\ inbox[h].whom[1] = inbox[h].by =>
         member'[inbox[h].by] = "left"]_vars

\* Whoever an update registers is registered once it is handled, by whichever of
\* the updates that raced for it; somebody known in another group, too.
RegisteredOnceHandled ==
  \A h \in done :
    /\ member[inbox[h].by] # "none"
    /\ inbox[h].kind \in {"join", "setup"} =>
         \A i \in DOMAIN inbox[h].whom : member[inbox[h].whom[i]] # "none"

\* Updates lock the rows of their author before the advisory lock, in one order, and
\* so never wait for one another in a circle.  It takes one that writes about somebody
\* else, or an Undo or Redo tap of a returning member, who is written as back under
\* the lock: another update of theirs may hold that row and wait for the lock.
DeadlockTakesAnother ==
  \A S \in SUBSET Handlers : Circle(S) =>
    \E h \in S : \/ inbox[h].kind \in {"join", "setup", "leave"}
                 \/ inbox[h].kind = "toggle" /\ Now(h).do = "late_back"

\* Every update is handled, in spite of deadlocks: one that was aborted for another's
\* sake gets through when it is delivered again.
EveryUpdateHandled == <>(done = Handlers)
=============================================================================
