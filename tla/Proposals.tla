----------------------------- MODULE Proposals -----------------------------
(***************************************************************************)
(* The life of one proposal (core/handler.py, core/pending.py): a change   *)
(* understood from free text is parked with the ledger it is meant for,    *)
(* previewed, and then confirmed, cancelled, corrected by a reply, narrowed *)
(* by a tap on a pick-list, or left to expire.                             *)
(*                                                                         *)
(* Each tap and each reply is a transaction of its own.  It reads the      *)
(* parked row first and works from what it read, so that anything may      *)
(* commit between that and its single write.  Only Confirm takes the       *)
(* group's lock, after that read: it resolves its reference under the lock *)
(* and writes later.  The lock keeps expenses and ledgers as they were, as *)
(* their changes take it too; members come and go without it.              *)
(*                                                                         *)
(* Members and expenses stand for everything a proposal can refer to.      *)
(***************************************************************************)
EXTENDS Naturals, FiniteSets

CONSTANTS
  People,      \* accounts
  Names,       \* what a member may be called
  Bears,       \* Bears[n]: the people called n
  Expenses,    \* expenses of the pinned ledger that the words "the dinner" fit
  Words,       \* those words: a reference that names no expense
  Taps,        \* bound: taps and replies the proposal ever gets
  Wordings     \* what people may say: the proposal, and its corrections

\* A new expense refers to who paid, a delete to an expense.
Intents == [kind : {"add"}, ref : Names \cup People, everyone : BOOLEAN] \cup
           [kind : {"delete"}, ref : {Words} \cup Expenses, everyone : {FALSE}]

ASSUME ReferenceAssumption ==
  /\ Bears \in [Names -> SUBSET People]
  /\ Wordings \subseteq {i \in Intents : i.ref \notin People}
  /\ Names \cap People = {} /\ Expenses \cap (Names \cup People) = {}
  /\ Words \notin Names \cup People \cup Expenses
  /\ IsFiniteSet(People) /\ IsFiniteSet(Expenses)

VARIABLES
  members,     \* those registered and not departed
  standing,    \* expenses that are not deleted
  open,        \* is the pinned ledger open?
  row,         \* the parked row
  preview,     \* what the proposal's message was last rendered to promise
  tap,         \* the transactions of taps and replies
  recorded     \* what each of them changed in the books

vars == <<members, standing, open, row, preview, tap, recorded>>

Nothing == {}     \* an empty promise: the pick-list, or a message without Confirm

Verbs == {"confirm", "cancel", "pick", "reply"}

NoRow == [state |-> "none"]
Rows  == {NoRow} \cup [state : {"live", "gone"}, intent : Intents, expired : BOOLEAN]

\* A tap that never came, one that found the row gone, and one that read it.
NoTap == [phase |-> "unused"]
Late  == [phase |-> "done"]
Reads == [phase : {"read", "locked", "done"}, verb : Verbs,
          arg : Intents \cup People \cup Expenses \cup {Words},
          found : SUBSET (People \cup Expenses),     \* by a Confirm, under the lock
          intent : Intents, expired : BOOLEAN,
          shown : SUBSET (People \cup Expenses), before : SUBSET Taps]

TypeOK ==
  /\ members \subseteq People
  /\ standing \subseteq Expenses
  /\ open \in BOOLEAN
  /\ row \in Rows
  /\ preview \subseteq People \cup Expenses
  /\ tap \in [Taps -> {NoTap, Late} \cup Reads]
  /\ recorded \in [Taps -> SUBSET (People \cup Expenses)]

-----------------------------------------------------------------------------
(* References *)

\* Who or what the reference of i may mean when i is applied.  A pinned member
\* is found even after leaving, a pinned expense only while it stands.
Candidates(i) ==
  IF i.ref \in Names THEN Bears[i.ref] \cap members
  ELSE IF i.ref = Words THEN standing
  ELSE IF i.ref \in People THEN {i.ref} ELSE {i.ref} \cap standing

\* The preview of a pinned expense does not ask whether it stands.
Previewed(i) == IF i.ref \in Expenses THEN {i.ref} ELSE Candidates(i)

\* Variant: the first candidate will do.
NeverAmbiguous(S) == FALSE

Ambiguous(S) == Cardinality(S) > 1

\* What applying i to x touches: an expense, or the people sharing a new one.
Touched(i, x) == IF i.kind = "add" /\ i.everyone THEN {x} \cup members ELSE {x}

\* What the message promises after rendering i: the pick-list promises nothing.
Promise(i) == IF Ambiguous(Previewed(i)) THEN Nothing
              ELSE UNION {Touched(i, x) : x \in Previewed(i)}

\* A description that fits one expense is pinned to it at once.
PinUnique(i) == IF i.ref = Words /\ Cardinality(standing) = 1
                THEN [i EXCEPT !.ref = CHOOSE x \in standing : TRUE] ELSE i

-----------------------------------------------------------------------------
Init == /\ members \in SUBSET People
        /\ standing = Expenses
        /\ open = TRUE
        /\ row = NoRow
        /\ preview = Nothing
        /\ tap = [t \in Taps |-> NoTap]
        /\ recorded = [t \in Taps |-> {}]

\* The message is sent by the same delivery; without it there is nothing to tap.
Propose(i) ==
  LET pinned == PinUnique(i) IN
  /\ row.state = "none"
  /\ Previewed(i) # {}
  /\ row' = [state |-> "live", intent |-> pinned, expired |-> FALSE]
  /\ preview' = Promise(pinned)
  /\ UNCHANGED <<members, standing, open, tap, recorded>>

\* What a tap or a reply brings along: the choice tapped, on a keyboard of any
\* age, or what the correction is understood to say, which may be a candidate
\* of the intent it was read against.
Args(verb) ==
  CASE verb = "pick" -> People \cup Expenses
    [] verb = "reply" -> Wordings \cup
         {[row.intent EXCEPT !.ref = x] : x \in Candidates(row.intent)}
    [] OTHER -> {Words}     \* no argument

\* A tap or a reply arrives and reads the row; before remembers which taps had
\* recorded by then.
Begin(t, verb) ==
  /\ tap[t] = NoTap
  /\ \/ /\ row.state = "live"
        /\ \E arg \in Args(verb) :
             tap' = [tap EXCEPT ![t] =
               [phase |-> "read", verb |-> verb, arg |-> arg, found |-> {},
                intent |-> row.intent, expired |-> row.expired, shown |-> preview,
                before |-> {u \in Taps : recorded[u] # {}}]]
     \/ row.state = "gone" /\ tap' = [tap EXCEPT ![t] = Late]
  /\ UNCHANGED <<members, standing, open, row, preview, recorded>>

\* t goes on from what it read and ends.
Ends(t, verb) == /\ tap[t].phase = "read" /\ tap[t].verb = verb
                 /\ tap' = [tap EXCEPT ![t].phase = "done"]

InTime(t) == ~ tap[t].expired

\* Variant: the row is left where it is.
Keep == row' = row

\* Deleting the row leaves it deleted if another transaction was first.
Consume == row' = [row EXCEPT !.state = "gone"]

\* Writing to the row restarts its clock.  If the row is gone the update finds
\* nothing, and the transaction fails as a whole.
Rewrite(i) == /\ row.state = "live"
              /\ row' = [row EXCEPT !.intent = i, !.expired = FALSE]

\* Whatever the verb, an expired row is buried.
Bury(t) ==
  /\ \E verb \in Verbs : Ends(t, verb)
  /\ ~ InTime(t)
  /\ Consume
  /\ UNCHANGED <<members, standing, open, preview, recorded>>

Cancel(t) ==
  /\ Ends(t, "cancel") /\ InTime(t)
  /\ Consume
  /\ UNCHANGED <<members, standing, open, preview, recorded>>

\* Variant: the ledger is not looked at again under the lock.
OpenUnchecked == TRUE

StillOpen == open

\* The lock is held to the end of the transaction.
LockFree == \A t \in Taps : tap[t].phase # "locked"

\* Under the lock the ledger is looked at again, and the intent that was read is
\* resolved again.
ConfirmResolves(t) ==
  LET S == Candidates(tap[t].intent) IN
  /\ tap[t].phase = "read" /\ tap[t].verb = "confirm" /\ InTime(t)
  /\ LockFree /\ StillOpen
  /\ S # {} /\ ~ Ambiguous(S)
  /\ tap' = [tap EXCEPT ![t].phase = "locked", ![t].found = S]
  /\ UNCHANGED <<members, standing, open, row, preview, recorded>>

\* What was found is committed, for the members there are by now.
ConfirmRecords(t) ==
  /\ tap[t].phase = "locked"
  /\ tap' = [tap EXCEPT ![t].phase = "done"]
  /\ \E x \in tap[t].found :
       /\ recorded' = [recorded EXCEPT ![t] = Touched(tap[t].intent, x)]
       /\ standing' = IF tap[t].intent.kind = "delete" THEN standing \ {x} ELSE standing
  /\ Consume
  /\ UNCHANGED <<members, open, preview>>

\* The ledger was archived, or the reference means nothing any more.
ConfirmRefused(t) ==
  /\ Ends(t, "confirm") /\ InTime(t) /\ LockFree
  /\ ~ StillOpen \/ Candidates(tap[t].intent) = {}
  /\ Consume
  /\ UNCHANGED <<members, standing, open, preview, recorded>>

\* The reference became ambiguous: the proposal goes (back) to its pick-list.
ConfirmAmbiguous(t) ==
  /\ Ends(t, "confirm") /\ InTime(t) /\ LockFree /\ StillOpen
  /\ Ambiguous(Candidates(tap[t].intent))
  /\ Rewrite(row.intent)
  /\ preview' = Nothing
  /\ UNCHANGED <<members, standing, open, recorded>>

\* Variant: any choice is taken.
AnyChoice(t) == TRUE

\* The pick-list of the intent that was read is open and holds the choice.
Offered(t) == LET S == Candidates(tap[t].intent) IN Ambiguous(S) /\ tap[t].arg \in S

\* A choice from the open pick-list is written into the intent that was read.
Pick(t) ==
  LET i == tap[t].intent
      pinned == [i EXCEPT !.ref = tap[t].arg]
  IN /\ Ends(t, "pick") /\ InTime(t)
     /\ Offered(t)
     /\ Rewrite(pinned)
     /\ preview' = Promise(pinned)
     /\ UNCHANGED <<members, standing, open, recorded>>

\* A choice that is open no more: the message shows the intent as it is now.
PickStale(t) ==
  LET i == tap[t].intent IN
  /\ Ends(t, "pick") /\ InTime(t)
  /\ ~ Offered(t)
  /\ IF Previewed(i) = {} THEN Consume /\ UNCHANGED preview
     ELSE UNCHANGED row /\ preview' = Promise(i)
  /\ UNCHANGED <<members, standing, open, recorded>>

\* A correction replaces the intent, unless it cannot be rendered.
Refine(t) ==
  LET i == tap[t].arg IN
  /\ Ends(t, "reply") /\ InTime(t)
  /\ IF Previewed(i) = {} THEN UNCHANGED <<row, preview>>
     ELSE Rewrite(PinUnique(i)) /\ preview' = Promise(PinUnique(i))
  /\ UNCHANGED <<members, standing, open, recorded>>

\* The row to be updated is gone: the transaction rolls back.
UpdateFails(t) ==
  /\ \E verb \in {"confirm", "pick", "reply"} : Ends(t, verb)
  /\ InTime(t) /\ row.state = "gone"
  /\ CASE tap[t].verb = "confirm" ->
              LockFree /\ StillOpen /\ Ambiguous(Candidates(tap[t].intent))
       [] tap[t].verb = "pick" -> Offered(t)
       [] tap[t].verb = "reply" -> Previewed(tap[t].arg) # {}
  /\ UNCHANGED <<members, standing, open, row, preview, recorded>>

-----------------------------------------------------------------------------
(* Meanwhile *)

\* A membership is written without the lock, an expense or a ledger under it.
Join(p)  == members' = members \cup {p} /\ UNCHANGED <<standing, open, row, preview, tap, recorded>>
Leave(p) == members' = members \ {p} /\ UNCHANGED <<standing, open, row, preview, tap, recorded>>

Toggle(e) ==
  /\ standing' = IF e \in standing THEN standing \ {e} ELSE standing \cup {e}
  /\ UNCHANGED <<members, open, row, preview, tap, recorded>>

ToggleExpense(e) == LockFree /\ Toggle(e)

ToggleLedger ==
  /\ LockFree
  /\ open' = ~ open
  /\ UNCHANGED <<members, standing, row, preview, tap, recorded>>

Expire == /\ row.state = "live" /\ ~ row.expired
          /\ row' = [row EXCEPT !.expired = TRUE]
          /\ UNCHANGED <<members, standing, open, preview, tap, recorded>>

Next ==
  \/ \E i \in Wordings : Propose(i)
  \/ \E t \in Taps :
       \/ \E verb \in Verbs : Begin(t, verb)
       \/ Bury(t) \/ Cancel(t)
       \/ ConfirmResolves(t) \/ ConfirmRecords(t) \/ ConfirmRefused(t) \/ ConfirmAmbiguous(t)
       \/ Pick(t) \/ PickStale(t) \/ Refine(t) \/ UpdateFails(t)
  \/ \E p \in People : Join(p) \/ Leave(p)
  \/ \E e \in Expenses : ToggleExpense(e)
  \/ ToggleLedger \/ Expire

Spec == Init /\ [][Next]_vars

-----------------------------------------------------------------------------
(* Properties *)

Records == {t \in Taps : recorded[t] # {}}

\* A proposal commits to the ledger it was pinned to, and only while that
\* ledger is open: an archive between the tap's read of the row and its lock is
\* noticed, and one between the lock and the commit waits.
CommitsToOpenLedger == [][recorded' # recorded => open]_vars

\* Nothing is guessed: a delete takes the only expense its words mean at the
\* moment of the commit, whatever other taps and commands committed since the
\* preview, the read of the row and the resolution of the reference.  (Of a
\* member this cannot be said: people join and leave without the lock.)
NothingGuessed ==
  [][\A t \in Taps : recorded'[t] # recorded[t] /\ tap[t].intent.kind = "delete" =>
       Candidates(tap[t].intent) = recorded'[t] /\ Cardinality(recorded'[t]) = 1]_vars

\* A proposal is used up: no tap that arrives after one that recorded records
\* again.  Only taps that overlap in time can.
LaterTapsRecordNothing == \A t \in Records : tap[t].before = {}

\* A pinned member is one that words said about this very kind of change fit,
\* however taps on old pick-lists and corrections overtake each other.
PinsFitTheWords ==
  row.state # "none" /\ row.intent.ref \in People =>
    \E i \in Wordings : /\ i.kind = row.intent.kind /\ i.ref \in Names
                        /\ row.intent.ref \in Bears[i.ref]

\* "Confirm consumes and deletes the pending row in the transaction, so a
\* double-tap finds nothing" (ARCHITECTURE-v2.md).
RecordedOnce == Cardinality(Records) <= 1

\* The preview "must name EXACTLY the people the confirm will commit"
\* (apply.py), and a described expense must not be "silently retargeted"
\* (handler.py).
CommitsWhatWasShown ==
  \A t \in Records : tap[t].shown # Nothing => recorded[t] = tap[t].shown
=============================================================================
