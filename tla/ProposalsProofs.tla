-------------------------- MODULE ProposalsProofs --------------------------
(***************************************************************************)
(* What holds of Proposals for any people, names, expenses, wordings and   *)
(* any number of taps and replies.                                         *)
(*                                                                         *)
(* The argument: the row is gone once a tap has recorded, and it does not  *)
(* come back, so that who reads it does so before anything is recorded;    *)
(* and an intent that is written to the row is one that words said, or one *)
(* whose reference was narrowed to somebody those words fit.  A Confirm    *)
(* that has resolved its reference holds the lock, and without the lock    *)
(* neither the ledger nor the expenses change.                             *)
(***************************************************************************)
EXTENDS Proposals, FiniteSetTheorems, TLAPS

\* i is what somebody said, or a member they may have meant.
Said(i) ==
  /\ i.ref \in People => \E w \in Wordings : /\ w.kind = i.kind /\ w.ref \in Names
                                             /\ i.ref \in Bears[w.ref]
  /\ i.ref \in Names => \E w \in Wordings : w.kind = i.kind /\ w.ref = i.ref

WordsKept ==
  /\ row # NoRow => Said(row.intent)
  /\ \A t \in Taps : tap[t].phase = "read" =>
       /\ Said(tap[t].intent)
       /\ tap[t].verb = "reply" => tap[t].arg \in Intents /\ Said(tap[t].arg)

UsedUp ==
  /\ \A t \in Taps : tap[t] # NoTap => row # NoRow
  /\ row.state # "gone" => \A t \in Taps : recorded[t] = {}
  /\ \A t \in Taps : tap[t] \in Reads => tap[t].before = {}
  /\ \A t \in Taps : recorded[t] # {} => tap[t] \in Reads /\ tap[t].phase = "done"

\* What the lock keeps as it was found: the ledger, and what a delete means.
Held ==
  \A t \in Taps : tap[t].phase = "locked" =>
    LET i == tap[t].intent IN
    /\ open
    /\ \A u \in Taps : tap[u].phase = "locked" => u = t
    /\ i.kind = "delete" =>
         /\ tap[t].found = IF i.ref = Words THEN standing ELSE {i.ref} \cap standing
         /\ Cardinality(tap[t].found) = 1

IInv == TypeOK /\ WordsKept /\ UsedUp /\ Held

-----------------------------------------------------------------------------
(* References *)

LEMMA CandidatesType ==
  ASSUME TypeOK, NEW i \in Intents
  PROVE  /\ Candidates(i) \subseteq People \cup Expenses
         /\ Previewed(i) \subseteq People \cup Expenses
<1>1. i.ref \in Names => Bears[i.ref] \subseteq People
  BY ReferenceAssumption
<1>2. i.ref \in Names \cup People \cup {Words} \cup Expenses
  BY DEF Intents
<1>3. Candidates(i) \subseteq People \cup Expenses
  BY <1>1, <1>2 DEF Candidates, TypeOK
<1> QED BY <1>3 DEF Previewed

\* What a delete may mean does not depend on who is registered.
LEMMA DeleteCandidates ==
  ASSUME NEW i \in Intents, i.kind = "delete"
  PROVE  Candidates(i) = IF i.ref = Words THEN standing ELSE {i.ref} \cap standing
<1>1. i.ref \in {Words} \cup Expenses
  BY DEF Intents
<1>2. i.ref \notin Names /\ i.ref \notin People
  BY <1>1, ReferenceAssumption
<1> QED BY <1>2 DEF Candidates

LEMMA TouchedType ==
  ASSUME TypeOK, NEW i \in Intents, NEW x \in People \cup Expenses
  PROVE  Touched(i, x) \subseteq People \cup Expenses
BY DEF Touched, TypeOK

LEMMA PromiseType ==
  ASSUME TypeOK, NEW i \in Intents PROVE Promise(i) \subseteq People \cup Expenses
<1>1. \A x \in Previewed(i) : Touched(i, x) \subseteq People \cup Expenses
  BY CandidatesType, TouchedType
<1>2. UNION {Touched(i, x) : x \in Previewed(i)} \subseteq People \cup Expenses
  BY <1>1
<1> QED BY <1>2 DEF Promise, Nothing

\* A reference may be narrowed to any of its candidates.
LEMMA Narrowed ==
  ASSUME TypeOK, NEW i \in Intents, Said(i), NEW x \in Candidates(i)
  PROVE  [i EXCEPT !.ref = x] \in Intents /\ Said([i EXCEPT !.ref = x])
<1> DEFINE j == [i EXCEPT !.ref = x]
<1>1. \/ i.kind = "add" /\ i.ref \in Names \cup People /\ i.everyone \in BOOLEAN
      \/ i.kind = "delete" /\ i.ref \in {Words} \cup Expenses /\ i.everyone = FALSE
  BY DEF Intents
<1>2. j.kind = i.kind /\ j.ref = x /\ j.everyone = i.everyone
  BY DEF Intents
<1>3. j = [kind |-> i.kind, ref |-> x, everyone |-> i.everyone]
  <2>1. CASE i \in [kind : {"add"}, ref : Names \cup People, everyone : BOOLEAN]
    BY <2>1
  <2>2. CASE i \in [kind : {"delete"}, ref : {Words} \cup Expenses, everyone : {FALSE}]
    BY <2>2
  <2> QED BY <2>1, <2>2 DEF Intents
<1>4. CASE i.ref \in Names
  <2>1. x \in Bears[i.ref] /\ x \in People /\ i.kind = "add" /\ i.everyone \in BOOLEAN
    BY <1>1, <1>4, ReferenceAssumption DEF Candidates
  <2>2. j \in Intents
    BY <1>3, <2>1 DEF Intents
  <2>3. Said(j)
    <3>1. PICK w \in Wordings : w.kind = i.kind /\ w.ref = i.ref
      BY <1>4 DEF Said
    <3> QED BY <1>2, <1>4, <2>1, <3>1, ReferenceAssumption DEF Said
  <2> QED BY <2>2, <2>3
<1>5. CASE i.ref = Words
  <2>1. x \in Expenses /\ i.kind = "delete" /\ i.everyone = FALSE
    BY <1>1, <1>5, ReferenceAssumption DEF Candidates, TypeOK
  <2>2. j \in Intents
    BY <1>3, <2>1 DEF Intents
  <2> QED BY <1>2, <2>1, <2>2, ReferenceAssumption DEF Said
<1>6. CASE i.ref \in People \cup Expenses
  <2>1. x = i.ref
    BY <1>6, ReferenceAssumption DEF Candidates
  <2>2. j = i
    BY <2>1 DEF Intents
  <2> QED BY <2>2
<1> QED BY <1>1, <1>4, <1>5, <1>6

LEMMA PinUniqueSaid ==
  ASSUME TypeOK, NEW i \in Intents, Said(i)
  PROVE  PinUnique(i) \in Intents /\ Said(PinUnique(i))
<1>1. CASE i.ref = Words /\ Cardinality(standing) = 1
  <2>1. standing # {}
    BY <1>1, FS_EmptySet
  <2>2. (CHOOSE x \in standing : TRUE) \in Candidates(i)
    BY <1>1, <2>1, ReferenceAssumption DEF Candidates
  <2> QED BY <1>1, <2>2, Narrowed DEF PinUnique
<1>2. CASE ~ (i.ref = Words /\ Cardinality(standing) = 1)
  BY <1>2 DEF PinUnique
<1> QED BY <1>1, <1>2

LEMMA WordingsSaid == \A w \in Wordings : w \in Intents /\ Said(w)
BY ReferenceAssumption DEF Said

\* A reference that may mean something and is not ambiguous means one thing.
LEMMA OneCandidate ==
  ASSUME TypeOK, NEW i \in Intents, Candidates(i) # {}, ~ Ambiguous(Candidates(i))
  PROVE  Cardinality(Candidates(i)) = 1
<1>1. IsFiniteSet(People \cup Expenses)
  BY ReferenceAssumption, FS_Union
<1>2. IsFiniteSet(Candidates(i))
  BY <1>1, CandidatesType, FS_Subset
<1>3. Cardinality(Candidates(i)) \in Nat /\ Cardinality(Candidates(i)) # 0
  BY <1>2, FS_CardinalityType, FS_EmptySet
<1> QED BY <1>3 DEF Ambiguous

-----------------------------------------------------------------------------
(* The actions *)

LEMMA InitIInv == Init => IInv
<1> SUFFICES ASSUME Init PROVE IInv
  OBVIOUS
<1>1. TypeOK
  BY DEF Init, TypeOK, Rows, Nothing
<1>2. \A t \in Taps : tap[t] = NoTap /\ recorded[t] = {}
  BY DEF Init
<1>3. NoTap \notin Reads /\ NoTap.phase \notin {"read", "locked"}
  BY DEF NoTap, Reads
<1> QED BY <1>1, <1>2, <1>3 DEF Init, IInv, WordsKept, UsedUp, Held

LEMMA RowFields ==
  ASSUME TypeOK
  PROVE  /\ row.state \in {"none", "live", "gone"} /\ (row.state = "none" <=> row = NoRow)
         /\ row # NoRow => row.intent \in Intents /\ row.expired \in BOOLEAN
BY DEF TypeOK, Rows, NoRow

LEMMA TapFields ==
  ASSUME TypeOK, NEW t \in Taps
  PROVE  /\ tap[t] \in Reads \/ tap[t] = NoTap \/ tap[t] = Late
         /\ tap[t].phase \in {"read", "locked"} => tap[t] \in Reads
         /\ NoTap \notin Reads /\ Late \notin Reads
         /\ NoTap.phase = "unused" /\ Late.phase = "done"
         /\ tap[t] \in Reads => /\ tap[t].verb \in Verbs /\ tap[t].intent \in Intents
                                /\ tap[t].arg \in Intents \cup People \cup Expenses \cup {Words}
                                /\ tap[t].found \subseteq People \cup Expenses
BY DEF TypeOK, NoTap, Late, Reads

LEMMA ProposeStep == ASSUME IInv, NEW i \in Wordings, Propose(i) PROVE IInv'
<1>1. PinUnique(i) \in Intents /\ Said(PinUnique(i))
  BY WordingsSaid, PinUniqueSaid DEF IInv
<1>2. Promise(PinUnique(i)) \subseteq People \cup Expenses
  BY <1>1, PromiseType DEF IInv
<1>3. /\ row.state = "none" /\ members' = members /\ standing' = standing /\ open' = open
      /\ tap' = tap /\ recorded' = recorded /\ preview' = Promise(PinUnique(i))
      /\ row' = [state |-> "live", intent |-> PinUnique(i), expired |-> FALSE]
  BY DEF Propose
<1>4. row' \in Rows /\ row' # NoRow /\ row'.intent = PinUnique(i)
  BY <1>1, <1>3 DEF Rows, NoRow
<1>5. TypeOK'
  BY <1>2, <1>3, <1>4 DEF IInv, TypeOK
<1>6. WordsKept'
  BY <1>1, <1>3, <1>4 DEF IInv, WordsKept, Said
<1>7. UsedUp'
  BY <1>3, <1>4 DEF IInv, UsedUp
<1>8. Held'
  BY <1>3 DEF IInv, Held
<1> QED BY <1>5, <1>6, <1>7, <1>8 DEF IInv

LEMMA BeginStep == ASSUME IInv, NEW t \in Taps, NEW verb \in Verbs, Begin(t, verb) PROVE IInv'
<1>1. /\ tap[t] = NoTap /\ members' = members /\ standing' = standing /\ open' = open
      /\ row' = row /\ preview' = preview /\ recorded' = recorded
  BY DEF Begin
<1>2. recorded[t] = {}
  BY <1>1, TapFields DEF IInv, UsedUp
<1>3. CASE row.state = "gone" /\ tap' = [tap EXCEPT ![t] = Late]
  <2>1. /\ tap' \in [Taps -> {NoTap, Late} \cup Reads] /\ tap'[t] = Late
        /\ \A u \in Taps : u # t => tap'[u] = tap[u]
    BY <1>3 DEF IInv, TypeOK
  <2>2. Late \notin Reads /\ Late.phase \notin {"read", "locked"} /\ row # NoRow
    BY <1>3, TapFields, RowFields DEF IInv
  <2>3. TypeOK'
    BY <1>1, <2>1 DEF IInv, TypeOK
  <2>4. WordsKept'
    BY <1>1, <2>1, <2>2 DEF IInv, WordsKept, Said
  <2>5. UsedUp'
    BY <1>1, <1>2, <2>1, <2>2 DEF IInv, UsedUp
  <2>6. Held'
    BY <1>1, <2>1, <2>2 DEF IInv, Held
  <2> QED BY <2>3, <2>4, <2>5, <2>6 DEF IInv
<1>4. ASSUME row.state = "live", NEW arg \in Args(verb),
             tap' = [tap EXCEPT ![t] =
               [phase |-> "read", verb |-> verb, arg |-> arg, found |-> {},
                intent |-> row.intent, expired |-> row.expired, shown |-> preview,
                before |-> {u \in Taps : recorded[u] # {}}]]
      PROVE  IInv'
  <2> DEFINE r == [phase |-> "read", verb |-> verb, arg |-> arg, found |-> {},
                   intent |-> row.intent, expired |-> row.expired, shown |-> preview,
                   before |-> {u \in Taps : recorded[u] # {}}]
  <2>1. row # NoRow /\ row.intent \in Intents /\ row.expired \in BOOLEAN /\ Said(row.intent)
    BY <1>4, RowFields DEF IInv, WordsKept, NoRow
  <2>2. \A x \in Candidates(row.intent) :
          [row.intent EXCEPT !.ref = x] \in Intents /\ Said([row.intent EXCEPT !.ref = x])
    BY <2>1, Narrowed DEF IInv
  <2>3. verb = "reply" => arg \in Intents /\ Said(arg)
    BY <2>2, WordingsSaid DEF Args
  <2>4. arg \in Intents \cup People \cup Expenses \cup {Words}
    BY <2>3 DEF Args, Verbs
  <2>5. {u \in Taps : recorded[u] # {}} = {}
    BY <1>4 DEF IInv, UsedUp
  <2>6. r \in Reads
    BY <2>1, <2>4 DEF Reads, IInv, TypeOK
  <2>7. r.phase = "read" /\ r.verb = verb /\ r.arg = arg /\ r.intent = row.intent
        /\ r.before = {}
    BY <2>5
  <2>8. /\ tap' \in [Taps -> {NoTap, Late} \cup Reads] /\ tap'[t] = r
        /\ \A u \in Taps : u # t => tap'[u] = tap[u]
    BY <1>4, <2>6 DEF IInv, TypeOK
  <2> HIDE DEF r
  <2>9. TypeOK'
    BY <1>1, <2>8 DEF IInv, TypeOK
  <2>10. WordsKept'
    BY <1>1, <2>1, <2>3, <2>7, <2>8 DEF IInv, WordsKept, Said
  <2>11. UsedUp'
    BY <1>1, <1>2, <2>1, <2>7, <2>8 DEF IInv, UsedUp
  <2>12. Held'
    BY <1>1, <2>7, <2>8 DEF IInv, Held
  <2> QED BY <2>9, <2>10, <2>11, <2>12 DEF IInv
<1> QED BY <1>3, <1>4 DEF Begin

\* t ends, from its read or from under the lock.
Finishes(t) == /\ tap[t].phase \in {"read", "locked"}
               /\ tap' = [tap EXCEPT ![t].phase = "done"]

\* What a tap or a reply does that ends: nothing to what it had read.
LEMMA Ending ==
  ASSUME TypeOK, NEW t \in Taps, Finishes(t)
  PROVE  /\ tap[t] \in Reads /\ tap[t].phase \in {"read", "locked"}
         /\ tap' \in [Taps -> {NoTap, Late} \cup Reads]
         /\ tap'[t] \in Reads /\ tap'[t].phase = "done" /\ tap'[t].before = tap[t].before
         /\ \A u \in Taps : u # t => tap'[u] = tap[u]
<1>1. tap[t] \in Reads /\ tap[t].phase \in {"read", "locked"}
  BY TapFields DEF Finishes
<1>2. tap' = [tap EXCEPT ![t] = [tap[t] EXCEPT !.phase = "done"]]
  BY DEF Finishes
<1>3. /\ [tap[t] EXCEPT !.phase = "done"] \in Reads
      /\ [tap[t] EXCEPT !.phase = "done"].phase = "done"
      /\ [tap[t] EXCEPT !.phase = "done"].before = tap[t].before
  BY <1>1 DEF Reads
<1> QED BY <1>1, <1>2, <1>3 DEF TypeOK

LEMMA EndsFinishes ==
  \A t \in Taps : \A verb \in Verbs :
    Ends(t, verb) => Finishes(t) /\ tap[t].phase = "read" /\ tap[t].verb = verb
BY DEF Ends, Finishes

\* A tap that ends and leaves the row as it was, consumes it, or rewrites it while
\* it is there; if it records, it consumes it, and it touches an expense only if it
\* holds the lock.
LEMMA EndStep ==
  ASSUME IInv, NEW t \in Taps, Finishes(t),
         members' = members, standing' \subseteq Expenses, open' = open,
         standing' = standing \/ tap[t].phase = "locked",
         preview' \subseteq People \cup Expenses,
         \/ row' = row \/ Consume
         \/ \E i \in Intents : Said(i) /\ Rewrite(i),
         \/ recorded' = recorded
         \/ \E S \in SUBSET (People \cup Expenses) :
              recorded' = [recorded EXCEPT ![t] = S] /\ Consume
  PROVE  IInv'
<1>1. /\ tap[t] \in Reads /\ tap[t].phase \in {"read", "locked"}
      /\ tap' \in [Taps -> {NoTap, Late} \cup Reads]
      /\ tap'[t] \in Reads /\ tap'[t].phase = "done" /\ tap'[t].before = tap[t].before
      /\ \A u \in Taps : u # t => tap'[u] = tap[u]
  BY Ending DEF IInv
<1>2. /\ row # NoRow /\ row \in [state : {"live", "gone"}, intent : Intents, expired : BOOLEAN]
      /\ Said(row.intent) /\ NoTap \notin Reads
  <2>1. row # NoRow
    BY <1>1, TapFields DEF IInv, UsedUp
  <2> QED BY <2>1, TapFields DEF IInv, TypeOK, Rows, WordsKept
<1>3. /\ row' \in Rows /\ row' # NoRow /\ Said(row'.intent)
      /\ row'.state # "gone" => row.state # "gone" /\ ~ Consume
  <2>1. CASE row' = row /\ ~ Consume
    BY <1>2, <2>1 DEF IInv, TypeOK
  <2>2. CASE Consume
    <3>1. row' = [row EXCEPT !.state = "gone"]
      BY <2>2 DEF Consume
    <3>2. /\ row' \in [state : {"live", "gone"}, intent : Intents, expired : BOOLEAN]
          /\ row'.intent = row.intent /\ row'.state = "gone"
      BY <1>2, <3>1
    <3> QED BY <1>2, <3>2 DEF Rows, NoRow
  <2>3. CASE (\E i \in Intents : Said(i) /\ Rewrite(i)) /\ ~ Consume
    <3>1. PICK i \in Intents : Said(i) /\ Rewrite(i)
      BY <2>3
    <3>2. row' = [row EXCEPT !.intent = i, !.expired = FALSE] /\ row.state = "live"
      BY <3>1 DEF Rewrite
    <3>3. row' = [state |-> "live", intent |-> i, expired |-> FALSE]
      BY <1>2, <3>2
    <3> QED BY <2>3, <3>1, <3>2, <3>3 DEF Rows, NoRow
  <2> QED BY <2>1, <2>2, <2>3
<1>4. /\ recorded' \in [Taps -> SUBSET (People \cup Expenses)]
      /\ \A u \in Taps : u # t => recorded'[u] = recorded[u]
      /\ recorded' = recorded \/ Consume
  BY DEF IInv, TypeOK
<1>5. TypeOK'
  BY <1>1, <1>3, <1>4 DEF IInv, TypeOK
<1>6. WordsKept'
  <2>1. \A u \in Taps : tap'[u].phase = "read" => u # t
    BY <1>1
  <2> QED BY <1>1, <1>3, <2>1 DEF IInv, WordsKept, Said
<1>7. UsedUp'
  <2>1. row'.state # "gone" => \A u \in Taps : recorded'[u] = {}
    BY <1>3, <1>4 DEF IInv, UsedUp
  <2>2. \A u \in Taps : /\ tap'[u] \in Reads => tap'[u].before = {}
                        /\ recorded'[u] # {} => tap'[u] \in Reads /\ tap'[u].phase = "done"
    BY <1>1, <1>4 DEF IInv, UsedUp
  <2> QED BY <1>3, <2>1, <2>2 DEF UsedUp
<1>8. Held'
  <2> SUFFICES ASSUME NEW u \in Taps, tap'[u].phase = "locked"
               PROVE  /\ tap[u].phase = "locked" /\ tap'[u] = tap[u] /\ u # t
                      /\ standing' = standing
                      /\ \A v \in Taps : tap'[v].phase = "locked" => tap[v].phase = "locked"
    BY DEF IInv, Held
  <2>1. u # t /\ tap'[u] = tap[u]
    BY <1>1
  <2>2. tap[t].phase # "locked"
    BY <2>1 DEF IInv, Held
  <2> QED BY <1>1, <2>1, <2>2
<1> QED BY <1>5, <1>6, <1>7, <1>8 DEF IInv

\* A tap or a reply that records nothing.
LEMMA QuietStep ==
  ASSUME IInv, NEW t \in Taps,
         Bury(t) \/ Cancel(t) \/ ConfirmRefused(t) \/ UpdateFails(t)
  PROVE  IInv'
<1>1. /\ \E verb \in Verbs : Ends(t, verb)
      /\ members' = members /\ standing' = standing /\ open' = open /\ preview' = preview
      /\ recorded' = recorded /\ (row' = row \/ Consume)
  BY DEF Bury, Cancel, ConfirmRefused, UpdateFails, Verbs
<1>2. Finishes(t)
  BY <1>1, EndsFinishes
<1> QED BY <1>1, <1>2, EndStep DEF IInv, TypeOK

LEMMA ConfirmResolvesStep == ASSUME IInv, NEW t \in Taps, ConfirmResolves(t) PROVE IInv'
<1>1. PICK i, S : i = tap[t].intent /\ S = Candidates(i)
  OBVIOUS
<1>2. /\ tap[t].phase = "read" /\ LockFree /\ open /\ S # {} /\ ~ Ambiguous(S)
      /\ tap' = [tap EXCEPT ![t] = [tap[t] EXCEPT !.phase = "locked", !.found = S]]
      /\ members' = members /\ standing' = standing /\ open' = open /\ row' = row
      /\ preview' = preview /\ recorded' = recorded
  BY <1>1 DEF ConfirmResolves, StillOpen
<1>3. tap[t] \in Reads /\ i \in Intents /\ S \subseteq People \cup Expenses
  BY <1>1, <1>2, TapFields, CandidatesType DEF IInv
<1>4. PICK r : r = [tap[t] EXCEPT !.phase = "locked", !.found = S]
  OBVIOUS
<1>5. /\ r \in Reads /\ r.phase = "locked" /\ r.found = S /\ r.intent = i
      /\ r.before = tap[t].before
  BY <1>1, <1>3, <1>4 DEF Reads
<1>6. /\ tap' \in [Taps -> {NoTap, Late} \cup Reads] /\ tap'[t] = r
      /\ \A u \in Taps : u # t => tap'[u] = tap[u]
  BY <1>2, <1>4, <1>5 DEF IInv, TypeOK
<1>7. TypeOK'
  BY <1>2, <1>6 DEF IInv, TypeOK
<1>8. WordsKept'
  BY <1>2, <1>5, <1>6 DEF IInv, WordsKept, Said
<1>9. UsedUp'
  <2>1. recorded[t] = {} /\ tap[t] # NoTap
    BY <1>2, <1>3, TapFields DEF IInv, UsedUp
  <2> QED BY <1>2, <1>3, <1>5, <1>6, <2>1 DEF IInv, UsedUp
<1>10. Held'
  <2>1. Cardinality(S) = 1
    BY <1>1, <1>2, <1>3, OneCandidate DEF IInv
  <2>2. i.kind = "delete" => S = IF i.ref = Words THEN standing ELSE {i.ref} \cap standing
    BY <1>1, <1>3, DeleteCandidates
  <2>3. \A u \in Taps : tap'[u].phase = "locked" => u = t
    BY <1>2, <1>6 DEF LockFree
  <2> QED BY <1>2, <1>5, <1>6, <2>1, <2>2, <2>3 DEF Held
<1> QED BY <1>7, <1>8, <1>9, <1>10 DEF IInv

LEMMA ConfirmRecordsStep == ASSUME IInv, NEW t \in Taps, ConfirmRecords(t) PROVE IInv'
<1> DEFINE i == tap[t].intent
<1>1. /\ Finishes(t) /\ tap[t].phase = "locked" /\ Consume
      /\ members' = members /\ open' = open /\ preview' = preview
  BY DEF ConfirmRecords, Finishes
<1>2. PICK x \in tap[t].found :
        /\ recorded' = [recorded EXCEPT ![t] = Touched(i, x)]
        /\ standing' = IF i.kind = "delete" THEN standing \ {x} ELSE standing
  BY DEF ConfirmRecords
<1>3. i \in Intents /\ x \in People \cup Expenses
  BY <1>1, <1>2, TapFields DEF IInv
<1>4. Touched(i, x) \in SUBSET (People \cup Expenses)
  BY <1>3, TouchedType DEF IInv
<1> HIDE DEF i
<1>5. standing' \subseteq Expenses /\ preview \subseteq People \cup Expenses
  BY <1>2 DEF IInv, TypeOK
<1> QED BY <1>1, <1>2, <1>4, <1>5, EndStep

LEMMA ConfirmAmbiguousStep == ASSUME IInv, NEW t \in Taps, ConfirmAmbiguous(t) PROVE IInv'
<1>1. /\ Ends(t, "confirm") /\ "confirm" \in Verbs /\ Rewrite(row.intent)
      /\ members' = members /\ open' = open /\ preview' = {} /\ standing' = standing
      /\ recorded' = recorded
  BY DEF ConfirmAmbiguous, Verbs, Nothing
<1>2. row.intent \in Intents /\ Said(row.intent)
  BY <1>1, RowFields DEF IInv, WordsKept, Rewrite
<1>3. Finishes(t)
  BY <1>1, EndsFinishes
<1> QED BY <1>1, <1>2, <1>3, EndStep DEF IInv, TypeOK

LEMMA PickStep == ASSUME IInv, NEW t \in Taps, Pick(t) \/ PickStale(t) PROVE IInv'
<1> DEFINE i == tap[t].intent
           pinned == [i EXCEPT !.ref = tap[t].arg]
<1>1. /\ Ends(t, "pick") /\ "pick" \in Verbs /\ members' = members /\ open' = open
      /\ standing' = standing /\ recorded' = recorded
  BY DEF Pick, PickStale, Verbs
<1>2. i \in Intents /\ Said(i) /\ Finishes(t)
  BY <1>1, EndsFinishes, TapFields DEF IInv, WordsKept
<1>3. CASE Pick(t)
  <2>1. tap[t].arg \in Candidates(i) /\ Rewrite(pinned) /\ preview' = Promise(pinned)
    BY <1>3 DEF Pick, Offered
  <2>2. pinned \in Intents /\ Said(pinned)
    BY <1>2, <2>1, Narrowed DEF IInv
  <2>3. preview' \subseteq People \cup Expenses
    BY <2>1, <2>2, PromiseType DEF IInv
  <2> HIDE DEF pinned
  <2> QED BY <1>1, <1>2, <2>1, <2>2, <2>3, EndStep DEF IInv, TypeOK
<1>4. CASE PickStale(t)
  <2>1. (row' = row \/ Consume) /\ (preview' = preview \/ preview' = Promise(i))
    BY <1>4 DEF PickStale
  <2>2. preview' \subseteq People \cup Expenses
    BY <1>2, <2>1, PromiseType DEF IInv, TypeOK
  <2> QED BY <1>1, <1>2, <2>1, <2>2, EndStep DEF IInv, TypeOK
<1> QED BY <1>3, <1>4

LEMMA RefineStep == ASSUME IInv, NEW t \in Taps, Refine(t) PROVE IInv'
<1> DEFINE i == tap[t].arg
<1>1. /\ Ends(t, "reply") /\ "reply" \in Verbs /\ members' = members /\ open' = open
      /\ standing' = standing /\ recorded' = recorded
      /\ \/ row' = row /\ preview' = preview
         \/ Rewrite(PinUnique(i)) /\ preview' = Promise(PinUnique(i))
  BY DEF Refine, Verbs
<1>2. i \in Intents /\ Said(i) /\ Finishes(t)
  BY <1>1, EndsFinishes DEF IInv, WordsKept
<1>3. PinUnique(i) \in Intents /\ Said(PinUnique(i))
  BY <1>2, PinUniqueSaid DEF IInv
<1>4. preview' \subseteq People \cup Expenses
  BY <1>1, <1>3, PromiseType DEF IInv, TypeOK
<1> QED BY <1>1, <1>2, <1>3, <1>4, EndStep DEF IInv, TypeOK

\* What happens meanwhile, and an expiry, leaves the words and the records alone.
LEMMA MeanwhileStep ==
  ASSUME IInv,
         \/ \E p \in People : Join(p) \/ Leave(p)
         \/ \E e \in Expenses : ToggleExpense(e)
         \/ ToggleLedger \/ Expire \/ UNCHANGED vars
  PROVE  IInv'
<1>1. /\ tap' = tap /\ recorded' = recorded /\ preview' = preview
      /\ members' \subseteq People /\ standing' \subseteq Expenses /\ open' \in BOOLEAN
  <2>1. CASE \E p \in People : Join(p) \/ Leave(p)
    BY <2>1 DEF Join, Leave, IInv, TypeOK
  <2>2. CASE \E e \in Expenses : ToggleExpense(e)
    BY <2>2 DEF ToggleExpense, Toggle, IInv, TypeOK
  <2>3. CASE ToggleLedger \/ Expire \/ UNCHANGED vars
    BY <2>3 DEF ToggleLedger, Expire, vars, IInv, TypeOK
  <2> QED BY <2>1, <2>2, <2>3
<1>2. row' = row \/ (row.state = "live" /\ row' = [row EXCEPT !.expired = TRUE])
  BY DEF Join, Leave, ToggleExpense, Toggle, ToggleLedger, Expire, vars
<1>3. /\ row' \in Rows /\ (row' = NoRow <=> row = NoRow) /\ row'.state = row.state
      /\ row # NoRow => row'.intent = row.intent
  <2>1. CASE row' = row
    BY <2>1 DEF IInv, TypeOK
  <2>2. CASE row.state = "live" /\ row' = [row EXCEPT !.expired = TRUE]
    <3>1. row \in [state : {"live", "gone"}, intent : Intents, expired : BOOLEAN]
          /\ row # NoRow
      BY <2>2 DEF IInv, TypeOK, Rows, NoRow
    <3>2. /\ row' \in [state : {"live", "gone"}, intent : Intents, expired : BOOLEAN]
          /\ row'.state = "live" /\ row'.intent = row.intent
      BY <2>2, <3>1
    <3> QED BY <2>2, <3>1, <3>2 DEF Rows, NoRow
  <2> QED BY <1>2, <2>1, <2>2
<1>4. TypeOK'
  BY <1>1, <1>3 DEF IInv, TypeOK
<1>5. WordsKept'
  BY <1>1, <1>3 DEF IInv, WordsKept, Said
<1>6. UsedUp'
  BY <1>1, <1>3 DEF IInv, UsedUp
<1>7. Held'
  <2>1. (standing' = standing /\ open' = open) \/ LockFree
    BY DEF Join, Leave, ToggleExpense, ToggleLedger, Expire, vars
  <2> QED BY <1>1, <2>1 DEF IInv, Held, LockFree
<1> QED BY <1>4, <1>5, <1>6, <1>7 DEF IInv

LEMMA NextIInv == IInv /\ [Next]_vars => IInv'
<1> SUFFICES ASSUME IInv, [Next]_vars PROVE IInv'
  OBVIOUS
<1>1. CASE \E i \in Wordings : Propose(i)
  BY <1>1, ProposeStep
<1>2. ASSUME NEW t \in Taps, \E verb \in Verbs : Begin(t, verb) PROVE IInv'
  BY <1>2, BeginStep
<1>3. ASSUME NEW t \in Taps,
             \/ Bury(t) \/ Cancel(t) \/ ConfirmRefused(t) \/ UpdateFails(t)
             \/ ConfirmResolves(t) \/ ConfirmRecords(t) \/ ConfirmAmbiguous(t)
             \/ Pick(t) \/ PickStale(t) \/ Refine(t)
      PROVE  IInv'
  BY <1>3, QuietStep, ConfirmResolvesStep, ConfirmRecordsStep, ConfirmAmbiguousStep, PickStep, RefineStep
<1>4. CASE \/ \E p \in People : Join(p) \/ Leave(p)
           \/ \E e \in Expenses : ToggleExpense(e)
           \/ ToggleLedger \/ Expire \/ UNCHANGED vars
  BY <1>4, MeanwhileStep
<1> QED BY <1>1, <1>2, <1>3, <1>4 DEF Next

\* Only a Confirm that has resolved its reference records.
LEMMA OnlyConfirmRecords ==
  ASSUME [Next]_vars, recorded' # recorded
  PROVE  \E t \in Taps : ConfirmRecords(t)
BY DEF Next, vars, Propose, Begin, Bury, Cancel, ConfirmResolves, ConfirmRefused,
       ConfirmAmbiguous, Pick, PickStale, Refine, UpdateFails, Join, Leave, ToggleExpense,
       Toggle, ToggleLedger, Expire

-----------------------------------------------------------------------------
(* The theorems *)

\* The inductive invariant: types, words kept, and a proposal that is used up.
THEOREM ProposalInvariant == Spec => []IInv
<1> QED BY InitIInv, NextIInv, PTL DEF Spec

\* The row, the taps and what they recorded keep their types.
THEOREM ProposalTypeCorrect == Spec => []TypeOK
<1>1. IInv => TypeOK
  BY DEF IInv
<1> QED BY <1>1, ProposalInvariant, PTL

\* _handle_confirm_tap deletes the row with the commit: who arrives later records
\* nothing, however many taps and replies there are.
THEOREM ProposalIsUsedUp == Spec => []LaterTapsRecordNothing
<1>1. IInv => LaterTapsRecordNothing
  BY DEF IInv, UsedUp, LaterTapsRecordNothing, Records
<1> QED BY <1>1, ProposalInvariant, PTL

\* However picks, corrections and the reads before them interleave, a member is
\* pinned only if words said about this kind of change fit them.
THEOREM PinsAlwaysFit == Spec => []PinsFitTheWords
<1>1. IInv => PinsFitTheWords
  BY RowFields DEF IInv, WordsKept, Said, PinsFitTheWords
<1> QED BY <1>1, ProposalInvariant, PTL

\* Confirm looks at its ledger again under the lock, and archiving waits for it.
THEOREM CommitsToItsOpenLedger == Spec => CommitsToOpenLedger
<1>1. IInv /\ [Next]_vars => [recorded' # recorded => open]_vars
  BY OnlyConfirmRecords DEF ConfirmRecords, IInv, Held
<1> QED BY <1>1, ProposalInvariant, PTL DEF Spec, CommitsToOpenLedger

\* And it resolves its reference again: what _apply_delete_expense found under the
\* lock is still the only expense that is meant when it commits, because whatever
\* deletes, restores or edits an expense takes the lock as well.
THEOREM NothingIsGuessed == Spec => NothingGuessed
<1>1. IInv /\ [Next]_vars =>
        [\A t \in Taps : recorded'[t] # recorded[t] /\ tap[t].intent.kind = "delete" =>
           Candidates(tap[t].intent) = recorded'[t] /\ Cardinality(recorded'[t]) = 1]_vars
  <2> SUFFICES ASSUME IInv, [Next]_vars, NEW t \in Taps, recorded'[t] # recorded[t],
                      tap[t].intent.kind = "delete"
               PROVE  Candidates(tap[t].intent) = recorded'[t] /\ Cardinality(recorded'[t]) = 1
    OBVIOUS
  <2>1. PICK u \in Taps : ConfirmRecords(u)
    BY OnlyConfirmRecords
  <2>2. u = t
    BY <2>1 DEF ConfirmRecords, IInv, TypeOK
  <2>3. PICK x \in tap[t].found : recorded' = [recorded EXCEPT ![t] = Touched(tap[t].intent, x)]
    BY <2>1, <2>2 DEF ConfirmRecords
  <2>4. recorded'[t] = {x}
    BY <2>3 DEF IInv, TypeOK, Touched
  <2>5. tap[t].phase = "locked" /\ tap[t].intent \in Intents
    BY <2>1, <2>2, TapFields DEF IInv, ConfirmRecords
  <2>6. Candidates(tap[t].intent) = tap[t].found /\ Cardinality(tap[t].found) = 1
    BY <2>5, DeleteCandidates DEF IInv, Held
  <2>7. tap[t].found = {x}
    <3>1. IsFiniteSet(tap[t].found)
      <4>1. tap[t].found \subseteq standing /\ standing \subseteq Expenses
        BY <2>5, <2>6, ReferenceAssumption DEF IInv, Held, TypeOK
      <4> QED BY <4>1, ReferenceAssumption, FS_Subset
    <3>2. PICK y : tap[t].found = {y}
      BY <2>6, <3>1, FS_Singleton
    <3> QED BY <2>3, <3>2
  <2> QED BY <2>4, <2>6, <2>7
<1> QED BY <1>1, ProposalInvariant, PTL DEF Spec, NothingGuessed
=============================================================================
