--------------------------- MODULE DeliveryProofs ---------------------------
(***************************************************************************)
(* What holds of Delivery for any updates, any number of deliveries in     *)
(* flight and any number of faults.                                        *)
(*                                                                         *)
(* The argument: a row of processed_updates is there while an attempt is   *)
(* undecided and after one has committed, so one row stands for at most    *)
(* one of them; and what is answered with a 200 was committed or excused.  *)
(***************************************************************************)
EXTENDS Delivery, FiniteSetTheorems, TLAPS

Undecided(u, h) == stage[u][h] \in {"claimed", "failed"}

\* One attempt is undecided at a time, it holds the claim, and nothing committed yet.
OneAttempt ==
  \A u \in Updates : \A h \in Handlers : Undecided(u, h) =>
    /\ u \in claimed /\ commits[u] = 0
    /\ \A k \in Handlers : Undecided(u, k) => k = h

\* A claim has a reason.
ClaimExplained ==
  \A u \in Updates :
    /\ commits[u] = 1 => u \in claimed
    /\ u \in claimed => \/ commits[u] = 1 \/ u \in excused
                        \/ \E h \in Handlers : Undecided(u, h)

\* What is answered with a 200, or was, is settled.
Settled(u) == commits[u] = 1 \/ u \in excused

AnswersSettled ==
  \A u \in Updates : \A h \in Handlers :
    /\ stage[u][h] = "committed" => commits[u] = 1
    /\ stage[u][h] = "ok" => Settled(u)

IInv == TypeOK /\ OneAttempt /\ ClaimExplained /\ AnswersSettled

\* A step of one handler moves its stage and no other.
LEMMA StageMoves ==
  ASSUME TypeOK, NEW u \in Updates, NEW h \in Handlers, NEW to \in Stages,
         stage' = [stage EXCEPT ![u][h] = to]
  PROVE  /\ stage' \in [Updates -> [Handlers -> Stages]]
         /\ stage'[u][h] = to
         /\ \A v \in Updates : \A k \in Handlers :
              v # u \/ k # h => stage'[v][k] = stage[v][k]
BY DEF TypeOK

LEMMA InitIInv == Init => IInv
<1> SUFFICES ASSUME Init PROVE IInv
  OBVIOUS
<1>1. stage \in [Updates -> [Handlers -> Stages]]
  BY DEF Init, Stages
<1>2. \A u \in Updates : \A h \in Handlers : stage[u][h] = "idle"
  BY DEF Init
<1>3. TypeOK
  BY <1>1, FaultAssumption DEF Init, TypeOK
<1>4. OneAttempt /\ ClaimExplained /\ AnswersSettled
  BY <1>2 DEF Init, OneAttempt, ClaimExplained, AnswersSettled, Undecided
<1> QED BY <1>3, <1>4 DEF IInv

LEMMA FaultsStayBounded ==
  ASSUME TypeOK, GoesWrong PROVE faults' \in 0 .. MaxFaults
BY FaultAssumption DEF TypeOK, GoesWrong

-----------------------------------------------------------------------------
(* Steps that decide nothing: a delivery arrives, is answered, or dies *)

\* A step of h on u that leaves the books alone and no attempt undecided in h.
LEMMA QuietStep ==
  ASSUME IInv, NEW u \in Updates, NEW h \in Handlers,
         NEW to \in {"idle", "received", "ok", "error"},
         stage' = [stage EXCEPT ![u][h] = to],
         UNCHANGED <<claimed, commits>>,
         acked' \subseteq Updates, faults' \in 0 .. MaxFaults,
         excused' = excused \/ excused' = excused \cup {u},
         Undecided(u, h) => u \in excused',
         to = "ok" => Settled(u)'
  PROVE  IInv'
<1>1. /\ stage' \in [Updates -> [Handlers -> Stages]]
      /\ stage'[u][h] = to
      /\ \A v \in Updates : \A k \in Handlers :
           v # u \/ k # h => stage'[v][k] = stage[v][k]
  <2>1. to \in Stages /\ TypeOK
    BY DEF Stages, IInv
  <2> QED BY <2>1, StageMoves
<1>2. TypeOK'
  BY <1>1 DEF IInv, TypeOK
<1>3. \A v \in Updates : \A k \in Handlers : Undecided(v, k)' => Undecided(v, k)
  BY <1>1 DEF Undecided
<1>4. OneAttempt'
  BY <1>3 DEF IInv, OneAttempt
<1>5. ClaimExplained'
  <2> SUFFICES ASSUME NEW v \in Updates
               PROVE  /\ commits'[v] = 1 => v \in claimed'
                      /\ v \in claimed' => \/ commits'[v] = 1 \/ v \in excused'
                                           \/ \E k \in Handlers : Undecided(v, k)'
    BY DEF ClaimExplained
  <2>1. \A k \in Handlers : Undecided(v, k) => Undecided(v, k)' \/ v \in excused'
    BY <1>1 DEF Undecided
  <2> QED BY <2>1 DEF IInv, ClaimExplained
<1>6. AnswersSettled'
  BY <1>1 DEF IInv, AnswersSettled, Settled
<1> QED BY <1>2, <1>4, <1>5, <1>6 DEF IInv

LEMMA DeliverIInv ==
  ASSUME IInv, NEW u \in Updates, NEW h \in Handlers, Deliver(u, h) PROVE IInv'
<1>1. stage' = [stage EXCEPT ![u][h] = "received"] /\ ~ Undecided(u, h)
  BY DEF Deliver, Step, Undecided
<1>2. faults' \in 0 .. MaxFaults
  BY FaultsStayBounded DEF Deliver, Fault, IInv, TypeOK
<1> QED BY <1>1, <1>2, QuietStep DEF Deliver, IInv, TypeOK

LEMMA AnsweredIInv ==
  ASSUME IInv, NEW u \in Updates, NEW h \in Handlers, Answered(u, h) \/ AnswerLost(u, h)
  PROVE  IInv'
<1>1. stage' = [stage EXCEPT ![u][h] = "idle"] /\ ~ Undecided(u, h)
  BY DEF Answered, AnswerLost, Step, Undecided
<1>2. faults' \in 0 .. MaxFaults /\ acked' \subseteq Updates
  BY FaultsStayBounded DEF Answered, AnswerLost, Fault, IInv, TypeOK
<1>3. UNCHANGED <<claimed, commits, excused>>
  BY DEF Answered, AnswerLost
<1> QED BY <1>1, <1>2, <1>3, QuietStep

LEMMA ExecuteIInv ==
  ASSUME IInv, NEW u \in Updates, NEW h \in Handlers, Execute(u, h) \/ ExecuteFails(u, h)
  PROVE  IInv'
<1>1. PICK to \in {"ok", "error"} : stage' = [stage EXCEPT ![u][h] = to]
  BY DEF Execute, ExecuteFails, Step
<1>2. faults' \in 0 .. MaxFaults
  BY FaultsStayBounded DEF Execute, ExecuteFails, Fault, IInv, TypeOK
<1>3. UNCHANGED <<claimed, commits, excused, acked>> /\ stage[u][h] = "committed"
  BY DEF Execute, ExecuteFails, Step
<1>4. ~ Undecided(u, h) /\ Settled(u)'
  BY <1>3 DEF IInv, AnswersSettled, Settled, Undecided
<1> QED BY <1>1, <1>2, <1>3, <1>4, QuietStep DEF IInv, TypeOK

LEMMA ReleaseFailsIInv ==
  ASSUME IInv, NEW u \in Updates, NEW h \in Handlers, ReleaseFails(u, h) PROVE IInv'
<1>1. stage' = [stage EXCEPT ![u][h] = "error"]
  BY DEF ReleaseFails, Step
<1>2. faults' \in 0 .. MaxFaults
  BY FaultsStayBounded DEF ReleaseFails, Fault, IInv
<1>3. UNCHANGED <<claimed, commits, acked>> /\ excused' = excused \cup {u}
  BY DEF ReleaseFails
<1> QED BY <1>1, <1>2, <1>3, QuietStep DEF IInv, TypeOK

LEMMA CrashIInv ==
  ASSUME IInv, NEW u \in Updates, NEW h \in Handlers, Crash(u, h) PROVE IInv'
<1>1. stage' = [stage EXCEPT ![u][h] = "idle"]
  BY DEF Crash
<1>2. faults' \in 0 .. MaxFaults
  BY FaultsStayBounded DEF Crash, Fault, IInv
<1>3. UNCHANGED <<claimed, commits, acked>>
  BY DEF Crash
<1>4. /\ excused' = excused \/ excused' = excused \cup {u}
      /\ Undecided(u, h) => u \in excused'
  BY DEF Crash, Undecided
<1> QED BY <1>1, <1>2, <1>3, <1>4, QuietStep DEF IInv, TypeOK

-----------------------------------------------------------------------------
(* Steps that take, keep or give back a claim *)

LEMMA FirstTimeSeeingIInv ==
  ASSUME IInv, NEW u \in Updates, NEW h \in Handlers, FirstTimeSeeing(u, h) PROVE IInv'
<1>1. Working(u) = {k \in Handlers : Undecided(u, k)}
  BY DEF Working, Undecided
<1>2. stage[u][h] = "received" /\ ~ Undecided(u, h) /\ UNCHANGED <<commits, acked, faults>>
  BY DEF FirstTimeSeeing, Step, Undecided
<1>3. CASE u \in claimed
  <2>1. stage' = [stage EXCEPT ![u][h] = "ok"] /\ claimed' = claimed
    BY <1>3 DEF FirstTimeSeeing, Step, DuplicateAnswer
  <2>2. excused' = excused \/ excused' = excused \cup {u}
    BY DEF FirstTimeSeeing
  <2>3. Settled(u)'
    BY <1>1, <1>2, <1>3 DEF FirstTimeSeeing, Settled, IInv, ClaimExplained
  <2> QED BY <1>2, <2>1, <2>2, <2>3, QuietStep DEF IInv, TypeOK
<1>4. CASE u \notin claimed
  <2>1. stage' = [stage EXCEPT ![u][h] = "claimed"] /\ claimed' = claimed \cup {u}
    BY <1>4 DEF FirstTimeSeeing, Step
  <2>2. /\ stage' \in [Updates -> [Handlers -> Stages]] /\ stage'[u][h] = "claimed"
        /\ \A v \in Updates : \A k \in Handlers :
             v # u \/ k # h => stage'[v][k] = stage[v][k]
    BY <2>1, StageMoves DEF IInv, Stages
  <2>3. commits[u] = 0 /\ \A k \in Handlers : ~ Undecided(u, k)
    BY <1>4 DEF IInv, TypeOK, ClaimExplained, OneAttempt
  <2>4. excused' = excused
    BY <1>1, <2>3 DEF FirstTimeSeeing
  <2>5. TypeOK'
    BY <1>2, <2>1, <2>2, <2>4 DEF IInv, TypeOK
  <2>6. OneAttempt'
    BY <1>2, <2>1, <2>2, <2>3 DEF IInv, OneAttempt, Undecided
  <2>7. ClaimExplained'
    BY <1>2, <2>1, <2>2, <2>4 DEF IInv, ClaimExplained, Undecided
  <2>8. AnswersSettled'
    BY <1>2, <2>2, <2>4 DEF IInv, AnswersSettled, Settled
  <2> QED BY <2>5, <2>6, <2>7, <2>8 DEF IInv
<1> QED BY <1>3, <1>4

LEMMA DispatchIInv ==
  ASSUME IInv, NEW u \in Updates, NEW h \in Handlers, Dispatch(u, h) PROVE IInv'
<1>1. /\ stage' \in [Updates -> [Handlers -> Stages]] /\ stage'[u][h] = "committed"
      /\ \A v \in Updates : \A k \in Handlers :
           v # u \/ k # h => stage'[v][k] = stage[v][k]
  BY StageMoves DEF IInv, Stages, Dispatch, Step
<1>2. Undecided(u, h) /\ UNCHANGED <<claimed, acked, faults, excused>>
  BY DEF Dispatch, Step, Undecided
<1>3. u \in claimed /\ commits[u] = 0 /\ \A k \in Handlers : Undecided(u, k) => k = h
  BY <1>2 DEF IInv, OneAttempt
<1>4. /\ commits' \in [Updates -> {0, 1}] /\ commits'[u] = 1
      /\ \A v \in Updates : v # u => commits'[v] = commits[v]
  BY <1>3 DEF Dispatch, IInv, TypeOK
<1>5. TypeOK'
  BY <1>1, <1>2, <1>4 DEF IInv, TypeOK
<1>6. OneAttempt'
  BY <1>1, <1>2, <1>3, <1>4 DEF IInv, OneAttempt, Undecided
<1>7. ClaimExplained'
  BY <1>1, <1>2, <1>3, <1>4 DEF IInv, ClaimExplained, Undecided
<1>8. AnswersSettled'
  BY <1>1, <1>2, <1>4 DEF IInv, AnswersSettled, Settled
<1> QED BY <1>5, <1>6, <1>7, <1>8 DEF IInv

LEMMA DispatchFailsIInv ==
  ASSUME IInv, NEW u \in Updates, NEW h \in Handlers, DispatchFails(u, h) PROVE IInv'
<1>1. /\ stage' \in [Updates -> [Handlers -> Stages]] /\ stage'[u][h] = "failed"
      /\ \A v \in Updates : \A k \in Handlers :
           v # u \/ k # h => stage'[v][k] = stage[v][k]
  BY StageMoves DEF IInv, Stages, DispatchFails, Step
<1>2. Undecided(u, h) /\ UNCHANGED <<claimed, commits, acked, excused>>
  BY DEF DispatchFails, Step, Undecided
<1>3. \A v \in Updates : \A k \in Handlers : Undecided(v, k)' <=> Undecided(v, k)
  BY <1>1, <1>2 DEF Undecided
<1>4. faults' \in 0 .. MaxFaults
  BY FaultsStayBounded DEF DispatchFails, IInv
<1>5. TypeOK'
  BY <1>1, <1>2, <1>4 DEF IInv, TypeOK
<1>6. OneAttempt' /\ ClaimExplained'
  BY <1>2, <1>3 DEF IInv, OneAttempt, ClaimExplained
<1>7. AnswersSettled'
  BY <1>1, <1>2 DEF IInv, AnswersSettled, Settled
<1> QED BY <1>5, <1>6, <1>7 DEF IInv

LEMMA ReleaseClaimIInv ==
  ASSUME IInv, NEW u \in Updates, NEW h \in Handlers, ReleaseClaim(u, h) PROVE IInv'
<1>1. /\ stage' \in [Updates -> [Handlers -> Stages]] /\ stage'[u][h] = "error"
      /\ \A v \in Updates : \A k \in Handlers :
           v # u \/ k # h => stage'[v][k] = stage[v][k]
  BY StageMoves DEF IInv, Stages, ReleaseClaim, Step
<1>2. Undecided(u, h) /\ claimed' = claimed \ {u} /\ UNCHANGED <<commits, acked, faults, excused>>
  BY DEF ReleaseClaim, Step, Undecided
<1>3. commits[u] = 0 /\ \A k \in Handlers : Undecided(u, k) => k = h
  BY <1>2 DEF IInv, OneAttempt
<1>4. TypeOK'
  BY <1>1, <1>2 DEF IInv, TypeOK
<1>5. OneAttempt'
  BY <1>1, <1>2, <1>3 DEF IInv, OneAttempt, Undecided
<1>6. ClaimExplained'
  BY <1>1, <1>2, <1>3 DEF IInv, ClaimExplained, Undecided
<1>7. AnswersSettled'
  BY <1>1, <1>2 DEF IInv, AnswersSettled, Settled
<1> QED BY <1>4, <1>5, <1>6, <1>7 DEF IInv

LEMMA NextIInv == IInv /\ [Next]_vars => IInv'
<1> SUFFICES ASSUME IInv, [Next]_vars PROVE IInv'
  OBVIOUS
<1>1. CASE UNCHANGED vars
  BY <1>1 DEF vars, IInv, TypeOK, OneAttempt, ClaimExplained, AnswersSettled, Settled, Undecided
<1>2. ASSUME NEW u \in Updates, NEW h \in Handlers, Deliver(u, h) \/ Handle(u, h) \/ Fail(u, h)
      PROVE  IInv'
  BY <1>2, DeliverIInv, AnsweredIInv, FirstTimeSeeingIInv, DispatchIInv, ReleaseClaimIInv,
     ExecuteIInv, DispatchFailsIInv, ReleaseFailsIInv, CrashIInv
  DEF Handle, Fail
<1> QED BY <1>1, <1>2 DEF Next

LEMMA Invariance == Spec => []IInv
<1> QED BY InitIInv, NextIInv, PTL DEF Spec

\* The webhook's rows and its handlers' stages keep their types, for any number
\* of handlers and faults: in particular no dispatch commits twice (models.py,
\* "processed at most once").
THEOREM DeliveryTypeCorrect == Spec => []TypeOK
<1>1. IInv => TypeOK
  BY DEF IInv
<1> QED BY <1>1, Invariance, PTL

\* models.py on processed_updates, "an update_id is processed at most once": for
\* any number of deliveries in flight together, of instances that crash and of
\* answers that are lost, at most one handler works on an update, and none does
\* once one has committed.
THEOREM AlwaysProcessedAtMostOnce == Spec => []ProcessedAtMostOnce
<1>1. ASSUME IInv, NEW u \in Updates PROVE Cardinality(Working(u)) + commits[u] <= 1
  <2>1. commits[u] \in {0, 1}
    BY <1>1 DEF IInv, TypeOK
  <2>2. CASE Working(u) = {}
    BY <2>1, <2>2, FS_EmptySet
  <2>3. CASE Working(u) # {}
    <3>1. PICK h \in Handlers : Undecided(u, h)
      BY <2>3 DEF Working, Undecided
    <3>2. commits[u] = 0 /\ Working(u) = {h}
      BY <1>1, <3>1 DEF IInv, OneAttempt, Working, Undecided
    <3>3. Cardinality({h}) = 1
      BY FS_Singleton
    <3> QED BY <3>2, <3>3
  <2> QED BY <2>2, <2>3
<1>2. IInv => ProcessedAtMostOnce
  BY <1>1 DEF ProcessedAtMostOnce
<1> QED BY <1>2, Invariance, PTL

-----------------------------------------------------------------------------
(* The webhook implements the inbox *)

LEMMA StepImplements ==
  ASSUME IInv, NEW u \in Updates, NEW h \in Handlers, Deliver(u, h) \/ Handle(u, h) \/ Fail(u, h)
  PROVE  Promise!Next \/ UNCHANGED Promise!vars
<1>1. CASE Dispatch(u, h)
  <2>1. commits[u] = 0
    BY <1>1 DEF Dispatch, Step, IInv, OneAttempt, Undecided
  <2>2. Promise!TakeEffect(u)
    BY <1>1, <2>1 DEF Dispatch, Promise!TakeEffect
  <2> QED BY <2>2 DEF Promise!Next
<1>2. CASE Answered(u, h)
  <2>1. CASE acked' = acked
    BY <1>2, <2>1 DEF Answered, Promise!vars
  <2>2. CASE acked' # acked
    <3>1. stage[u][h] = "ok" /\ acked' = acked \cup {u} /\ UNCHANGED <<commits, excused>>
      BY <1>2, <2>2 DEF Answered, Step
    <3>2. commits[u] = 1 \/ u \in excused
      BY <3>1 DEF IInv, AnswersSettled, Settled
    <3>3. Promise!Acknowledge(u)
      BY <3>1, <3>2 DEF Promise!Acknowledge
    <3> QED BY <3>3 DEF Promise!Next
  <2> QED BY <2>1, <2>2
<1>3. CASE FirstTimeSeeing(u, h) \/ ReleaseFails(u, h) \/ Crash(u, h)
  <2>1. UNCHANGED <<commits, acked>> /\ (excused' = excused \/ excused' = excused \cup {u})
    BY <1>3 DEF FirstTimeSeeing, ReleaseFails, Crash
  <2> QED BY <2>1 DEF Promise!Next, Promise!Excuse, Promise!vars
<1>4. CASE \/ Deliver(u, h) \/ AnswerLost(u, h) \/ ReleaseClaim(u, h) \/ Execute(u, h)
           \/ DispatchFails(u, h) \/ ExecuteFails(u, h)
  BY <1>4 DEF Deliver, AnswerLost, ReleaseClaim, Execute, DispatchFails, ExecuteFails, Promise!vars
<1> QED BY <1>1, <1>2, <1>3, <1>4 DEF Handle, Fail

\* The safety half of ImplementsInbox, for any number of updates, handlers and
\* faults: every step of the webhook is one that the promise allows or changes
\* nothing in it.  An update takes effect at most once, and it is acknowledged
\* only when it took effect or is excused.
THEOREM WebhookKeepsThePromise == Spec => Promise!Init /\ [][Promise!Next]_(Promise!vars)
<1>1. Init => Promise!Init
  BY DEF Init, Promise!Init
<1>2. IInv /\ [Next]_vars => [Promise!Next]_(Promise!vars)
  <2> SUFFICES ASSUME IInv, [Next]_vars PROVE Promise!Next \/ UNCHANGED Promise!vars
    OBVIOUS
  <2>1. CASE UNCHANGED vars
    BY <2>1 DEF vars, Promise!vars
  <2>2. CASE Next
    BY <2>2, StepImplements DEF Next
  <2> QED BY <2>1, <2>2
<1> QED BY <1>1, <1>2, Invariance, PTL DEF Spec
=============================================================================
