------------------------------ MODULE Delivery ------------------------------
(***************************************************************************)
(* How a Telegram update reaches the books through the webhook             *)
(* (transports/webhook.py): every delivery first inserts the update's id   *)
(* into processed_updates, so that a redelivery is recognised; a handler   *)
(* that fails gives that claim back, a reply that fails does not.          *)
(*                                                                         *)
(* Telegram is the environment: it delivers an update again until it has   *)
(* seen a 200, and it may lose patience with a delivery that is still      *)
(* being handled.  Any instance may handle any delivery, at its own speed. *)
(***************************************************************************)
EXTENDS Naturals, FiniteSets

CONSTANTS
  Updates,     \* update ids
  Handlers,    \* bound: deliveries of one update that can be in flight together
  Faults,      \* what may go wrong besides a failing dispatch
  MaxFaults    \* bound: how often anything goes wrong

FaultKinds == {"crash",      \* an instance dies while handling a delivery
               "release",    \* giving the claim back fails
               "send",       \* sending the reply fails
               "answer",     \* the HTTP answer does not reach Telegram
               "impatience"} \* Telegram redelivers what is still being handled

ASSUME FaultAssumption == Faults \subseteq FaultKinds /\ MaxFaults \in Nat

VARIABLES
  claimed,     \* rows of processed_updates
  stage,       \* of each delivery: how far its handler is
  commits,     \* how often the dispatch of an update committed
  acked,       \* updates Telegram has seen a 200 for
  faults,      \* how often something went wrong
  excused      \* updates that may be lost: their claim was left behind by a crash or a
               \* failed release, or a redelivery was acknowledged during the attempt

vars == <<claimed, stage, commits, acked, faults, excused>>

Stages == {"idle", "received", "claimed", "committed", "failed", "ok", "error"}

TypeOK == /\ claimed \subseteq Updates
          /\ stage \in [Updates -> [Handlers -> Stages]]
          /\ commits \in [Updates -> {0, 1}]
          /\ acked \subseteq Updates
          /\ faults \in 0 .. MaxFaults
          /\ excused \subseteq Updates

Busy(u) == {h \in Handlers : stage[u][h] # "idle"}

\* u is claimed by a handler that has not committed yet
Working(u) == {h \in Handlers : stage[u][h] \in {"claimed", "failed"}}

Init == /\ claimed = {}
        /\ stage = [u \in Updates |-> [h \in Handlers |-> "idle"]]
        /\ commits = [u \in Updates |-> 0]
        /\ acked = {} /\ excused = {}
        /\ faults = 0

GoesWrong == faults < MaxFaults /\ faults' = faults + 1

Fault(kind) == kind \in Faults /\ GoesWrong

Step(u, h, from, to) == /\ stage[u][h] = from
                        /\ stage' = [stage EXCEPT ![u][h] = to]

-----------------------------------------------------------------------------
(* Telegram *)

Deliver(u, h) ==
  /\ u \notin acked
  /\ IF Busy(u) = {} THEN UNCHANGED faults ELSE Fault("impatience")
  /\ Step(u, h, "idle", "received")
  /\ UNCHANGED <<claimed, commits, acked, excused>>

Answered(u, h) ==
  /\ \/ Step(u, h, "ok", "idle") /\ acked' = acked \cup {u}
     \/ Step(u, h, "error", "idle") /\ UNCHANGED acked
  /\ UNCHANGED <<claimed, commits, faults, excused>>

AnswerLost(u, h) ==
  /\ Fault("answer")
  /\ Step(u, h, "ok", "idle")
  /\ UNCHANGED <<claimed, commits, acked, excused>>

-----------------------------------------------------------------------------
(* The webhook *)

\* Variant: a duplicate is refused with an error.
DuplicateIsError == "error"

DuplicateAnswer == "ok"

\* Inserts the id; the primary key makes one of two concurrent inserts fail.
FirstTimeSeeing(u, h) ==
  /\ IF u \in claimed THEN Step(u, h, "received", DuplicateAnswer)
     ELSE Step(u, h, "received", "claimed")
  /\ claimed' = claimed \cup {u}
  /\ excused' = IF Working(u) # {} THEN excused \cup {u} ELSE excused
  /\ UNCHANGED <<commits, acked, faults>>

Dispatch(u, h) ==
  /\ Step(u, h, "claimed", "committed")
  /\ commits' = [commits EXCEPT ![u] = @ + 1]
  /\ UNCHANGED <<claimed, acked, faults, excused>>

DispatchFails(u, h) ==
  /\ GoesWrong
  /\ Step(u, h, "claimed", "failed")
  /\ UNCHANGED <<claimed, commits, acked, excused>>

\* Variant: the failed dispatch is reported and its claim kept.
ReleaseForgotten(u, h) ==
  /\ Step(u, h, "failed", "error")
  /\ UNCHANGED <<claimed, commits, acked, faults, excused>>

ReleaseClaim(u, h) ==
  /\ Step(u, h, "failed", "error")
  /\ claimed' = claimed \ {u}
  /\ UNCHANGED <<commits, acked, faults, excused>>

ReleaseFails(u, h) ==
  /\ Fault("release")
  /\ Step(u, h, "failed", "error")
  /\ excused' = excused \cup {u}
  /\ UNCHANGED <<claimed, commits, acked>>

Execute(u, h) ==
  /\ Step(u, h, "committed", "ok")
  /\ UNCHANGED <<claimed, commits, acked, faults, excused>>

\* Variant: a reply that could not be sent gives the claim back, too.
ReleaseOnSendFailure(u, h) ==
  /\ Fault("send")
  /\ Step(u, h, "committed", "error")
  /\ claimed' = claimed \ {u}
  /\ UNCHANGED <<commits, acked, excused>>

ExecuteFails(u, h) ==
  /\ Fault("send")
  /\ Step(u, h, "committed", "error")
  /\ UNCHANGED <<claimed, commits, acked, excused>>

Crash(u, h) ==
  /\ Fault("crash")
  /\ stage[u][h] # "idle"
  /\ stage' = [stage EXCEPT ![u][h] = "idle"]
  /\ excused' = IF stage[u][h] \in {"claimed", "failed"} THEN excused \cup {u} ELSE excused
  /\ UNCHANGED <<claimed, commits, acked>>

Handle(u, h) ==
  \/ Answered(u, h) \/ FirstTimeSeeing(u, h) \/ Dispatch(u, h)
  \/ ReleaseClaim(u, h) \/ Execute(u, h)

Fail(u, h) ==
  \/ AnswerLost(u, h) \/ DispatchFails(u, h) \/ ReleaseFails(u, h)
  \/ ExecuteFails(u, h) \/ Crash(u, h)

Next == \E u \in Updates : \E h \in Handlers :
          Deliver(u, h) \/ Handle(u, h) \/ Fail(u, h)

\* A handler that has begun goes on, and Telegram delivers again what it got no
\* 200 for and nobody is handling.  Nothing obliges Telegram to be impatient.
Fairness == \A u \in Updates :
  /\ WF_vars(\E h \in Handlers : Busy(u) = {} /\ Deliver(u, h))
  /\ \A h \in Handlers : WF_vars(Handle(u, h))

Spec == Init /\ [][Next]_vars /\ Fairness

-----------------------------------------------------------------------------
(* Properties *)

\* "An update_id is processed at most once" (models.py): however often an
\* update is delivered, whatever fails and when, no second handler works on it
\* while one does, and none after one has committed.
ProcessedAtMostOnce == \A u \in Updates : Cardinality(Working(u)) + commits[u] <= 1

\* Once the faults are over every update is acknowledged, processed or not:
\* Telegram does not redeliver for ever.
EventuallyAcked == \A u \in Updates : <>(u \in acked)

\* An update is not dropped because an attempt at it failed: it is committed in
\* the end, unless its claim was left behind or a redelivery was acknowledged
\* while an attempt was undecided.
NotDropped == \A u \in Updates : <>(commits[u] = 1 \/ u \in excused)

\* The webhook implements the inbox: with claims, redeliveries, crashes and lost
\* answers, every step is a step of the promise or changes nothing in it.
Promise == INSTANCE Inbox WITH effects <- commits

ImplementsInbox == Promise!Spec

\* webhook.py gives the claim back "so Telegram's retry is processed, not
\* swallowed": an update that nobody works on any more is acknowledged only if
\* it was processed.  Checked with no crash and no failing release.
RetryNotSwallowed ==
  \A u \in Updates : u \in acked /\ Working(u) = {} => commits[u] = 1
=============================================================================
