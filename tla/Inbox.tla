------------------------------- MODULE Inbox -------------------------------
(***************************************************************************)
(* What the webhook promises of the updates it is sent, without claims,    *)
(* handlers or faults: an update takes effect at most once, and Telegram   *)
(* is told to forget it only when it took effect or is excused.  Delivery  *)
(* implements it.                                                          *)
(***************************************************************************)
EXTENDS Naturals

CONSTANT Updates

VARIABLES
  effects,     \* how often an update took effect
  excused,     \* updates that may be lost
  acked        \* updates Telegram will not send again

vars == <<effects, excused, acked>>

Init == /\ effects = [u \in Updates |-> 0]
        /\ excused = {} /\ acked = {}

TakeEffect(u) == /\ effects[u] = 0
                 /\ effects' = [effects EXCEPT ![u] = 1]
                 /\ UNCHANGED <<excused, acked>>

Excuse(u) == /\ excused' = excused \cup {u}
             /\ UNCHANGED <<effects, acked>>

Acknowledge(u) == /\ effects[u] = 1 \/ u \in excused
                  /\ acked' = acked \cup {u}
                  /\ UNCHANGED <<effects, excused>>

Next == \E u \in Updates : TakeEffect(u) \/ Excuse(u) \/ Acknowledge(u)

\* Every update takes effect or is excused, and Telegram learns of it.
Fairness == \A u \in Updates : /\ WF_vars(effects[u] = 0 /\ u \notin excused
                                          /\ (TakeEffect(u) \/ Excuse(u)))
                               /\ WF_vars(Acknowledge(u))

Spec == Init /\ [][Next]_vars /\ Fairness
=============================================================================
