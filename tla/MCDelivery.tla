----------------------------- MODULE MCDelivery -----------------------------
(* Instances of Delivery for TLC. *)
EXTENDS Delivery

\* everything may go wrong
MCFaults == FaultKinds

\* nothing fails but the dispatch; Telegram may lose patience
OnlyImpatience == {"impatience"}
=============================================================================
