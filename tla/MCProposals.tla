---------------------------- MODULE MCProposals ----------------------------
(* Instances of Proposals for TLC. *)
EXTENDS Proposals, TLC

CONSTANTS ann, sam, samuel, theSam, e1, e2

MCPeople   == {ann, sam, samuel}
MCExpenses == {e1, e2}
MCNames    == {theSam}
MCBears    == [n \in MCNames |-> {sam, samuel}]

\* "Sam paid, split with everyone" and "delete the dinner"
MCWordings ==
  {[kind |-> "add",    ref |-> theSam, everyone |-> TRUE],
   [kind |-> "delete", ref |-> Words,  everyone |-> FALSE]}

\* the two Sams, the two dinners and the taps are alike
Interchangeable == Permutations(Taps) \cup Permutations({sam, samuel})
                   \cup Permutations(MCExpenses)
=============================================================================
