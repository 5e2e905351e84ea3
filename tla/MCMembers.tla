------------------------------ MODULE MCMembers ------------------------------
(* Instances of Members for TLC: any three of these messages at once. *)
EXTENDS Members

Message(kind, by, whom) == [kind |-> kind, by |-> by, whom |-> whom]

MCMessages ==
  <<Message("talk", "a", <<>>),
    Message("command", "a", <<>>),
    Message("toggle", "a", <<>>),
    Message("leave", "a", <<"a">>),
    Message("leave", "b", <<"a">>),
    Message("setup", "b", <<"a", "a">>),
    Message("join", "a", <<"b">>),
    Message("join", "b", <<"a">>)>>

MCInboxes ==
  {[h \in Handlers |-> MCMessages[i[h]]] :
     i \in {j \in [Handlers -> DOMAIN MCMessages] : j[1] <= j[2] /\ j[2] <= j[3]}}

Start(there, nam, mem) ==
  [group |-> there, name |-> [p \in People |-> nam], member |-> [p \in People |-> mem]]

MCStarts == {Start(FALSE, "none", "none"), Start(TRUE, "none", "none"),
             Start(TRUE, "live", "none"), Start(TRUE, "live", "in")}
=============================================================================
