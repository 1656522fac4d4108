----------------------------- MODULE MCConnRead -----------------------------
(***************************************************************************)
(* Instances of ConnRead: every script of up to MaxScript frames out of a  *)
(* small alphabet that has whole and fragmented messages, empty and        *)
(* invalid payloads, control frames and each kind of flaw.                 *)
(***************************************************************************)
EXTENDS ConnRead

CONSTANT MaxScript

F(op, fin, body) == [op |-> op, fin |-> fin, body |-> body, flaw |-> "none"]
Flawed(op, flaw) == [op |-> op, fin |-> TRUE, body |-> <<"a">>, flaw |-> flaw]

Alphabet ==
    {F("text", TRUE, <<"a">>), F("text", FALSE, <<"l">>), F("binary", FALSE, <<"a">>),
     F("binary", TRUE, <<"a", "a">>), F("cont", TRUE, <<"t">>),
     F("cont", FALSE, <<"t", "a">>), F("cont", TRUE, <<>>),
     F("ping", TRUE, <<"a">>), F("pong", TRUE, <<>>), F("close", TRUE, <<>>),
     Flawed("binary", "header"), Flawed("binary", "length"), Flawed("close", "payload")}

MCScripts == UNION {[1..n -> Alphabet] : n \in 0..MaxScript}
=============================================================================
