----------------------------- MODULE MCAccounts -----------------------------
(* A small instance of Accounts: two chats with a number each, one of      *)
(* which is typed into the page as well.                                   *)
EXTENDS Accounts

Numbers == [c \in Chats |-> IF c = "ann" THEN "p1" ELSE "p2"]
Two     == <<"p1", "p2">>
=============================================================================
