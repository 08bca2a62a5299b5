----------------------------- MODULE MCAntiShare -----------------------------
(* Small instances of AntiShare.                                            *)
EXTENDS AntiShare

One == [u \in Users |-> 1]
Bumps == <<5, 10, 20>>
==============================================================================
