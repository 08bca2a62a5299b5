----------------------------- MODULE MCVpnWatch -----------------------------
(* A small instance of VpnWatch: a fast check, and a node that is told of  *)
(* at its first failure; no check is the gate of another.                  *)
EXTENDS VpnWatch

NoGate   == [c \in Checks |-> None]
NodeAtOnce == [c \in Checks |-> IF c = "node" THEN 1 ELSE 2]
=============================================================================
