------------------------------ MODULE MCPayments ------------------------------
(* Small instances of Payments: a plan on sale.                            *)
EXTENDS Payments

OnePlan == [pl \in Plans |-> [limit |-> 1, price |-> 1]]
=============================================================================
