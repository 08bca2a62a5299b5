--------------------------------- MODULE Sales ---------------------------------
(* What selling a package promises: a charge renews the buyer's package at *)
(* most once, and nothing is renewed in the name of a charge that was      *)
(* never made.                                                             *)
EXTENDS Naturals

CONSTANT Pays
VARIABLES charged,   \* the charges made
          renewals   \* [Pays -> Nat]: packages renewed for each

Init == charged = {} /\ renewals = [p \in Pays |-> 0]

Charge(p) ==
  /\ p \notin charged
  /\ charged' = charged \cup {p} /\ UNCHANGED renewals

Renew(p) ==
  /\ p \in charged /\ renewals[p] = 0
  /\ renewals' = [renewals EXCEPT ![p] = 1] /\ UNCHANGED charged

Next == \E p \in Pays : Charge(p) \/ Renew(p)

Spec == Init /\ [][Next]_<<charged, renewals>>
=============================================================================
