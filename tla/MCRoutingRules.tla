---------------------------- MODULE MCRoutingRules ---------------------------
(* A small instance of RoutingRules; its sources are alike.                  *)
EXTENDS RoutingRules, TLC

TwoWays == {"direct_ru", "block"}
SourcesAlike == Permutations(Sources)

(* No action reads what the router was made of, and the properties only    *)
(* when an apply of the panel's has ended: until then states that differ   *)
(* in nothing else are one.                                                *)
Distinguished == <<tables, setting, files, cache, save, reader, apply, requests, tainted,
                   IF save.stage = "applied" THEN router ELSE NoView>>
==============================================================================
