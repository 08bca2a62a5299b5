---------------------------- MODULE MCRouterConfig ----------------------------
(* A small instance of RouterConfig: two countries, three nodes, of which  *)
(* the third is called like the first with one more digit.                 *)
EXTENDS RouterConfig

InOrderOfPriority == <<2, 1, 10>>
Countries         == <<1, 2>>
TenLikeOne        == {<<10, 1>>}

Full == [node |-> [n \in Nodes |-> "real"], multi |-> TRUE, on |-> Slots,
         home |-> [n \in Nodes |-> IF n = 2 THEN 2 ELSE 1],
         director |-> TRUE, own |-> "to_upstream", geoip |-> TRUE]
Start == {Full, [Full EXCEPT !.multi = FALSE], [Full EXCEPT !.node[1] = "hole", !.own = "none"],
          [Full EXCEPT !.home = [n \in Nodes |-> IF n = 10 THEN 1 ELSE 2], !.own = "direct_ru"],
          [Full EXCEPT !.home = [n \in Nodes |-> 0], !.node[2] = "off", !.geoip = FALSE],
          [Full EXCEPT !.node = [n \in Nodes |-> IF n = 1 THEN "real" ELSE "off"], !.multi = FALSE],
          [Full EXCEPT !.node = [n \in Nodes |-> IF n = 1 THEN "real" ELSE "off"]]}
=============================================================================
