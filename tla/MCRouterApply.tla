---------------------------- MODULE MCRouterApply ----------------------------
(* Model values for RouterApply: which buttons and console commands are    *)
(* used, and which countries have a node the rules cannot turn into an     *)
(* outbound.                                                               *)
EXTENDS RouterApply

AllButtons == {"auto", "accept", "discard"}

(* The owner who wants his edits on the router never discards.             *)
Determined == {"auto", "accept"}

ConsoleInPlace == {"classic"}
ConsoleAll     == {"countries", "full", "force", "classic"}

AllUsable == {}

(* The second version of the countries names a node for which the first    *)
(* version of the external nodes has no outbound.                          *)
OneDark == {<<1, 0>>}

(* One part of each kind: of the database, of the files, the countries,    *)
(* and what no hash covers.                                                *)
OfEachKind == {"upstreams", "ui_files", "countries", "host"}

(* Where the layers put what they read.  The host's part shows in the DNS  *)
(* section, where an edit of the UI files shows too, one of the countries  *)
(* does not.                                                               *)
ShowsIn ==
  [rules     |-> {"custom", "entries", "domains"},
   upstreams |-> {"outbounds", "balancers", "observatory"},
   settings  |-> {"other_rules", "dns", "rest"},
   ui_files  |-> {"entries", "dns", "domains"},
   countries |-> {"inbounds", "balancers", "other_rules"},
   host      |-> {"dns"}]
=============================================================================
