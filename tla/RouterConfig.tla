---------------------------- MODULE RouterConfig ----------------------------
(***************************************************************************)
(* What the configuration of xray-router does with traffic, through the    *)
(* layers that make it: the renderer, the layers of commercial_routing.py  *)
(* that each rewrite the file, and the layer of the countries, which also  *)
(* rewrites a finished file on its own.  A full apply runs them in a       *)
(* private copy and joins neighbouring lists at the end; the classic one   *)
(* runs them on the live file, with a restart after each.                  *)
(*                                                                         *)
(* A rule has the entrances and the kinds of destination it is for and a   *)
(* target; the first that fits decides.  Left out: what a URI says, ports, *)
(* dns.servers, logging, probe settings, restarts (see RouterApply).       *)
(***************************************************************************)
EXTENDS Integers, Sequences, FiniteSets, FiniteSetsExt, SequencesExt

CONSTANTS
  Order,       \* the nodes, as get_active_ordered returns them
  Prefixed,    \* {<<n, m>>: the tag of n begins with the tag of m}
  InOrder,     \* the countries' slots, by number
  Databases,   \* where the story may begin
  MaxEdits     \* bound on edits

Nodes == ToSet(Order)
Slots == ToSet(InOrder)

Kinds    == {"real", "hole", "off"}   \* "hole": test_blackhole; "off": disabled or unreadable
Policies == {"none", "direct_ru", "block", "to_upstream"}
Database == [node : [Nodes -> Kinds], home : [Nodes -> Slots \cup {0}], multi : BOOLEAN,
             on : SUBSET Slots, director : BOOLEAN, own : Policies, geoip : BOOLEAN]

ASSUME RouterConfigAssumption ==
  /\ Order \in Seq(Nodes) /\ IsInjective(Order)
  /\ InOrder \in Seq(Nat \ {0}) /\ IsInjective(InOrder)
  /\ Prefixed \subseteq Nodes \X Nodes /\ \A n \in Nodes : <<n, n>> \notin Prefixed
  /\ Databases \subseteq Database /\ MaxEdits \in Nat

VARIABLES
  db,     \* nodes, countries, rules and switches
  live,   \* /etc/xray-router/config.json
  run,    \* the apply that is on its way
  made,   \* history: what the live file was made from
  edits

vars == <<db, live, run, made, edits>>

-----------------------------------------------------------------------------
(* The elements that pass the test, in order.                              *)
Keep(s, Test(_)) ==
  FlattenSeq([i \in DOMAIN s |-> IF Test(s[i]) THEN <<s[i]>> ELSE <<>>])

(* Parts of a configuration.                                               *)

Direct     == <<"direct-ru", 0>>
Block      == <<"block", 0>>
ToDe       == <<"to-de", 0>>
Node(n)    == <<"upstream", n>>
Upstream   == <<"upstream-balancer", 0>>
Country(s) == <<"balancer", s>>
Director   == <<"auto-director", 0>>
Loop(s)    == <<"auto-via", s>>
Api        == <<"api", 0>>

In(s)     == <<"from-hiddify", s>>      \* 0: the entrance of AUTO
LoopIn(s) == <<"auto-in", s>>

Rule(from, match, to) == [from |-> from, match |-> match, to |-> to]
Out(tag, real)        == [tag |-> tag, real |-> real]

RuRules == <<Rule({}, {"ru"}, Direct), Rule({}, {"geoip"}, Direct)>>
GovRule == Rule({}, {"gov"}, Block)

IsNode(to)      == to[1] = "upstream"
Foreign(to)     == IsNode(to) \/ to \in {ToDe, Upstream}
IsCatchAll(r)   == r.from = {} /\ r.match = {}
IsFinal(r)      == IsCatchAll(r) /\ Foreign(r.to)
IsOurs(r)       == \E s \in Slots : In(s) \in r.from

(* Careless: the rule of the API entrance is not known again.              *)
OnlyLoops(r) == \E s \in Slots : LoopIn(s) \in r.from

IsDirectors(r)  == r.from # {} /\ r.from \subseteq {Api} \cup {LoopIn(s) : s \in Slots}
Tags(c)         == {o.tag : o \in ToSet(c.outs)}
RealTags(c)     == {o.tag : o \in {p \in ToSet(c.outs) : p.real}}

(* Xray selects by prefix.                                                 *)
Covers(sel, tag) ==
  tag \in sel \/ \E m \in sel : IsNode(tag) /\ IsNode(m) /\ <<tag[2], m[2]>> \in Prefixed

-----------------------------------------------------------------------------
(* The layers.                                                             *)

Real(d) == {n \in Nodes : d.node[n] = "real"}

Final(d) ==
  CASE Real(d) = {}              -> Block
    [] Cardinality(Real(d)) = 1  -> Node(CHOOSE n \in Real(d) : TRUE)
    [] OTHER                     -> Upstream

Customs(d) ==
  LET To == [direct_ru |-> Direct, block |-> Block, to_upstream |-> Final(d)]
  IN  IF d.own = "none" THEN <<>> ELSE <<Rule({}, {"own"}, To[d.own])>>

Render(d) ==
  LET built == Keep(Order, LAMBDA n : d.node[n] # "off")
      real  == IF Final(d) = Upstream THEN {Node(n) : n \in Real(d)} ELSE {}
  IN [ins   |-> {In(0)},
      outs  |-> (IF Real(d) = {} THEN <<>>
                 ELSE [i \in DOMAIN built |-> Out(Node(built[i]), built[i] \in Real(d))])
                \o <<Out(Direct, TRUE), Out(Block, FALSE)>>,
      rules |-> Customs(d) \o (IF d.geoip THEN RuRules ELSE <<>>) \o <<Rule({}, {}, Final(d))>>,
      bal   |-> IF real = {} THEN {} ELSE {[tag |-> Upstream, members |-> real, closed |-> FALSE]},
      seen  |-> real]

BeforeFinal(rules, new) ==
  LET at == SelectInSeq(rules, IsFinal)
      i  == IF at = 0 THEN Len(rules) + 1 ELSE at
  IN  SubSeq(rules, 1, i - 1) \o new \o SubSeq(rules, i, Len(rules))

IsBaseRu(r) == r.to = Direct /\ r.match \cap {"ru", "geoip"} # {}

(* Careless: the new rules go to the end.                                  *)
BaseRuAtTheEnd(c) ==
  [c EXCEPT !.rules = Keep(@, LAMBDA r : ~IsBaseRu(r)) \o RuRules]

BaseRu(c) ==
  [c EXCEPT !.rules = BeforeFinal(Keep(@, LAMBDA r : ~IsBaseRu(r)), RuRules)]

(* A good to-de of the file of before comes back, as the first outbound.   *)
Preserve(c, had) ==
  IF had /\ ToDe \notin Tags(c) THEN [c EXCEPT !.outs = <<Out(ToDe, TRUE)>> \o @] ELSE c

UpstreamOf(c) ==
  LET nodes == Keep(c.outs, LAMBDA o : IsNode(o.tag))
  IN  IF c.bal # {} THEN Upstream ELSE IF nodes # <<>> THEN nodes[1].tag ELSE ToDe

DnsRules(c) == <<Rule({}, {"dns-ru"}, Direct), Rule({}, {"dns-world"}, UpstreamOf(c))>>
IsDns(r)    == /\ r.match \cap {"dns-ru", "dns-world"} # {}
               /\ r.to = Direct \/ Foreign(r.to)

IsOldDns(r) == \/ r.match = {"dns-ru"} /\ r.to = Direct
               \/ r.match = {"dns-world"} /\ Foreign(r.to)

SplitDns(c) ==
  [c EXCEPT !.rules = BeforeFinal(Keep(@, LAMBDA r : ~IsOldDns(r)), DnsRules(c))]

IsGov(r) == r.to = Block /\ "gov" \in r.match

GovBlock(c) == [c EXCEPT !.rules = <<GovRule>> \o Keep(@, LAMBDA r : ~IsGov(r))]

Override(c) ==
  [c EXCEPT !.rules = <<GovRule>> \o DnsRules(c) \o Keep(@, LAMBDA r : ~IsGov(r) /\ ~IsDns(r))]

-----------------------------------------------------------------------------
(* The layer of the countries.                                             *)

Strip(c) ==
  LET Back(r) == IF r.to = Director THEN [r EXCEPT !.to = Upstream] ELSE r
      rules   == Keep(c.rules, LAMBDA r : ~IsOurs(r) /\ ~IsDirectors(r))
  IN [ins   |-> c.ins \cap {In(0)},
      outs  |-> Keep(c.outs, LAMBDA o : o.tag[1] # "auto-via"),
      rules |-> [i \in DOMAIN rules |-> Back(rules[i])],
      bal   |-> {[b EXCEPT !.closed = FALSE] : b \in {x \in c.bal : x.tag = Upstream}},
      seen  |-> {t \in c.seen : t[1] # "auto-via"}]

(* Careless: a node is taken although the file has no outbound for it.     *)
EveryNode(c, d, s) == {n \in Nodes : d.home[n] = s}

Usable(c, d, s) == {n \in Nodes : d.home[n] = s /\ Node(n) \in RealTags(c)}

SlotTarget(c, d, s) ==
  IF s \notin d.on \/ Usable(c, d, s) = {} THEN Block
  ELSE IF Cardinality(Usable(c, d, s)) = 1 THEN Node(CHOOSE n \in Usable(c, d, s) : TRUE)
  ELSE Country(s)

SlotRules(c, d, match) ==
  [i \in DOMAIN InOrder |-> Rule({In(InOrder[i])}, match, SlotTarget(c, d, InOrder[i]))]

(* What goes to a node of any country gets a copy for each country.        *)
WithCopies(c, d, r) ==
  IF r.match # {} /\ r.from = {} /\ Foreign(r.to) THEN SlotRules(c, d, r.match) \o <<r>> ELSE <<r>>

Entrances(c, d) ==
  LET last  == SelectLastInSeq(c.rules, IsCatchAll)
      cut   == IF last = 0 THEN Len(c.rules) + 1 ELSE last
      nodes == [s \in Slots |-> {Node(n) : n \in Usable(c, d, s)}]
      bals  == {s \in Slots : SlotTarget(c, d, s) = Country(s)}
      used  == UNION {nodes[s] : s \in {t \in Slots : SlotTarget(c, d, t) # Block}}
  IN [c EXCEPT
      !.ins   = @ \cup {In(s) : s \in Slots},
      !.rules = FlattenSeq([i \in 1 .. cut - 1 |-> WithCopies(c, d, c.rules[i])])
                \o SlotRules(c, d, {}) \o SubSeq(c.rules, cut, Len(c.rules)),
      !.bal   = {[b EXCEPT !.closed = TRUE] : b \in @}
                \cup {[tag |-> Country(s), members |-> nodes[s], closed |-> TRUE] : s \in bals},
      !.seen  = IF bals = {} THEN @ ELSE @ \cup used]

(* AUTO by countries, each behind a loop that enters the router again.     *)
AddDirector(c, d) ==
  LET live_  == Keep(InOrder, LAMBDA s : SlotTarget(c, d, s) # Block)
      loops  == {Loop(s) : s \in ToSet(live_)}
      To(r)  == IF IsCatchAll(r) /\ r.to = Upstream THEN [r EXCEPT !.to = Director] ELSE r
  IN IF ~d.director \/ Len(live_) < 2 THEN c
     ELSE [ins   |-> c.ins \cup {Api},
           outs  |-> c.outs \o [i \in DOMAIN live_ |-> Out(Loop(live_[i]), TRUE)],
           rules |-> <<Rule({Api}, {}, Api)>>
                     \o [i \in DOMAIN live_ |->
                           Rule({LoopIn(live_[i])}, {}, SlotTarget(c, d, live_[i]))]
                     \o [i \in DOMAIN c.rules |-> To(c.rules[i])],
           bal   |-> c.bal \cup {[tag |-> Director, members |-> loops, closed |-> TRUE]},
           seen  |-> c.seen \cup loops]

Transform(c, d) ==
  IF d.multi THEN AddDirector(Entrances(Strip(c), d), d) ELSE Strip(c)

(* check_invariants, with the numbers of its comments.                     *)
OrderIsRight(c) ==                                              \* 1, 2
  LET finals == {i \in DOMAIN c.rules : IsOurs(c.rules[i]) /\ c.rules[i].match = {}}
  IN  \A i \in finals, j \in DOMAIN c.rules :
        (c.rules[j].to = Direct => j < i) /\ (IsCatchAll(c.rules[j]) => i < j)

FailsClosed(c) ==                                               \* 3
  /\ \A b \in c.bal : b.closed \/ (b.tag = Upstream /\ c.ins = {In(0)})
  /\ (\E b \in c.bal : b.closed) => Out(Block, FALSE) \in ToSet(c.outs)

DirectorIsRight(c) ==                                           \* 3b
  LET last == SelectLastInSeq(c.rules, IsCatchAll) IN
  \A b \in {x \in c.bal : x.tag = Director} :
    /\ Cardinality(b.members) >= 2 /\ b.members \subseteq Tags(c) \cap c.seen
    /\ last # 0 /\ c.rules[last].to = Director
    /\ \A t \in b.members : \E i \in 1 .. last : LoopIn(t[2]) \in c.rules[i].from
    /\ Api \in c.ins /\ Rule({Api}, {}, Api) \in ToSet(c.rules)

RefersToWhatIsThere(c) ==                                       \* 4
  \A r \in ToSet(c.rules) : IsOurs(r) => r.to \in Tags(c) \cup {b.tag : b \in c.bal}

MembersAreMeant(c) ==                                           \* 5, 6
  \A b \in {x \in c.bal : x.tag[1] = "balancer"} :
    /\ {t \in Tags(c) : Covers(b.members, t)} = b.members
    /\ \A t \in b.members : Covers(c.seen, t)

Sound(c) ==
  /\ OrderIsRight(c) /\ FailsClosed(c) /\ DirectorIsRight(c)
  /\ RefersToWhatIsThere(c) /\ MembersAreMeant(c)

(* compact_bulk_rules: neighbours that are plain lists of one kind.        *)
Class(r) ==
  IF r.from # {} \/ r.match = {} \/ r.to = Upstream \/ r.to[1] = "balancer" THEN "none"
  ELSE CASE r.match \subseteq {"own", "dns-ru", "dns-world"} -> "ip"
         [] r.match \subseteq {"gov"} -> "domain"
         [] r.match \subseteq {"geoip"} -> "special ip"
         [] OTHER -> "special domain"

Joins(r, q) == Class(r) # "none" /\ Class(r) = Class(q) /\ r.to = q.to

Compact(c) ==
  LET Add(rules, r) ==
        IF rules # <<>> /\ Joins(Last(rules), r)
        THEN [rules EXCEPT ![Len(rules)].match = @ \cup r.match]
        ELSE Append(rules, r)
  IN  [c EXCEPT !.rules = FoldLeft(Add, <<>>, @)]

Pipeline(d, had) == Override(GovBlock(SplitDns(Preserve(BaseRu(Render(d)), had))))

-----------------------------------------------------------------------------
(* Edits and applies.                                                      *)

NoRun == [pc |-> "idle"]

Init ==
  /\ db \in Databases
  /\ \E had \in BOOLEAN : live = Compact(Transform(Pipeline(db, had), db))
  /\ Sound(live)
  /\ run = NoRun /\ made = [built |-> db, plan |-> db, whole |-> TRUE] /\ edits = 0

Edit ==
  /\ edits < MaxEdits /\ edits' = edits + 1
  /\ \/ \E n \in Nodes, k \in Kinds : db' = [db EXCEPT !.node[n] = k]
     \/ \E n \in Nodes, s \in Slots \cup {0} : db' = [db EXCEPT !.home[n] = s]
     \/ \E s \in Slots : db' = [db EXCEPT !.on = IF s \in @ THEN @ \ {s} ELSE @ \cup {s}]
     \/ \E p \in Policies : db' = [db EXCEPT !.own = p]
     \/ db' = [db EXCEPT !.multi = ~@]
     \/ db' = [db EXCEPT !.director = ~@]
     \/ db' = [db EXCEPT !.geoip = ~@]
  /\ db' # db
  /\ UNCHANGED <<live, run, made>>

(* The file a layer has written is the live one in the classic mode.       *)
Writes(classic, c) == live' = IF classic THEN c ELSE live

Begin(classic) ==
  /\ run.pc = "idle"
  /\ run' = [pc |-> "base", cfg |-> Render(db), had |-> ToDe \in RealTags(live),
             classic |-> classic, built |-> db]
  /\ Writes(classic, Render(db))
  /\ made' = IF classic THEN [made EXCEPT !.built = db, !.whole = FALSE] ELSE made
  /\ UNCHANGED <<db, edits>>

Layer(at, next, c) ==
  /\ run.pc = at
  /\ run' = [run EXCEPT !.pc = next, !.cfg = c]
  /\ Writes(run.classic, c)
  /\ UNCHANGED <<db, made, edits>>

BaseRuLayer   == Layer("base", "to-de", BaseRu(run.cfg))
PreserveLayer == Layer("to-de", "dns", Preserve(run.cfg, run.had))
SplitDnsLayer == Layer("dns", "gov", SplitDns(run.cfg))
GovBlockLayer == Layer("gov", "ui", GovBlock(run.cfg))
OverrideLayer == Layer("ui", "countries", Override(run.cfg))

(* The layer of the countries, then the swap.                              *)
Finish ==
  /\ run.pc = "countries"
  /\ LET new == Transform(run.cfg, db) IN
       /\ Sound(new)
       /\ live' = IF run.classic THEN new ELSE Compact(new)
  /\ made' = [built |-> run.built, plan |-> db, whole |-> TRUE]
  /\ run' = NoRun
  /\ UNCHANGED <<db, edits>>

(* A layer's test, write or restart fails, the layer of the countries is   *)
(* refused, or the owner does not want what was built.                     *)
Fails ==
  /\ run.pc # "idle" /\ run' = NoRun
  /\ UNCHANGED <<db, live, made, edits>>

(* patch_config on the finished file.                                      *)
ApplyCountries ==
  /\ run.pc = "idle"
  /\ LET new == Transform(live, db) IN Sound(new) /\ new # live /\ live' = new
  /\ made' = [made EXCEPT !.plan = db]
  /\ UNCHANGED <<db, run, edits>>

Next ==
  \/ Edit \/ (\E classic \in BOOLEAN : Begin(classic))
  \/ BaseRuLayer \/ PreserveLayer \/ SplitDnsLayer \/ GovBlockLayer \/ OverrideLayer
  \/ Finish \/ Fails \/ ApplyCountries

Spec == Init /\ [][Next]_vars

-----------------------------------------------------------------------------
(* Where traffic goes.                                                     *)

Chosen(c, from, dest) ==
  LET i == SelectInSeq(c.rules, LAMBDA r : /\ r.from = {} \/ from \in r.from
                                           /\ r.match = {} \/ r.match \cap dest # {})
  IN  IF i = 0 THEN c.outs[1].tag ELSE c.rules[i].to

(* Blocked is also what names nothing that is there.                       *)
Leaving(c, tag) == IF tag \in RealTags(c) THEN {tag} ELSE {Block}

(* Ways out, when the nodes in up answer.                                  *)
Exits(c, up, to) ==
  IF to \in Tags(c) \/ {b \in c.bal : b.tag = to} = {} THEN Leaving(c, to)
  ELSE LET b    == CHOOSE x \in c.bal : x.tag = to
           good == {t \in RealTags(c) : Covers(b.members, t) /\ Covers(c.seen, t) /\ t[2] \in up}
       IN  IF good # {} THEN good ELSE IF b.closed THEN {Block} ELSE Leaving(c, c.outs[1].tag)

(* The controller may choose any member of the director's, or none.        *)
Reached(c, up, from, dest) ==
  LET to == Chosen(c, from, dest) IN
  IF to # Director THEN Exits(c, up, to)
  ELSE {Block} \cup UNION {Exits(c, up, Chosen(c, LoopIn(t[2]), dest)) :
                             t \in {x \in Tags(c) : x[1] = "auto-via"}}

Ru    == {{"ru"}, {"geoip"}, {"dns-ru", "geoip"}}
Gov   == {"gov", "ru"}
World == {{}, {"dns-world"}}
Own   == {"own"}

SameRouting(c, e) ==
  /\ c.ins = e.ins
  /\ \A from \in c.ins \ {Api}, dest \in Ru \cup World \cup {Gov, Own}, up \in SUBSET Nodes :
       Reached(c, up, from, dest) = Reached(e, up, from, dest)

-----------------------------------------------------------------------------
(* Properties.                                                             *)

(* Russian destinations leave directly and the blocked ones not at all,    *)
(* from every entrance, after every finished apply that had a node to      *)
(* build with (without one the catch-all is a block, which the layers do   *)
(* not take for the final rule).                                           *)
RussiaStaysHome ==
  made.whole /\ Real(made.built) # {} =>
    \A from \in live.ins \ {Api} :
      /\ \A dest \in Ru : Reached(live, Nodes, from, dest) = {Direct}
      /\ Reached(live, Nodes, from, Gov) = {Block}

(* A country is served by its own nodes, by those that answer, and by      *)
(* nothing when there is none; the owner's rule holds from its entrance.   *)
Serving(s, up) ==
  LET nodes == Usable(live, made.plan, s) IN
  IF s \notin made.plan.on \/ nodes = {} THEN {Block}
  ELSE IF Cardinality(nodes) = 1 THEN {Node(n) : n \in nodes}
  ELSE IF nodes \cap up = {} THEN {Block} ELSE {Node(n) : n \in nodes \cap up}

CountriesApart ==
  \A up \in SUBSET Nodes :
    /\ \A s \in {t \in Slots : In(t) \in live.ins} :
         /\ \A dest \in World : Reached(live, up, In(s), dest) = Serving(s, up)
         /\ made.whole => Reached(live, up, In(s), Own) =
              CASE made.built.own = "direct_ru" -> {Direct}
                [] made.built.own = "block"     -> {Block}
                [] OTHER                        -> Serving(s, up)
    /\ \A from \in live.ins \ {Api}, dest \in World : Direct \notin Reached(live, up, from, dest)
    /\ Director \in {b.tag : b \in live.bal} =>
         Reached(live, up, In(0), {}) =
           {Block} \cup UNION {Serving(s, up) : s \in made.plan.on}

(* What an entrance and a destination are sent to is what the database     *)
(* says, for Russian destinations, foreign ones and the owner's own.       *)
EachItsOwnWay == RussiaStaysHome /\ CountriesApart

(* The layer that works on the finished file leads where the whole way     *)
(* leads, changes nothing the second time, and can be taken off again.     *)
ShortWayAgrees ==
  made.whole /\ run.pc = "idle" =>
    LET d     == [made.built EXCEPT !.multi = db.multi, !.home = db.home, !.on = db.on,
                                    !.director = db.director]
        short == Transform(live, d)
        long  == Transform(Pipeline(d, ToDe \in RealTags(live)), d)
    IN /\ Sound(short) <=> Sound(long)
       /\ SameRouting(short, long) /\ SameRouting(short, Compact(long))
       /\ Transform(short, d) = short
       /\ Strip(short) = Strip(live)

(* A balancer of a country would select a node that is not the country's.  *)
Clash(c, d) ==
  \E s \in d.on : \E m \in Usable(c, d, s), n \in Nodes :
    <<n, m>> \in Prefixed /\ Node(n) \in Tags(c) /\ n \notin Usable(c, d, s)

(* The live file passes the layer's own checks, and they refuse a new one  *)
(* only where a tag is the beginning of another (prefix matching) or where *)
(* the file was built without a real node: then the catch-all is a block,  *)
(* the Russian rules come after it and so after the countries' last rules. *)
SoundOrClash ==
  /\ Sound(live)
  /\ run.pc = "idle" =>
       Sound(Transform(live, db)) \/ Clash(live, db) \/ Real(made.built) = {}
  /\ run.pc = "countries" =>
       Sound(Transform(run.cfg, db)) \/ Clash(run.cfg, db) \/ Real(run.built) = {}
=============================================================================
