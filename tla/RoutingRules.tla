---------------------------- MODULE RoutingRules -----------------------------
(***************************************************************************)
(* The pages of the routing area: the rules (added by hand in the text of  *)
(* the routing form, or imported from a rule source), the sources, the     *)
(* nodes, and the settings with the cache that stands between them and     *)
(* every reader.  A save, and the button of the sources' page, start one   *)
(* apply that reads all of this into the router.                           *)
(*                                                                         *)
(* The panel answers one request at a time.  The save of the routing form  *)
(* is split all the same, because other processes (an apply, a background  *)
(* task) read the settings meanwhile: set_hconfig empties the cache before *)
(* the commit, and whoever misses the cache fills it with what his own     *)
(* transaction sees.  The other requests are one step each.                *)
(*                                                                         *)
(* Left out: what a rule or a URI says, the formats of a source, the       *)
(* columns that only report (last_status, rules_count), the telegram and   *)
(* yookassa sections of the form, a second apply beside the first (no lock *)
(* keeps it out: see OutsideWrite of RouterApply).                         *)
(***************************************************************************)
EXTENDS Integers

CONSTANTS
  Keys,           \* what a rule is about: (rule_type, normalized_value)
  Unprintable,    \* keys whose line in the text cannot be read back
  Sources,        \* rule sources there may be
  Upstreams,          \* upstream nodes there may be, by id
  Ways,       \* where a rule may send traffic
  Values,         \* settings and lists that may be submitted together
  FirstValue,
  MaxPriority,    \* bound on the priority of a node
  MaxRequests,    \* bound on the requests that change something
  Absent, Empty,  \* no such row; nothing in the cache
  CutOff, Default   \* a file that is cut short; the lists without any file

ByHand == "by hand"
Nobody == "nobody"

ASSUME RoutingAssumption ==
  /\ Unprintable \subseteq Keys
  /\ "direct_ru" \in Ways /\ FirstValue \in Values
  /\ {Empty, CutOff} \cap Values = {} /\ Absent \notin [enabled : BOOLEAN, policy : Ways]
  /\ {ByHand, Nobody} \cap Sources = {} /\ ByHand # Nobody
  /\ MaxPriority \in Nat /\ MaxRequests \in Nat

VARIABLES
  sources,    \* commercial_routing_rule_source
  rules,      \* commercial_routing_custom_rule, by its unique key
  nodes,      \* commercial_routing_upstream
  setting,    \* the committed settings of the routing area
  primary, legacy,  \* commercial-routing-ui.json, twice: blocked domains, DNS servers
  cache,      \* what redis holds for get_hconfigs
  save,       \* the save of the routing form that is under way
  reader,     \* another process that reads the settings
  apply,      \* commercial-routing-apply
  router,     \* what the router was last made of
  requests,
  tainted     \* history: the cache was filled beside a save

tables == <<sources, rules, nodes>>
files  == <<primary, legacy>>
others == <<reader, apply, router>>
pagesVars == <<tables, setting, files, cache, save, others, requests, tainted>>

NoRule == [owner |-> Nobody, on |-> FALSE, policy |-> "direct_ru"]
HandRule == [owner |-> ByHand, on |-> TRUE, policy |-> "direct_ru"]
Imported(s) == [owner |-> s, on |-> TRUE, policy |-> sources[s].policy]

(* load_enabled_custom_rules and get_active_ordered.                       *)
Routed == {<<k, rules[k].policy>> : k \in {l \in Keys : rules[l].on}}
Active == {<<nodes[n].priority, n>> : n \in {m \in Upstreams : nodes[m] # Absent /\ nodes[m].enabled}}
View   == [rules |-> Routed, nodes |-> Active, setting |-> setting]

(* The first of the two files that can be read.                            *)
Lists == IF primary # CutOff THEN primary ELSE IF legacy # CutOff THEN legacy ELSE Default

NoSave == [stage |-> "idle", text |-> {}, value |-> FirstValue, pending |-> FALSE, misled |-> FALSE]
NoView == [rules |-> {}, nodes |-> {}, setting |-> FirstValue]
NoReader == [on |-> FALSE, setting |-> FirstValue, crossed |-> FALSE]
NoApply  == [pc |-> "off", view |-> NoView, known |-> FirstValue, begun |-> FALSE, crossed |-> FALSE]

----------------------------------------------------------------------------
(* The text of the form.  It shows the rules added by hand, each as prefix *)
(* and normalized value; of a wildcard rule the normalized value has lost  *)
(* the "*." without which it is refused.                                   *)
Lines == [key : Keys, readable : BOOLEAN]
Texts == {t \in SUBSET Lines : \A l, m \in t : l.key = m.key => l = m}

OnPage == {k \in Keys : rules[k].owner = ByHand /\ rules[k].on /\ rules[k].policy = "direct_ru"}
Printed(k) == [key |-> k, readable |-> k \notin Unprintable]
PageText == {Printed(k) : k \in OnPage}

(* parse_bulk_rules.                                                       *)
Parsed(text) == {l.key : l \in text}
Readable(text) == \A l \in text : l.readable

(* The save changes the rules in place: a shown rule the text no longer    *)
(* has is deleted, a new one is added unless the key is somebody else's.   *)
(* Mutant: a rule that is listed becomes one added by hand.                *)
TakenOver(text) ==
  [k \in Keys |-> IF k \in OnPage /\ k \notin Parsed(text) THEN NoRule
                  ELSE IF k \in Parsed(text) THEN [rules[k] EXCEPT !.owner = ByHand]
                  ELSE rules[k]]
Rewritten(text) ==
  [k \in Keys |-> IF k \in OnPage /\ k \notin Parsed(text) THEN NoRule
                  ELSE IF k \in Parsed(text) /\ rules[k] = NoRule THEN HandRule
                  ELSE rules[k]]

----------------------------------------------------------------------------
(* A panel with its sources set up, before the first import.               *)
PagesInit ==
  /\ sources = [s \in Sources |-> [enabled |-> TRUE, policy |-> "direct_ru"]]
  /\ rules = [k \in Keys |-> NoRule]
  /\ nodes = [n \in Upstreams |-> Absent]
  /\ setting = FirstValue /\ primary = FirstValue /\ legacy = FirstValue
  /\ cache = Empty
  /\ save = NoSave /\ reader = NoReader /\ apply = NoApply
  /\ router = [rules |-> {}, nodes |-> {}, setting |-> FirstValue, lists |-> FirstValue]
  /\ requests = 0 /\ tainted = FALSE

(* One more request; the panel is not in the middle of another.            *)
Request ==
  /\ save.stage = "idle" /\ requests < MaxRequests
  /\ requests' = requests + 1

----------------------------------------------------------------------------
(* Rule sources.                                                           *)

(* rule_source_add, rule_source_edit: the row is written, its rules stay.  *)
SaveSource(s, e, p) ==
  /\ Request
  /\ sources' = [sources EXCEPT ![s] = [enabled |-> e, policy |-> p]]
  /\ UNCHANGED <<rules, nodes, setting, files, cache, save, others, tainted>>

(* rule_source_delete: the rules first.  (The foreign key would make them  *)
(* rules of nobody's source, which are rules added by hand.)               *)
(* Mutant: left to the foreign key, ON DELETE SET NULL.                    *)
SetNull(s) == [k \in Keys |-> IF rules[k].owner = s THEN [rules[k] EXCEPT !.owner = ByHand] ELSE rules[k]]
Without(s) == [k \in Keys |-> IF rules[k].owner = s THEN NoRule ELSE rules[k]]

DeleteSource(s) ==
  /\ sources[s] # Absent /\ Request
  /\ sources' = [sources EXCEPT ![s] = Absent]
  /\ rules' = Without(s)
  /\ UNCHANGED <<nodes, setting, files, cache, save, others, tainted>>

(* rule_source_toggle.                                                     *)
Switched(s) == [k \in Keys |-> IF rules[k].owner = s THEN [rules[k] EXCEPT !.on = ~sources[s].enabled]
                               ELSE rules[k]]

ToggleSource(s) ==
  /\ sources[s] # Absent /\ Request
  /\ sources' = [sources EXCEPT ![s].enabled = ~@]
  /\ rules' = Switched(s)
  /\ UNCHANGED <<nodes, setting, files, cache, save, others, tainted>>

(* rule_source_import: the source's rules are deleted and what it supplies *)
(* now is inserted, unless the key is somebody else's.  A source that      *)
(* cannot be fetched, or of which no line can be read, keeps its rules.    *)
Replaced(s, keys) ==
  [k \in Keys |-> IF rules[k].owner \notin {s, Nobody} THEN rules[k]
                  ELSE IF k \in keys THEN Imported(s) ELSE NoRule]

ImportSource(s, keys) ==
  /\ sources[s] # Absent /\ Request
  /\ rules' = Replaced(s, keys)
  /\ UNCHANGED <<sources, nodes, setting, files, cache, save, others, tainted>>

ImportFails(s) ==
  /\ sources[s] # Absent /\ Request
  /\ UNCHANGED <<tables, setting, files, cache, save, others, tainted>>

----------------------------------------------------------------------------
(* Nodes.                                                                  *)

(* upstream_add, upstream_edit.                                            *)
SaveNode(n, e, i) ==
  /\ Request
  /\ nodes' = [nodes EXCEPT ![n] = [enabled |-> e, priority |-> i]]
  /\ UNCHANGED <<sources, rules, setting, files, cache, save, others, tainted>>

(* upstream_delete, upstream_toggle, upstream_move_up, upstream_move_down. *)
ChangeNode(n) ==
  /\ nodes[n] # Absent /\ Request
  /\ \/ nodes' = [nodes EXCEPT ![n] = Absent]
     \/ nodes' = [nodes EXCEPT ![n].enabled = ~@]
     \/ nodes[n].priority > 0 /\ nodes' = [nodes EXCEPT ![n].priority = @ - 1]
     \/ nodes[n].priority < MaxPriority /\ nodes' = [nodes EXCEPT ![n].priority = @ + 1]
  /\ UNCHANGED <<sources, rules, setting, files, cache, save, others, tainted>>

----------------------------------------------------------------------------
(* Settings.  get_hconfigs answers from the cache; on a miss it reads with *)
(* the transaction of its caller and fills the cache.                      *)
Seen(own) == IF cache = Empty THEN own ELSE cache

(* The cache forgets after 500 seconds.                                    *)
Expire ==
  /\ cache # Empty
  /\ cache' = Empty /\ tainted' = FALSE
  /\ UNCHANGED <<tables, setting, files, save, others, requests>>

Saving == save.stage \in {"checked", "primary", "legacy", "written"} /\ save.pending

(* BusinessAdmin.post: what is submitted is compared with the *cached*     *)
(* settings; what differs is set in the session, and set_hconfig empties   *)
(* the cache.  The page may be of any age, so the text is any text.        *)
(* Mutant: the cache is left as it is.                                     *)
StillCached(old) == old
Forgotten(old) == Empty

Submit(text, v) ==
  /\ Request
  /\ LET old == Seen(setting)
     IN  /\ save' = [stage |-> "checked", text |-> text, value |-> v,
                     pending |-> v # old, misled |-> tainted]
         /\ cache' = IF v # old THEN Forgotten(old) ELSE old
         /\ tainted' = (v = old /\ tainted)
         /\ reader' = [reader EXCEPT !.crossed = reader.on /\ (@ \/ v # old)]
         /\ apply' = [apply EXCEPT !.crossed = apply.pc # "off" /\ (@ \/ v # old)]
  /\ UNCHANGED <<tables, setting, files, router>>

(* The lists go to their files before the text is looked at; write_text    *)
(* empties a file and then fills it, and the second one may fail unseen.   *)
WriteLists ==
  /\ \/ save.stage = "checked" /\ primary' = CutOff /\ legacy' = legacy
        /\ save' = [save EXCEPT !.stage = "primary"]
     \/ save.stage = "primary" /\ primary' = save.value /\ legacy' \in {legacy, CutOff}
        /\ save' = [save EXCEPT !.stage = "legacy"]
     \/ save.stage = "legacy" /\ primary' = primary /\ legacy' \in {legacy, save.value}
        /\ save' = [save EXCEPT !.stage = "written"]
  /\ UNCHANGED <<tables, setting, cache, others, requests, tainted>>

(* A line cannot be read: the page is shown again, which reads the         *)
(* settings in the session that holds the uncommitted ones; then the       *)
(* session is rolled back.                                                 *)
Refuse ==
  /\ save.stage = "written" /\ ~Readable(save.text)
  /\ cache' = Seen(IF save.pending THEN save.value ELSE setting)
  /\ tainted' = (tainted \/ (cache = Empty /\ save.pending))
  /\ save' = NoSave
  /\ UNCHANGED <<tables, setting, files, others, requests>>

Stored == IF save.pending THEN save.value ELSE setting

Commit ==
  /\ save.stage = "written" /\ Readable(save.text)
  /\ rules' = Rewritten(save.text)
  /\ setting' = Stored
  /\ save' = [save EXCEPT !.stage = "saved", !.text = {}, !.pending = FALSE]
  /\ UNCHANGED <<sources, nodes, files, cache, others, requests, tainted>>

(* "Configs have been updated", and how the apply went; one that takes     *)
(* more than 90 seconds is not waited for.                                 *)
Report ==
  /\ save.stage \in {"saved", "applying", "applied"}
  /\ save' = NoSave
  /\ UNCHANGED <<tables, setting, files, cache, others, requests, tainted>>

(* A file cannot be written, or the panel is killed: the session is gone.  *)
SaveDies ==
  /\ save.stage # "idle"
  /\ save' = NoSave
  /\ UNCHANGED <<tables, setting, files, cache, others, requests, tainted>>

----------------------------------------------------------------------------
(* Another process that wants to know the settings: it sees them as they   *)
(* were when its transaction began, unless they are in the cache when it   *)
(* asks.  (A slow reader that overwrites a newer entry of the cache is one *)
(* that comes after the entry has expired.)                                *)
Asks(p, own) ==
  /\ cache' = Seen(own)
  /\ tainted' = (tainted \/ (cache = Empty /\ p.crossed))

StartReader ==
  /\ ~reader.on
  /\ reader' = [on |-> TRUE, setting |-> setting, crossed |-> Saving]
  /\ UNCHANGED <<tables, setting, files, cache, save, apply, router, requests, tainted>>

OnlyRead ==
  /\ reader.on /\ Asks(reader, reader.setting)
  /\ reader' = NoReader
  /\ UNCHANGED <<tables, setting, files, save, apply, router, requests>>

----------------------------------------------------------------------------
(* The apply: one of a save, after its commit, or one of the button.       *)
Started == /\ apply.pc = "off"
           /\ apply' = [NoApply EXCEPT !.pc = "open", !.view = View]

StartApply ==
  /\ save.stage = "saved" /\ Started
  /\ save' = [NoSave EXCEPT !.stage = "applying", !.misled = save.misled]
  /\ UNCHANGED <<tables, setting, files, cache, reader, router, requests, tainted>>

PressApply ==
  /\ Request /\ Started
  /\ save' = [NoSave EXCEPT !.stage = "applying"]
  /\ UNCHANGED <<tables, setting, files, cache, reader, router, tainted>>

(* The settings first: from the cache, or with the query that began the    *)
(* transaction (`view` is what it shows; with the cache filled, it begins  *)
(* with the tables).                                                       *)
ReadSettings ==
  /\ apply.pc = "open" /\ Asks(apply, apply.view.setting)
  /\ apply' = [apply EXCEPT !.pc = "known", !.known = Seen(apply.view.setting),
                            !.begun = cache = Empty, !.view = IF cache = Empty THEN @ ELSE NoView]
  /\ save' = [save EXCEPT !.misled = @ \/ (save.stage = "applying" /\ tainted')]
  /\ UNCHANGED <<tables, setting, files, reader, router, requests>>

(* Then the tables and the files; the router is restarted with it.         *)
Apply ==
  /\ apply.pc = "known"
  /\ LET view == IF apply.begun THEN apply.view ELSE View
     IN  router' = [rules |-> view.rules, nodes |-> view.nodes, setting |-> apply.known, lists |-> Lists]
  /\ apply' = NoApply
  /\ save' = IF save.stage = "applying" THEN [save EXCEPT !.stage = "applied"] ELSE save
  /\ UNCHANGED <<tables, setting, files, cache, reader, requests, tainted>>

(* xray refuses the file, or the process is killed.                        *)
ApplyFails ==
  /\ apply.pc # "off" /\ apply' = NoApply
  /\ UNCHANGED <<tables, setting, files, cache, save, reader, router, requests, tainted>>

----------------------------------------------------------------------------
EditTables ==
  \/ \E s \in Sources, e \in BOOLEAN, p \in Ways : SaveSource(s, e, p)
  \/ \E s \in Sources : DeleteSource(s)
  \/ \E s \in Sources : ToggleSource(s)
  \/ \E s \in Sources, keys \in SUBSET Keys : ImportSource(s, keys)
  \/ \E s \in Sources : ImportFails(s)
  \/ \E n \in Upstreams, e \in BOOLEAN, i \in 0 .. MaxPriority : SaveNode(n, e, i)
  \/ \E n \in Upstreams : ChangeNode(n)

PagesNext ==
  \/ EditTables
  \/ \E text \in Texts, v \in Values : Submit(text, v)
  \/ WriteLists \/ Refuse \/ Commit \/ Report \/ SaveDies
  \/ Expire \/ StartReader \/ OnlyRead
  \/ StartApply \/ PressApply \/ ReadSettings \/ Apply \/ ApplyFails

PagesSpec == PagesInit /\ [][PagesNext]_pagesVars

----------------------------------------------------------------------------
RowType == [owner : Sources \cup {ByHand, Nobody}, on : BOOLEAN, policy : Ways]
SourceType == [enabled : BOOLEAN, policy : Ways]
NodeType == [enabled : BOOLEAN, priority : 0 .. MaxPriority]
RoutedType == SUBSET (Keys \X Ways)
ActiveType == SUBSET ((0 .. MaxPriority) \X Upstreams)
ViewType == [rules : RoutedType, nodes : ActiveType, setting : Values]
Stages == {"idle", "checked", "primary", "legacy", "written", "saved", "applying", "applied"}
SaveType == [stage : Stages, text : Texts, value : Values, pending : BOOLEAN, misled : BOOLEAN]
ReaderType == [on : BOOLEAN, setting : Values, crossed : BOOLEAN]
ApplyType == [pc : {"off", "open", "known"}, view : ViewType, known : Values, begun : BOOLEAN,
               crossed : BOOLEAN]
RouterType == [rules : RoutedType, nodes : ActiveType, setting : Values, lists : Values \cup {Default}]

(* Types; a rule added by hand is enabled and direct, as the text cannot   *)
(* say anything else (BusinessAdmin.post, commercial_routing_custom_rule). *)
PagesTypeOK ==
  /\ sources \in [Sources -> SourceType \cup {Absent}]
  /\ rules \in [Keys -> RowType]
  /\ \A k \in Keys : /\ rules[k].owner = ByHand => rules[k] = HandRule
                     /\ rules[k].owner = Nobody => rules[k] = NoRule
  /\ nodes \in [Upstreams -> NodeType \cup {Absent}]
  /\ setting \in Values /\ cache \in Values \cup {Empty}
  /\ primary \in Values \cup {CutOff} /\ legacy \in Values \cup {CutOff}
  /\ save \in SaveType /\ reader \in ReaderType /\ apply \in ApplyType /\ router \in RouterType
  /\ requests \in 0 .. MaxRequests /\ tainted \in BOOLEAN

(* Every imported rule belongs to a source that is there, and the rules of *)
(* one source are of one kind: imports, switches, edits and deletions in   *)
(* any order leave no mixture and no orphan.                               *)
SourcesWhole ==
  /\ \A k \in Keys : rules[k].owner \in Sources => sources[rules[k].owner] # Absent
  /\ \A k, l \in Keys : rules[k].owner = rules[l].owner => rules[k] = rules[l]

(* No request touches the rules of two owners or hands a rule over.        *)
OneOwner ==
  \E o \in Sources \cup {ByHand} : \A k \in Keys :
    rules'[k] # rules[k] => {rules[k].owner, rules'[k].owner} \subseteq {o, Nobody}

(* To save the text as it is shown changes no rule.                        *)
SavedAsShown ==
  save.stage = "written" /\ save'.stage = "saved" /\ save.text = PageText => rules' = rules

(* The rules of the sources, and those added by hand, stay apart: nobody's *)
(* rule is lost or taken over by what another does.  ("The rules imported  *)
(* from the rule sources ... are never touched", BusinessAdmin 548)        *)
RulesStayApart == []SourcesWhole /\ [][OneOwner /\ SavedAsShown]_pagesVars

(* What a save reports as saved is what the database and the files hold    *)
(* then, unless the cache it compared with had been filled beside an       *)
(* earlier save: with settings that were then refused, or by a process     *)
(* that still saw the settings of before.  (BusinessAdmin 489, set_hconfig *)
(* 101)                                                                    *)
SavedIsStored ==
  save.stage = "saved" => Lists = save.value /\ (~save.misled => setting = save.value)

(* When the one apply of a save or of the button has succeeded, the router *)
(* was made of what the tables, the settings and the files hold, though    *)
(* the cache stands between; unless it was filled beside a save, this one  *)
(* or an earlier one.  ("Router-core configuration applied",               *)
(* BusinessAdmin 580; commercial_routing 476-487)                          *)
AppliedIsStored ==
  save.stage = "applied" /\ ~save.misled =>
    router = [rules |-> Routed, nodes |-> Active, setting |-> setting, lists |-> Lists]
==============================================================================
