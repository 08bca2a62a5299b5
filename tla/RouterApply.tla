----------------------------- MODULE RouterApply -----------------------------
(***************************************************************************)
(* "Apply" of the routing area: the owner edits rules, UI lists and        *)
(* countries in the panel; ONE background run (a systemd service, or a     *)
(* console command) brings /etc/xray-router/config.json and the running    *)
(* xray-router in line with them.                                          *)
(*   hutils/multiloc_apply.py        the plan, the record of what is       *)
(*                                   applied, the button                   *)
(*   bin-scripts/multiloc_router_apply.py   the service: lock, status      *)
(*   bin-scripts/multiloc_ctl.py     the job: none / countries / full      *)
(*   hutils/multiloc_full.py         build apart, compare, stage or swap   *)
(*   hutils/multiloc_router.py       the countries layer, the rollback     *)
(*                                                                         *)
(* A configuration is abstracted to the VERSION of the input each of its   *)
(* parts was built from.  `rules`, `upstreams`, `settings` and `countries` *)
(* are read from the database in one transaction, `ui_files` later, and    *)
(* `host` stands for whatever else shapes the result (the code of the      *)
(* layers, the host's own files, a hand-made change): it is in no hash.    *)
(* A part a half-built file does not have yet is NoPart; a file whose copy *)
(* was cut short is Torn: it is no configuration at all.                   *)
(***************************************************************************)
EXTENDS Integers

CONSTANTS
  None,            \* no configuration, no record, no file
  Torn,            \* a file that is not valid JSON
  MaxEdits,        \* bound on the edits of the inputs
  MaxConsole,      \* bound on runs started from a console
  MaxKills,        \* bound on SIGTERM / SIGKILL of a run
  MaxReboots,      \* bound on host restarts
  MaxFailures,     \* bound on failed steps (build, checks, start, copy)
  MaxOutside,      \* bound on writers that do not take the lock
  MaxTroubles,     \* bound on the last four together
  Reverts,         \* may the owner put an input back to its first version?
  PanelModes,      \* the buttons the owner uses: auto, accept, discard
  ConsoleModes,    \* what the console is used for
  Edited,          \* the parts that change in this instance
  Shows,           \* the categories of the comparison a part's change shows in
  Unusable         \* <<countries, upstreams>>: an enabled country of that
                   \* version has a node without a usable outbound in those

Database == {"rules", "upstreams", "settings"}
Hashed   == Database \cup {"ui_files"}
Owned    == Hashed \cup {"countries"}
Parts    == Owned \cup {"host"}
NoPart   == -1
Versions == 0 .. MaxEdits
Inputs   == [Parts -> Versions]
Configs  == [Parts -> Versions \cup {NoPart}]
Modes    == {"auto", "countries", "full", "force", "classic", "accept", "discard"}

(* Which plan parts can explain which kind of difference.                  *)
ExplainedBy ==
  [custom     |-> {"rules"},
   entries    |-> Owned,
   other_rules |-> Owned \ {"rules"},
   dns        |-> {"ui_files", "settings"},
   domains    |-> {"rules", "ui_files", "settings"},
   observatory |-> {"upstreams", "settings"},
   outbounds  |-> {"upstreams", "settings", "countries"},
   balancers  |-> {"upstreams", "countries", "settings"},
   inbounds   |-> {"countries", "settings"},
   rest       |-> {"settings"}]
Categories == DOMAIN ExplainedBy

ASSUME ApplyAssumption ==
  /\ {MaxEdits, MaxKills, MaxReboots, MaxFailures, MaxConsole, MaxOutside,
      MaxTroubles} \subseteq Nat
  /\ Reverts \in BOOLEAN
  /\ PanelModes \subseteq {"auto", "accept", "discard"}
  /\ ConsoleModes \subseteq Modes
  /\ Edited \subseteq Parts
  /\ Shows \in [Parts -> SUBSET Categories]
  /\ Unusable \subseteq Versions \X Versions
  /\ None \notin Configs
  /\ Torn \notin Configs \cup {None}

VARIABLES
  inputs,     \* what the database, the UI files and the host say now
  live,       \* /etc/xray-router/config.json
  served,     \* what the xray-router process has loaded; None: it is down
  applied,    \* applied.json: the input hashes of the last successful run
  staged,     \* the finished config kept for the owner's decision
  status,     \* status.json: the state of the last service run
  unit,       \* the mode of the systemd service, "absent" when not live
  lock,       \* who holds /run/multiloc-router-apply.lock
  pc, job,    \* where the lock holder's job is, and its local variables
  edits, kills, reboots, failures, consoles, outside   \* the bounds used up

system == <<live, served, applied, staged, status, unit, lock, pc, job>>
budget == <<edits, kills, reboots, failures, consoles, outside>>
vars   == <<inputs, system, budget>>

-----------------------------------------------------------------------------
(* The panel's view: what is applied, what waits, what Apply would do.     *)

PartsOf(in) == [p \in Hashed |-> in[p]]

(* A careless plan, for the mutation checks: the UI files are forgotten.   *)
RulesOnly(in) == IF applied = None THEN {}
                 ELSE {p \in Hashed \ {"ui_files"} : in[p] # applied[p]}

Changed(in) == IF applied = None THEN {}
               ELSE {p \in Hashed : in[p] # applied[p]}

StagedValid(in) ==
  /\ staged # None
  /\ staged.base = live
  /\ staged.parts = PartsOf(in)

(* What the countries layer finds in the file; a torn one raises, and the  *)
(* plan then takes the countries for unknown and no node for missing.      *)
InSync(in)  == live # Torn /\ live.countries = in.countries
Missing(in) == live # Torn /\ <<in.countries, live.upstreams>> \in Unusable

Plan(in) ==
  IF StagedValid(in) THEN "confirm"
  ELSE IF applied = None \/ Changed(in) # {} \/ Missing(in) THEN "full"
  ELSE IF ~InSync(in) THEN "countries"
  ELSE "none"

Expected(in) == Changed(in) \cup (IF InSync(in) THEN {} ELSE {"countries"})

(* compare: the categories in which two files differ.  A DNS section with  *)
(* more than other domain lists is one difference, not two.                *)
Differing(old, new) ==
  LET shown == UNION {Shows[p] : p \in {q \in Parts : old[q] # new[q]}}
  IN  IF "dns" \in shown THEN shown \ {"domains"} ELSE shown

(* Careless, for the mutation checks: any announced edit excuses anything. *)
AnyExcuse(old, new, expected) == {c \in Differing(old, new) : expected = {}}

Unexplained(old, new, expected) ==
  {c \in Differing(old, new) : ExplainedBy[c] \cap expected = {}}

Busy == unit # "absent" \/ lock # "free"

(* What the page shows: a recorded "running" with no live service behind   *)
(* it is a run that was cut short.                                         *)
Shown == IF status = "running" /\ unit = "absent" THEN "aborted" ELSE status

-----------------------------------------------------------------------------
(* xray does not start on a file it cannot read.                           *)
Loaded(file) == IF file = Torn THEN None ELSE file

(* What the classic pipeline has written after its first layer, and after  *)
(* all but the last.                                                       *)
Core(in)    == [p \in Parts |-> IF p \in Database THEN in[p] ELSE NoPart]
Layered(in) == [in EXCEPT !.countries = NoPart]

(* `lost`: the previous file could not be put back.                        *)
Idle == [kind |-> "none", parts |-> None, expected |-> {},
         base |-> None, built |-> None, lost |-> FALSE, rc |-> 0]

Calm == kills + reboots + failures + outside < MaxTroubles

Init ==
  /\ inputs = [p \in Parts |-> 0]
  /\ live = inputs /\ served = inputs
  /\ applied \in {None, PartsOf(inputs)}
  /\ staged = None
  /\ status = "idle" /\ unit = "absent"
  /\ lock = "free" /\ pc = "idle" /\ job = Idle
  /\ edits = 0 /\ kills = 0 /\ reboots = 0
  /\ failures = 0 /\ consoles = 0 /\ outside = 0

(* The owner saves a form, or the host changes under the layers.           *)
Edit(p) ==
  /\ edits < MaxEdits
  /\ \E v \in {edits + 1} \cup (IF Reverts THEN {0} ELSE {}) :
       v # inputs[p] /\ inputs' = [inputs EXCEPT ![p] = v]
  /\ edits' = edits + 1
  /\ UNCHANGED <<system, kills, reboots, failures, consoles, outside>>

(* apply_now / start: refused while a run is live or the lock is held;     *)
(* systemd refuses a second unit of the same name.                         *)
Press(mode) ==
  /\ ~Busy
  /\ mode = "auto" => Plan(inputs) # "none"
  /\ unit' = mode
  /\ UNCHANGED <<inputs, live, served, applied, staged, status, lock, pc, job, budget>>

(* cmd_run: the lock is taken without waiting; the run's status is written *)
(* before the job is started.                                              *)
UnitLocks ==
  /\ unit # "absent" /\ lock = "free"
  /\ lock' = "unit" /\ status' = "running"
  /\ pc' = "start" /\ job' = [Idle EXCEPT !.kind = unit]
  /\ UNCHANGED <<inputs, live, served, applied, staged, unit, budget>>

UnitRefused ==
  /\ unit # "absent" /\ lock = "console"
  /\ unit' = "absent"
  /\ UNCHANGED <<inputs, live, served, applied, staged, status, lock, pc, job, budget>>

ConsoleLocks(mode) ==
  /\ consoles < MaxConsole
  /\ lock = "free"
  /\ lock' = "console" /\ consoles' = consoles + 1
  /\ pc' = "start" /\ job' = [Idle EXCEPT !.kind = mode]
  /\ UNCHANGED <<inputs, live, served, applied, staged, status, unit,
                 edits, kills, reboots, failures, outside>>

-----------------------------------------------------------------------------
(* The job (_do_apply).  Exit leaves the return code for the service.      *)

Exit(rc) == pc' = "exit" /\ job' = [job EXCEPT !.rc = rc]

(* A step that can fail by itself, within the bounds.                      *)
MayFail == Calm /\ failures < MaxFailures /\ failures' = failures + 1

Untouched == UNCHANGED <<inputs, status, unit, lock, edits, kills, reboots,
                         consoles, outside>>

Discard ==
  /\ pc = "start" /\ job.kind = "discard"
  /\ staged' = None /\ Exit(0)
  /\ UNCHANGED <<live, served, applied, failures>> /\ Untouched

NothingToDo ==
  /\ pc = "start" /\ job.kind = "auto" /\ Plan(inputs) = "none"
  /\ Exit(0)
  /\ UNCHANGED <<live, served, applied, staged, failures>> /\ Untouched

(* The plan, then the hashes of the inputs; a console run takes the hashes *)
(* first.  The pipeline reads the inputs after both.                       *)
Decide ==
  /\ pc = "start" /\ job.kind = "auto" /\ Plan(inputs) \in {"full", "confirm"}
  /\ pc' = "hash"
  /\ job' = [job EXCEPT !.kind = "full", !.expected = Expected(inputs)]
  /\ UNCHANGED <<live, served, applied, staged, failures>> /\ Untouched

TakeHashes ==
  /\ \/ pc = "hash" /\ pc' = "full"
     \/ pc = "start" /\ job.kind \in {"full", "force", "classic"} /\ pc' = "expect"
  /\ job' = [job EXCEPT !.parts = PartsOf(inputs)]
  /\ UNCHANGED <<live, served, applied, staged, failures>> /\ Untouched

Expect ==
  /\ pc = "expect"
  /\ pc' = "full" /\ job' = [job EXCEPT !.expected = Expected(inputs)]
  /\ UNCHANGED <<live, served, applied, staged, failures>> /\ Untouched

(* patch_config: the live file with the countries of the database.         *)
Countries ==
  /\ pc = "start"
  /\ \/ job.kind = "countries"
     \/ job.kind = "auto" /\ Plan(inputs) = "countries"

StartCountries ==
  /\ Countries /\ live # Torn
  /\ LET new == [live EXCEPT !.countries = inputs.countries] IN
       /\ pc'  = IF new = live THEN "exit" ELSE "swap"
       /\ job' = [job EXCEPT !.kind = "countries",
                             !.base = live, !.built = new]
  /\ UNCHANGED <<live, served, applied, staged, failures>> /\ Untouched

CountriesRefused ==
  /\ Countries /\ live = Torn
  /\ Exit(2)
  /\ UNCHANGED <<live, served, applied, staged, failures>> /\ Untouched

(* Careless forms, for the mutation checks: the running file is not        *)
(* compared; the kept file is taken as it is found.                        *)
OnAnyFile(parts) ==
  staged # None /\ staged.parts = parts /\ staged.config # None

EvenDamaged(parts) ==
  staged # None /\ staged.base = live /\ staged.parts = parts

(* accept: only what was built against this very file and these inputs,    *)
(* and is whole.                                                           *)
Acceptable(parts) ==
  /\ staged # None
  /\ staged.base = live
  /\ staged.parts = parts
  /\ staged.config # None

StartAccept ==
  /\ pc = "start" /\ job.kind = "accept" /\ (staged = None \/ live # Torn)
  /\ IF Acceptable(PartsOf(inputs))
     THEN /\ pc' = "swap"
          /\ job' = [job EXCEPT !.parts = PartsOf(inputs),
                                !.base = live, !.built = staged.config]
          /\ UNCHANGED staged
     ELSE staged' = None /\ Exit(2)
  /\ UNCHANGED <<live, served, applied, failures>> /\ Untouched

(* Something is kept, and the running file is not JSON: the error comes    *)
(* before the kept file is looked at.                                      *)
AcceptFails ==
  /\ pc = "start" /\ job.kind = "accept" /\ staged # None /\ live = Torn
  /\ Exit(2)
  /\ UNCHANGED <<live, served, applied, staged, failures>> /\ Untouched

(* possible: a private copy needs a file to compare with.                  *)
Private == job.kind # "classic" /\ live # Torn

(* The pipeline in a private copy: the database in one transaction ...     *)
ReadDatabase ==
  /\ pc = "full" /\ Private
  /\ pc' = "reading"
  /\ job' = [job EXCEPT !.base = live,
                        !.built = [p \in Parts |-> IF p \in Database \cup {"countries"}
                                                  THEN inputs[p] ELSE live[p]]]
  /\ UNCHANGED <<live, served, applied, staged, failures>> /\ Untouched

(* ... then the files.                                                     *)
ReadFiles ==
  /\ pc = "reading"
  /\ pc' = "built"
  /\ job' = [job EXCEPT !.built.ui_files = inputs.ui_files,
                        !.built.host = inputs.host]
  /\ UNCHANGED <<live, served, applied, staged, failures>> /\ Untouched

PipelineFails ==
  /\ pc = "reading"
  /\ MayFail /\ Exit(2)
  /\ UNCHANGED <<live, served, applied, staged>> /\ Untouched

(* The finished config against the running one.                            *)
ChangedMeanwhile ==
  /\ pc = "built" /\ live # job.base
  /\ Exit(2)
  /\ UNCHANGED <<live, served, applied, staged, failures>> /\ Untouched

(* Careless, for the mutation checks: nothing to swap, nothing recorded.   *)
EqualWithoutRecord ==
  /\ pc = "built" /\ live = job.base /\ job.built = job.base
  /\ staged' = None /\ Exit(0)
  /\ UNCHANGED <<live, served, applied, failures>> /\ Untouched

EqualToLive ==
  /\ pc = "built" /\ live = job.base /\ job.built = job.base
  /\ staged' = None /\ pc' = "record"
  /\ UNCHANGED <<live, served, applied, job, failures>> /\ Untouched

Compare ==
  /\ pc = "built" /\ live = job.base /\ job.built # job.base
  /\ pc' = IF job.kind # "force" /\ Unexplained(job.base, job.built, job.expected) # {}
           THEN "stage" ELSE "swap"
  /\ UNCHANGED <<live, served, applied, staged, job, failures>> /\ Untouched

Stage ==
  /\ pc = "stage"
  /\ staged' = [base |-> job.base, parts |-> job.parts, config |-> job.built]
  /\ Exit(4)
  /\ UNCHANGED <<live, served, applied, failures>> /\ Untouched

-----------------------------------------------------------------------------
(* The classic pipeline works on the live file, and every layer restarts   *)
(* the router; nothing is compared and what was kept stays.                *)

StartClassic ==
  /\ pc = "full" /\ ~Private
  /\ pc' = "core" /\ job' = [job EXCEPT !.built = inputs]
  /\ UNCHANGED <<live, served, applied, staged, failures>> /\ Untouched

WriteCore ==
  /\ pc = "core"
  /\ live' = Core(job.built) /\ served' = live' /\ pc' = "layers"
  /\ UNCHANGED <<applied, staged, job, failures>> /\ Untouched

WriteLayers ==
  /\ pc = "layers"
  /\ live' = [live EXCEPT !.ui_files = inputs.ui_files, !.host = inputs.host]
  /\ served' = live' /\ pc' = "last"
  /\ UNCHANGED <<applied, staged, job, failures>> /\ Untouched

WriteCountries ==
  /\ pc = "last"
  /\ live' = [live EXCEPT !.countries = job.built.countries]
  /\ served' = live' /\ pc' = "record"
  /\ UNCHANGED <<applied, staged, job, failures>> /\ Untouched

(* A layer copies its predecessor back over a file that does not start; a  *)
(* copy that fails leaves it torn.                                         *)
ClassicFails ==
  /\ pc \in {"core", "layers", "last"}
  /\ MayFail
  /\ live' \in {live, Torn} /\ served' \in {served, None}
  /\ Exit(1)
  /\ UNCHANGED <<applied, staged>> /\ Untouched

-----------------------------------------------------------------------------
(* _swap: checks, atomic replace, ONE restart, the previous file back on   *)
(* any failure.                                                            *)

PreChecksFail ==
  /\ pc = "swap"
  /\ MayFail /\ Exit(2)
  /\ UNCHANGED <<live, served, applied, staged>> /\ Untouched

Replace ==
  /\ pc = "swap"
  /\ live' = job.built /\ pc' = "replaced"
  /\ UNCHANGED <<served, applied, staged, job, failures>> /\ Untouched

Restart ==
  /\ pc = "replaced"
  /\ served' = Loaded(live) /\ pc' = "serving"
  /\ UNCHANGED <<live, applied, staged, job, failures>> /\ Untouched

(* xray does not come up, or comes up later than the wait allows.          *)
RestartFails ==
  /\ pc = "replaced"
  /\ MayFail
  /\ served' \in {None, Loaded(live)} /\ pc' = "failed"
  /\ UNCHANGED <<live, applied, staged, job>> /\ Untouched

(* _restore_previous copies the backup over the live file: it is emptied   *)
(* first, then written.                                                    *)
PutBack ==
  /\ pc = "failed"
  /\ live' = Torn /\ pc' = "copying"
  /\ UNCHANGED <<served, applied, staged, job, failures>> /\ Untouched

Copied ==
  /\ pc = "copying"
  /\ live' = job.base /\ pc' = "restoring"
  /\ UNCHANGED <<served, applied, staged, job, failures>> /\ Untouched

(* The copy fails, before the file is opened or in the middle: the         *)
(* rollback ends there, without a restart.                                 *)
CopyFails ==
  /\ pc \in {"failed", "copying"}
  /\ MayFail
  /\ pc' = "exit" /\ job' = [job EXCEPT !.lost = TRUE, !.rc = 2]
  /\ UNCHANGED <<live, served, applied, staged>> /\ Untouched

(* A careless rollback, for the mutation checks: the file is put back, the *)
(* router is left as it is.                                                *)
NoSecondRestart ==
  /\ pc = "restoring"
  /\ Exit(2)
  /\ UNCHANGED <<live, served, applied, staged, failures>> /\ Untouched

RestartPrevious ==
  /\ pc = "restoring"
  /\ \/ served' = Loaded(live) /\ UNCHANGED failures
     \/ served' = None /\ MayFail
  /\ Exit(2)
  /\ UNCHANGED <<live, applied, staged>> /\ Untouched

(* The router serves the new config: a full or an accepted run drops what  *)
(* was kept before and is recorded; the countries layer needs no record.   *)
Swapped ==
  /\ pc = "serving"
  /\ IF job.kind = "countries"
     THEN Exit(0) /\ UNCHANGED staged
     ELSE staged' = None /\ pc' = "record" /\ UNCHANGED job
  /\ UNCHANGED <<live, served, applied, failures>> /\ Untouched

(* A careless record, for the mutation checks: the inputs as they are now. *)
RecordNow ==
  /\ pc = "record"
  /\ applied' = PartsOf(inputs) /\ Exit(0)
  /\ UNCHANGED <<live, served, staged, failures>> /\ Untouched

Record ==
  /\ pc = "record"
  /\ applied' = job.parts /\ Exit(0)
  /\ UNCHANGED <<live, served, staged, failures>> /\ Untouched

(* The process ends: the kernel drops the lock; a service run writes its   *)
(* outcome first.                                                          *)
Finish ==
  /\ pc = "exit"
  /\ IF lock = "unit"
     THEN /\ status' = CASE job.rc = 0 -> "ok"
                         [] job.rc = 4 -> "needs-confirm"
                         [] OTHER      -> "failed"
          /\ unit' = "absent"
     ELSE UNCHANGED <<status, unit>>
  /\ lock' = "free" /\ pc' = "idle" /\ job' = Idle
  /\ UNCHANGED <<inputs, live, served, applied, staged, budget>>

-----------------------------------------------------------------------------
(* The surroundings.                                                       *)

(* A run dies: SIGTERM of the service is noted by its handler, anything    *)
(* else leaves the status as it was.  A kill while the kept config is      *)
(* being written leaves none.                                              *)
Kill ==
  /\ Calm /\ kills < MaxKills /\ lock # "free"
  /\ kills' = kills + 1
  /\ IF lock = "unit"
     THEN status' \in {status, "aborted"} /\ unit' = "absent"
     ELSE UNCHANGED <<status, unit>>
  /\ staged' \in {staged} \cup (IF pc = "stage" THEN {None} ELSE {})
  /\ lock' = "free" /\ pc' = "idle" /\ job' = Idle
  /\ UNCHANGED <<inputs, live, served, applied,
                 edits, reboots, failures, consoles, outside>>

(* The host restarts: the router loads the file it finds; what was written *)
(* without a flush may be damaged.                                         *)
Reboot ==
  /\ Calm /\ reboots < MaxReboots
  /\ reboots' = reboots + 1
  /\ live' \in {live} \cup (IF pc \in {"replaced", "serving", "failed", "restoring"}
                           THEN {Torn} ELSE {})
  /\ served' = Loaded(live')
  /\ \/ UNCHANGED staged
     \/ staged # None /\ staged' = [staged EXCEPT !.config = None]
     \/ pc = "stage" /\ staged' = None
  /\ unit' = "absent" /\ lock' = "free" /\ pc' = "idle" /\ job' = Idle
  /\ UNCHANGED <<inputs, applied, status,
                 edits, kills, failures, consoles, outside>>

(* Restart=always: xray crashed, or was down, and is started again.        *)
RouterStartsAgain ==
  /\ served # Loaded(live) /\ served' = Loaded(live)
  /\ UNCHANGED <<inputs, live, applied, staged, status, unit, lock, pc, job, budget>>

(* Without the lock: the classic pipeline run by hand, which may stop      *)
(* after any layer, and an editor that changes what no hash covers.        *)
OutsideWrite ==
  /\ Calm /\ outside < MaxOutside
  /\ outside' = outside + 1
  /\ \/ live' \in {Core(inputs), Layered(inputs), inputs} /\ served' = live'
     \/ /\ live # Torn
        /\ \E v \in Versions : live' = [live EXCEPT !.host = v]
        /\ UNCHANGED served
  /\ live' # live
  /\ UNCHANGED <<inputs, applied, staged, status, unit, lock, pc, job,
                 edits, kills, reboots, failures, consoles>>

JobStep ==
  \/ Discard \/ NothingToDo \/ Decide \/ TakeHashes \/ Expect
  \/ StartCountries \/ CountriesRefused \/ StartAccept \/ AcceptFails
  \/ ReadDatabase \/ ReadFiles \/ PipelineFails
  \/ ChangedMeanwhile \/ EqualToLive \/ Compare \/ Stage
  \/ StartClassic \/ WriteCore \/ WriteLayers \/ WriteCountries \/ ClassicFails
  \/ PreChecksFail \/ Replace \/ Restart \/ RestartFails
  \/ PutBack \/ Copied \/ CopyFails \/ RestartPrevious
  \/ Swapped \/ Record \/ Finish

UnitStep == UnitLocks \/ UnitRefused

Next ==
  \/ \E p \in Edited : Edit(p)
  \/ \E mode \in PanelModes : Press(mode)
  \/ \E mode \in ConsoleModes : ConsoleLocks(mode)
  \/ UnitStep \/ JobStep
  \/ Kill \/ Reboot \/ RouterStartsAgain \/ OutsideWrite

Spec == Init /\ [][Next]_vars

(* systemd starts the queued service; a process that holds the lock goes   *)
(* on (its waits are bounded by timeouts).                                 *)
Progress == WF_vars(UnitStep) /\ WF_vars(JobStep)

(* An owner who keeps pressing "Apply" and, when asked, accepts.           *)
PersistentOwner ==
  /\ SF_vars(Plan(inputs) # "confirm" /\ Press("auto"))
  /\ SF_vars(Plan(inputs) = "confirm" /\ Press("accept"))

RunSpec   == Spec /\ Progress
OwnerSpec == RunSpec /\ PersistentOwner

-----------------------------------------------------------------------------
(* Properties.                                                             *)

Kinds == Modes \cup {"none"}
InPlace  == {"core", "layers", "last"}
Rollback == {"failed", "copying"}
Steps == {"idle", "start", "hash", "expect", "full", "reading", "built", "stage",
          "swap", "replaced", "serving", "restoring", "record", "exit"}
           \cup InPlace \cup Rollback
PartHashes == [Hashed -> Versions]
StagedType == [base : Configs, parts : PartHashes, config : Configs \cup {None}]
JobType    == [kind : Kinds, parts : PartHashes \cup {None},
               expected : SUBSET Parts,
               base : Configs \cup {None}, built : Configs \cup {None},
               lost : BOOLEAN, rc : {0, 1, 2, 4}]
Statuses   == {"idle", "running", "ok", "failed", "aborted", "needs-confirm"}

BudgetOK ==
  /\ edits \in 0 .. MaxEdits /\ kills \in 0 .. MaxKills
  /\ reboots \in 0 .. MaxReboots /\ failures \in 0 .. MaxFailures
  /\ consoles \in 0 .. MaxConsole /\ outside \in 0 .. MaxOutside

(* Every variable has its type.  The live file is a configuration, perhaps *)
(* one the classic pipeline has not finished, or torn by a rollback that   *)
(* was cut short; the router never runs on a torn one.                     *)
TypeOK ==
  /\ inputs \in Inputs
  /\ live \in Configs \cup {Torn}
  /\ served \in Configs \cup {None}
  /\ applied \in PartHashes \cup {None}
  /\ staged \in StagedType \cup {None}
  /\ status \in Statuses
  /\ unit \in Modes \cup {"absent"}
  /\ lock \in {"free", "unit", "console"}
  /\ pc \in Steps
  /\ job \in JobType
  /\ BudgetOK

Reflects(config) == \A p \in Owned : config[p] = inputs[p]
Complete(file) == file # Torn /\ \A p \in Parts : file[p] # NoPart

(* When the panel says that everything is applied, the router's file holds *)
(* every edit: hashing before the pipeline reads, and recording those      *)
(* hashes only after success, never loses an edit made during a run, a     *)
(* failed rollback, a crash at any step or a restart of the host included  *)
(* (multiloc_ctl.py 272-306, multiloc_apply.plan).  The plan never reads   *)
(* the file but for its countries: one the classic pipeline left half      *)
(* built is not noticed, and not claimed here.                             *)
NothingToApply ==
  ~Busy /\ Plan(inputs) = "none" /\ Complete(live) => Reflects(live)

(* The same of the router process itself: "nothing to apply: the router    *)
(* already reflects the database" (multiloc_ctl.py 292).                   *)
RouterReflects ==
  ~Busy /\ Plan(inputs) = "none" /\ Complete(live) /\ served # None
    => Reflects(served)

(* A killed run may leave the new file and the old process: RouterReflects *)
(* holds of every history without one (and of writers that take the lock), *)
(* the failed rollbacks included.                                          *)
ReflectsUnkilled == kills = 0 /\ outside = 0 => RouterReflects

(* A run that failed and could copy the previous file back left that file  *)
(* in place, and the router on it or down, never on the file that was      *)
(* refused ("2 = failed, nothing half-applied", multiloc_full.run; of the  *)
(* router this needs that no earlier run was killed before its restart).   *)
(* A run whose copy failed leaves the refused file or a torn one.          *)
FailureLeavesPrevious ==
  pc = "exit" /\ job.rc = 2 /\ job.base # None /\ outside = 0
     => IF job.lost
        THEN live \in {job.built, Torn}
        ELSE live = job.base /\ (kills = 0 => served \in {job.base, None})

(* A part the owner has edited since the last successful run.              *)
Pending(p) ==
  IF p = "countries" THEN p \in job.expected
  ELSE p \in Hashed /\ applied # None /\ inputs[p] # applied[p]

(* What a run puts in place without the owner's consent differs from the   *)
(* running file only in the countries, or only in kinds of settings that   *)
(* an edit he made since the last apply can produce, whatever the host, an *)
(* editor or an earlier run changed meanwhile (router_diff.review,         *)
(* multiloc_full 266-296).  Within such a kind a foreign change passes.    *)
ConsentForTheRest ==
  [][pc = "swap" /\ pc' = "replaced" /\ live = job.base =>
       \/ job.kind \in {"accept", "force"}
       \/ job.kind = "countries" /\ \A p \in Parts \ {"countries"} : live'[p] = live[p]
       \/ \A c \in Differing(live, live') : \E p \in ExplainedBy[c] : Pending(p)]_vars

(* With every edit a new version: no run, however late or interrupted,     *)
(* writes a part of the inputs in an older version than the router's       *)
(* file has, but for the rollback of its own replacement and the classic   *)
(* pipeline's half-built files; a writer without the lock may, and what it *)
(* writes after a run's last comparison is overwritten.                    *)
NeverBackwards ==
  [][live # Torn /\ live' # Torn =>
       \A p \in Owned : live'[p] < live[p] =>
         \/ pc \in InPlace \cup Rollback
         \/ outside' # outside
         \/ pc = "swap" /\ live # job.base]_vars

RunEnds     == (lock # "free") ~> (lock = "free" /\ Shown # "running")
EditsArrive == <>[]Complete(live) => <>[](Plan(inputs) = "none" /\ Reflects(live))

(* Whoever takes the lock gives it back, and the page stops saying         *)
(* "running" (the service's timeouts bound every wait); and an owner who   *)
(* keeps pressing Apply (and accepts when asked) ends with a router that   *)
(* holds all his edits, whatever failed, was killed or restarted, unless   *)
(* he is left with a torn or half-built file: with nothing else pending,   *)
(* Apply repairs neither.                                                  *)
ApplyGetsThrough == RunEnds /\ EditsArrive
=============================================================================
