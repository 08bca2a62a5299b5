-------------------------- MODULE MultilocInstaller --------------------------
(***************************************************************************)
(* ops-2026-10/multiloc-layer/multiloc_installer.py: `apply` puts a new    *)
(* version of some files on the host, creates tables, renders templates    *)
(* and restarts services; `rollback` undoes the runs of `apply` that are   *)
(* still on record.  Every run keeps its story in a STATE.json that is     *)
(* written before each step, so that an apply or a rollback that died      *)
(* anywhere can be undone by a later `rollback`.                           *)
(*                                                                         *)
(* A part is one service with the file it is made of: the panel with its   *)
(* code, an edge (HAProxy, xray) with the template its configuration is    *)
(* rendered from.  Contents are names: the original, the new version, or   *)
(* somebody's own edit.  STATE.json is written aside and renamed, so a     *)
(* write of it is one step, and so are the files, which are copied the     *)
(* same way; the router's configuration is copied in place.  The lock      *)
(* keeps a second installer out and nobody else: files are edited, the     *)
(* panel is updated and routing is applied at any step of a run.           *)
(***************************************************************************)
EXTENDS Integers, FiniteSets

CONSTANTS
  Panel,         \* the part whose code the panel process loads
  Edges,         \* the parts that are rendered: HAProxy, xray
  Added,         \* parts whose file the install adds (MANIFEST: base NEW)
  EditIds,       \* the edits other people make, at most one use of each
  NoCopy,        \* no backup of a file
  MaxRuns,       \* bound on the runs of apply
  MaxFaults,     \* bound on failed commands
  MaxKills,      \* bound on kills of the installer and host restarts
  MaxReboots,    \* bound on the host restarts among them
  MaxOutside,    \* bound on changes of the router configuration by others,
                 \* and on updates of the panel
  MaxTroubles,   \* bound on all of these and the edits together
  Updates,       \* whether the panel is updated
  Again          \* whether someone names a run that is rolled back already

Parts    == {Panel} \cup Edges
RunIds   == 1 .. MaxRuns
Contents == {"absent", "base", "new", "down"} \cup EditIds
Routers  == {"pre", "layer", "foreign", "torn", "missing"}

ASSUME InstallerAssumption ==
  /\ {Again, Updates} \subseteq BOOLEAN
  /\ {MaxRuns, MaxFaults, MaxKills, MaxReboots, MaxOutside, MaxTroubles} \subseteq Nat
  /\ Added \subseteq Edges /\ Panel \notin Edges
  /\ EditIds \cap {"absent", "base", "new", "down"} = {}
  /\ NoCopy \notin Contents

VARIABLES
  files,      \* the file of every part
  rendered,   \* the rendered configuration of every edge
  running,    \* what the process of every part has loaded, or "down"
  tables,     \* the tables of the feature: none, some, all
  router,     \* /etc/xray-router/config.json
  routerRuns, \* what xray-router has loaded
  runs,       \* the backup directory of each run with its STATE.json
  count,      \* how many runs there are
  pc, job,    \* the installer that holds the lock
  copies,     \* router configurations kept by rollbacks
  edited,     \* the edits that were made, with "base" after an update
  latest,     \* the latest edit of every part
  budget      \* what is left of the bounds

host  == <<files, rendered, running, tables, router, routerRuns>>
vars  == <<host, runs, count, pc, job, copies, edited, latest, budget>>

Original(p) == IF p \in Added THEN "absent" ELSE "base"

NoRun ==
  [saved |-> [p \in Parts |-> NoCopy], aside |-> [p \in Parts |-> NoCopy],
   created |-> FALSE, did |-> {}, finished |-> FALSE, undoing |-> FALSE,
   closed |-> FALSE, done |-> {}, pending |-> FALSE, snap |-> "missing"]

NoJob ==
  [run |-> 0, todo |-> {}, queue |-> {}, chosen |-> {}, first |-> 0, flags |-> {},
   retry |-> FALSE, changed |-> {}, seen |-> NoCopy, byHand |-> FALSE]

Init ==
  /\ files    = [p \in Parts |-> Original(p)]
  /\ rendered = [p \in Edges |-> Original(p)]
  /\ running  = [p \in Parts |-> Original(p)]
  /\ tables = "none" /\ router = "pre" /\ routerRuns = "pre"
  /\ runs = [r \in RunIds |-> NoRun] /\ count = 0
  /\ pc = "idle" /\ job = NoJob /\ copies = {}
  /\ edited = {} /\ latest = [p \in Parts |-> NoCopy]
  /\ budget = [faults |-> MaxFaults, kills |-> MaxKills,
               reboots |-> MaxReboots, outside |-> MaxOutside]

Troubles ==
  MaxFaults - budget.faults + MaxKills - budget.kills + MaxOutside - budget.outside
    + Cardinality(edited \cap EditIds)
OneMore      == Troubles < MaxTroubles
SpendFault   == OneMore /\ budget.faults > 0 /\ budget' = [budget EXCEPT !.faults = @ - 1]
SpendKill    == OneMore /\ budget.kills > 0 /\ budget' = [budget EXCEPT !.kills = @ - 1]
SpendOutside == OneMore /\ budget.outside > 0 /\ budget' = [budget EXCEPT !.outside = @ - 1]

-----------------------------------------------------------------------------
(* What STATE.json says of a run.                                          *)
Runs     == 1 .. count
(* Mutants: a rollback that was cut short is not seen; a run that is rolled *)
(* back counts as open.                                                     *)
Unfinished(r) == ~runs[r].closed /\ ~runs[r].finished
StillOpen(r) == runs[r].undoing \/ ~runs[r].finished

IsOpen(r) == ~runs[r].closed /\ (runs[r].undoing \/ ~runs[r].finished)
OpenRuns == {r \in Runs : IsOpen(r)}

NoProblems ==
  /\ \A p \in Parts : running[p] # "down"
  /\ router # "missing" => routerRuns # "down"
  /\ router = "missing" => runs[count].snap = "missing"

Ready ==
  /\ \A p \in Parts : /\ running[p] # "down"
                      /\ files[p] \in {Original(p), "new"}
  /\ tables # "some"
  /\ OpenRuns = {}

-----------------------------------------------------------------------------
(* apply                                                                   *)

StartApply ==
  /\ pc = "idle" /\ Ready /\ count < MaxRuns
  /\ \E p \in Parts : files[p] # "new"
  /\ count' = count + 1
  /\ runs'  = [runs EXCEPT ![count + 1] = NoRun]
  /\ pc'    = "dump"
  /\ job'   = [NoJob EXCEPT !.run = count + 1, !.todo = Parts]
  /\ UNCHANGED <<host, copies, edited, latest, budget>>

(* Every file is in place already: only the tables are looked after.       *)
InstallAgain ==
  /\ pc = "idle" /\ Ready
  /\ \A p \in Parts : files[p] = "new"
  /\ tables' = "all"
  /\ UNCHANGED <<files, rendered, running, router, routerRuns, runs, count, pc, job, copies, edited, latest, budget>>

(* The dump of the database, which may take half an hour, then a copy of   *)
(* the router's configuration, if there is one.                            *)
Backup ==
  /\ pc = "dump"
  /\ runs' = [runs EXCEPT ![job.run].snap = router]
  /\ pc' = "copy"
  /\ UNCHANGED <<host, count, job, copies, edited, latest, budget>>

(* A copy that is cut short.                                               *)
HalfACopy ==
  runs' \in {runs} \cup (IF pc = "dump" /\ router # "missing"
                        THEN {[runs EXCEPT ![job.run].snap = "torn"]} ELSE {})

SkipFile(p) ==
  /\ pc = "copy" /\ p \in job.todo /\ files[p] = "new"
  /\ job' = [job EXCEPT !.todo = @ \ {p}]
  /\ UNCHANGED <<host, runs, count, pc, copies, edited, latest, budget>>

(* Mutant: the list of files reaches the disk when all are copied. *)
IntendInMemory(p) ==
  /\ pc = "copy" /\ p \in job.todo /\ files[p] # "new"
  /\ pc'   = "replace"
  /\ job'  = [job EXCEPT !.todo = @ \ {p}, !.changed = {p}, !.seen = files[p]]
  /\ UNCHANGED <<host, runs, count, copies, edited, latest, budget>>

(* The backup and the intent are on disk before the file is touched.  What *)
(* preflight has seen there is not looked at again.                        *)
Intend(p) ==
  /\ pc = "copy" /\ p \in job.todo /\ files[p] # "new"
  /\ runs' = [runs EXCEPT ![job.run].saved[p] = files[p]]
  /\ pc'   = "replace"
  /\ job'  = [job EXCEPT !.todo = @ \ {p}, !.changed = {p}, !.seen = files[p]]
  /\ UNCHANGED <<host, count, copies, edited, latest, budget>>

Replace(p) ==
  /\ pc = "replace" /\ job.changed = {p}
  /\ files' = [files EXCEPT ![p] = "new"]
  /\ pc' = "copy"
  /\ UNCHANGED <<rendered, running, tables, router, routerRuns, runs, count, job, copies, edited, latest, budget>>

CopyDone ==
  /\ pc = "copy" /\ job.todo = {}
  /\ runs' = [runs EXCEPT ![job.run].created = (tables = "none")]
  /\ pc' = "migrate"
  /\ UNCHANGED <<host, count, job, copies, edited, latest, budget>>

(* multiloc_ctl.py init creates the tables that are missing, one by one.   *)
Migrate ==
  /\ pc = "migrate"
  /\ \/ tables = "none" /\ tables' = "some" /\ pc' = pc
     \/ tables # "none" /\ tables' = "all" /\ pc' = "restart"
  /\ UNCHANGED <<files, rendered, running, router, routerRuns, runs, count, job, copies, edited, latest, budget>>

Did(p) == [runs EXCEPT ![job.run].did = @ \cup {p}]

IntendRestart ==
  /\ pc = "restart"
  /\ IF runs[job.run].saved[Panel] # NoCopy
       THEN runs' = Did(Panel) /\ pc' = "restarting"
       ELSE UNCHANGED runs /\ pc' = "render"
  /\ UNCHANGED <<host, count, job, copies, edited, latest, budget>>

RestartPanel ==
  /\ pc = "restarting"
  /\ running' = [running EXCEPT ![Panel] = files[Panel]]
  /\ pc' = "render"
  /\ UNCHANGED <<files, rendered, tables, router, routerRuns, runs, count, job, copies, edited, latest, budget>>

IntendRender ==
  /\ pc = "render"
  /\ runs' = Did("rendered") /\ pc' = "rendering"
  /\ UNCHANGED <<host, count, job, copies, edited, latest, budget>>

Outdated == {p \in Edges : rendered[p] # files[p]}

Render ==
  /\ pc = "rendering"
  /\ rendered' = [p \in Edges |-> files[p]]
  /\ job' = [job EXCEPT !.todo = Outdated, !.changed = {}]
  /\ pc' = "reload"
  /\ UNCHANGED <<files, running, tables, router, routerRuns, runs, count, copies, edited, latest, budget>>

IntendReload(p) ==
  /\ pc = "reload" /\ p \in job.todo
  /\ runs' = Did(p) /\ pc' = "reloading"
  /\ job' = [job EXCEPT !.todo = @ \ {p}, !.changed = {p}]
  /\ UNCHANGED <<host, count, copies, edited, latest, budget>>

Reload(p) ==
  /\ pc = "reloading" /\ job.changed = {p}
  /\ running' = [running EXCEPT ![p] = rendered[p]]
  /\ pc' = "reload"
  /\ UNCHANGED <<files, rendered, tables, router, routerRuns, runs, count, job, copies, edited, latest, budget>>

FinishApply ==
  /\ pc = "reload" /\ job.todo = {} /\ NoProblems
  /\ runs' = [runs EXCEPT ![job.run].finished = TRUE]
  /\ pc' = "idle" /\ job' = NoJob
  /\ UNCHANGED <<host, count, copies, edited, latest, budget>>

(* A step of apply raises; a restart that fails leaves the service down.   *)
(* The run is undone at once.                                              *)
Applying == {"dump", "copy", "replace", "migrate", "restart", "restarting", "render",
             "rendering", "reload", "reloading"}

Down(p) == running' = [running EXCEPT ![p] = "down"]

ApplyFails ==
  /\ pc \in Applying
  /\ \/ pc = "reload" /\ job.todo = {} /\ ~NoProblems /\ UNCHANGED <<running, budget>>
     \/ pc \notin {"restarting", "reloading"} /\ SpendFault /\ UNCHANGED running
     \/ pc = "restarting" /\ SpendFault /\ Down(Panel)
     \/ pc = "reloading" /\ SpendFault /\ \E p \in job.changed : Down(p)
  /\ pc' = "undo"
  /\ job' = [NoJob EXCEPT !.queue = {job.run}, !.chosen = {job.run}, !.first = job.run]
  /\ HalfACopy
  /\ UNCHANGED <<files, rendered, tables, router, routerRuns, count, copies, edited, latest>>

-----------------------------------------------------------------------------
(* rollback: of every run that is not rolled back, or of one named run;    *)
(* newest first.  The automatic rollback of a failed apply takes the same  *)
(* way.  One that is asked for by hand may carry --force-router, which     *)
(* shows only when the router's configuration is looked at.                *)

StartRollback(chosen) ==
  /\ pc = "idle" /\ chosen # {}
  /\ pc'  = "undo"
  /\ job' = [NoJob EXCEPT !.queue = chosen, !.chosen = chosen, !.byHand = TRUE,
                          !.first = CHOOSE r \in chosen : \A q \in chosen : r <= q]
  /\ UNCHANGED <<host, runs, count, copies, edited, latest, budget>>

NotRolledBack == {r \in Runs : ~runs[r].closed}

RollbackAll == StartRollback(NotRolledBack)
RollbackOne == \E r \in (IF Again THEN Runs ELSE NotRolledBack) : StartRollback({r})

Newest == CHOOSE r \in job.queue : \A q \in job.queue : q <= r

UndoRun ==
  /\ pc = "undo" /\ job.queue # {}
  /\ runs' = [runs EXCEPT ![Newest].undoing = TRUE]
  /\ job'  = [job EXCEPT !.run = Newest, !.queue = @ \ {Newest}]
  /\ pc'   = "drop"
  /\ UNCHANGED <<host, count, copies, edited, latest, budget>>

Replaced(r) == {p \in Parts : runs[r].saved[p] # NoCopy}

DropTables ==
  /\ pc = "drop"
  /\ tables' = IF runs[job.run].created THEN "none" ELSE tables
  /\ job' = [job EXCEPT !.todo = Replaced(job.run)]
  /\ pc' = "restore"
  /\ UNCHANGED <<files, rendered, running, router, routerRuns, runs, count, copies, edited, latest, budget>>

(* Mutant: the backup is put back over whatever is there. *)
NothingAside(p) == runs

(* A file that is neither the backup nor what was installed is somebody    *)
(* else's: it is copied aside first.                                       *)
Aside(p) ==
  IF files[p] \in {"absent", "new"} THEN runs
  ELSE [runs EXCEPT ![job.run].aside[p] = files[p]]

KeepDiverged(p) ==
  /\ pc = "restore" /\ p \in job.todo /\ files[p] # runs[job.run].saved[p]
  /\ runs' = Aside(p)
  /\ job'  = [job EXCEPT !.todo = @ \ {p}, !.changed = {p}, !.seen = files[p]]
  /\ pc'   = "restoring"
  /\ UNCHANGED <<host, count, copies, edited, latest, budget>>

RestoreFile(p) ==
  /\ pc = "restoring" /\ job.changed = {p}
  /\ files' = [files EXCEPT ![p] = runs[job.run].saved[p]]
  /\ pc' = "restore"
  /\ UNCHANGED <<rendered, running, tables, router, routerRuns, runs, count, job, copies, edited, latest, budget>>

AlreadyBack(p) ==
  /\ pc = "restore" /\ p \in job.todo /\ files[p] = runs[job.run].saved[p]
  /\ job' = [job EXCEPT !.todo = @ \ {p}]
  /\ UNCHANGED <<host, runs, count, pc, copies, edited, latest, budget>>

RunRestored ==
  /\ pc = "restore" /\ job.todo = {}
  /\ job' = [job EXCEPT !.flags = @ \cup runs[job.run].did]
  /\ pc' = IF job.queue = {} THEN "panel" ELSE "undo"
  /\ UNCHANGED <<host, runs, count, copies, edited, latest, budget>>

(* The services: what the oldest chosen run has noted as done is not       *)
(* repeated.                                                               *)
Done(what) == what \in runs[job.first].done
NoteDone(what) == [runs EXCEPT ![job.first].done = @ \cup {what}]

SkipPanel ==
  /\ pc = "panel" /\ (Panel \notin job.flags \/ Done("panel"))
  /\ pc' = "rerender"
  /\ UNCHANGED <<host, runs, count, job, copies, edited, latest, budget>>

PanelBack ==
  /\ pc = "panel" /\ Panel \in job.flags /\ ~Done("panel")
  /\ running' = [running EXCEPT ![Panel] = files[Panel]]
  /\ pc' = "panel_up"
  /\ UNCHANGED <<files, rendered, tables, router, routerRuns, runs, count, job, copies, edited, latest, budget>>

NotePanel ==
  /\ pc = "panel_up"
  /\ runs' = NoteDone("panel") /\ pc' = "rerender"
  /\ UNCHANGED <<host, count, job, copies, edited, latest, budget>>

SkipRerender ==
  /\ pc = "rerender" /\ ("rendered" \notin job.flags \/ Done("render"))
  /\ pc' = "router"
  /\ UNCHANGED <<host, runs, count, job, copies, edited, latest, budget>>

StartRerender ==
  /\ pc = "rerender" /\ "rendered" \in job.flags /\ ~Done("render")
  /\ runs' = NoteDone("started") /\ pc' = "rerendering"
  /\ job' = [job EXCEPT !.retry = Done("started")]
  /\ UNCHANGED <<host, count, copies, edited, latest, budget>>

(* After an attempt that was cut short every edge is taken as changed.     *)
ToReload == IF job.retry THEN Edges ELSE Outdated

Rerender ==
  /\ pc = "rerendering"
  /\ rendered' = [p \in Edges |-> files[p]]
  /\ job' = [job EXCEPT !.changed = ToReload \cap job.flags]
  /\ pc' = "edges"
  /\ UNCHANGED <<files, running, tables, router, routerRuns, runs, count, copies, edited, latest, budget>>

EdgeBack(p) ==
  /\ pc = "edges" /\ p \in job.changed
  /\ running' = [running EXCEPT ![p] = rendered[p]]
  /\ job' = [job EXCEPT !.changed = @ \ {p}]
  /\ UNCHANGED <<files, rendered, tables, router, routerRuns, runs, count, pc, copies, edited, latest, budget>>

NoteEdges ==
  /\ pc = "edges" /\ job.changed = {}
  /\ runs' = NoteDone("render") /\ pc' = "router"
  /\ UNCHANGED <<host, count, job, copies, edited, latest, budget>>

-----------------------------------------------------------------------------
(* The router's configuration is put back when it differs from the copy of *)
(* the oldest chosen run by the feature's own entrances alone.             *)
Snap == runs[job.first].snap
OnlyTheLayer == {router, Snap} \subseteq {"pre", "layer"} \/ router = Snap

SkipRouter ==
  /\ pc = "router"
  /\ \/ Snap = "missing" /\ UNCHANGED copies
     \/ router = Snap /\ Snap # "torn" /\ ~runs[job.first].pending /\ UNCHANGED copies
     \/ /\ Snap \notin {"missing", "torn"} /\ router \notin {"missing", "torn", Snap} /\ ~OnlyTheLayer
        /\ copies' = copies \cup {router}
  /\ pc' = "check"
  /\ UNCHANGED <<host, runs, count, job, edited, latest, budget>>

ResumeRouter ==
  /\ pc = "router" /\ router = Snap /\ Snap # "torn" /\ runs[job.first].pending
  /\ pc' = "restart_router"
  /\ UNCHANGED <<host, runs, count, job, copies, edited, latest, budget>>

(* Mutant: a configuration that is gone is copied all the same. *)
KeepAnyRouter ==
  /\ pc = "router" /\ Snap \notin {"missing", "torn"} /\ router # Snap
  /\ router \in {"missing", "torn"} \/ OnlyTheLayer \/ job.byHand
  /\ copies' = copies \cup {router}
  /\ runs'   = [runs EXCEPT ![job.first].pending = TRUE]
  /\ pc' = "put_back"
  /\ UNCHANGED <<host, count, job, edited, latest, budget>>

KeepRouter ==
  /\ pc = "router" /\ Snap \notin {"missing", "torn"} /\ router # Snap
  /\ router \in {"missing", "torn"} \/ OnlyTheLayer \/ job.byHand
  /\ copies' = copies \cup ({router} \ {"missing"})
  /\ runs'   = [runs EXCEPT ![job.first].pending = TRUE]
  /\ pc' = "put_back"
  /\ UNCHANGED <<host, count, job, edited, latest, budget>>

PutRouterBack ==
  /\ pc = "put_back"
  /\ router' = Snap /\ pc' = "restart_router"
  /\ UNCHANGED <<files, rendered, running, tables, routerRuns, runs, count, job, copies, edited, latest, budget>>

RestartRouter ==
  /\ pc = "restart_router" /\ router \notin {"torn", "missing"}
  /\ routerRuns' = router
  /\ pc' = "router_up"
  /\ UNCHANGED <<files, rendered, running, tables, router, runs, count, job, copies, edited, latest, budget>>

NoteRouter ==
  /\ pc = "router_up"
  /\ runs' = [runs EXCEPT ![job.first].pending = FALSE] /\ pc' = "check"
  /\ UNCHANGED <<host, count, job, copies, edited, latest, budget>>

Verified ==
  /\ pc = "check"
  /\ IF NoProblems THEN pc' = "close" /\ UNCHANGED job
                   ELSE pc' = "idle" /\ job' = NoJob
  /\ UNCHANGED <<host, runs, count, copies, edited, latest, budget>>

CloseRun ==
  /\ pc = "close"
  /\ LET r == CHOOSE r \in job.chosen : \A q \in job.chosen : q <= r IN
       /\ runs' = [runs EXCEPT ![r].closed = TRUE]
       /\ IF job.chosen = {r} THEN pc' = "idle" /\ job' = NoJob
          ELSE pc' = pc /\ job' = [job EXCEPT !.chosen = @ \ {r}]
  /\ UNCHANGED <<host, count, copies, edited, latest, budget>>

(* A command of the rollback fails: the dump before the tables are dropped,*)
(* a restart, rendering, the copy of the router configuration.  The runs   *)
(* stay open.                                                              *)
RollbackFails ==
  /\ \/ SpendFault
     \/ pc = "router" /\ Snap = "torn" /\ UNCHANGED budget
     \/ pc = "restart_router" /\ router \in {"torn", "missing"} /\ UNCHANGED budget
  /\ \/ pc = "router" /\ Snap = "torn" /\ UNCHANGED <<running, routerRuns>>
     \/ pc = "panel" /\ Panel \in job.flags /\ ~Done("panel") /\ Down(Panel) /\ UNCHANGED routerRuns
     \/ pc = "edges" /\ (\E p \in job.changed : Down(p)) /\ UNCHANGED routerRuns
     \/ pc = "restart_router" /\ routerRuns' = "down" /\ UNCHANGED running
     \/ pc \in {"drop", "restore", "restoring", "rerendering", "put_back"} /\ UNCHANGED <<running, routerRuns>>
  /\ pc' = "idle" /\ job' = NoJob
  /\ UNCHANGED <<files, rendered, tables, router, runs, count, copies, edited, latest>>

-----------------------------------------------------------------------------
(* kill -9 of the installer; a router configuration, or its backup, is not *)
(* copied atomically.                                                      *)
Kill ==
  /\ pc # "idle" /\ SpendKill
  /\ pc' = "idle" /\ job' = NoJob
  /\ router' \in (IF pc = "put_back" THEN {router, "torn"} ELSE {router})
  /\ HalfACopy
  /\ UNCHANGED <<files, rendered, running, tables, routerRuns, count, copies, edited, latest>>

(* The host restarts: every service comes up with what is on the disk.     *)
Reboot ==
  /\ OneMore /\ budget.kills > 0 /\ budget.reboots > 0
  /\ budget' = [budget EXCEPT !.kills = @ - 1, !.reboots = @ - 1]
  /\ pc' = "idle" /\ job' = NoJob
  /\ running' = [p \in Parts |-> IF p = Panel THEN files[p] ELSE rendered[p]]
  /\ router' \in (IF pc = "put_back" THEN {router, "torn"} ELSE {router})
  /\ routerRuns' = IF router' \in {"torn", "missing"} THEN "down" ELSE router'
  /\ HalfACopy
  /\ UNCHANGED <<files, rendered, tables, count, copies, edited, latest>>

(* Someone removes the cause of a failed start.                            *)
Repair ==
  /\ pc = "idle"
  /\ \/ \E p \in Parts : /\ running[p] = "down"
                         /\ running' = [running EXCEPT ![p] = IF p = Panel THEN files[p] ELSE rendered[p]]
                         /\ UNCHANGED routerRuns
     \/ /\ routerRuns = "down" /\ router \notin {"torn", "missing"}
        /\ routerRuns' = router /\ UNCHANGED running
  /\ UNCHANGED <<files, rendered, tables, router, runs, count, pc, job, copies, edited, latest, budget>>

(* Other people, at any step of a run: an edited file, an update of the    *)
(* panel that brings its own files back ...                                *)
EditFile(p, e) ==
  /\ OneMore /\ e \notin edited /\ files[p] # "absent"
  /\ files' = [files EXCEPT ![p] = e]
  /\ edited' = edited \cup {e} /\ latest' = [latest EXCEPT ![p] = e]
  /\ UNCHANGED <<rendered, running, tables, router, routerRuns, runs, count, pc, job, copies, budget>>

UpdatePanel(p) ==
  /\ Updates /\ p \notin Added /\ files[p] # "base" /\ SpendOutside
  /\ files' = [files EXCEPT ![p] = "base"]
  /\ edited' = edited \cup {"base"} /\ latest' = [latest EXCEPT ![p] = NoCopy]
  /\ UNCHANGED <<rendered, running, tables, router, routerRuns, runs, count, pc, job, copies>>

(* ... a routing apply, or a router configuration that is lost.  An apply  *)
(* takes minutes, and the layer it has put into its configuration is in    *)
(* that when the tables and the panel's code are long gone.                *)
RoutesApplied(v) ==
  /\ router # v /\ SpendOutside
  /\ v = "layer" => count > 0 /\ router = "pre"
  /\ router' = v /\ routerRuns' = IF v = "missing" THEN routerRuns ELSE v
  /\ UNCHANGED <<files, rendered, running, tables, runs, count, pc, job, copies, edited, latest>>

Step ==
  \/ Backup \/ CopyDone \/ Migrate \/ IntendRestart \/ RestartPanel \/ IntendRender \/ Render
  \/ FinishApply
  \/ \E p \in Parts : SkipFile(p) \/ Intend(p) \/ Replace(p)
  \/ \E p \in Parts : KeepDiverged(p) \/ RestoreFile(p) \/ AlreadyBack(p)
  \/ \E p \in Edges : IntendReload(p) \/ Reload(p) \/ EdgeBack(p)
  \/ UndoRun \/ DropTables \/ RunRestored \/ SkipPanel \/ PanelBack \/ NotePanel
  \/ SkipRerender \/ StartRerender \/ Rerender \/ NoteEdges
  \/ SkipRouter \/ ResumeRouter \/ KeepRouter \/ PutRouterBack \/ RestartRouter \/ NoteRouter
  \/ Verified \/ CloseRun

Next ==
  \/ Step
  \/ StartApply \/ InstallAgain \/ ApplyFails \/ RollbackAll \/ RollbackOne \/ RollbackFails
  \/ Kill \/ Reboot \/ Repair
  \/ \E p \in Parts, e \in EditIds : EditFile(p, e)
  \/ \E p \in Parts : UpdatePanel(p)
  \/ \E v \in {"layer", "foreign", "missing"} : RoutesApplied(v)

Spec == Init /\ [][Next]_vars

-----------------------------------------------------------------------------
Pcs == Applying \cup {"idle", "undo", "drop", "restore", "restoring", "panel", "panel_up", "rerender",
         "rerendering", "edges", "router", "put_back", "restart_router", "router_up",
         "check", "close"}
Steps == Parts \cup {"rendered"}
Copies == Contents \cup {NoCopy}
StateJson ==
  [saved : [Parts -> Copies], aside : [Parts -> Copies], created : BOOLEAN,
   did : SUBSET Steps, finished : BOOLEAN, undoing : BOOLEAN, closed : BOOLEAN,
   done : SUBSET {"panel", "started", "render"}, pending : BOOLEAN, snap : Routers]
Budgets ==
  [faults : 0 .. MaxFaults, kills : 0 .. MaxKills, reboots : 0 .. MaxReboots, outside : 0 .. MaxOutside]
Jobs ==
  [run : 0 .. MaxRuns, todo : SUBSET Parts, queue : SUBSET RunIds, chosen : SUBSET RunIds,
   first : 0 .. MaxRuns, flags : SUBSET Steps, retry : BOOLEAN, changed : SUBSET Parts,
   seen : Copies, byHand : BOOLEAN]

(* The types of the host's state, of STATE.json and of the installer.      *)
TypeOK ==
  /\ files \in [Parts -> Contents] /\ rendered \in [Edges -> Contents] /\ running \in [Parts -> Contents]
  /\ tables \in {"none", "some", "all"} /\ router \in Routers /\ routerRuns \in Routers \cup {"down"}
  /\ runs \in [RunIds -> StateJson] /\ count \in 0 .. MaxRuns /\ pc \in Pcs /\ job \in Jobs
  /\ copies \subseteq Routers \ {"missing"}
  /\ edited \subseteq EditIds \cup {"base"} /\ latest \in [Parts -> EditIds \cup {NoCopy}]
  /\ budget \in Budgets

(* Wherever an apply or a rollback stops, what is on the host is the       *)
(* original, somebody's edit, or the work of a run that a later rollback   *)
(* will undo and that says so in its STATE.json: the flags of cmd_apply    *)
(* are written ahead, and a run is closed only after its work is undone.   *)
Theirs(p) == {Original(p), "down"} \cup EditIds

(* ... for the files: a new file is one that some run has a backup of.     *)
FilesOnRecord ==
  \A p \in Parts : files[p] = "new" => \E r \in NotRolledBack : runs[r].saved[p] # NoCopy

(* ... for the tables: db_created of some run will drop them.              *)
TablesOnRecord ==
  tables # "none" => \E r \in NotRolledBack : runs[r].created

(* ... for the rendered configurations of HAProxy and xray.                *)
RenderedOnRecord ==
  \A p \in Edges : rendered[p] \in Theirs(p) \/ \E r \in NotRolledBack : "rendered" \in runs[r].did

(* ... for what the processes have loaded: a panel, HAProxy or xray that   *)
(* works with the new version will be restarted by a rollback.  A restart  *)
(* of the host loads the new version behind the installer's back; and when *)
(* an update has made room for a second run beside a finished one, one     *)
(* rollback may end on the notes another has left in the other run.        *)
NoReboot == budget.reboots = MaxReboots
NoUpdate == "base" \notin edited

RunningOnRecord ==
  NoReboot /\ NoUpdate => \A p \in Parts : running[p] \in Theirs(p) \/ \E r \in NotRolledBack : p \in runs[r].did

(* Nothing that apply has put on the host is there without a run whose     *)
(* record accounts for it, whoever edits, updates or applies in between.   *)
(* Of the router's configuration this is not claimed: a routing apply that *)
(* was under way may bring the layer back when the last run is closed.     *)
WorkIsOnRecord ==
  FilesOnRecord /\ TablesOnRecord /\ RenderedOnRecord /\ RunningOnRecord

(* The latest edit of a file is where it was made, in a run's backups (an  *)
(* edit that apply has installed over), or in the directory keep_diverged  *)
(* copies it to.                                                           *)
Kept(p) ==
  latest[p] # NoCopy =>
    files[p] = latest[p] \/ \E r \in Runs : latest[p] \in {runs[r].saved[p], runs[r].aside[p]}

(* The moment in which a step has copied a file and not yet replaced it.   *)
Overtaken(p) == pc \in {"replace", "restoring"} /\ job.changed = {p} /\ files[p] # job.seen

(* keep_diverged has one place for a file of a run: when a rollback of     *)
(* another run has put something older back, that takes the edit's place.  *)
CopiedOver(p) ==
  /\ pc = "restore" /\ files[p] \notin {"absent", "new", latest[p]}
  /\ runs[job.run].aside[p] = latest[p]

(* The header of the installer: "rollback never throws away something it   *)
(* did not install".  However often a file is edited, at whatever step of  *)
(* an apply or a rollback, installed over and put back: an edit is lost    *)
(* only when it is made in the moment between the copy of the file and its *)
(* replacement, or when its copy is copied over by an older content.       *)
NothingThrownAway ==
  [][\A p \in Parts : Kept(p) => Kept(p)' \/ Overtaken(p) \/ CopiedOver(p)]_vars

(* When no run is open, nobody has edited or updated a file and no host    *)
(* restart came in between, the host is wholly on the new version or       *)
(* wholly on the old one, files, tables, rendered configurations and       *)
(* processes together.                                                     *)
Whole(v) ==
  /\ \A p \in Parts : files[p] = v[p] /\ running[p] \in {v[p], "down"}
  /\ \A p \in Edges : rendered[p] = v[p]

SettledIsWhole ==
  pc = "idle" /\ OpenRuns = {} /\ edited = {} /\ NoReboot =>
    \/ Whole([p \in Parts |-> "new"]) /\ tables = "all"
    \/ Whole([p \in Parts |-> Original(p)]) /\ tables = "none"

(* crash_point: "like `kill -9` or a power loss ... an interrupted apply   *)
(* is still rolled back completely".  When every run is rolled back, no    *)
(* process works with the new version any more.                            *)
UndoneIsUndone ==
  pc = "idle" /\ NotRolledBack = {} => \A p \in Parts : running[p] # "new"

(* An open run does not stay open: when a failed start is repaired between *)
(* two tries and `rollback` is run as long as the installer asks for it,   *)
(* it ends, unless the backup of the router configuration is damaged.      *)
Complete == OpenRuns # {} /\ RollbackAll
GoOn == Step \/ ((ApplyFails \/ RollbackFails) /\ UNCHANGED budget)
Live == Spec /\ WF_vars(GoOn) /\ SF_vars(Complete) /\ SF_vars(Repair)

OpenRunsEnd == OpenRuns # {} ~> OpenRuns = {} \/ \E r \in Runs : runs[r].snap = "torn"
=============================================================================
