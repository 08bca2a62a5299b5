----------------------- MODULE MultilocInstallerProofs -----------------------
(***************************************************************************)
(* Proofs about MultilocInstaller, for any edges, edits and bounds.  In    *)
(* the first part, whoever names which run and whatever others do: the     *)
(* types, and which steps may lose somebody's edit.  In the second, when   *)
(* nobody updates the panel and nobody names a run that is rolled back     *)
(* already.  Then at most one run, the last, is not rolled back, and its   *)
(* STATE.json is ahead of the host: the invariant says so for files,       *)
(* tables, rendered configurations and processes, at every step of an      *)
(* apply and of a rollback.                                                *)
(***************************************************************************)
EXTENDS MultilocInstaller, WellFoundedInduction, TLAPS

-----------------------------------------------------------------------------
(* Where an installer is in its work.                                      *)
Tabled   == {"restart", "restarting", "render", "rendering", "reload", "reloading"}
Rendered == {"router", "put_back", "restart_router", "router_up", "check", "close"}
Served   == {"panel_up", "rerender", "rerendering", "edges"} \cup Rendered
Late     == {"panel"} \cup Served

(* Facts that the steps below share.                                       *)

LEMMA PartsType == Panel \in Parts /\ Edges \subseteq Parts /\ Panel \notin Edges
  BY InstallerAssumption DEF Parts

LEMMA HostType ==
  ASSUME TypeOK
  PROVE  /\ files \in [Parts -> Contents] /\ rendered \in [Edges -> Contents]
         /\ running \in [Parts -> Contents] /\ runs \in [RunIds -> StateJson]
         /\ job \in Jobs
  BY DEF TypeOK

LEMMA NoJobType == NoJob \in Jobs /\ MaxRuns \in Nat
<1>1. MaxRuns \in Nat
  BY InstallerAssumption
<1>. QED  BY <1>1 DEF NoJob, Jobs, Copies

LEMMA NoRunType == NoRun \in StateJson
<1>1. NoCopy \in Copies /\ "missing" \in Routers
  BY DEF Copies, Routers
<1>. QED  BY <1>1, Zenon DEF NoRun, StateJson

LEMMA LeastNatural ==
  ASSUME NEW S, S \subseteq Nat, S # {}
  PROVE  \E x \in S : \A y \in S : x <= y
<1>1. IsWellFoundedOn(OpToRel(<, Nat), Nat)
  BY NatLessThanWellFounded, Zenon
<1>2. PICK x \in S : \A y \in S : ~(<<y, x>> \in OpToRel(<, Nat))
  BY <1>1, WFMin, Zenon
<1>3. ASSUME NEW y \in S, y < x PROVE FALSE
  <2>1. <<y, x>> \in OpToRel(<, Nat)
    BY <1>3 DEF OpToRel
  <2>. QED  BY <2>1, <1>2
<1>. QED  BY <1>3

(* A set of runs has a first and a last one.                               *)
LEMMA FirstAndLast ==
  ASSUME NEW n \in Nat, NEW S, S \subseteq 1 .. n, S # {}
  PROVE  /\ \E x \in S : \A y \in S : x <= y
         /\ \E x \in S : \A y \in S : y <= x
<1>0. S \subseteq Nat
  OBVIOUS
<1>1. \E x \in S : \A y \in S : x <= y
  BY <1>0, LeastNatural
<1>. DEFINE D == {d \in Nat : n - d \in S}
<1>2. \A y \in S : n - y \in D
  OBVIOUS
<1>3. PICK d \in D : \A e \in D : d <= e
  BY <1>2, LeastNatural
<1>4. n - d \in S /\ \A y \in S : y <= n - d
  BY <1>2, <1>3
<1>. QED  BY <1>1, <1>4

(* Whom an installer works for.                                            *)
Undoing == {"drop", "restore", "restoring"}

JobInv ==
  /\ pc \in Applying => job.run \in Runs
  /\ pc \in {"undo"} \cup Undoing \cup Late =>
       job.chosen \subseteq Runs /\ job.chosen # {} /\ job.first \in Runs
  /\ job.queue \subseteq job.chosen
  /\ pc = "undo" => job.queue # {}
  /\ pc \in Undoing => job.run \in Runs
  /\ pc \in Late => job.queue = {}

(* A file is saved once in a run, as the installer has seen it, and only   *)
(* then replaced; what a rollback has seen is copied aside, when it is not *)
(* the installer's own, before the backup goes over it.                    *)
Copying == {"dump", "copy", "replace", "restore", "restoring"}

KeepInv ==
  /\ pc = "dump" => job.todo = Parts
  /\ pc \in {"dump", "copy", "replace"} => \A p \in job.todo : runs[job.run].saved[p] = NoCopy
  /\ pc = "replace" => \A p \in Parts : job.changed = {p} =>
       p \notin job.todo /\ runs[job.run].saved[p] = job.seen
  /\ pc \in {"restore", "restoring"} => \A p \in job.todo : runs[job.run].saved[p] # NoCopy
  /\ pc = "restoring" => \A p \in Parts : job.changed = {p} =>
       /\ runs[job.run].saved[p] # NoCopy
       /\ job.seen \in {"absent", "new"} \/ runs[job.run].aside[p] = job.seen

SafeInv == TypeOK /\ JobInv /\ KeepInv

(* The action of the theorem below.                                        *)
NothingLost == \A p \in Parts : Kept(p) => Kept(p)' \/ Overtaken(p) \/ CopiedOver(p)

LEMMA SafeFacts ==
  ASSUME SafeInv
  PROVE  /\ TypeOK /\ JobInv /\ KeepInv
         /\ files \in [Parts -> Contents] /\ rendered \in [Edges -> Contents]
         /\ running \in [Parts -> Contents] /\ runs \in [RunIds -> StateJson] /\ job \in Jobs
         /\ latest \in [Parts -> EditIds \cup {NoCopy}]
         /\ Panel \in Parts /\ Edges \subseteq Parts /\ Panel \notin Edges
         /\ NoJob \in Jobs /\ MaxRuns \in Nat /\ count \in Nat /\ count <= MaxRuns
         /\ Runs \subseteq RunIds
<1>1. MaxRuns \in Nat /\ count \in 0 .. MaxRuns
  BY InstallerAssumption DEF SafeInv, TypeOK
<1>2. Runs \subseteq RunIds
  BY <1>1 DEF Runs, RunIds
<1>. QED  BY <1>1, <1>2, HostType, PartsType, NoJobType DEF SafeInv, TypeOK

(* A step that writes nothing into a run's backups.                        *)
SameBackups == \A r \in RunIds : runs'[r].saved = runs[r].saved /\ runs'[r].aside = runs[r].aside

(* A note in a STATE.json leaves the backups alone.                        *)
LEMMA Noted ==
  ASSUME runs \in [RunIds -> StateJson], NEW r \in RunIds, NEW rec \in StateJson,
         rec.saved = runs[r].saved, rec.aside = runs[r].aside,
         runs' = [runs EXCEPT ![r] = rec]
  PROVE  runs' \in [RunIds -> StateJson] /\ SameBackups
  BY DEF SameBackups

LEMMA NotedDid ==
  ASSUME runs \in [RunIds -> StateJson], NEW r \in RunIds, NEW x \in Steps,
         runs' = [runs EXCEPT ![r].did = @ \cup {x}]
  PROVE  runs' \in [RunIds -> StateJson] /\ SameBackups
<1>1. runs[r] \in StateJson
  OBVIOUS
<1>0. runs[r].did \cup {x} \in SUBSET Steps
  BY <1>1 DEF StateJson
<1>2. [runs[r] EXCEPT !.did = runs[r].did \cup {x}] \in StateJson
  BY <1>0, <1>1, Zenon DEF StateJson
<1>3. /\ [runs[r] EXCEPT !.did = runs[r].did \cup {x}].saved = runs[r].saved
      /\ [runs[r] EXCEPT !.did = runs[r].did \cup {x}].aside = runs[r].aside
  BY <1>1, Zenon DEF StateJson
<1>4. runs' = [runs EXCEPT ![r] = [runs[r] EXCEPT !.did = runs[r].did \cup {x}]]
  OBVIOUS
<1>. QED  BY <1>2, <1>3, <1>4, Noted

LEMMA NotedDone ==
  ASSUME runs \in [RunIds -> StateJson], NEW r \in RunIds, NEW x \in {"panel", "started", "render"},
         runs' = [runs EXCEPT ![r].done = @ \cup {x}]
  PROVE  runs' \in [RunIds -> StateJson] /\ SameBackups
<1>1. runs[r] \in StateJson
  OBVIOUS
<1>0. runs[r].done \cup {x} \in SUBSET {"panel", "started", "render"}
  BY <1>1 DEF StateJson
<1>2. [runs[r] EXCEPT !.done = runs[r].done \cup {x}] \in StateJson
  BY <1>0, <1>1, Zenon DEF StateJson
<1>3. /\ [runs[r] EXCEPT !.done = runs[r].done \cup {x}].saved = runs[r].saved
      /\ [runs[r] EXCEPT !.done = runs[r].done \cup {x}].aside = runs[r].aside
  BY <1>1, Zenon DEF StateJson
<1>4. runs' = [runs EXCEPT ![r] = [runs[r] EXCEPT !.done = runs[r].done \cup {x}]]
  OBVIOUS
<1>. QED  BY <1>2, <1>3, <1>4, Noted

LEMMA NotedFlag ==
  ASSUME runs \in [RunIds -> StateJson], NEW r \in RunIds, NEW b \in BOOLEAN,
         \/ runs' = [runs EXCEPT ![r].created = b]
         \/ runs' = [runs EXCEPT ![r].finished = b]
         \/ runs' = [runs EXCEPT ![r].undoing = b]
         \/ runs' = [runs EXCEPT ![r].closed = b]
         \/ runs' = [runs EXCEPT ![r].pending = b]
  PROVE  runs' \in [RunIds -> StateJson] /\ SameBackups
<1>1. runs[r] \in StateJson
  OBVIOUS
<1>2. PICK rec \in { [runs[r] EXCEPT !.created = b], [runs[r] EXCEPT !.finished = b],
                     [runs[r] EXCEPT !.undoing = b], [runs[r] EXCEPT !.closed = b],
                     [runs[r] EXCEPT !.pending = b] } :
         runs' = [runs EXCEPT ![r] = rec]
  OBVIOUS
<1>3. rec \in StateJson /\ rec.saved = runs[r].saved /\ rec.aside = runs[r].aside
  <2>1. CASE rec = [runs[r] EXCEPT !.created = b]
    BY <2>1, <1>1, Zenon DEF StateJson
  <2>2. CASE rec = [runs[r] EXCEPT !.finished = b]
    BY <2>2, <1>1, Zenon DEF StateJson
  <2>3. CASE rec = [runs[r] EXCEPT !.undoing = b]
    BY <2>3, <1>1, Zenon DEF StateJson
  <2>4. CASE rec = [runs[r] EXCEPT !.closed = b]
    BY <2>4, <1>1, Zenon DEF StateJson
  <2>5. CASE rec = [runs[r] EXCEPT !.pending = b]
    BY <2>5, <1>1, Zenon DEF StateJson
  <2>. QED  BY <2>1, <2>2, <2>3, <2>4, <2>5
<1>. QED  BY <1>2, <1>3, Noted

LEMMA NotedSnap ==
  ASSUME runs \in [RunIds -> StateJson], NEW r \in RunIds, NEW s \in Routers,
         runs' = [runs EXCEPT ![r].snap = s]
  PROVE  runs' \in [RunIds -> StateJson] /\ SameBackups
<1>1. runs[r] \in StateJson
  OBVIOUS
<1>2. [runs[r] EXCEPT !.snap = s] \in StateJson
  BY <1>1, Zenon DEF StateJson
<1>3. /\ [runs[r] EXCEPT !.snap = s].saved = runs[r].saved
      /\ [runs[r] EXCEPT !.snap = s].aside = runs[r].aside
  BY <1>1, Zenon DEF StateJson
<1>4. runs' = [runs EXCEPT ![r] = [runs[r] EXCEPT !.snap = s]]
  OBVIOUS
<1>. QED  BY <1>2, <1>3, <1>4, Noted

LEMMA NotedHalf ==
  ASSUME runs \in [RunIds -> StateJson], pc = "dump" => job.run \in RunIds, HalfACopy
  PROVE  runs' \in [RunIds -> StateJson] /\ SameBackups
<1>1. CASE runs' = runs
  BY <1>1 DEF SameBackups
<1>2. CASE pc = "dump" /\ runs' = [runs EXCEPT ![job.run].snap = "torn"]
  BY <1>2, NotedSnap DEF Routers
<1>. QED  BY <1>1, <1>2 DEF HalfACopy

(* A step that leaves files and backups alone loses nothing.               *)
LEMMA KeepFrame ==
  ASSUME SafeInv, UNCHANGED <<files, latest, count>>, SameBackups,
         UNCHANGED <<pc, job>> \/ pc' \notin Copying
  PROVE  KeepInv' /\ NothingLost
<1>1. NothingLost
  BY SafeFacts DEF NothingLost, Kept, SameBackups, Runs
<1>2. CASE pc' \notin Copying
  BY <1>1, <1>2 DEF KeepInv, Copying
<1>3. CASE UNCHANGED <<pc, job>>
  <2>1. pc \in Copying => job.run \in RunIds
    BY SafeFacts DEF JobInv, Copying, Applying, Undoing
  <2>. QED  BY <1>1, <1>3, <2>1, SafeFacts DEF KeepInv, SameBackups, Copying
<1>. QED  BY <1>2, <1>3

(* The tables are looked after.                                            *)
LEMMA InstallAgainSafe ==
  ASSUME SafeInv, InstallAgain
  PROVE  SafeInv' /\ NothingLost
<1>r. SameBackups
  BY DEF InstallAgain, SameBackups
<1>1. TypeOK'
  BY SafeFacts, InstallerAssumption, SMTT(15)
     DEF InstallAgain, host, TypeOK, Budgets, Jobs, Steps, Pcs, Routers, Applying, Contents
<1>2. JobInv'
  BY SafeFacts, SMTT(15) DEF InstallAgain, host, JobInv, Undoing, Runs, Applying, Late, Served, Rendered
<1>3. KeepInv' /\ NothingLost
  BY <1>r, KeepFrame DEF InstallAgain, host, Copying
<1>. QED  BY <1>1, <1>2, <1>3 DEF SafeInv

(* The list is complete.                                                   *)
LEMMA CopyDoneSafe ==
  ASSUME SafeInv, CopyDone
  PROVE  SafeInv' /\ NothingLost
<1>a. job.run \in RunIds
  BY SafeFacts DEF CopyDone, JobInv, Undoing, Applying, Late, Served, Rendered
<1>r. runs' \in [RunIds -> StateJson] /\ SameBackups
  BY <1>a, SafeFacts, NotedFlag DEF CopyDone
<1>1. TypeOK'
  BY SafeFacts, <1>r, InstallerAssumption, SMTT(15)
     DEF CopyDone, host, TypeOK, Budgets, Jobs, Steps, Pcs, Routers, Applying, Contents
<1>2. JobInv'
  BY SafeFacts, SMTT(15) DEF CopyDone, host, JobInv, Undoing, Runs, Applying, Late, Served, Rendered
<1>3. KeepInv' /\ NothingLost
  BY <1>r, KeepFrame DEF CopyDone, host, Copying
<1>. QED  BY <1>1, <1>2, <1>3 DEF SafeInv

(* A table is created.                                                     *)
LEMMA MigrateSafe ==
  ASSUME SafeInv, Migrate
  PROVE  SafeInv' /\ NothingLost
<1>r. SameBackups
  BY DEF Migrate, SameBackups
<1>1. TypeOK'
  BY SafeFacts, InstallerAssumption, SMTT(15)
     DEF Migrate, host, TypeOK, Budgets, Jobs, Steps, Pcs, Routers, Applying, Contents
<1>2. JobInv'
  BY SafeFacts, SMTT(15) DEF Migrate, host, JobInv, Undoing, Runs, Applying, Late, Served, Rendered
<1>3. KeepInv' /\ NothingLost
  BY <1>r, KeepFrame DEF Migrate, host, Copying
<1>. QED  BY <1>1, <1>2, <1>3 DEF SafeInv

(* The panel loads its file.                                               *)
LEMMA RestartPanelSafe ==
  ASSUME SafeInv, RestartPanel
  PROVE  SafeInv' /\ NothingLost
<1>r. SameBackups
  BY DEF RestartPanel, SameBackups
<1>1. TypeOK'
  BY SafeFacts, InstallerAssumption, SMTT(15)
     DEF RestartPanel, host, TypeOK, Budgets, Jobs, Steps, Pcs, Routers, Applying, Contents
<1>2. JobInv'
  BY SafeFacts, SMTT(15) DEF RestartPanel, host, JobInv, Undoing, Runs, Applying, Late, Served, Rendered
<1>3. KeepInv' /\ NothingLost
  BY <1>r, KeepFrame DEF RestartPanel, host, Copying
<1>. QED  BY <1>1, <1>2, <1>3 DEF SafeInv

(* The rendering is noted.                                                 *)
LEMMA IntendRenderSafe ==
  ASSUME SafeInv, IntendRender
  PROVE  SafeInv' /\ NothingLost
<1>a. job.run \in RunIds
  BY SafeFacts DEF IntendRender, JobInv, Undoing, Applying, Late, Served, Rendered
<1>r. runs' \in [RunIds -> StateJson] /\ SameBackups
  BY <1>a, SafeFacts, NotedDid DEF IntendRender, Did, Steps
<1>1. TypeOK'
  BY SafeFacts, <1>r, InstallerAssumption, SMTT(15)
     DEF IntendRender, host, TypeOK, Budgets, Jobs, Steps, Pcs, Routers, Applying, Contents
<1>2. JobInv'
  BY SafeFacts, SMTT(15) DEF IntendRender, host, JobInv, Undoing, Runs, Applying, Late, Served, Rendered
<1>3. KeepInv' /\ NothingLost
  BY <1>r, KeepFrame DEF IntendRender, host, Copying
<1>. QED  BY <1>1, <1>2, <1>3 DEF SafeInv

(* The edges are rendered.                                                 *)
LEMMA RenderSafe ==
  ASSUME SafeInv, Render
  PROVE  SafeInv' /\ NothingLost
<1>r. SameBackups
  BY DEF Render, SameBackups, Outdated
<1>s. /\ rendered' \in [Edges -> Contents] /\ Outdated \subseteq Parts
  BY SafeFacts DEF Render, Outdated
<1>j. job' \in Jobs
  BY <1>s, SafeFacts DEF Render, Jobs
<1>1. TypeOK'
  BY SafeFacts, <1>s, <1>j, InstallerAssumption, SMTT(15)
     DEF Render, host, TypeOK, Budgets, Steps, Pcs, Routers, Applying
<1>2. JobInv'
  BY SafeFacts, SMTT(15) DEF Render, Outdated, host, JobInv, Undoing, Runs, Applying, Late, Served,
     Rendered
<1>3. KeepInv' /\ NothingLost
  BY <1>r, KeepFrame DEF Render, host, Copying, Outdated
<1>. QED  BY <1>1, <1>2, <1>3 DEF SafeInv

(* The reload of an edge is noted.                                         *)
LEMMA IntendReloadSafe ==
  ASSUME SafeInv, NEW p \in Edges, IntendReload(p)
  PROVE  SafeInv' /\ NothingLost
<1>a. job.run \in RunIds
  BY SafeFacts DEF IntendReload, JobInv, Undoing, Applying, Late, Served, Rendered
<1>r. runs' \in [RunIds -> StateJson] /\ SameBackups
  BY <1>a, SafeFacts, NotedDid DEF IntendReload, Did, Steps, Parts
<1>j. job' \in Jobs
  BY SafeFacts DEF IntendReload, Jobs
<1>1. TypeOK'
  BY SafeFacts, <1>r, <1>j, InstallerAssumption, SMTT(15)
     DEF IntendReload, host, TypeOK, Budgets, Steps, Pcs, Routers, Applying, Contents
<1>2. JobInv'
  BY SafeFacts, SMTT(15) DEF IntendReload, host, JobInv, Undoing, Runs, Applying, Late, Served, Rendered
<1>3. KeepInv' /\ NothingLost
  BY <1>r, KeepFrame DEF IntendReload, host, Copying
<1>. QED  BY <1>1, <1>2, <1>3 DEF SafeInv

(* An edge loads what is rendered.                                         *)
LEMMA ReloadSafe ==
  ASSUME SafeInv, NEW p \in Edges, Reload(p)
  PROVE  SafeInv' /\ NothingLost
<1>r. SameBackups
  BY DEF Reload, SameBackups
<1>1. TypeOK'
  BY SafeFacts, InstallerAssumption, SMTT(15)
     DEF Reload, host, TypeOK, Budgets, Jobs, Steps, Pcs, Routers, Applying, Contents
<1>2. JobInv'
  BY SafeFacts, SMTT(15) DEF Reload, host, JobInv, Undoing, Runs, Applying, Late, Served, Rendered
<1>3. KeepInv' /\ NothingLost
  BY <1>r, KeepFrame DEF Reload, host, Copying
<1>. QED  BY <1>1, <1>2, <1>3 DEF SafeInv

(* The run is finished.                                                    *)
LEMMA FinishApplySafe ==
  ASSUME SafeInv, FinishApply
  PROVE  SafeInv' /\ NothingLost
<1>a. job.run \in RunIds
  BY SafeFacts DEF FinishApply, JobInv, Undoing, Applying, Late, Served, Rendered
<1>r. runs' \in [RunIds -> StateJson] /\ SameBackups
  BY <1>a, SafeFacts, NotedFlag DEF FinishApply
<1>i. pc' = "idle" /\ job' = NoJob /\ NoJob.queue = {} /\ NoJob.chosen = {}
  BY DEF FinishApply, NoJob
<1>1. TypeOK'
  BY SafeFacts, <1>r, InstallerAssumption, SMTT(15)
     DEF FinishApply, host, TypeOK, Budgets, Jobs, Steps, Pcs, Routers, Applying, Contents
<1>2. JobInv'
  BY SafeFacts, <1>i, SMTT(15) DEF host, JobInv, Undoing, Runs, Applying, Late, Served, Rendered
<1>3. KeepInv' /\ NothingLost
  BY <1>r, KeepFrame DEF FinishApply, host, Copying
<1>. QED  BY <1>1, <1>2, <1>3 DEF SafeInv

(* The next run, or the services.                                          *)
LEMMA RunRestoredSafe ==
  ASSUME SafeInv, RunRestored
  PROVE  SafeInv' /\ NothingLost
<1>r. SameBackups
  BY DEF RunRestored, SameBackups
<1>a. job.run \in RunIds
  BY SafeFacts DEF RunRestored, JobInv, Undoing
<1>j. job' \in Jobs
  BY <1>a, SafeFacts DEF RunRestored, Jobs, StateJson
<1>1. TypeOK'
  BY SafeFacts, <1>j, InstallerAssumption, SMTT(15)
     DEF RunRestored, host, TypeOK, Budgets, Steps, Pcs, Routers, Applying, Contents
<1>2. JobInv'
  BY SafeFacts, SMTT(15) DEF RunRestored, host, JobInv, Undoing, Runs, Applying, Late, Served, Rendered
<1>3. KeepInv' /\ NothingLost
  BY <1>r, KeepFrame DEF RunRestored, host, Copying
<1>. QED  BY <1>1, <1>2, <1>3 DEF SafeInv

(* The panel needs nothing.                                                *)
LEMMA SkipPanelSafe ==
  ASSUME SafeInv, SkipPanel
  PROVE  SafeInv' /\ NothingLost
<1>r. SameBackups
  BY DEF SkipPanel, SameBackups
<1>1. TypeOK'
  BY SafeFacts, InstallerAssumption, SMTT(15)
     DEF SkipPanel, host, TypeOK, Budgets, Jobs, Steps, Pcs, Routers, Applying, Contents
<1>2. JobInv'
  BY SafeFacts, SMTT(15) DEF SkipPanel, host, JobInv, Undoing, Runs, Applying, Late, Served, Rendered
<1>3. KeepInv' /\ NothingLost
  BY <1>r, KeepFrame DEF SkipPanel, host, Copying
<1>. QED  BY <1>1, <1>2, <1>3 DEF SafeInv

(* The panel loads what is there.                                          *)
LEMMA PanelBackSafe ==
  ASSUME SafeInv, PanelBack
  PROVE  SafeInv' /\ NothingLost
<1>r. SameBackups
  BY DEF PanelBack, SameBackups
<1>1. TypeOK'
  BY SafeFacts, InstallerAssumption, SMTT(15)
     DEF PanelBack, host, TypeOK, Budgets, Jobs, Steps, Pcs, Routers, Applying, Contents
<1>2. JobInv'
  BY SafeFacts, SMTT(15) DEF PanelBack, host, JobInv, Undoing, Runs, Applying, Late, Served, Rendered
<1>3. KeepInv' /\ NothingLost
  BY <1>r, KeepFrame DEF PanelBack, host, Copying
<1>. QED  BY <1>1, <1>2, <1>3 DEF SafeInv

(* The panel is noted.                                                     *)
LEMMA NotePanelSafe ==
  ASSUME SafeInv, NotePanel
  PROVE  SafeInv' /\ NothingLost
<1>a. job.first \in RunIds
  BY SafeFacts DEF NotePanel, JobInv, Undoing, Applying, Late, Served, Rendered
<1>r. runs' \in [RunIds -> StateJson] /\ SameBackups
  BY <1>a, SafeFacts, NotedDone DEF NotePanel, NoteDone
<1>1. TypeOK'
  BY SafeFacts, <1>r, InstallerAssumption, SMTT(15)
     DEF NotePanel, host, TypeOK, Budgets, Jobs, Steps, Pcs, Routers, Applying, Contents
<1>2. JobInv'
  BY SafeFacts, SMTT(15) DEF NotePanel, host, JobInv, Undoing, Runs, Applying, Late, Served, Rendered
<1>3. KeepInv' /\ NothingLost
  BY <1>r, KeepFrame DEF NotePanel, host, Copying
<1>. QED  BY <1>1, <1>2, <1>3 DEF SafeInv

(* Nothing is rendered.                                                    *)
LEMMA SkipRerenderSafe ==
  ASSUME SafeInv, SkipRerender
  PROVE  SafeInv' /\ NothingLost
<1>r. SameBackups
  BY DEF SkipRerender, SameBackups
<1>1. TypeOK'
  BY SafeFacts, InstallerAssumption, SMTT(15)
     DEF SkipRerender, host, TypeOK, Budgets, Jobs, Steps, Pcs, Routers, Applying, Contents
<1>2. JobInv'
  BY SafeFacts, SMTT(15) DEF SkipRerender, host, JobInv, Undoing, Runs, Applying, Late, Served, Rendered
<1>3. KeepInv' /\ NothingLost
  BY <1>r, KeepFrame DEF SkipRerender, host, Copying
<1>. QED  BY <1>1, <1>2, <1>3 DEF SafeInv

(* The start of rendering is noted.                                        *)
LEMMA StartRerenderSafe ==
  ASSUME SafeInv, StartRerender
  PROVE  SafeInv' /\ NothingLost
<1>a. job.first \in RunIds
  BY SafeFacts DEF StartRerender, JobInv, Undoing, Applying, Late, Served, Rendered
<1>r. runs' \in [RunIds -> StateJson] /\ SameBackups
  BY <1>a, SafeFacts, NotedDone DEF StartRerender, NoteDone
<1>j. job' \in Jobs
  <2>1. job' = [job EXCEPT !.retry = Done("started")] /\ Done("started") \in BOOLEAN
    BY DEF StartRerender, Done
  <2>. QED  BY <2>1, SafeFacts, Zenon DEF Jobs
<1>1. TypeOK'
  BY SafeFacts, <1>r, <1>j, InstallerAssumption, SMTT(15)
     DEF StartRerender, host, TypeOK, Budgets, Steps, Pcs, Routers, Applying, Contents
<1>2. JobInv'
  BY SafeFacts, SMTT(15) DEF StartRerender, host, JobInv, Undoing, Runs, Applying, Late, Served, Rendered
<1>3. KeepInv' /\ NothingLost
  BY <1>r, KeepFrame DEF StartRerender, host, Copying
<1>. QED  BY <1>1, <1>2, <1>3 DEF SafeInv

(* The edges are rendered from what is there.                              *)
LEMMA RerenderSafe ==
  ASSUME SafeInv, Rerender
  PROVE  SafeInv' /\ NothingLost
<1>r. SameBackups
  BY DEF Rerender, SameBackups, ToReload, Outdated
<1>1. TypeOK'
  BY SafeFacts, InstallerAssumption, SMTT(15)
     DEF Rerender, ToReload, Outdated, host, TypeOK, Budgets, Jobs, Steps, Pcs, Routers,
         Applying, Contents
<1>2. JobInv'
  BY SafeFacts, SMTT(15) DEF Rerender, ToReload, Outdated, host, JobInv, Undoing, Runs, Applying, Late,
     Served, Rendered
<1>3. KeepInv' /\ NothingLost
  BY <1>r, KeepFrame DEF Rerender, host, Copying, ToReload, Outdated
<1>. QED  BY <1>1, <1>2, <1>3 DEF SafeInv

(* An edge loads what is rendered.                                         *)
LEMMA EdgeBackSafe ==
  ASSUME SafeInv, NEW p \in Edges, EdgeBack(p)
  PROVE  SafeInv' /\ NothingLost
<1>r. SameBackups
  BY DEF EdgeBack, SameBackups
<1>1. TypeOK'
  BY SafeFacts, InstallerAssumption, SMTT(15)
     DEF EdgeBack, host, TypeOK, Budgets, Jobs, Steps, Pcs, Routers, Applying, Contents
<1>2. JobInv'
  BY SafeFacts, SMTT(15) DEF EdgeBack, host, JobInv, Undoing, Runs, Applying, Late, Served, Rendered
<1>3. KeepInv' /\ NothingLost
  BY <1>r, KeepFrame DEF EdgeBack, host, Copying
<1>. QED  BY <1>1, <1>2, <1>3 DEF SafeInv

(* The edges are noted.                                                    *)
LEMMA NoteEdgesSafe ==
  ASSUME SafeInv, NoteEdges
  PROVE  SafeInv' /\ NothingLost
<1>a. job.first \in RunIds
  BY SafeFacts DEF NoteEdges, JobInv, Undoing, Applying, Late, Served, Rendered
<1>r. runs' \in [RunIds -> StateJson] /\ SameBackups
  BY <1>a, SafeFacts, NotedDone DEF NoteEdges, NoteDone
<1>1. TypeOK'
  BY SafeFacts, <1>r, InstallerAssumption, SMTT(15)
     DEF NoteEdges, host, TypeOK, Budgets, Jobs, Steps, Pcs, Routers, Applying, Contents
<1>2. JobInv'
  BY SafeFacts, SMTT(15) DEF NoteEdges, host, JobInv, Undoing, Runs, Applying, Late, Served, Rendered
<1>3. KeepInv' /\ NothingLost
  BY <1>r, KeepFrame DEF NoteEdges, host, Copying
<1>. QED  BY <1>1, <1>2, <1>3 DEF SafeInv

(* The router is left alone.                                               *)
LEMMA SkipRouterSafe ==
  ASSUME SafeInv, SkipRouter
  PROVE  SafeInv' /\ NothingLost
<1>r. SameBackups
  BY DEF SkipRouter, SameBackups, Snap
<1>1. TypeOK'
  BY SafeFacts, InstallerAssumption, SMTT(15)
     DEF SkipRouter, Snap, host, TypeOK, Budgets, Jobs, Steps, Pcs, Routers, Applying,
         Contents
<1>2. JobInv'
  BY SafeFacts, SMTT(15) DEF SkipRouter, Snap, host, JobInv, Undoing, Runs, Applying, Late, Served,
     Rendered
<1>3. KeepInv' /\ NothingLost
  BY <1>r, KeepFrame DEF SkipRouter, host, Copying, Snap
<1>. QED  BY <1>1, <1>2, <1>3 DEF SafeInv

(* A put-back that was begun goes on.                                      *)
LEMMA ResumeRouterSafe ==
  ASSUME SafeInv, ResumeRouter
  PROVE  SafeInv' /\ NothingLost
<1>r. SameBackups
  BY DEF ResumeRouter, SameBackups, Snap
<1>1. TypeOK'
  BY SafeFacts, InstallerAssumption, SMTT(15)
     DEF ResumeRouter, Snap, host, TypeOK, Budgets, Jobs, Steps, Pcs, Routers, Applying,
         Contents
<1>2. JobInv'
  BY SafeFacts, SMTT(15) DEF ResumeRouter, Snap, host, JobInv, Undoing, Runs, Applying, Late, Served,
     Rendered
<1>3. KeepInv' /\ NothingLost
  BY <1>r, KeepFrame DEF ResumeRouter, host, Copying, Snap
<1>. QED  BY <1>1, <1>2, <1>3 DEF SafeInv

(* The live configuration is kept.                                         *)
LEMMA KeepRouterSafe ==
  ASSUME SafeInv, KeepRouter
  PROVE  SafeInv' /\ NothingLost
<1>a. job.first \in RunIds
  BY SafeFacts DEF KeepRouter, JobInv, Undoing, Applying, Late, Served, Rendered
<1>r. runs' \in [RunIds -> StateJson] /\ SameBackups
  BY <1>a, SafeFacts, NotedFlag DEF KeepRouter
<1>1. TypeOK'
  BY SafeFacts, <1>r, InstallerAssumption, SMTT(15)
     DEF KeepRouter, host, TypeOK, Budgets, Jobs, Steps, Pcs, Routers, Applying, Contents
<1>2. JobInv'
  BY SafeFacts, SMTT(15) DEF KeepRouter, host, JobInv, Undoing, Runs, Applying, Late, Served, Rendered
<1>3. KeepInv' /\ NothingLost
  BY <1>r, KeepFrame DEF KeepRouter, host, Copying
<1>. QED  BY <1>1, <1>2, <1>3 DEF SafeInv

(* The copy is put back.                                                   *)
LEMMA PutRouterBackSafe ==
  ASSUME SafeInv, PutRouterBack
  PROVE  SafeInv' /\ NothingLost
<1>r. SameBackups
  BY DEF PutRouterBack, SameBackups, Snap
<1>a. job.first \in RunIds
  BY SafeFacts DEF PutRouterBack, JobInv, Undoing, Late, Served, Rendered
<1>g. Snap \in Routers
  BY <1>a, SafeFacts DEF Snap, StateJson
<1>1. TypeOK'
  BY SafeFacts, <1>g, InstallerAssumption, SMTT(15)
     DEF PutRouterBack, host, TypeOK, Budgets, Jobs, Steps, Pcs, Applying, Contents
<1>2. JobInv'
  BY SafeFacts, SMTT(15) DEF PutRouterBack, Snap, host, JobInv, Undoing, Runs, Applying, Late, Served,
     Rendered
<1>3. KeepInv' /\ NothingLost
  BY <1>r, KeepFrame DEF PutRouterBack, host, Copying, Snap
<1>. QED  BY <1>1, <1>2, <1>3 DEF SafeInv

(* The router loads it.                                                    *)
LEMMA RestartRouterSafe ==
  ASSUME SafeInv, RestartRouter
  PROVE  SafeInv' /\ NothingLost
<1>r. SameBackups
  BY DEF RestartRouter, SameBackups
<1>1. TypeOK'
  BY SafeFacts, InstallerAssumption, SMTT(15)
     DEF RestartRouter, host, TypeOK, Budgets, Jobs, Steps, Pcs, Routers, Applying, Contents
<1>2. JobInv'
  BY SafeFacts, SMTT(15) DEF RestartRouter, host, JobInv, Undoing, Runs, Applying, Late, Served, Rendered
<1>3. KeepInv' /\ NothingLost
  BY <1>r, KeepFrame DEF RestartRouter, host, Copying
<1>. QED  BY <1>1, <1>2, <1>3 DEF SafeInv

(* The router is noted.                                                    *)
LEMMA NoteRouterSafe ==
  ASSUME SafeInv, NoteRouter
  PROVE  SafeInv' /\ NothingLost
<1>a. job.first \in RunIds
  BY SafeFacts DEF NoteRouter, JobInv, Undoing, Applying, Late, Served, Rendered
<1>r. runs' \in [RunIds -> StateJson] /\ SameBackups
  BY <1>a, SafeFacts, NotedFlag DEF NoteRouter
<1>1. TypeOK'
  BY SafeFacts, <1>r, InstallerAssumption, SMTT(15)
     DEF NoteRouter, host, TypeOK, Budgets, Jobs, Steps, Pcs, Routers, Applying, Contents
<1>2. JobInv'
  BY SafeFacts, SMTT(15) DEF NoteRouter, host, JobInv, Undoing, Runs, Applying, Late, Served, Rendered
<1>3. KeepInv' /\ NothingLost
  BY <1>r, KeepFrame DEF NoteRouter, host, Copying
<1>. QED  BY <1>1, <1>2, <1>3 DEF SafeInv

(* The services are looked at.                                             *)
LEMMA VerifiedSafe ==
  ASSUME SafeInv, Verified
  PROVE  SafeInv' /\ NothingLost
<1>r. SameBackups
  BY DEF Verified, SameBackups, NoJob
<1>j. job' \in Jobs
  BY SafeFacts DEF Verified
<1>1. TypeOK'
  BY SafeFacts, <1>j, InstallerAssumption, SMTT(15)
     DEF Verified, host, TypeOK, Budgets, Steps, Pcs, Routers, Applying, Contents
<1>2. JobInv'
  BY SafeFacts, SMTT(15) DEF Verified, NoJob, host, JobInv, Undoing, Runs, Applying, Late, Served,
     Rendered
<1>3. KeepInv' /\ NothingLost
  BY <1>r, KeepFrame DEF Verified, host, Copying, NoJob
<1>. QED  BY <1>1, <1>2, <1>3 DEF SafeInv

(* A service that was down is started.                                     *)
LEMMA RepairSafe ==
  ASSUME SafeInv, Repair
  PROVE  SafeInv' /\ NothingLost
<1>r. SameBackups
  BY DEF Repair, SameBackups
<1>s. /\ pc = "idle" /\ pc' = "idle"
      /\ UNCHANGED <<job, files, rendered, tables, router, runs, count, copies, edited, latest, budget>>
      /\ routerRuns' = routerRuns \/ (router \notin {"torn", "missing"} /\ routerRuns' = router)
  BY DEF Repair
<1>c. running' \in [Parts -> Contents]
  BY SafeFacts DEF Repair, Parts
<1>1. TypeOK'
  BY SafeFacts, <1>s, <1>c, InstallerAssumption, SMTT(15)
     DEF host, TypeOK, Steps, Pcs, Routers, Applying
<1>2. JobInv'
  BY SafeFacts, SMTT(15) DEF Repair, host, JobInv, Undoing, Runs, Applying, Late, Served, Rendered
<1>3. KeepInv' /\ NothingLost
  BY <1>r, KeepFrame DEF Repair, host, Copying
<1>. QED  BY <1>1, <1>2, <1>3 DEF SafeInv

(* Somebody applies routes.                                                *)
LEMMA RoutesAppliedSafe ==
  ASSUME SafeInv, NEW v \in {"layer", "foreign", "missing"}, RoutesApplied(v)
  PROVE  SafeInv' /\ NothingLost
<1>r. SameBackups
  BY DEF RoutesApplied, SameBackups, SpendOutside
<1>1. TypeOK'
  BY SafeFacts, InstallerAssumption, SMTT(15)
     DEF RoutesApplied, SpendOutside, host, TypeOK, Budgets, Jobs, Steps, Pcs, Routers,
         Applying, Contents
<1>2. JobInv'
  BY SafeFacts, SMTT(15) DEF RoutesApplied, SpendOutside, host, JobInv, Undoing, Runs, Applying, Late,
     Served, Rendered
<1>3. KeepInv' /\ NothingLost
  BY <1>r, KeepFrame DEF RoutesApplied, host, Copying, SpendOutside
<1>. QED  BY <1>1, <1>2, <1>3 DEF SafeInv

(* The restart of the panel is noted, when there is anything to load.      *)
LEMMA IntendRestartSafe ==
  ASSUME SafeInv, IntendRestart
  PROVE  SafeInv' /\ NothingLost
<1>a. job.run \in RunIds
  BY SafeFacts DEF IntendRestart, JobInv, Applying
<1>r. runs' \in [RunIds -> StateJson] /\ SameBackups
  <2>1. CASE runs' = Did(Panel)
    BY <2>1, <1>a, SafeFacts, NotedDid DEF Did, Steps
  <2>2. CASE runs' = runs
    BY <2>2, SafeFacts DEF SameBackups
  <2>. QED  BY <2>1, <2>2 DEF IntendRestart
<1>s. /\ pc = "restart" /\ pc' \in {"restarting", "render"}
      /\ UNCHANGED <<host, count, job, copies, edited, latest, budget>>
  BY DEF IntendRestart
<1>1. TypeOK'
  BY SafeFacts, <1>r, <1>s, SMTT(15) DEF host, TypeOK, Steps, Pcs, Routers, Applying
<1>2. JobInv'
  BY SafeFacts, <1>s, SMTT(15) DEF host, JobInv, Undoing, Runs, Applying, Late, Served, Rendered
<1>3. KeepInv' /\ NothingLost
  BY <1>r, <1>s, KeepFrame DEF host, Copying
<1>. QED  BY <1>1, <1>2, <1>3 DEF SafeInv

(* A failed rollback leaves its runs open.                                 *)
LEMMA RollbackFailsSafe ==
  ASSUME SafeInv, RollbackFails
  PROVE  SafeInv' /\ NothingLost
<1>r. SameBackups
  BY DEF RollbackFails, SameBackups, SpendFault, Down, NoJob, Snap
<1>1. TypeOK'
  BY SafeFacts, InstallerAssumption, SMTT(15)
     DEF RollbackFails, SpendFault, Down, NoJob, Snap, host, TypeOK, Budgets, Jobs, Steps,
         Pcs, Routers, Applying, Contents
<1>2. JobInv'
  BY SafeFacts, SMTT(15) DEF RollbackFails, SpendFault, Down, NoJob, Snap, host, JobInv, Undoing, Runs,
     Applying, Late, Served, Rendered
<1>3. KeepInv' /\ NothingLost
  BY <1>r, KeepFrame DEF RollbackFails, host, Copying, SpendFault, Down, NoJob, Snap
<1>. QED  BY <1>1, <1>2, <1>3 DEF SafeInv

(* The newest chosen run is undone first.                                  *)
LEMMA UndoRunSafe ==
  ASSUME SafeInv, UndoRun
  PROVE  SafeInv' /\ NothingLost
<1>a. /\ pc = "undo" /\ pc' = "drop" /\ job.queue # {}
      /\ runs' = [runs EXCEPT ![Newest].undoing = TRUE]
      /\ job' = [job EXCEPT !.run = Newest, !.queue = @ \ {Newest}]
      /\ UNCHANGED <<host, count, copies, edited, latest, budget>>
  BY DEF UndoRun
<1>b. Newest \in job.queue /\ job.queue \subseteq Runs
  <2>1. job.queue \subseteq Runs
    BY <1>a, SafeFacts DEF JobInv
  <2>2. \E x \in job.queue : \A y \in job.queue : y <= x
    BY <1>a, <2>1, SafeFacts, FirstAndLast DEF Runs
  <2>. QED  BY <2>1, <2>2 DEF Newest
<1>r. runs' \in [RunIds -> StateJson] /\ SameBackups
  BY <1>a, <1>b, SafeFacts, NotedFlag
<1>j. /\ job' \in Jobs /\ job'.run = Newest /\ job'.queue \subseteq job.queue
      /\ job'.chosen = job.chosen /\ job'.first = job.first
  <2>1. Newest \in 0 .. MaxRuns
    BY <1>b, SafeFacts DEF RunIds
  <2>. QED  BY <1>a, <2>1, SafeFacts DEF Jobs
<1>1. TypeOK'
  BY SafeFacts, <1>a, <1>r, <1>j, SMTT(15) DEF host, TypeOK, Pcs, Applying
<1>2. JobInv'
  BY SafeFacts, <1>a, <1>b, <1>j, SMTT(15) DEF JobInv, Undoing, Runs, Applying, Late, Served, Rendered
<1>3. KeepInv' /\ NothingLost
  BY <1>a, <1>r, KeepFrame DEF host, Copying
<1>. QED  BY <1>1, <1>2, <1>3 DEF SafeInv

(* The last chosen run is closed first, the first one ends the rollback.   *)
LEMMA CloseRunSafe ==
  ASSUME SafeInv, CloseRun
  PROVE  SafeInv' /\ NothingLost
<1>a. /\ pc = "close" /\ UNCHANGED <<host, count, copies, edited, latest, budget>>
      /\ job.chosen \subseteq Runs /\ job.chosen # {} /\ job.first \in Runs
      /\ job.queue = {}
  BY SafeFacts DEF CloseRun, JobInv, Late, Served, Rendered
<1>b. \E x \in job.chosen : \A y \in job.chosen : y <= x
  BY <1>a, SafeFacts, FirstAndLast DEF Runs
<1>c. PICK r \in job.chosen : r = CHOOSE x \in job.chosen : \A q \in job.chosen : q <= x
  BY <1>b
<1>d. /\ runs' = [runs EXCEPT ![r].closed = TRUE]
      /\ \/ pc' = "idle" /\ job' = NoJob
         \/ job.chosen # {r} /\ pc' = pc /\ job' = [job EXCEPT !.chosen = @ \ {r}]
  BY <1>c DEF CloseRun
<1>r. runs' \in [RunIds -> StateJson] /\ SameBackups
  BY <1>a, <1>c, <1>d, SafeFacts, NotedFlag
<1>3. KeepInv' /\ NothingLost
  BY <1>a, <1>d, <1>r, KeepFrame DEF host, Copying
<1>4. CASE pc' = "idle" /\ job' = NoJob
  <2>1. TypeOK'
    BY SafeFacts, <1>a, <1>r, <1>4, SMTT(15) DEF host, TypeOK, Pcs
  <2>2. JobInv'
    BY <1>4 DEF JobInv, Undoing, NoJob, Applying, Late, Served, Rendered
  <2>. QED  BY <2>1, <2>2, <1>3 DEF SafeInv
<1>5. CASE job.chosen # {r} /\ pc' = pc /\ job' = [job EXCEPT !.chosen = @ \ {r}]
  <2>j. /\ job' \in Jobs /\ job'.chosen = job.chosen \ {r} /\ job'.queue = job.queue
        /\ job'.first = job.first
    BY <1>5, SafeFacts DEF Jobs
  <2>1. TypeOK'
    BY SafeFacts, <1>a, <1>r, <1>5, <2>j, SMTT(15) DEF host, TypeOK
  <2>2. JobInv'
    BY <1>a, <1>5, <2>j, <1>c DEF JobInv, Undoing, Runs, Applying, Late, Served, Rendered
  <2>. QED  BY <2>1, <2>2, <1>3 DEF SafeInv
<1>. QED  BY <1>4, <1>5, <1>d

(* A failed apply is undone.                                               *)
LEMMA ApplyFailsSafe ==
  ASSUME SafeInv, ApplyFails
  PROVE  SafeInv' /\ NothingLost
<1>a. job.run \in Runs /\ job.run \in RunIds
  BY SafeFacts DEF ApplyFails, JobInv
<1>r. runs' \in [RunIds -> StateJson] /\ SameBackups
  BY <1>a, SafeFacts, NotedHalf DEF ApplyFails
<1>k. job' = [run |-> 0, todo |-> {}, queue |-> {job.run}, chosen |-> {job.run}, first |-> job.run,
              flags |-> {}, retry |-> FALSE, changed |-> {}, seen |-> NoCopy, byHand |-> FALSE]
  BY DEF ApplyFails, NoJob
<1>j. /\ job' \in Jobs /\ job'.queue = {job.run} /\ job'.chosen = {job.run} /\ job'.first = job.run
  BY <1>k, <1>a, SafeFacts DEF Jobs, RunIds, Copies
<1>c. running' \in [Parts -> Contents]
  BY SafeFacts DEF ApplyFails, Down, Contents
<1>b. budget' \in Budgets
  BY SafeFacts, InstallerAssumption DEF ApplyFails, SpendFault, TypeOK, Budgets
<1>s. pc' = "undo" /\ UNCHANGED <<files, rendered, tables, router, routerRuns, count, copies, edited, latest>>
  BY DEF ApplyFails
<1>1. TypeOK'
  BY SafeFacts, <1>r, <1>s, <1>b, <1>c, <1>j, InstallerAssumption, SMTT(15)
     DEF host, TypeOK, Steps, Pcs, Routers, Applying
<1>2. JobInv'
  BY SafeFacts, <1>a, <1>s, <1>j, SMTT(15)
     DEF host, JobInv, Undoing, Runs, Applying, Late, Served, Rendered
<1>3. KeepInv' /\ NothingLost
  BY <1>r, <1>s, KeepFrame DEF Copying
<1>. QED  BY <1>1, <1>2, <1>3 DEF SafeInv

(* A killed installer leaves its files and backups.                        *)
LEMMA KillSafe ==
  ASSUME SafeInv, Kill
  PROVE  SafeInv' /\ NothingLost
<1>a. pc = "dump" => job.run \in RunIds
  BY SafeFacts DEF JobInv, Applying
<1>r. runs' \in [RunIds -> StateJson] /\ SameBackups
  BY <1>a, SafeFacts, NotedHalf DEF Kill
<1>s. /\ pc' = "idle" /\ job' = NoJob
      /\ UNCHANGED <<files, rendered, running, tables, routerRuns, count, copies, edited, latest>>
  BY DEF Kill
<1>1. TypeOK'
  BY SafeFacts, <1>r, <1>s, InstallerAssumption, SMTT(15)
     DEF Kill, SpendKill, TypeOK, Budgets, Pcs, Routers
<1>2. JobInv'
  BY <1>s, SMTT(15) DEF NoJob, JobInv, Undoing, Applying, Late, Served, Rendered
<1>3. KeepInv' /\ NothingLost
  BY <1>r, <1>s, KeepFrame DEF Copying
<1>. QED  BY <1>1, <1>2, <1>3 DEF SafeInv

(* So does a restart of the host.                                          *)
LEMMA RebootSafe ==
  ASSUME SafeInv, Reboot
  PROVE  SafeInv' /\ NothingLost
<1>a. pc = "dump" => job.run \in RunIds
  BY SafeFacts DEF JobInv, Applying
<1>r. runs' \in [RunIds -> StateJson] /\ SameBackups
  BY <1>a, SafeFacts, NotedHalf DEF Reboot
<1>s. /\ pc' = "idle" /\ job' = NoJob
      /\ UNCHANGED <<files, rendered, tables, count, copies, edited, latest>>
      /\ router' \in {router, "torn"}
      /\ routerRuns' = IF router' \in {"torn", "missing"} THEN "down" ELSE router'
  BY DEF Reboot
<1>b. budget' \in Budgets
  <2>1. budget.kills \in 1 .. MaxKills /\ budget.reboots \in 1 .. MaxReboots /\ budget \in Budgets
    BY SafeFacts, InstallerAssumption DEF Reboot, TypeOK, Budgets
  <2>2. budget' = [faults |-> budget.faults, kills |-> budget.kills - 1,
                   reboots |-> budget.reboots - 1, outside |-> budget.outside]
    BY <2>1 DEF Reboot, Budgets
  <2>. QED  BY <2>1, <2>2, InstallerAssumption DEF Budgets
<1>c. running' \in [Parts -> Contents]
  BY SafeFacts DEF Reboot, Parts
<1>1. TypeOK'
  BY SafeFacts, <1>r, <1>s, <1>b, <1>c, InstallerAssumption, SMTT(15)
     DEF TypeOK, Pcs, Routers
<1>2. JobInv'
  BY <1>s, SMTT(15) DEF NoJob, JobInv, Undoing, Applying, Late, Served, Rendered
<1>3. KeepInv' /\ NothingLost
  BY <1>r, <1>s, KeepFrame DEF Copying
<1>. QED  BY <1>1, <1>2, <1>3 DEF SafeInv

(* A run begins with a record of its own.                                  *)
LEMMA StartApplySafe ==
  ASSUME SafeInv, StartApply
  PROVE  SafeInv' /\ NothingLost
<1>a. /\ pc' = "dump" /\ count' = count + 1 /\ count < MaxRuns
      /\ UNCHANGED <<host, copies, edited, latest, budget>>
      /\ runs' = [runs EXCEPT ![count + 1] = NoRun]
      /\ job' = [NoJob EXCEPT !.run = count + 1, !.todo = Parts]
  BY DEF StartApply
<1>n. count + 1 \in RunIds /\ count' \in 0 .. MaxRuns
  BY <1>a, SafeFacts DEF RunIds
<1>r. /\ runs' \in [RunIds -> StateJson]
      /\ \A p \in Parts : runs'[count + 1].saved[p] = NoCopy
      /\ \A r \in RunIds : r # count + 1 => runs'[r] = runs[r]
  <2>1. \A p \in Parts : NoRun.saved[p] = NoCopy
    BY DEF NoRun
  <2>. QED  BY <1>a, <1>n, <2>1, NoRunType, SafeFacts
<1>j. job' \in Jobs /\ job'.run = count + 1 /\ job'.todo = Parts /\ job'.queue = {} /\ job'.chosen = {}
  BY <1>a, <1>n, SafeFacts DEF NoJob, Jobs, RunIds
<1>1. TypeOK'
  BY SafeFacts, <1>a, <1>n, <1>r, <1>j, SMTT(15) DEF host, TypeOK, Pcs, Applying
<1>2. JobInv'
  BY SafeFacts, <1>a, <1>n, <1>j, SMTT(15)
     DEF JobInv, Undoing, Runs, Applying, Late, Served, Rendered
<1>3. KeepInv'
  BY <1>a, <1>r, <1>j DEF KeepInv
<1>4. NothingLost
  <2>1. \A r \in Runs : r \in Runs' /\ runs'[r] = runs[r]
    BY <1>a, <1>r, SafeFacts DEF Runs
  <2>2. files' = files /\ latest' = latest
    BY <1>a DEF host
  <2>. QED  BY <2>1, <2>2 DEF NothingLost, Kept
<1>. QED  BY <1>1, <1>2, <1>3, <1>4 DEF SafeInv

(* The dump is made.                                                       *)
LEMMA BackupSafe ==
  ASSUME SafeInv, Backup
  PROVE  SafeInv' /\ NothingLost
<1>a. pc = "dump" /\ pc' = "copy" /\ UNCHANGED <<host, count, job, copies, edited, latest, budget>>
  BY DEF Backup
<1>b. job.run \in RunIds /\ router \in Routers
  BY <1>a, SafeFacts DEF JobInv, Applying, TypeOK
<1>r. runs' \in [RunIds -> StateJson] /\ SameBackups
  BY <1>b, SafeFacts, NotedSnap DEF Backup
<1>1. TypeOK'
  BY SafeFacts, <1>a, <1>r, SMTT(15) DEF host, TypeOK, Pcs, Applying
<1>2. JobInv'
  BY SafeFacts, <1>a, SMTT(15) DEF JobInv, Undoing, Runs, Applying, Late, Served, Rendered
<1>3. KeepInv'
  BY SafeFacts, <1>a, <1>b, <1>r DEF KeepInv, SameBackups
<1>4. NothingLost
  BY SafeFacts, <1>a, <1>r DEF NothingLost, Kept, SameBackups, Runs, host
<1>. QED  BY <1>1, <1>2, <1>3, <1>4 DEF SafeInv

(* A file that is new already needs no backup.                             *)
LEMMA SkipFileSafe ==
  ASSUME SafeInv, NEW p \in Parts, SkipFile(p)
  PROVE  SafeInv' /\ NothingLost
<1>a. pc = "copy" /\ pc' = "copy" /\ UNCHANGED <<host, runs, count, copies, edited, latest, budget>>
  BY DEF SkipFile
<1>j. /\ job' \in Jobs /\ job'.run = job.run /\ job'.queue = job.queue /\ job'.chosen = job.chosen
      /\ job'.todo \subseteq job.todo
  BY SafeFacts DEF SkipFile, Jobs
<1>1. TypeOK'
  BY SafeFacts, <1>a, <1>j, SMTT(15) DEF host, TypeOK
<1>2. JobInv'
  BY SafeFacts, <1>a, <1>j, SMTT(15) DEF JobInv, Undoing, Runs, Applying, Late, Served, Rendered
<1>3. KeepInv'
  BY SafeFacts, <1>a, <1>j DEF KeepInv
<1>4. NothingLost
  BY <1>a DEF NothingLost, Kept, Runs, host
<1>. QED  BY <1>1, <1>2, <1>3, <1>4 DEF SafeInv

(* What is installed over is saved first, where nothing is saved yet.      *)
LEMMA IntendSafe ==
  ASSUME SafeInv, NEW p \in Parts, Intend(p)
  PROVE  SafeInv' /\ NothingLost
<1>a. /\ pc = "copy" /\ pc' = "replace" /\ p \in job.todo
      /\ runs' = [runs EXCEPT ![job.run].saved[p] = files[p]]
      /\ UNCHANGED <<host, count, copies, edited, latest, budget>>
  BY DEF Intend
<1>b. job.run \in Runs /\ job.run \in RunIds
  BY <1>a, SafeFacts DEF JobInv, Applying
<1>c. files[p] \in Copies /\ runs[job.run].saved[p] = NoCopy
  BY <1>a, SafeFacts DEF KeepInv, Copies
<1>d. runs[job.run] \in StateJson /\ runs[job.run].saved \in [Parts -> Copies]
  BY <1>b, SafeFacts DEF StateJson
<1>. DEFINE rec == [runs[job.run] EXCEPT !.saved = [runs[job.run].saved EXCEPT ![p] = files[p]]]
<1>e. runs' = [runs EXCEPT ![job.run] = rec]
  BY <1>a, <1>b, <1>d, SafeFacts
<1>f. /\ rec \in StateJson /\ rec.aside = runs[job.run].aside
      /\ rec.saved = [runs[job.run].saved EXCEPT ![p] = files[p]]
  <2>1. [runs[job.run].saved EXCEPT ![p] = files[p]] \in [Parts -> Copies]
    BY <1>c, <1>d
  <2>. QED  BY <2>1, <1>d, Zenon DEF StateJson
<1>. HIDE DEF rec
<1>r. /\ runs' \in [RunIds -> StateJson] /\ runs'[job.run].saved[p] = files[p]
      /\ \A r \in RunIds : runs'[r].aside = runs[r].aside
      /\ \A r \in RunIds : r # job.run => runs'[r].saved = runs[r].saved
      /\ \A q \in Parts : q # p => runs'[job.run].saved[q] = runs[job.run].saved[q]
  BY <1>b, <1>d, <1>e, <1>f, SafeFacts
<1>j. /\ job' \in Jobs /\ job'.run = job.run /\ job'.queue = job.queue /\ job'.chosen = job.chosen
      /\ job'.todo = job.todo \ {p} /\ job'.changed = {p} /\ job'.seen = files[p]
  BY <1>c, SafeFacts DEF Intend, Jobs
<1>1. TypeOK'
  BY SafeFacts, <1>a, <1>r, <1>j, SMTT(15) DEF host, TypeOK, Pcs, Applying
<1>2. JobInv'
  BY SafeFacts, <1>a, <1>b, <1>j, SMTT(15)
     DEF JobInv, Undoing, Runs, Applying, Late, Served, Rendered
<1>3. KeepInv'
  <2>1. job.todo \subseteq Parts
    BY SafeFacts DEF Jobs
  <2>. QED  BY <1>a, <1>r, <1>j, <2>1, SafeFacts DEF KeepInv
<1>4. NothingLost
  <2>1. files' = files /\ latest' = latest /\ Runs' = Runs
    BY <1>a DEF host, Runs
  <2>2. ASSUME NEW q \in Parts, Kept(q), latest[q] # NoCopy, files[q] # latest[q] PROVE Kept(q)'
    <3>1. PICK r \in Runs : latest[q] \in {runs[r].saved[q], runs[r].aside[q]}
      BY <2>2 DEF Kept
    <3>2. r \in RunIds /\ runs'[r].aside[q] = runs[r].aside[q]
      BY <3>1, <1>r, SafeFacts
    <3>3. latest[q] = runs[r].saved[q] => runs'[r].saved[q] = runs[r].saved[q]
      BY <2>2, <3>2, <1>c, <1>r
    <3>. QED  BY <3>1, <3>2, <3>3, <2>1 DEF Kept
  <2>. QED  BY <2>1, <2>2 DEF NothingLost, Kept
<1>. QED  BY <1>1, <1>2, <1>3, <1>4 DEF SafeInv

(* The new version goes over the content that is saved, or over an edit    *)
(* that was made in between.                                               *)
LEMMA ReplaceSafe ==
  ASSUME SafeInv, NEW p \in Parts, Replace(p)
  PROVE  SafeInv' /\ NothingLost
<1>a. /\ pc = "replace" /\ pc' = "copy" /\ files' = [files EXCEPT ![p] = "new"]
      /\ job.changed = {p}
      /\ UNCHANGED <<rendered, running, tables, router, routerRuns, runs, count, job, copies, edited, latest, budget>>
  BY DEF Replace
<1>b. /\ files' \in [Parts -> Contents] /\ files'[p] = "new"
      /\ \A q \in Parts : q # p => files'[q] = files[q]
  BY <1>a, SafeFacts DEF Contents
<1>c. runs[job.run].saved[p] = job.seen /\ job.run \in Runs
  BY <1>a, SafeFacts DEF KeepInv, JobInv, Applying
<1>1. TypeOK'
  BY SafeFacts, <1>a, <1>b, SMTT(15) DEF TypeOK, Pcs, Applying
<1>2. JobInv'
  BY SafeFacts, <1>a, SMTT(15) DEF JobInv, Undoing, Runs, Applying, Late, Served, Rendered
<1>3. KeepInv'
  BY <1>a, SafeFacts DEF KeepInv
<1>4. NothingLost
  <2>1. latest' = latest /\ runs' = runs /\ Runs' = Runs
    BY <1>a DEF Runs
  <2>2. files[p] = latest[p] /\ files[p] = job.seen => Kept(p)'
    BY <1>c, <2>1 DEF Kept
  <2>3. files[p] # job.seen => Overtaken(p)
    BY <1>a DEF Overtaken
  <2>4. ASSUME NEW q \in Parts, q # p \/ files[q] # latest[q], Kept(q) PROVE Kept(q)'
    BY <2>1, <2>4, <1>b DEF Kept
  <2>. QED  BY <2>2, <2>3, <2>4 DEF NothingLost
<1>. QED  BY <1>1, <1>2, <1>3, <1>4 DEF SafeInv

(* A rollback chooses runs that are there.                                 *)
LEMMA RollbackSafe ==
  ASSUME SafeInv, NEW S, S \subseteq Runs, StartRollback(S)
  PROVE  SafeInv' /\ NothingLost
<1>a. /\ S # {} /\ pc = "idle" /\ pc' = "undo"
      /\ UNCHANGED <<host, runs, count, copies, edited, latest, budget>>
  BY DEF StartRollback
<1>b. \E x \in S : \A y \in S : x <= y
  BY <1>a, SafeFacts, FirstAndLast DEF Runs
<1>c. PICK f \in S : f = CHOOSE r \in S : \A q \in S : r <= q
  BY <1>b
<1>k. job' = [run |-> 0, todo |-> {}, queue |-> S, chosen |-> S, first |-> f,
              flags |-> {}, retry |-> FALSE, changed |-> {}, seen |-> NoCopy, byHand |-> TRUE]
  BY <1>c DEF StartRollback, NoJob
<1>j. job' \in Jobs /\ job'.queue = S /\ job'.chosen = S /\ job'.first = f
  <2>1. f \in Runs /\ f \in 0 .. MaxRuns /\ S \subseteq RunIds
    BY <1>c, SafeFacts DEF RunIds
  <2>. QED  BY <1>k, <2>1, SafeFacts DEF Jobs, Copies
<1>1. TypeOK'
  BY SafeFacts, <1>a, <1>j, SMTT(15) DEF host, TypeOK, Pcs, Applying
<1>2. JobInv'
  <2>1. f \in Runs' /\ S \subseteq Runs' /\ S # {}
    BY <1>a, <1>c DEF Runs
  <2>2. pc' \notin Applying \cup Undoing \cup Late
    BY <1>a DEF Applying, Undoing, Late, Served, Rendered
  <2>. QED  BY <2>1, <2>2, <1>a, <1>j DEF JobInv
<1>3. KeepInv' /\ NothingLost
  BY <1>a, KeepFrame DEF host, Copying, SameBackups
<1>. QED  BY <1>1, <1>2, <1>3 DEF SafeInv

(* Tables go, and the files that the run has saved are put on the list.    *)
LEMMA DropTablesSafe ==
  ASSUME SafeInv, DropTables
  PROVE  SafeInv' /\ NothingLost
<1>a. /\ pc = "drop" /\ pc' = "restore" /\ tables' \in {"none", tables}
      /\ UNCHANGED <<files, rendered, running, router, routerRuns, runs, count, copies, edited, latest, budget>>
  BY DEF DropTables
<1>j. /\ job' \in Jobs /\ job'.run = job.run /\ job'.queue = job.queue /\ job'.chosen = job.chosen
      /\ job'.first = job.first
      /\ \A p \in job'.todo : runs[job.run].saved[p] # NoCopy
  BY SafeFacts DEF DropTables, Replaced, Jobs
<1>1. TypeOK'
  BY SafeFacts, <1>a, <1>j, SMTT(15) DEF TypeOK, Pcs
<1>2. JobInv'
  BY SafeFacts, <1>a, <1>j, SMTT(15)
     DEF JobInv, Undoing, Runs, Applying, Late, Served, Rendered
<1>3. KeepInv'
  BY <1>a, <1>j DEF KeepInv
<1>4. NothingLost
  BY <1>a DEF NothingLost, Kept, Runs
<1>. QED  BY <1>1, <1>2, <1>3, <1>4 DEF SafeInv

(* What is somebody else's is copied aside; that may take the place of an  *)
(* older copy.                                                             *)
LEMMA KeepDivergedSafe ==
  ASSUME SafeInv, NEW p \in Parts, KeepDiverged(p)
  PROVE  SafeInv' /\ NothingLost
<1>a. /\ pc = "restore" /\ pc' = "restoring" /\ p \in job.todo /\ runs' = Aside(p)
      /\ UNCHANGED <<host, count, copies, edited, latest, budget>>
  BY DEF KeepDiverged
<1>b. job.run \in Runs /\ job.run \in RunIds
  BY <1>a, SafeFacts DEF JobInv, Undoing
<1>d. /\ runs[job.run] \in StateJson /\ runs[job.run].saved[p] # NoCopy
      /\ runs[job.run].aside \in [Parts -> Copies] /\ files[p] \in Copies
  BY <1>a, <1>b, SafeFacts DEF StateJson, KeepInv, Copies
<1>r. /\ runs' \in [RunIds -> StateJson]
      /\ \A r \in RunIds : runs'[r].saved = runs[r].saved
      /\ \A r \in RunIds : r # job.run => runs'[r].aside = runs[r].aside
      /\ \A q \in Parts : q # p => runs'[job.run].aside[q] = runs[job.run].aside[q]
      /\ \/ files[p] \in {"absent", "new"} /\ runs' = runs
         \/ files[p] \notin {"absent", "new"} /\ runs'[job.run].aside[p] = files[p]
  <2>1. CASE files[p] \in {"absent", "new"}
    BY <2>1, <1>a, SafeFacts DEF Aside
  <2>2. CASE files[p] \notin {"absent", "new"}
    <3>. DEFINE rec == [runs[job.run] EXCEPT !.aside = [runs[job.run].aside EXCEPT ![p] = files[p]]]
    <3>2. runs' = [runs EXCEPT ![job.run] = rec]
      BY <1>a, <2>2, <1>b, <1>d, SafeFacts DEF Aside
    <3>3. [runs[job.run].aside EXCEPT ![p] = files[p]] \in [Parts -> Copies]
      BY <1>d
    <3>4. /\ rec \in StateJson /\ rec.saved = runs[job.run].saved
          /\ rec.aside = [runs[job.run].aside EXCEPT ![p] = files[p]]
      BY <3>3, <1>d, Zenon DEF StateJson
    <3>. HIDE DEF rec
    <3>5. rec.aside[p] = files[p] /\ \A q \in Parts : q # p => rec.aside[q] = runs[job.run].aside[q]
      BY <3>4, <1>d
    <3>. QED  BY <2>2, <3>2, <3>4, <3>5, <1>b, SafeFacts
  <2>. QED  BY <2>1, <2>2
<1>j. /\ job' \in Jobs /\ job'.run = job.run /\ job'.queue = job.queue /\ job'.chosen = job.chosen
      /\ job'.first = job.first /\ job'.todo \subseteq job.todo /\ job'.changed = {p} /\ job'.seen = files[p]
  BY <1>d, SafeFacts DEF KeepDiverged, Jobs
<1>1. TypeOK'
  BY SafeFacts, <1>a, <1>r, <1>j, SMTT(15) DEF host, TypeOK, Pcs
<1>2. JobInv'
  BY SafeFacts, <1>a, <1>j, SMTT(15)
     DEF JobInv, Undoing, Runs, Applying, Late, Served, Rendered
<1>3. KeepInv'
  BY <1>a, <1>b, <1>d, <1>r, <1>j, SafeFacts DEF KeepInv
<1>4. NothingLost
  <2>1. files' = files /\ latest' = latest /\ Runs' = Runs
    BY <1>a DEF host, Runs
  <2>2. ASSUME NEW q \in Parts, Kept(q), latest[q] # NoCopy, files[q] # latest[q]
        PROVE  Kept(q)' \/ CopiedOver(q)
    <3>1. PICK r \in Runs : latest[q] \in {runs[r].saved[q], runs[r].aside[q]}
      BY <2>2 DEF Kept
    <3>2. r \in RunIds /\ runs'[r].saved[q] = runs[r].saved[q]
      BY <3>1, <1>r, SafeFacts
    <3>3. runs'[r].aside[q] = runs[r].aside[q]
          \/ (r = job.run /\ q = p /\ files[p] \notin {"absent", "new"})
      BY <3>2, <1>r
    <3>4. CASE runs'[r].aside[q] = runs[r].aside[q]
      BY <3>1, <3>2, <3>4, <2>1 DEF Kept
    <3>5. CASE latest[q] = runs[r].saved[q]
      BY <3>1, <3>2, <3>5, <2>1 DEF Kept
    <3>6. CASE /\ r = job.run /\ q = p /\ files[p] \notin {"absent", "new"}
               /\ latest[q] = runs[r].aside[q]
      BY <3>6, <2>2, <1>a DEF CopiedOver
    <3>. QED  BY <3>1, <3>3, <3>4, <3>5, <3>6
  <2>. QED  BY <2>1, <2>2 DEF NothingLost, Kept
<1>. QED  BY <1>1, <1>2, <1>3, <1>4 DEF SafeInv

(* The backup goes over the content that was looked at, or over an edit    *)
(* that was made in between.                                               *)
LEMMA RestoreFileSafe ==
  ASSUME SafeInv, NEW p \in Parts, RestoreFile(p)
  PROVE  SafeInv' /\ NothingLost
<1>a. /\ pc = "restoring" /\ pc' = "restore" /\ job.changed = {p}
      /\ files' = [files EXCEPT ![p] = runs[job.run].saved[p]]
      /\ UNCHANGED <<rendered, running, tables, router, routerRuns, runs, count, job, copies, edited, latest, budget>>
  BY DEF RestoreFile
<1>b. job.run \in Runs /\ job.run \in RunIds
  BY <1>a, SafeFacts DEF JobInv, Undoing
<1>c. /\ runs[job.run].saved[p] # NoCopy
      /\ job.seen \in {"absent", "new"} \/ runs[job.run].aside[p] = job.seen
  BY <1>a, SafeFacts DEF KeepInv
<1>d. runs[job.run].saved[p] \in Contents
  BY <1>b, <1>c, SafeFacts DEF StateJson, Copies
<1>f. files' \in [Parts -> Contents] /\ \A q \in Parts : q # p => files'[q] = files[q]
  BY <1>a, <1>d, SafeFacts
<1>1. TypeOK'
  BY SafeFacts, <1>a, <1>f, SMTT(15) DEF TypeOK, Pcs
<1>2. JobInv'
  BY SafeFacts, <1>a, SMTT(15) DEF JobInv, Undoing, Runs, Applying, Late, Served, Rendered
<1>3. KeepInv'
  BY <1>a, SafeFacts DEF KeepInv
<1>4. NothingLost
  <2>1. latest' = latest /\ runs' = runs /\ Runs' = Runs
    BY <1>a DEF Runs
  <2>2. files[p] = latest[p] /\ files[p] = job.seen => Kept(p)'
    <3>1. latest[p] # NoCopy => latest[p] \notin {"absent", "new"}
      BY SafeFacts, InstallerAssumption
    <3>. QED  BY <1>b, <1>c, <2>1, <3>1 DEF Kept
  <2>3. files[p] # job.seen => Overtaken(p)
    BY <1>a DEF Overtaken
  <2>4. ASSUME NEW q \in Parts, q # p \/ files[q] # latest[q], Kept(q) PROVE Kept(q)'
    BY <2>1, <2>4, <1>f DEF Kept
  <2>. QED  BY <2>2, <2>3, <2>4 DEF NothingLost
<1>. QED  BY <1>1, <1>2, <1>3, <1>4 DEF SafeInv

(* A file that is its backup already is left alone.                        *)
LEMMA AlreadyBackSafe ==
  ASSUME SafeInv, NEW p \in Parts, AlreadyBack(p)
  PROVE  SafeInv' /\ NothingLost
<1>a. pc = "restore" /\ pc' = "restore" /\ UNCHANGED <<host, runs, count, copies, edited, latest, budget>>
  BY DEF AlreadyBack
<1>j. /\ job' \in Jobs /\ job'.run = job.run /\ job'.queue = job.queue /\ job'.chosen = job.chosen
      /\ job'.first = job.first /\ job'.todo \subseteq job.todo
  BY SafeFacts DEF AlreadyBack, Jobs
<1>1. TypeOK'
  BY SafeFacts, <1>a, <1>j, SMTT(15) DEF host, TypeOK
<1>2. JobInv'
  BY SafeFacts, <1>a, <1>j, SMTT(15) DEF JobInv, Undoing, Runs, Applying, Late, Served, Rendered
<1>3. KeepInv'
  BY SafeFacts, <1>a, <1>j DEF KeepInv
<1>4. NothingLost
  BY <1>a DEF NothingLost, Kept, Runs, host
<1>. QED  BY <1>1, <1>2, <1>3, <1>4 DEF SafeInv

(* An edit is the latest of its file.                                      *)
LEMMA EditFileSafe ==
  ASSUME SafeInv, NEW p \in Parts, NEW e \in EditIds, EditFile(p, e)
  PROVE  SafeInv' /\ NothingLost
<1>a. /\ files' = [files EXCEPT ![p] = e] /\ latest' = [latest EXCEPT ![p] = e]
      /\ edited' = edited \cup {e}
      /\ UNCHANGED <<rendered, running, tables, router, routerRuns, runs, count, pc, job, copies, budget>>
  BY DEF EditFile
<1>b. /\ files' \in [Parts -> Contents] /\ files'[p] = e
      /\ latest' \in [Parts -> EditIds \cup {NoCopy}] /\ latest'[p] = e
      /\ \A q \in Parts : q # p => files'[q] = files[q] /\ latest'[q] = latest[q]
  BY <1>a, SafeFacts DEF Contents
<1>1. TypeOK'
  BY SafeFacts, <1>a, <1>b, SMTT(15) DEF TypeOK
<1>2. JobInv'
  BY SafeFacts, <1>a, SMTT(15) DEF JobInv, Runs
<1>3. KeepInv'
  BY <1>a, SafeFacts DEF KeepInv
<1>4. NothingLost
  BY <1>a, <1>b DEF NothingLost, Kept, Runs
<1>. QED  BY <1>1, <1>2, <1>3, <1>4 DEF SafeInv

(* After an update of the panel there is no edit of its file to keep.      *)
LEMMA UpdatePanelSafe ==
  ASSUME SafeInv, NEW p \in Parts, UpdatePanel(p)
  PROVE  SafeInv' /\ NothingLost
<1>a. /\ files' = [files EXCEPT ![p] = "base"] /\ latest' = [latest EXCEPT ![p] = NoCopy]
      /\ edited' = edited \cup {"base"} /\ SpendOutside
      /\ UNCHANGED <<rendered, running, tables, router, routerRuns, runs, count, pc, job, copies>>
  BY DEF UpdatePanel
<1>b. /\ files' \in [Parts -> Contents]
      /\ latest' \in [Parts -> EditIds \cup {NoCopy}] /\ latest'[p] = NoCopy
      /\ \A q \in Parts : q # p => files'[q] = files[q] /\ latest'[q] = latest[q]
  BY <1>a, SafeFacts DEF Contents
<1>c. budget' \in Budgets
  BY <1>a, SafeFacts, InstallerAssumption DEF SpendOutside, TypeOK, Budgets
<1>1. TypeOK'
  BY SafeFacts, <1>a, <1>b, <1>c, SMTT(15) DEF TypeOK
<1>2. JobInv'
  BY SafeFacts, <1>a, SMTT(15) DEF JobInv, Runs
<1>3. KeepInv'
  BY <1>a, SafeFacts DEF KeepInv
<1>4. NothingLost
  BY <1>a, <1>b DEF NothingLost, Kept, Runs
<1>. QED  BY <1>1, <1>2, <1>3, <1>4 DEF SafeInv

LEMMA InitTyped == Init => TypeOK
<1>. SUFFICES ASSUME Init PROVE TypeOK
  OBVIOUS
<1>1. \A p \in Parts : Original(p) \in Contents
  BY DEF Original, Contents
<1>2. /\ files \in [Parts -> Contents] /\ rendered \in [Edges -> Contents]
      /\ running \in [Parts -> Contents] /\ latest \in [Parts -> EditIds \cup {NoCopy}]
  BY <1>1, PartsType DEF Init
<1>3. runs \in [RunIds -> StateJson] /\ count \in 0 .. MaxRuns /\ job \in Jobs
  BY NoRunType, NoJobType DEF Init
<1>4. budget \in Budgets
  BY InstallerAssumption DEF Init, Budgets
<1>. QED  BY <1>2, <1>3, <1>4 DEF Init, TypeOK, Pcs, Routers

LEMMA InitSafe == Init => SafeInv
<1>1. Init => JobInv /\ KeepInv
  BY DEF Init, JobInv, KeepInv, NoJob, Applying, Undoing, Late, Served, Rendered
<1>. QED  BY <1>1, InitTyped DEF SafeInv

LEMMA SafeHolds == SafeInv /\ [Next]_vars => SafeInv' /\ NothingLost
<1>. SUFFICES ASSUME SafeInv, [Next]_vars PROVE SafeInv' /\ NothingLost
  OBVIOUS
<1>1. CASE StartApply
  BY <1>1, StartApplySafe
<1>2. CASE InstallAgain
  BY <1>2, InstallAgainSafe
<1>3. CASE Backup
  BY <1>3, BackupSafe
<1>4. CASE CopyDone
  BY <1>4, CopyDoneSafe
<1>5. CASE Migrate
  BY <1>5, MigrateSafe
<1>6. CASE IntendRestart
  BY <1>6, IntendRestartSafe
<1>7. CASE RestartPanel
  BY <1>7, RestartPanelSafe
<1>8. CASE IntendRender
  BY <1>8, IntendRenderSafe
<1>9. CASE Render
  BY <1>9, RenderSafe
<1>10. CASE FinishApply
  BY <1>10, FinishApplySafe
<1>11. CASE ApplyFails
  BY <1>11, ApplyFailsSafe
<1>12. CASE UndoRun
  BY <1>12, UndoRunSafe
<1>13. CASE DropTables
  BY <1>13, DropTablesSafe
<1>14. CASE RunRestored
  BY <1>14, RunRestoredSafe
<1>15. CASE SkipPanel
  BY <1>15, SkipPanelSafe
<1>16. CASE PanelBack
  BY <1>16, PanelBackSafe
<1>17. CASE NotePanel
  BY <1>17, NotePanelSafe
<1>18. CASE SkipRerender
  BY <1>18, SkipRerenderSafe
<1>19. CASE StartRerender
  BY <1>19, StartRerenderSafe
<1>20. CASE Rerender
  BY <1>20, RerenderSafe
<1>21. CASE NoteEdges
  BY <1>21, NoteEdgesSafe
<1>22. CASE SkipRouter
  BY <1>22, SkipRouterSafe
<1>23. CASE ResumeRouter
  BY <1>23, ResumeRouterSafe
<1>24. CASE KeepRouter
  BY <1>24, KeepRouterSafe
<1>25. CASE PutRouterBack
  BY <1>25, PutRouterBackSafe
<1>26. CASE RestartRouter
  BY <1>26, RestartRouterSafe
<1>27. CASE NoteRouter
  BY <1>27, NoteRouterSafe
<1>28. CASE Verified
  BY <1>28, VerifiedSafe
<1>29. CASE CloseRun
  BY <1>29, CloseRunSafe
<1>30. CASE RollbackFails
  BY <1>30, RollbackFailsSafe
<1>31. CASE Kill
  BY <1>31, KillSafe
<1>32. CASE Reboot
  BY <1>32, RebootSafe
<1>33. CASE Repair
  BY <1>33, RepairSafe
<1>34. ASSUME NEW p \in Parts, SkipFile(p) PROVE SafeInv' /\ NothingLost
  BY <1>34, SkipFileSafe
<1>35. ASSUME NEW p \in Parts, Intend(p) PROVE SafeInv' /\ NothingLost
  BY <1>35, IntendSafe
<1>36. ASSUME NEW p \in Parts, Replace(p) PROVE SafeInv' /\ NothingLost
  BY <1>36, ReplaceSafe
<1>37. ASSUME NEW p \in Parts, KeepDiverged(p) PROVE SafeInv' /\ NothingLost
  BY <1>37, KeepDivergedSafe
<1>38. ASSUME NEW p \in Parts, RestoreFile(p) PROVE SafeInv' /\ NothingLost
  BY <1>38, RestoreFileSafe
<1>39. ASSUME NEW p \in Parts, AlreadyBack(p) PROVE SafeInv' /\ NothingLost
  BY <1>39, AlreadyBackSafe
<1>40. ASSUME NEW p \in Parts, UpdatePanel(p) PROVE SafeInv' /\ NothingLost
  BY <1>40, UpdatePanelSafe
<1>41. ASSUME NEW p \in Edges, IntendReload(p) PROVE SafeInv' /\ NothingLost
  BY <1>41, IntendReloadSafe
<1>42. ASSUME NEW p \in Edges, Reload(p) PROVE SafeInv' /\ NothingLost
  BY <1>42, ReloadSafe
<1>43. ASSUME NEW p \in Edges, EdgeBack(p) PROVE SafeInv' /\ NothingLost
  BY <1>43, EdgeBackSafe
<1>44. ASSUME NEW p \in Parts, NEW e \in EditIds, EditFile(p, e) PROVE SafeInv' /\ NothingLost
  BY <1>44, EditFileSafe
<1>45. ASSUME NEW v \in {"layer", "foreign", "missing"}, RoutesApplied(v) PROVE SafeInv' /\ NothingLost
  BY <1>45, RoutesAppliedSafe
<1>46. CASE RollbackAll
  BY <1>46, RollbackSafe DEF RollbackAll, NotRolledBack
<1>47. CASE RollbackOne
  <2>1. PICK r \in Runs : StartRollback({r})
    BY <1>47 DEF RollbackOne, NotRolledBack
  <2>. QED  BY <2>1, RollbackSafe
<1>48. CASE UNCHANGED vars
  <2>1. TypeOK' /\ JobInv'
    BY <1>48, SafeFacts DEF vars, host, TypeOK, JobInv, Runs
  <2>2. KeepInv' /\ NothingLost
    BY <1>48, KeepFrame DEF vars, host, SameBackups
  <2>. QED  BY <2>1, <2>2 DEF SafeInv
<1>. QED
  BY <1>1, <1>2, <1>3, <1>4, <1>5, <1>6, <1>7, <1>8, <1>9, <1>10, <1>11, <1>12, <1>13, <1>14,
     <1>15, <1>16, <1>17, <1>18, <1>19, <1>20, <1>21, <1>22, <1>23, <1>24, <1>25, <1>26,
     <1>27, <1>28, <1>29, <1>30, <1>31, <1>32, <1>33, <1>34, <1>35, <1>36, <1>37, <1>38,
     <1>39, <1>40, <1>41, <1>42, <1>43, <1>44, <1>45, <1>46, <1>47, <1>48
     DEF Next, Step

(* The invariant of the installer, whichever runs are named in a rollback  *)
(* and however often it, or an apply, fails or is killed.                  *)
THEOREM SafeInvariant == Spec => []SafeInv
<1>1. SafeInv /\ [Next]_vars => SafeInv'
  BY SafeHolds
<1>. QED  BY InitSafe, <1>1, PTL DEF Spec

(* The host, STATE.json and the installer keep their types.                *)
THEOREM InstallerTypeCorrect == Spec => []TypeOK
<1>1. SafeInv => TypeOK
  BY DEF SafeInv
<1>. QED  BY <1>1, SafeInvariant, PTL

(* For any number of edits, updates and runs, at any step of an apply or a *)
(* rollback: the latest edit of a file stays where it was made, in a run's *)
(* backups or where keep_diverged copies it to, but for the moment between *)
(* copying a file and replacing it, and a second copy to the same place.   *)
THEOREM NoEditIsLost == Spec => NothingThrownAway
<1>1. SafeInv /\ [Next]_vars
        => [\A p \in Parts : Kept(p) => Kept(p)' \/ Overtaken(p) \/ CopiedOver(p)]_vars
  BY SafeHolds DEF NothingLost
<1>. QED  BY <1>1, SafeInvariant, PTL DEF Spec, NothingThrownAway

-----------------------------------------------------------------------------
(* Everything above holds whatever happens.  What follows is about a host  *)
(* on which nobody updates the panel and nobody names a run that is rolled *)
(* back already: then the last run is the only one that may be open.       *)
Cur   == runs[count]
Alive == count # 0 /\ ~Cur.closed

LastOnly == \A r \in RunIds : r < count => runs[r].closed

WhoWorks ==
  /\ pc = "idle" => job = NoJob
  /\ pc \in Applying =>
       Alive /\ job.run = count /\ ~Cur.undoing /\ ~Cur.finished /\ Cur.done = {}
  /\ pc \in {"undo"} \cup Undoing \cup Late =>
       Alive /\ job.chosen = {count} /\ job.first = count
  /\ pc = "undo" => job.queue = {count} /\ job.flags = {}
  /\ pc \in Undoing => job.run = count /\ job.flags = {}
  /\ pc \in Undoing \cup Late => job.queue = {} /\ Cur.undoing
  /\ pc \in Late => job.flags = Cur.did
  /\ count # 0 /\ Cur.done # {} => Cur.undoing

(* Only originals, the new version and edits that were made are about.     *)
Known ==
  /\ "base" \notin edited
  /\ \A p \in Parts : files[p] \in {Original(p), "new"} \cup edited
  /\ \A p \in Edges : rendered[p] \in {Original(p), "new"} \cup edited
  /\ \A p \in Parts : running[p] \in {Original(p), "new", "down"} \cup edited
  /\ count # 0 => \A p \in Parts : Cur.saved[p] \in {Original(p), NoCopy} \cup edited

(* The files.  A new one has a backup in the last run; one that apply has  *)
(* replaced may have been edited since.                                    *)
Installed(p) == files[p] \in {"new"} \cup edited /\ Cur.saved[p] # NoCopy

FilesInv ==
  /\ \A p \in Parts : files[p] = "new" => Alive /\ Cur.saved[p] # NoCopy
  /\ pc = "copy" => \A p \in Parts : p \notin job.todo => Installed(p)
  /\ pc = "replace" => \E p \in Parts : /\ job.changed = {p} /\ Cur.saved[p] # NoCopy
                                        /\ \A q \in Parts : q \notin job.todo /\ q # p => Installed(q)
  /\ pc \in Tabled \cup {"migrate"} => \A p \in Parts : Installed(p)
  /\ pc = "restore" => \A p \in Parts : p \notin job.todo => files[p] # "new"
  /\ pc = "restoring" => \E p \in Parts : /\ job.changed = {p}
                                          /\ \A q \in Parts : q \notin job.todo /\ q # p => files[q] # "new"
  /\ pc \in Late => \A p \in Parts : files[p] # "new"
  /\ Alive /\ Cur.done # {} => \A p \in Parts : files[p] # "new"
  /\ Alive /\ Cur.finished /\ ~Cur.undoing => \A p \in Parts : files[p] \in {"new"} \cup edited

TablesInv ==
  /\ tables # "none" => Alive /\ Cur.created
  /\ pc \in {"dump", "copy", "replace", "restore", "restoring"} \cup Late => tables = "none"
  /\ pc = "migrate" => Cur.created
  /\ pc \in Tabled => tables = "all"
  /\ Alive /\ Cur.finished /\ ~Cur.undoing => tables = "all"

(* The rendered configurations.  That all of them are new is said of a     *)
(* host on which nobody has edited a template.                             *)
RenderInv ==
  /\ \A p \in Edges : rendered[p] = "new" => Alive /\ "rendered" \in Cur.did
  /\ count # 0 => \A p \in Edges : p \in Cur.did => "rendered" \in Cur.did
  /\ pc \in {"rendering", "reload", "reloading"} => "rendered" \in Cur.did
  /\ pc \in Applying \ {"reload", "reloading"} => \A p \in Edges : rendered[p] # "new"
  /\ pc \in {"reload", "reloading"} /\ edited = {} => \A p \in Edges : rendered[p] = "new"
  /\ pc \in {"rerendering", "edges"} => "started" \in Cur.done
  /\ pc \in {"edges"} \cup Rendered => \A p \in Edges : rendered[p] # "new"
  /\ Alive /\ "render" \in Cur.done => \A p \in Edges : rendered[p] # "new"
  /\ Alive /\ Cur.finished /\ ~Cur.undoing /\ edited = {} => \A p \in Edges : rendered[p] = "new"

(* The processes.  A restart of the host loads what it finds: what is said *)
(* of a new version that runs is said of the time before one.              *)
DownInv ==
  /\ \A p \in Parts : running[p] = "down" => Alive /\ p \in Cur.did
  /\ pc = "restarting" => Panel \in Cur.did
  /\ pc \in {"reload", "reloading"} => job.todo \subseteq Edges
  /\ pc = "reloading" => \E p \in Edges : job.changed = {p} /\ p \in Cur.did
  /\ pc = "edges" => job.changed \subseteq Edges \cap Cur.did
  /\ pc = "close" => \A p \in Parts : running[p] # "down"

NewRuns(p) == NoReboot /\ running[p] = "new"

RunInv ==
  /\ \A p \in Parts : NewRuns(p) => Alive /\ p \in Cur.did
  /\ pc \in {"render", "rendering", "reload", "reloading"} /\ edited = {} => running[Panel] = "new"
  /\ pc = "reload" /\ edited = {} => \A p \in Edges : p \notin job.todo => running[p] = "new"
  /\ pc = "reloading" /\ edited = {} =>
       \A p \in Edges : p \notin job.todo \cup job.changed => running[p] = "new"
  /\ pc \in Served => ~NewRuns(Panel)
  /\ Alive /\ "panel" \in Cur.done => ~NewRuns(Panel)
  /\ \A p \in Edges : NewRuns(p) /\ rendered[p] # "new" => "started" \in Cur.done
  /\ pc = "rerendering" /\ ~job.retry => \A p \in Edges : NewRuns(p) => rendered[p] = "new"
  /\ pc = "edges" => \A p \in Edges : p \notin job.changed => ~NewRuns(p)
  /\ pc \in Rendered => \A p \in Edges : ~NewRuns(p)
  /\ Alive /\ "render" \in Cur.done => \A p \in Edges : ~NewRuns(p)
  /\ Alive /\ Cur.finished /\ ~Cur.undoing /\ NoReboot /\ edited = {} =>
       \A p \in Parts : running[p] = "new"

Inv ==
  SafeInv /\ LastOnly /\ WhoWorks /\ Known /\ FilesInv /\ TablesInv /\ RenderInv /\ DownInv /\ RunInv

LEMMA CurType ==
  ASSUME TypeOK, count # 0
  PROVE  count \in RunIds /\ Cur \in StateJson
<1>1. count \in 0 .. MaxRuns /\ MaxRuns \in Nat /\ runs \in [RunIds -> StateJson]
  BY InstallerAssumption DEF TypeOK
<1>2. count \in RunIds
  BY <1>1 DEF RunIds
<1>. QED  BY <1>1, <1>2 DEF Cur

(* An apply works for the last run, which nobody has begun to undo.        *)
LEMMA ApplyingFacts ==
  ASSUME TypeOK, WhoWorks, pc \in Applying
  PROVE  /\ Alive /\ count # 0 /\ count \in RunIds /\ Cur \in StateJson /\ job.run = count
         /\ ~Cur.undoing /\ ~Cur.finished /\ Cur.done = {}
<1>1. Alive /\ job.run = count /\ ~Cur.undoing /\ ~Cur.finished /\ Cur.done = {}
  BY DEF WhoWorks
<1>2. count # 0
  BY <1>1 DEF Alive
<1>. QED  BY <1>1, <1>2, CurType

(* So does a rollback, first with the run's own work ...                   *)
LEMMA UndoFacts ==
  ASSUME TypeOK, WhoWorks, pc \in Undoing
  PROVE  /\ Alive /\ count # 0 /\ count \in RunIds /\ Cur \in StateJson
         /\ job.run = count /\ job.first = count /\ job.chosen = {count} /\ job.queue = {}
         /\ job.flags = {} /\ Cur.undoing
<1>1. /\ Alive /\ job.run = count /\ job.first = count /\ job.chosen = {count} /\ job.queue = {}
      /\ job.flags = {} /\ Cur.undoing
  BY DEF WhoWorks, Undoing
<1>2. count # 0
  BY <1>1 DEF Alive
<1>. QED  BY <1>1, <1>2, CurType

(* ... and then with the services.                                         *)
LEMMA LateFacts ==
  ASSUME TypeOK, WhoWorks, pc \in Late
  PROVE  /\ Alive /\ count # 0 /\ count \in RunIds /\ Cur \in StateJson
         /\ job.first = count /\ job.chosen = {count} /\ job.queue = {}
         /\ job.flags = Cur.did /\ Cur.undoing
<1>1. /\ Alive /\ job.first = count /\ job.chosen = {count} /\ job.queue = {}
      /\ job.flags = Cur.did /\ Cur.undoing
  BY DEF WhoWorks
<1>2. count # 0
  BY <1>1 DEF Alive
<1>. QED  BY <1>1, <1>2, CurType

(* What is saved is never the new version.                                 *)
LEMMA SavedIsOld ==
  ASSUME TypeOK, Known
  PROVE  /\ "new" \notin edited /\ "down" \notin edited
         /\ \A p \in Parts : Original(p) # "new" /\ Original(p) # "down"
         /\ count # 0 => \A p \in Parts : Cur.saved[p] # NoCopy => Cur.saved[p] # "new"
<1>1. "new" \notin edited /\ "down" \notin edited
  BY InstallerAssumption DEF TypeOK
<1>2. \A p \in Parts : Original(p) # "new" /\ Original(p) # "down"
  BY DEF Original
<1>. QED  BY <1>1, <1>2 DEF Known

LEMMA JobRetried ==
  ASSUME job \in Jobs, job' = [job EXCEPT !.retry = ("started" \in Cur.done)]
  PROVE  job' \in Jobs /\ (job'.retry <=> "started" \in Cur.done)
<1>1. ("started" \in Cur.done) \in BOOLEAN
  OBVIOUS
<1>2. job' \in Jobs
  BY <1>1, Zenon DEF Jobs
<1>3. job'.retry = ("started" \in Cur.done)
  BY Zenon DEF Jobs
<1>. QED  BY <1>2, <1>3, Zenon

(* What a step that writes STATE.json of the last run leaves.              *)
LEMMA RunUpdated ==
  ASSUME runs \in [RunIds -> StateJson], count \in RunIds, NEW rec \in StateJson,
         runs' = [runs EXCEPT ![count] = rec], count' = count
  PROVE  /\ runs' \in [RunIds -> StateJson] /\ Cur' = rec
         /\ \A r \in RunIds : r < count => runs'[r] = runs[r]
<1>1. count \in Nat
  BY InstallerAssumption DEF RunIds
<1>. QED  BY <1>1 DEF Cur, RunIds

(* What every step starts from.                                            *)
LEMMA InvFacts ==
  ASSUME Inv
  PROVE  /\ TypeOK /\ KeepInv /\ LastOnly /\ WhoWorks /\ Known /\ FilesInv
         /\ TablesInv /\ RenderInv /\ DownInv /\ RunInv
         /\ files \in [Parts -> Contents] /\ rendered \in [Edges -> Contents]
         /\ running \in [Parts -> Contents] /\ runs \in [RunIds -> StateJson] /\ job \in Jobs
         /\ Panel \in Parts /\ Edges \subseteq Parts /\ Panel \notin Edges
         /\ NoJob \in Jobs /\ MaxRuns \in Nat
  BY HostType, PartsType, NoJobType DEF Inv, SafeInv

(* Only the last run can be chosen.                                        *)
LEMMA NotRolledBackIsLast ==
  ASSUME TypeOK, LastOnly
  PROVE  NotRolledBack = IF Alive THEN {count} ELSE {}
<1>1. count \in 0 .. MaxRuns /\ MaxRuns \in Nat
  BY InstallerAssumption DEF TypeOK
<1>2. \A r \in 1 .. count : r \in RunIds /\ (r = count \/ r < count)
  BY <1>1 DEF RunIds
<1>3. \A r \in 1 .. count : ~runs[r].closed => r = count
  BY <1>2 DEF LastOnly
<1>4. count # 0 => count \in 1 .. count
  BY <1>1
<1>. QED  BY <1>3, <1>4, <1>1 DEF NotRolledBack, Runs, Alive, Cur

(* A run begins on a host without a run on record: everything is original. *)
LEMMA StartApplyKeeps ==
  ASSUME Inv, StartApply
  PROVE  Inv'
<1>a. /\ OpenRuns = {} /\ tables # "some" /\ pc = "idle" /\ pc' = "dump"
      /\ \A p \in Parts : running[p] # "down" /\ files[p] \in {Original(p), "new"}
      /\ \E p \in Parts : files[p] # "new"
  BY DEF StartApply, Ready
<1>n. count \in Nat /\ count + 1 \in RunIds /\ (count # 0 => count \in RunIds) /\ count + 1 # count
  BY InvFacts, InstallerAssumption DEF StartApply, TypeOK, RunIds
<1>b. ~Alive
  <2>1. SUFFICES ASSUME Alive PROVE FALSE
    OBVIOUS
  <2>2. count \in Runs /\ count # 0 /\ ~Cur.closed
    BY <2>1, <1>n DEF Alive, Runs, RunIds
  <2>3. Cur.finished /\ ~Cur.undoing
    BY <2>2, <1>a DEF OpenRuns, IsOpen, Cur
  <2>4. \A p \in Parts : files[p] \in {"new"} \cup edited
    BY <2>1, <2>3, InvFacts DEF FilesInv
  <2>5. \A p \in Parts : Original(p) \notin edited
    BY InvFacts, InstallerAssumption DEF TypeOK, Original, Known
  <2>. QED  BY <2>4, <2>5, <1>a
<1>c. /\ tables = "none" /\ \A p \in Parts : files[p] # "new" /\ ~NewRuns(p)
      /\ \A p \in Edges : rendered[p] # "new"
  BY <1>b, InvFacts DEF TablesInv, FilesInv, RunInv, RenderInv
<1>s. /\ count' = count + 1 /\ UNCHANGED <<host, copies, edited, latest, budget>>
      /\ runs' = [runs EXCEPT ![count + 1] = NoRun]
      /\ job' = [NoJob EXCEPT !.run = count + 1, !.todo = Parts]
  BY DEF StartApply
<1>e. NoRun \in StateJson
  BY NoRunType
<1>r. /\ runs' \in [RunIds -> StateJson] /\ Cur' = NoRun
      /\ \A r \in RunIds : r # count + 1 => runs'[r] = runs[r]
  BY <1>s, <1>e, <1>n, InvFacts DEF Cur
<1>f. /\ Cur'.saved = [p \in Parts |-> NoCopy] /\ ~Cur'.created /\ Cur'.did = {}
      /\ ~Cur'.finished /\ ~Cur'.undoing /\ ~Cur'.closed /\ Cur'.done = {} /\ ~Cur'.pending
  BY <1>r, InvFacts DEF NoRun
<1>l. \A r \in RunIds : r < count' => runs'[r].closed
  BY <1>r, <1>s, <1>n, <1>b, InvFacts DEF LastOnly, Alive, Cur, RunIds
<1>k. job' = [run |-> count + 1, todo |-> Parts, queue |-> {}, chosen |-> {}, first |-> 0,
              flags |-> {}, retry |-> FALSE, changed |-> {}, seen |-> NoCopy, byHand |-> FALSE]
  BY <1>s DEF NoJob
<1>j. job' \in Jobs /\ job'.run = count + 1 /\ job'.todo = Parts
  BY <1>k, <1>n, InvFacts DEF Jobs, RunIds, Copies
<1>h. Alive' /\ count' \in RunIds /\ count' # 0 /\ count' \in 0 .. MaxRuns
  BY <1>f, <1>s, <1>n DEF Alive, RunIds
<1>1. SafeInv'
  BY StartApplySafe DEF Inv
<1>2. /\ (LastOnly /\ WhoWorks /\ Known /\ FilesInv /\ TablesInv)'
      /\ (RenderInv /\ DownInv /\ RunInv)'
  BY InvFacts, <1>a, <1>n, <1>b, <1>c, <1>s, <1>e, <1>r, <1>f, <1>l, <1>k, <1>j, <1>h,
     InstallerAssumption, SMTT(15)
     DEF host, LastOnly, WhoWorks, Late, Served, Rendered, Applying, Known, Original,
         FilesInv, Installed, Undoing, Tabled, TablesInv, RenderInv, DownInv, RunInv,
         NoReboot, NewRuns
<1>. QED  BY <1>1, <1>2 DEF Inv

(* Everything is installed, and so are the tables.                         *)
LEMMA InstallAgainKeeps ==
  ASSUME Inv, InstallAgain
  PROVE  Inv'
<1>a. Alive /\ count # 0 /\ count \in 1 .. count
  BY InvFacts, CurType, InstallerAssumption DEF InstallAgain, FilesInv, Installed, Undoing, Alive, RunIds
<1>b. Cur.finished /\ ~Cur.undoing
  BY <1>a DEF InstallAgain, Ready, OpenRuns, IsOpen, Runs, Cur, Alive
<1>c. tables = "all" /\ tables' = tables
  BY InvFacts, <1>a, <1>b DEF InstallAgain, TablesInv
<1>1. SafeInv'
  BY InstallAgainSafe DEF Inv
<1>2. /\ (LastOnly /\ WhoWorks /\ Known /\ FilesInv /\ TablesInv)'
      /\ (RenderInv /\ DownInv /\ RunInv)'
  BY InvFacts, <1>a, <1>b, <1>c, InstallerAssumption, SMTT(15)
     DEF InstallAgain, Ready, OpenRuns, IsOpen, Runs, LastOnly, WhoWorks, Cur, Alive, Late,
         Served, Rendered, Applying, Known, Original, FilesInv, Installed, Undoing, Tabled,
         TablesInv, RenderInv, DownInv, RunInv, NoReboot, NewRuns
<1>. QED  BY <1>1, <1>2 DEF Inv

(* The router's configuration is copied.                                   *)
LEMMA BackupKeeps ==
  ASSUME Inv, Backup
  PROVE  Inv'
<1>w. /\ Alive /\ count # 0 /\ count \in RunIds /\ Cur \in StateJson /\ job.run = count
      /\ ~Cur.undoing /\ ~Cur.finished /\ Cur.done = {}
  BY InvFacts, ApplyingFacts DEF Backup, Applying
<1>s. /\ pc = "dump" /\ pc' = "copy" /\ job.todo = Parts /\ router \in Routers
      /\ UNCHANGED <<host, count, job, copies, edited, latest, budget>>
  BY InvFacts DEF Backup, KeepInv, TypeOK
<1>e. runs' = [runs EXCEPT ![count] = [Cur EXCEPT !.snap = router]] /\ count' = count
  BY <1>w, InvFacts, SMTT(15) DEF Backup, host, Cur
<1>f. [Cur EXCEPT !.snap = router] \in StateJson
  BY <1>w, <1>s, Zenon DEF StateJson
<1>r. /\ runs' \in [RunIds -> StateJson] /\ count' = count
      /\ Cur' = [Cur EXCEPT !.snap = router] /\ Cur' \in StateJson
      /\ \A r \in RunIds : r < count => runs'[r] = runs[r]
  BY <1>w, InvFacts, <1>e, <1>f, RunUpdated
<1>h. /\ Cur'.saved = Cur.saved /\ Cur'.created = Cur.created /\ Cur'.did = Cur.did
      /\ Cur'.finished = Cur.finished /\ Cur'.undoing = Cur.undoing /\ Cur'.closed = Cur.closed
      /\ Cur'.done = Cur.done
  BY <1>r, <1>w, Zenon DEF StateJson
<1>1. SafeInv'
  BY BackupSafe DEF Inv
<1>2. /\ (LastOnly /\ WhoWorks /\ Known /\ FilesInv /\ TablesInv)'
      /\ (RenderInv /\ DownInv /\ RunInv)'
  BY InvFacts, <1>w, <1>s, <1>r, <1>h, InstallerAssumption, SMTT(15)
     DEF host, LastOnly, WhoWorks, Alive, Late, Served, Rendered, Applying, Undoing, Known,
         Original, FilesInv, Installed, Tabled, TablesInv, RenderInv, DownInv, RunInv,
         NoReboot, NewRuns
<1>. QED  BY <1>1, <1>2 DEF Inv

(* No file is new before the run has replaced it.                          *)
LEMMA SkipFileKeeps ==
  ASSUME Inv, NEW p \in Parts, SkipFile(p)
  PROVE  Inv'
<1>w. /\ Alive /\ count # 0 /\ count \in RunIds /\ Cur \in StateJson /\ job.run = count
      /\ ~Cur.undoing /\ ~Cur.finished /\ Cur.done = {}
  BY InvFacts, ApplyingFacts DEF SkipFile, Applying
<1>. QED  BY <1>w, InvFacts DEF SkipFile, KeepInv, FilesInv, Cur

(* The backup is on record before the file is replaced.                    *)
LEMMA IntendKeeps ==
  ASSUME Inv, NEW p \in Parts, Intend(p)
  PROVE  Inv'
<1>w. /\ Alive /\ count # 0 /\ count \in RunIds /\ Cur \in StateJson /\ job.run = count
      /\ ~Cur.undoing /\ ~Cur.finished /\ Cur.done = {}
  BY InvFacts, ApplyingFacts DEF Intend, Applying
<1>s. /\ pc = "copy" /\ pc' = "replace" /\ p \in job.todo /\ files[p] # "new"
      /\ UNCHANGED <<host, count, copies, edited, latest, budget>>
      /\ runs' = [runs EXCEPT ![count].saved[p] = files[p]]
      /\ job' = [job EXCEPT !.todo = @ \ {p}, !.changed = {p}, !.seen = files[p]]
  BY <1>w DEF Intend
<1>c. Cur.saved \in [Parts -> Copies] /\ files[p] \in Copies /\ files[p] # NoCopy
  BY <1>w, InvFacts, InstallerAssumption DEF StateJson, Copies
<1>e. runs' = [runs EXCEPT ![count] = [Cur EXCEPT !.saved = [Cur.saved EXCEPT ![p] = files[p]]]]
  BY <1>w, InvFacts, <1>s DEF Cur
<1>f. [Cur EXCEPT !.saved = [Cur.saved EXCEPT ![p] = files[p]]] \in StateJson
  <2>1. [Cur.saved EXCEPT ![p] = files[p]] \in [Parts -> Copies]
    BY <1>c
  <2>. QED  BY <2>1, <1>w DEF StateJson
<1>r. /\ runs' \in [RunIds -> StateJson] /\ count' = count
      /\ Cur' = [Cur EXCEPT !.saved = [Cur.saved EXCEPT ![p] = files[p]]] /\ Cur' \in StateJson
      /\ \A r \in RunIds : r < count => runs'[r] = runs[r]
  BY <1>w, InvFacts, <1>s, <1>e, <1>f, RunUpdated
<1>g. /\ Cur'.saved \in [Parts -> Copies] /\ Cur'.saved[p] = files[p]
      /\ \A q \in Parts : q # p => Cur'.saved[q] = Cur.saved[q]
  BY <1>r, <1>w, <1>c DEF StateJson
<1>h. /\ Cur'.created = Cur.created /\ Cur'.did = Cur.did /\ Cur'.finished = Cur.finished
      /\ Cur'.undoing = Cur.undoing /\ Cur'.closed = Cur.closed /\ Cur'.done = Cur.done
  BY <1>r, <1>w, Zenon DEF StateJson
<1>j. job' \in Jobs /\ job'.changed = {p} /\ job'.todo = job.todo \ {p} /\ job'.run = job.run
  BY <1>s, <1>c, InvFacts DEF Jobs
<1>k. \A q \in Parts : q \notin job'.todo /\ q # p => Installed(q)
  BY <1>s, <1>j, InvFacts DEF FilesInv
<1>1. SafeInv'
  BY IntendSafe DEF Inv
<1>2. /\ (LastOnly /\ WhoWorks /\ Known /\ FilesInv /\ TablesInv)'
      /\ (RenderInv /\ DownInv /\ RunInv)'
  BY InvFacts, <1>w, <1>s, <1>c, <1>e, <1>f, <1>r, <1>g, <1>h, <1>j, <1>k, InstallerAssumption,
     SMTT(15)
     DEF host, LastOnly, WhoWorks, Alive, Late, Served, Rendered, Applying, Known, Original,
         FilesInv, Installed, Undoing, Tabled, TablesInv, RenderInv, DownInv, RunInv,
         NoReboot, NewRuns
<1>. QED  BY <1>1, <1>2 DEF Inv

(* The file that becomes new is the one whose backup is on record.         *)
LEMMA ReplaceKeeps ==
  ASSUME Inv, NEW p \in Parts, Replace(p)
  PROVE  Inv'
<1>w. /\ Alive /\ count # 0 /\ count \in RunIds /\ Cur \in StateJson /\ job.run = count
      /\ ~Cur.undoing /\ ~Cur.finished /\ Cur.done = {}
  BY InvFacts, ApplyingFacts DEF Replace, Applying
<1>s. /\ pc = "replace" /\ pc' = "copy" /\ job.changed = {p}
      /\ UNCHANGED <<rendered, running, tables, router, routerRuns, runs, count, job, copies, edited, latest, budget>>
  BY DEF Replace
<1>a. Cur.saved[p] # NoCopy /\ \A q \in Parts : q \notin job.todo /\ q # p => Installed(q)
  BY <1>s, InvFacts DEF FilesInv
<1>d. /\ files' \in [Parts -> Contents] /\ files'[p] = "new"
      /\ \A q \in Parts : q # p => files'[q] = files[q]
  BY InvFacts DEF Replace, Contents
<1>1. SafeInv'
  BY ReplaceSafe DEF Inv
<1>2. /\ (LastOnly /\ WhoWorks /\ Known /\ FilesInv /\ TablesInv)'
      /\ (RenderInv /\ DownInv /\ RunInv)'
  BY InvFacts, <1>w, <1>s, <1>a, <1>d, InstallerAssumption, SMTT(15)
     DEF LastOnly, WhoWorks, Cur, Alive, Late, Served, Rendered, Applying, Undoing, Known,
         Original, FilesInv, Installed, Tabled, TablesInv, RenderInv, DownInv, RunInv,
         NoReboot, NewRuns
<1>. QED  BY <1>1, <1>2 DEF Inv

(* The tables will be this run's, because there are none.                  *)
LEMMA CopyDoneKeeps ==
  ASSUME Inv, CopyDone
  PROVE  Inv'
<1>w. /\ Alive /\ count # 0 /\ count \in RunIds /\ Cur \in StateJson /\ job.run = count
      /\ ~Cur.undoing /\ ~Cur.finished /\ Cur.done = {}
  BY InvFacts, ApplyingFacts DEF CopyDone, Applying
<1>a. tables = "none"
  BY InvFacts DEF CopyDone, TablesInv
<1>e. runs' = [runs EXCEPT ![count] = [Cur EXCEPT !.created = (tables = "none")]] /\ count' = count
  BY <1>w, InvFacts, <1>a, SMTT(15) DEF CopyDone, host, Cur
<1>f. [Cur EXCEPT !.created = (tables = "none")] \in StateJson
  BY <1>w, InvFacts, Zenon DEF StateJson, Steps
<1>r. /\ runs' \in [RunIds -> StateJson] /\ count' = count
      /\ Cur' = [Cur EXCEPT !.created = (tables = "none")] /\ Cur' \in StateJson
      /\ \A r \in RunIds : r < count => runs'[r] = runs[r]
  BY <1>w, InvFacts, <1>e, <1>f, RunUpdated
<1>1. SafeInv'
  BY CopyDoneSafe DEF Inv
<1>2. TablesInv'
  <2>1. Cur'.created
    BY <1>r, <1>a, <1>w DEF StateJson
  <2>. QED  BY <2>1, <1>a, <1>r, <1>w, InvFacts DEF CopyDone, host, TablesInv, Alive, Late, Served, Rendered, Tabled
<1>3. /\ (LastOnly /\ WhoWorks /\ Known /\ FilesInv /\ RenderInv)'
      /\ (DownInv /\ RunInv)'
  BY InvFacts, <1>w, <1>a, <1>r, InstallerAssumption, SMTT(15)
     DEF CopyDone, host, LastOnly, WhoWorks, Cur, Alive, Late, Served, Rendered, Applying,
         Known, Original, FilesInv, Installed, Undoing, Tabled, RenderInv, DownInv, RunInv,
         NoReboot, NewRuns
<1>. QED  BY <1>1, <1>2, <1>3 DEF Inv

(* Whatever tables appear are on record.                                   *)
LEMMA MigrateKeeps ==
  ASSUME Inv, Migrate
  PROVE  Inv'
<1>w. /\ Alive /\ count # 0 /\ count \in RunIds /\ Cur \in StateJson /\ job.run = count
      /\ ~Cur.undoing /\ ~Cur.finished /\ Cur.done = {}
  BY InvFacts, ApplyingFacts DEF Migrate, Applying
<1>1. SafeInv'
  BY MigrateSafe DEF Inv
<1>2. /\ (LastOnly /\ WhoWorks /\ Known /\ FilesInv /\ TablesInv)'
      /\ (RenderInv /\ DownInv /\ RunInv)'
  BY InvFacts, <1>w, InstallerAssumption, SMTT(15)
     DEF Migrate, LastOnly, WhoWorks, Cur, Alive, Late, Served, Rendered, Applying, Known,
         Original, FilesInv, Installed, Undoing, Tabled, TablesInv, RenderInv, DownInv,
         RunInv, NoReboot, NewRuns
<1>. QED  BY <1>1, <1>2 DEF Inv

(* The panel's restart is on record before it happens.                     *)
LEMMA IntendRestartKeeps ==
  ASSUME Inv, IntendRestart
  PROVE  Inv'
<1>w. /\ Alive /\ count # 0 /\ count \in RunIds /\ Cur \in StateJson /\ job.run = count
      /\ ~Cur.undoing /\ ~Cur.finished /\ Cur.done = {}
  BY InvFacts, ApplyingFacts DEF IntendRestart, Applying
<1>b. Cur.saved[Panel] # NoCopy
  BY InvFacts DEF IntendRestart, FilesInv, Installed, Tabled
<1>s. /\ pc = "restart" /\ pc' = "restarting" /\ UNCHANGED <<host, job, copies, edited, latest, budget, count>>
      /\ runs' = [runs EXCEPT ![job.run].did = @ \cup {Panel}]
  BY <1>b, <1>w DEF IntendRestart, Did, Cur
<1>e. runs' = [runs EXCEPT ![count] = [Cur EXCEPT !.did = Cur.did \cup {Panel}]] /\ count' = count
  BY <1>w, InvFacts, <1>b, <1>s, SMTT(15) DEF Cur
<1>f. [Cur EXCEPT !.did = Cur.did \cup {Panel}] \in StateJson
  BY <1>w, InvFacts, SMTT(15) DEF StateJson, Steps
<1>r. /\ runs' \in [RunIds -> StateJson] /\ count' = count
      /\ Cur' = [Cur EXCEPT !.did = Cur.did \cup {Panel}] /\ Cur' \in StateJson
      /\ \A r \in RunIds : r < count => runs'[r] = runs[r]
  BY <1>w, InvFacts, <1>e, <1>f, RunUpdated
<1>1. SafeInv'
  BY IntendRestartSafe DEF Inv
<1>2. /\ (LastOnly /\ WhoWorks /\ Known /\ FilesInv /\ TablesInv)'
      /\ (RenderInv /\ DownInv /\ RunInv)'
  BY InvFacts, <1>w, <1>b, <1>s, <1>r, InstallerAssumption, SMTT(15)
     DEF host, LastOnly, WhoWorks, Cur, Alive, Late, Served, Rendered, Applying, Known,
         Original, FilesInv, Installed, Undoing, Tabled, TablesInv, RenderInv, DownInv,
         RunInv, NoReboot, NewRuns
<1>. QED  BY <1>1, <1>2 DEF Inv

(* The panel loads new code, on record.                                    *)
LEMMA RestartPanelKeeps ==
  ASSUME Inv, RestartPanel
  PROVE  Inv'
<1>w. /\ Alive /\ count # 0 /\ count \in RunIds /\ Cur \in StateJson /\ job.run = count
      /\ ~Cur.undoing /\ ~Cur.finished /\ Cur.done = {}
  BY InvFacts, ApplyingFacts DEF RestartPanel, Applying
<1>a. \A p \in Parts : files[p] \in {"new"} \cup edited /\ (edited = {} => files[p] = "new")
  BY InvFacts DEF RestartPanel, FilesInv, Installed, Tabled
<1>b. Panel \in Cur.did
  BY InvFacts DEF RestartPanel, DownInv
<1>1. SafeInv'
  BY RestartPanelSafe DEF Inv
<1>2. /\ (LastOnly /\ WhoWorks /\ Known /\ FilesInv /\ TablesInv)'
      /\ (RenderInv /\ DownInv /\ RunInv)'
  BY InvFacts, <1>w, <1>a, <1>b, InstallerAssumption, SMTT(15)
     DEF RestartPanel, LastOnly, WhoWorks, Cur, Alive, Late, Served, Rendered, Applying,
         Known, Original, FilesInv, Installed, Undoing, Tabled, TablesInv, RenderInv, DownInv,
         RunInv, NoReboot, NewRuns
<1>. QED  BY <1>1, <1>2 DEF Inv

(* Rendering is on record before it happens.                               *)
LEMMA IntendRenderKeeps ==
  ASSUME Inv, IntendRender
  PROVE  Inv'
<1>w. /\ Alive /\ count # 0 /\ count \in RunIds /\ Cur \in StateJson /\ job.run = count
      /\ ~Cur.undoing /\ ~Cur.finished /\ Cur.done = {}
  BY InvFacts, ApplyingFacts DEF IntendRender, Applying
<1>e. runs' = [runs EXCEPT ![count] = [Cur EXCEPT !.did = Cur.did \cup {"rendered"}]] /\ count' = count
  BY <1>w, InvFacts, SMTT(15) DEF IntendRender, host, Did, Cur
<1>f. [Cur EXCEPT !.did = Cur.did \cup {"rendered"}] \in StateJson
  BY <1>w, InvFacts, SMTT(15) DEF StateJson, Steps
<1>r. /\ runs' \in [RunIds -> StateJson] /\ count' = count
      /\ Cur' = [Cur EXCEPT !.did = Cur.did \cup {"rendered"}] /\ Cur' \in StateJson
      /\ \A r \in RunIds : r < count => runs'[r] = runs[r]
  BY <1>w, InvFacts, <1>e, <1>f, RunUpdated
<1>1. SafeInv'
  BY IntendRenderSafe DEF Inv
<1>2. /\ (LastOnly /\ WhoWorks /\ Known /\ FilesInv /\ TablesInv)'
      /\ (RenderInv /\ DownInv /\ RunInv)'
  BY InvFacts, <1>w, <1>r, InstallerAssumption, SMTT(15)
     DEF IntendRender, host, Did, LastOnly, WhoWorks, Cur, Alive, Late, Served, Rendered,
         Applying, Known, Original, FilesInv, Installed, Undoing, Tabled, TablesInv,
         RenderInv, DownInv, RunInv, NoReboot, NewRuns
<1>. QED  BY <1>1, <1>2 DEF Inv

(* The configurations become new, on record; what changes is to be loaded. *)
LEMMA RenderKeeps ==
  ASSUME Inv, Render
  PROVE  Inv'
<1>w. /\ Alive /\ count # 0 /\ count \in RunIds /\ Cur \in StateJson /\ job.run = count
      /\ ~Cur.undoing /\ ~Cur.finished /\ Cur.done = {}
  BY InvFacts, ApplyingFacts DEF Render, Applying
<1>a. \A p \in Parts : files[p] \in {"new"} \cup edited /\ (edited = {} => files[p] = "new")
  BY InvFacts DEF Render, FilesInv, Installed, Tabled
<1>b. \A p \in Edges : rendered[p] # "new"
  BY InvFacts DEF Render, RenderInv, Applying
<1>c. Outdated \subseteq Edges /\ (edited = {} => Outdated = Edges)
  BY <1>a, <1>b, InvFacts DEF Outdated
<1>d. /\ rendered' \in [Edges -> Contents] /\ \A p \in Edges : rendered'[p] = files[p]
      /\ edited = {} => \A p \in Edges : rendered'[p] = "new"
  BY <1>a, InvFacts DEF Render
<1>e. /\ job' \in Jobs /\ job'.todo = Outdated /\ job'.changed = {} /\ job'.run = job.run
      /\ pc = "rendering" /\ pc' = "reload"
      /\ UNCHANGED <<files, running, tables, router, routerRuns, runs, count, copies, edited, latest, budget>>
  BY <1>c, InvFacts DEF Render, Jobs
<1>n. \A p \in Edges : ~NewRuns(p)
  BY <1>b, <1>w, InvFacts DEF RunInv
<1>1. SafeInv'
  BY RenderSafe DEF Inv
<1>2. /\ (LastOnly /\ WhoWorks /\ Known /\ FilesInv /\ TablesInv)'
      /\ (RenderInv /\ DownInv /\ RunInv)'
  BY InvFacts, <1>w, <1>a, <1>b, <1>c, <1>d, <1>e, <1>n, InstallerAssumption, SMTT(15)
     DEF LastOnly, WhoWorks, Cur, Alive, Late, Served, Rendered, Applying, Known, Original,
         FilesInv, Installed, Undoing, Tabled, TablesInv, RenderInv, DownInv, RunInv,
         NoReboot, NewRuns
<1>. QED  BY <1>1, <1>2 DEF Inv

(* An edge's reload is on record before it happens.                        *)
LEMMA IntendReloadKeeps ==
  ASSUME Inv, NEW p \in Edges, IntendReload(p)
  PROVE  Inv'
<1>w. /\ Alive /\ count # 0 /\ count \in RunIds /\ Cur \in StateJson /\ job.run = count
      /\ ~Cur.undoing /\ ~Cur.finished /\ Cur.done = {}
  BY InvFacts, ApplyingFacts DEF IntendReload, Applying
<1>g. job' \in Jobs
  BY InvFacts DEF IntendReload, Jobs
<1>e. runs' = [runs EXCEPT ![count] = [Cur EXCEPT !.did = Cur.did \cup {p}]] /\ count' = count
  BY <1>w, InvFacts, <1>g, SMTT(15) DEF IntendReload, host, Did, Cur
<1>f. [Cur EXCEPT !.did = Cur.did \cup {p}] \in StateJson
  BY <1>w, InvFacts, SMTT(15) DEF StateJson, Steps
<1>r. /\ runs' \in [RunIds -> StateJson] /\ count' = count
      /\ Cur' = [Cur EXCEPT !.did = Cur.did \cup {p}] /\ Cur' \in StateJson
      /\ \A r \in RunIds : r < count => runs'[r] = runs[r]
  BY <1>w, InvFacts, <1>e, <1>f, RunUpdated
<1>1. SafeInv'
  BY IntendReloadSafe DEF Inv
<1>2. /\ (LastOnly /\ WhoWorks /\ Known /\ FilesInv /\ TablesInv)'
      /\ (RenderInv /\ DownInv /\ RunInv)'
  BY InvFacts, <1>w, <1>g, <1>r, InstallerAssumption, SMTT(15)
     DEF IntendReload, host, Did, LastOnly, WhoWorks, Cur, Alive, Late, Served, Rendered,
         Applying, Known, Original, FilesInv, Installed, Undoing, Tabled, TablesInv,
         RenderInv, DownInv, RunInv, NoReboot, NewRuns
<1>. QED  BY <1>1, <1>2 DEF Inv

(* The edge loads a new configuration, on record.                          *)
LEMMA ReloadKeeps ==
  ASSUME Inv, NEW p \in Edges, Reload(p)
  PROVE  Inv'
<1>w. /\ Alive /\ count # 0 /\ count \in RunIds /\ Cur \in StateJson /\ job.run = count
      /\ ~Cur.undoing /\ ~Cur.finished /\ Cur.done = {}
  BY InvFacts, ApplyingFacts DEF Reload, Applying
<1>s. /\ pc = "reloading" /\ pc' = "reload" /\ job.changed = {p}
      /\ UNCHANGED <<files, rendered, tables, router, routerRuns, runs, count, job, copies, edited, latest, budget>>
  BY DEF Reload
<1>a. p \in Cur.did /\ p \in Parts /\ p # Panel /\ (edited = {} => rendered[p] = "new")
  BY InvFacts, <1>s DEF DownInv, RenderInv
<1>b. rendered[p] \in {Original(p), "new"} \cup edited /\ rendered[p] # "down"
  BY InvFacts, SavedIsOld, <1>a DEF Known
<1>c. /\ running' \in [Parts -> Contents] /\ running'[p] = rendered[p]
      /\ \A q \in Parts : q # p => running'[q] = running[q]
  BY <1>a, InvFacts DEF Reload, Contents
<1>1. SafeInv'
  BY ReloadSafe DEF Inv
<1>2. /\ (LastOnly /\ WhoWorks /\ Known /\ FilesInv /\ TablesInv)'
      /\ (RenderInv /\ DownInv /\ RunInv)'
  BY InvFacts, <1>w, <1>s, <1>a, <1>b, <1>c, InstallerAssumption, SMTT(15)
     DEF host, LastOnly, WhoWorks, Cur, Alive, Late, Served, Rendered, Applying, Known,
         Original, FilesInv, Installed, Undoing, Tabled, TablesInv, RenderInv, DownInv,
         RunInv, NoReboot, NewRuns
<1>. QED  BY <1>1, <1>2 DEF Inv

(* At the end everything is new.                                           *)
LEMMA FinishApplyKeeps ==
  ASSUME Inv, FinishApply
  PROVE  Inv'
<1>w. /\ Alive /\ count # 0 /\ count \in RunIds /\ Cur \in StateJson /\ job.run = count
      /\ ~Cur.undoing /\ ~Cur.finished /\ Cur.done = {}
  BY InvFacts, ApplyingFacts DEF FinishApply, Applying
<1>e. runs' = [runs EXCEPT ![count] = [Cur EXCEPT !.finished = TRUE]] /\ count' = count
  BY <1>w, InvFacts, SMTT(15) DEF FinishApply, host, NoProblems, Cur
<1>f. [Cur EXCEPT !.finished = TRUE] \in StateJson
  BY <1>w, InvFacts, Zenon DEF StateJson, Steps
<1>r. /\ runs' \in [RunIds -> StateJson] /\ count' = count
      /\ Cur' = [Cur EXCEPT !.finished = TRUE] /\ Cur' \in StateJson
      /\ \A r \in RunIds : r < count => runs'[r] = runs[r]
  BY <1>w, InvFacts, <1>e, <1>f, RunUpdated
<1>1. SafeInv'
  BY FinishApplySafe DEF Inv
<1>2. /\ (LastOnly /\ WhoWorks /\ Known /\ FilesInv /\ TablesInv)'
      /\ (RenderInv /\ DownInv /\ RunInv)'
  BY InvFacts, <1>w, <1>r, InstallerAssumption, SMTT(15)
     DEF FinishApply, host, NoProblems, LastOnly, WhoWorks, Cur, Alive, Late, Served,
         Rendered, Applying, Known, Original, FilesInv, Installed, Undoing, Tabled, TablesInv,
         RenderInv, DownInv, RunInv, NoReboot, NewRuns, Parts
<1>. QED  BY <1>1, <1>2 DEF Inv

(* A copy that is cut short leaves the record but for the copy.            *)
LEMMA HalfCopied ==
  ASSUME Inv, HalfACopy, count' = count
  PROVE  /\ runs' \in [RunIds -> StateJson]
         /\ \A r \in RunIds : /\ runs'[r].saved = runs[r].saved /\ runs'[r].created = runs[r].created
                              /\ runs'[r].did = runs[r].did /\ runs'[r].finished = runs[r].finished
                              /\ runs'[r].undoing = runs[r].undoing
                              /\ runs'[r].closed = runs[r].closed /\ runs'[r].done = runs[r].done
         /\ count # 0 => /\ Cur'.saved = Cur.saved /\ Cur'.created = Cur.created /\ Cur'.did = Cur.did
                         /\ Cur'.finished = Cur.finished /\ Cur'.undoing = Cur.undoing
                         /\ Cur'.closed = Cur.closed /\ Cur'.done = Cur.done
         /\ Alive' <=> Alive
<1>1. CASE runs' = runs
  BY <1>1, InvFacts DEF Cur, Alive
<1>2. CASE pc = "dump" /\ runs' = [runs EXCEPT ![job.run].snap = "torn"]
  <2>1. job.run \in RunIds /\ runs[job.run] \in StateJson
    BY <1>2, InvFacts, ApplyingFacts DEF Applying
  <2>. DEFINE rec == [runs[job.run] EXCEPT !.snap = "torn"]
  <2>2. "torn" \in Routers
    BY DEF Routers
  <2>3. /\ rec \in StateJson /\ rec.saved = runs[job.run].saved /\ rec.created = runs[job.run].created
        /\ rec.did = runs[job.run].did /\ rec.finished = runs[job.run].finished
        /\ rec.undoing = runs[job.run].undoing /\ rec.closed = runs[job.run].closed
        /\ rec.done = runs[job.run].done
    BY <2>1, <2>2, Zenon DEF StateJson
  <2>4. runs' = [runs EXCEPT ![job.run] = rec]
    BY <1>2, <2>1, InvFacts
  <2>. HIDE DEF rec
  <2>5. /\ runs' \in [RunIds -> StateJson]
        /\ \A r \in RunIds : /\ runs'[r].saved = runs[r].saved /\ runs'[r].created = runs[r].created
                             /\ runs'[r].did = runs[r].did /\ runs'[r].finished = runs[r].finished
                             /\ runs'[r].undoing = runs[r].undoing
                             /\ runs'[r].closed = runs[r].closed /\ runs'[r].done = runs[r].done
    BY <2>1, <2>3, <2>4, InvFacts
  <2>6. count # 0 => count \in RunIds
    BY InvFacts, CurType
  <2>. QED  BY <2>5, <2>6 DEF Cur, Alive
<1>. QED  BY <1>1, <1>2 DEF HalfACopy

(* A failure leaves the run open and turns to its rollback.                *)
LEMMA ApplyFailsKeeps ==
  ASSUME Inv, ApplyFails
  PROVE  Inv'
<1>w. /\ Alive /\ count # 0 /\ count \in RunIds /\ Cur \in StateJson /\ job.run = count
      /\ ~Cur.undoing /\ ~Cur.finished /\ Cur.done = {}
  BY InvFacts, ApplyingFacts DEF ApplyFails, Applying
<1>s. /\ pc' = "undo" /\ UNCHANGED <<files, rendered, tables, router, routerRuns, count, copies, edited, latest>>
      /\ job' = [NoJob EXCEPT !.queue = {count}, !.chosen = {count}, !.first = count]
  BY <1>w DEF ApplyFails
<1>a. running' = running \/ \E p \in Parts : p \in Cur.did /\ running' = [running EXCEPT ![p] = "down"]
  BY InvFacts DEF ApplyFails, Down, DownInv
<1>b. budget' \in Budgets /\ (NoReboot' <=> NoReboot)
  BY InvFacts, InstallerAssumption DEF ApplyFails, SpendFault, TypeOK, Budgets, NoReboot
<1>c. /\ running' \in [Parts -> Contents]
      /\ \A p \in Parts : running'[p] = running[p] \/ (running'[p] = "down" /\ p \in Cur.did)
  BY <1>a, InvFacts DEF Contents
<1>k. job' = [run |-> 0, todo |-> {}, queue |-> {count}, chosen |-> {count}, first |-> count,
              flags |-> {}, retry |-> FALSE, changed |-> {}, seen |-> NoCopy, byHand |-> FALSE]
  BY <1>s DEF NoJob
<1>j. /\ job' \in Jobs /\ job'.queue = {count} /\ job'.chosen = {count} /\ job'.first = count
      /\ job'.flags = {}
  BY <1>k, <1>w, InvFacts DEF Jobs, RunIds, Copies
<1>h. /\ runs' \in [RunIds -> StateJson] /\ Alive' /\ Cur'.saved = Cur.saved /\ Cur'.created = Cur.created
      /\ Cur'.did = Cur.did /\ Cur'.finished = Cur.finished /\ Cur'.undoing = Cur.undoing
      /\ Cur'.done = Cur.done /\ \A r \in RunIds : runs'[r].closed = runs[r].closed
  BY <1>s, <1>w, HalfCopied DEF ApplyFails
<1>1. SafeInv'
  BY ApplyFailsSafe DEF Inv
<1>2. /\ (LastOnly /\ WhoWorks /\ Known /\ FilesInv /\ TablesInv)'
      /\ (RenderInv /\ DownInv /\ RunInv)'
  BY InvFacts, <1>w, <1>s, <1>a, <1>b, <1>c, <1>j, <1>h, InstallerAssumption, SMTT(15)
     DEF host, LastOnly, WhoWorks, Late, Served, Rendered, Applying, Known, Original,
         FilesInv, Installed, Undoing, Tabled, TablesInv, RenderInv, DownInv, RunInv, NewRuns
<1>. QED  BY <1>1, <1>2 DEF Inv

(* Only the last run can be chosen.                                        *)
LEMMA RollbackAllKeeps ==
  ASSUME Inv, RollbackAll
  PROVE  Inv'
<1>b. NotRolledBack = {count} /\ Alive /\ count # 0
  BY InvFacts, NotRolledBackIsLast DEF RollbackAll, StartRollback, Alive
<1>c. count \in RunIds /\ count \in Nat
  BY <1>b, InvFacts, CurType, InstallerAssumption DEF RunIds
<1>d. (CHOOSE r \in {count} : \A q \in {count} : r <= q) = count
  BY <1>c
<1>s. /\ pc = "idle" /\ pc' = "undo" /\ UNCHANGED <<host, runs, count, copies, edited, latest, budget>>
      /\ job' = [NoJob EXCEPT !.queue = {count}, !.chosen = {count}, !.byHand = TRUE, !.first = count]
  BY <1>b, <1>d DEF RollbackAll, StartRollback
<1>k. job' = [run |-> 0, todo |-> {}, queue |-> {count}, chosen |-> {count}, first |-> count,
              flags |-> {}, retry |-> FALSE, changed |-> {}, seen |-> NoCopy, byHand |-> TRUE]
  BY <1>s DEF NoJob
<1>g. /\ job' \in Jobs /\ job'.queue = {count} /\ job'.chosen = {count} /\ job'.first = count
      /\ job'.flags = {}
  BY <1>k, <1>c, InvFacts DEF Jobs, RunIds, Copies
<1>1. SafeInv'
  BY RollbackSafe DEF Inv, RollbackAll, NotRolledBack
<1>2. /\ (LastOnly /\ WhoWorks /\ Known /\ FilesInv /\ TablesInv)'
      /\ (RenderInv /\ DownInv /\ RunInv)'
  BY InvFacts, <1>b, <1>c, <1>d, <1>s, <1>k, <1>g, InstallerAssumption, SMTT(15)
     DEF host, LastOnly, WhoWorks, Cur, Alive, Late, Served, Rendered, Applying, Known,
         Original, FilesInv, Installed, Undoing, Tabled, TablesInv, RenderInv, DownInv,
         RunInv, NoReboot, NewRuns
<1>. QED  BY <1>1, <1>2 DEF Inv

(* So when it is named: a run that is rolled back is not named again.      *)
LEMMA RollbackOneKeeps ==
  ASSUME Inv, ~Again, RollbackOne
  PROVE  Inv'
<1>b. NotRolledBack = {count} /\ Alive /\ count # 0
  BY InvFacts, NotRolledBackIsLast DEF RollbackOne, Alive
<1>c. count \in RunIds /\ count \in Nat
  BY <1>b, InvFacts, CurType, InstallerAssumption DEF RunIds
<1>d. (CHOOSE r \in {count} : \A q \in {count} : r <= q) = count
  BY <1>c
<1>h. StartRollback({count})
  BY <1>b DEF RollbackOne
<1>s. /\ pc = "idle" /\ pc' = "undo" /\ UNCHANGED <<host, runs, count, copies, edited, latest, budget>>
      /\ job' = [NoJob EXCEPT !.queue = {count}, !.chosen = {count}, !.byHand = TRUE, !.first = count]
  BY <1>b, <1>d, <1>h DEF StartRollback
<1>k. job' = [run |-> 0, todo |-> {}, queue |-> {count}, chosen |-> {count}, first |-> count,
              flags |-> {}, retry |-> FALSE, changed |-> {}, seen |-> NoCopy, byHand |-> TRUE]
  BY <1>s DEF NoJob
<1>g. /\ job' \in Jobs /\ job'.queue = {count} /\ job'.chosen = {count} /\ job'.first = count
      /\ job'.flags = {}
  BY <1>k, <1>c, InvFacts DEF Jobs, RunIds, Copies
<1>1. SafeInv'
  BY <1>b, <1>h, RollbackSafe DEF Inv, NotRolledBack
<1>2. /\ (LastOnly /\ WhoWorks /\ Known /\ FilesInv /\ TablesInv)'
      /\ (RenderInv /\ DownInv /\ RunInv)'
  BY InvFacts, <1>b, <1>c, <1>d, <1>h, <1>s, <1>k, <1>g, InstallerAssumption, SMTT(15)
     DEF host, LastOnly, WhoWorks, Cur, Alive, Late, Served, Rendered, Applying, Known,
         Original, FilesInv, Installed, Undoing, Tabled, TablesInv, RenderInv, DownInv,
         RunInv, NoReboot, NewRuns
<1>. QED  BY <1>1, <1>2 DEF Inv

(* From here on the run is being undone, whatever happens.                 *)
LEMMA UndoRunKeeps ==
  ASSUME Inv, UndoRun
  PROVE  Inv'
<1>w. /\ Alive /\ count # 0 /\ count \in RunIds /\ Cur \in StateJson /\ count \in Nat
      /\ job.first = count /\ job.chosen = {count} /\ job.queue = {count} /\ job.flags = {}
  BY InvFacts, CurType, InstallerAssumption DEF UndoRun, WhoWorks, Alive, RunIds
<1>b. Newest = count
  BY <1>w DEF Newest
<1>s. /\ pc = "undo" /\ pc' = "drop" /\ UNCHANGED <<host, copies, edited, latest, budget, count>>
      /\ job' = [job EXCEPT !.run = count, !.queue = {}]
      /\ runs' = [runs EXCEPT ![count].undoing = TRUE]
  BY <1>b, <1>w DEF UndoRun
<1>g. job' \in Jobs
  BY <1>s, <1>w, InvFacts DEF Jobs, RunIds
<1>e. runs' = [runs EXCEPT ![count] = [Cur EXCEPT !.undoing = TRUE]] /\ count' = count
  BY <1>w, InvFacts, <1>b, <1>s, <1>g, SMTT(15) DEF Cur
<1>f. [Cur EXCEPT !.undoing = TRUE] \in StateJson
  BY <1>w, InvFacts, Zenon DEF StateJson, Steps
<1>r. /\ runs' \in [RunIds -> StateJson] /\ count' = count
      /\ Cur' = [Cur EXCEPT !.undoing = TRUE] /\ Cur' \in StateJson
      /\ \A r \in RunIds : r < count => runs'[r] = runs[r]
  BY <1>w, InvFacts, <1>e, <1>f, RunUpdated
<1>1. SafeInv'
  BY UndoRunSafe DEF Inv
<1>2. /\ (LastOnly /\ WhoWorks /\ Known /\ FilesInv /\ TablesInv)'
      /\ (RenderInv /\ DownInv /\ RunInv)'
  BY InvFacts, <1>w, <1>b, <1>s, <1>g, <1>r, InstallerAssumption, SMTT(15)
     DEF host, LastOnly, WhoWorks, Cur, Alive, Late, Served, Rendered, Applying, Known,
         Original, FilesInv, Installed, Undoing, Tabled, TablesInv, RenderInv, DownInv,
         RunInv, NoReboot, NewRuns
<1>. QED  BY <1>1, <1>2 DEF Inv

(* The tables are gone before the files.                                   *)
LEMMA DropTablesKeeps ==
  ASSUME Inv, DropTables
  PROVE  Inv'
<1>w. /\ Alive /\ count # 0 /\ count \in RunIds /\ Cur \in StateJson
      /\ job.run = count /\ job.first = count /\ job.chosen = {count} /\ job.queue = {}
      /\ job.flags = {} /\ Cur.undoing
  BY InvFacts, UndoFacts DEF DropTables, Undoing
<1>s. /\ pc = "drop" /\ pc' = "restore" /\ tables' = IF Cur.created THEN "none" ELSE tables
      /\ UNCHANGED <<files, rendered, running, router, routerRuns, runs, count, copies, edited, latest, budget>>
  BY <1>w DEF DropTables, Cur
<1>j. /\ job' \in Jobs /\ job'.run = job.run /\ job'.queue = job.queue /\ job'.chosen = job.chosen
      /\ job'.first = job.first /\ job'.flags = job.flags /\ job'.todo = Replaced(count)
  BY <1>w, InvFacts DEF DropTables, Replaced, Jobs
<1>a. \A p \in Parts : p \notin job'.todo => files[p] # "new"
  BY <1>j, InvFacts DEF FilesInv, Replaced, Cur
<1>1. SafeInv'
  BY DropTablesSafe DEF Inv
<1>2. /\ (LastOnly /\ WhoWorks /\ Known /\ FilesInv /\ TablesInv)'
      /\ (RenderInv /\ DownInv /\ RunInv)'
  BY InvFacts, <1>w, <1>s, <1>j, <1>a, InstallerAssumption, SMTT(15)
     DEF LastOnly, WhoWorks, Cur, Alive, Late, Served, Rendered, Applying, Undoing, Known,
         Original, FilesInv, Installed, Tabled, TablesInv, RenderInv, DownInv, RunInv,
         NoReboot, NewRuns
<1>. QED  BY <1>1, <1>2 DEF Inv

(* What is to be replaced by its backup is looked at, and kept.            *)
LEMMA KeepDivergedKeeps ==
  ASSUME Inv, NEW p \in Parts, KeepDiverged(p)
  PROVE  Inv'
<1>w. /\ Alive /\ count # 0 /\ count \in RunIds /\ Cur \in StateJson
      /\ job.run = count /\ job.first = count /\ job.chosen = {count} /\ job.queue = {}
      /\ job.flags = {} /\ Cur.undoing
  BY InvFacts, UndoFacts DEF KeepDiverged, Undoing
<1>s. /\ pc = "restore" /\ pc' = "restoring" /\ p \in job.todo
      /\ UNCHANGED <<host, count, copies, edited, latest, budget>>
      /\ runs' = runs \/ runs' = [runs EXCEPT ![count].aside[p] = files[p]]
  BY <1>w DEF KeepDiverged, Aside
<1>c. Cur.aside \in [Parts -> Copies] /\ files[p] \in Copies
  BY InvFacts, <1>w DEF StateJson, Copies
<1>r. /\ runs' \in [RunIds -> StateJson] /\ Cur' \in StateJson
      /\ (Cur' = Cur \/ Cur' = [Cur EXCEPT !.aside = [Cur.aside EXCEPT ![p] = files[p]]])
      /\ \A r \in RunIds : r < count => runs'[r] = runs[r]
  <2>1. CASE runs' = runs
    BY <2>1, <1>s, InvFacts, <1>w DEF Cur
  <2>2. CASE runs' = [runs EXCEPT ![count].aside[p] = files[p]]
    <3>1. runs' = [runs EXCEPT ![count] = [Cur EXCEPT !.aside = [Cur.aside EXCEPT ![p] = files[p]]]]
      BY <2>2, <1>w, InvFacts DEF Cur
    <3>2. [Cur.aside EXCEPT ![p] = files[p]] \in [Parts -> Copies]
      BY <1>c
    <3>3. [Cur EXCEPT !.aside = [Cur.aside EXCEPT ![p] = files[p]]] \in StateJson
      BY <3>2, <1>w DEF StateJson
    <3>. QED  BY <3>1, <3>3, <1>w, InvFacts, <1>s, RunUpdated
  <2>. QED  BY <2>1, <2>2, <1>s
<1>h. /\ Cur'.saved = Cur.saved /\ Cur'.created = Cur.created /\ Cur'.did = Cur.did
      /\ Cur'.finished = Cur.finished /\ Cur'.undoing = Cur.undoing /\ Cur'.closed = Cur.closed
      /\ Cur'.done = Cur.done
  BY <1>r, <1>w, Zenon DEF StateJson
<1>j. /\ job' \in Jobs /\ job'.run = job.run /\ job'.queue = job.queue /\ job'.chosen = job.chosen
      /\ job'.first = job.first /\ job'.flags = job.flags /\ job'.changed = {p}
      /\ job'.todo = job.todo \ {p}
  BY <1>c, InvFacts DEF KeepDiverged, Jobs
<1>1. SafeInv'
  BY KeepDivergedSafe DEF Inv
<1>2. /\ (LastOnly /\ WhoWorks /\ Known /\ FilesInv /\ TablesInv)'
      /\ (RenderInv /\ DownInv /\ RunInv)'
  BY InvFacts, <1>w, <1>s, <1>r, <1>h, <1>j, InstallerAssumption, SMTT(15)
     DEF host, LastOnly, WhoWorks, Alive, Late, Served, Rendered, Applying, Undoing, Known,
         Original, FilesInv, Installed, Tabled, TablesInv, RenderInv, DownInv, RunInv,
         NoReboot, NewRuns
<1>. QED  BY <1>1, <1>2 DEF Inv

(* One file less is new.                                                   *)
LEMMA RestoreFileKeeps ==
  ASSUME Inv, NEW p \in Parts, RestoreFile(p)
  PROVE  Inv'
<1>w. /\ Alive /\ count # 0 /\ count \in RunIds /\ Cur \in StateJson
      /\ job.run = count /\ job.first = count /\ job.chosen = {count} /\ job.queue = {}
      /\ job.flags = {} /\ Cur.undoing
  BY InvFacts, UndoFacts DEF RestoreFile, Undoing
<1>s. /\ pc = "restoring" /\ pc' = "restore" /\ job.changed = {p} /\ Cur.saved[p] # NoCopy
      /\ UNCHANGED <<rendered, running, tables, router, routerRuns, runs, count, job, copies, edited, latest, budget>>
      /\ files' = [files EXCEPT ![p] = Cur.saved[p]]
  BY <1>w, InvFacts DEF RestoreFile, KeepInv, Cur
<1>c. /\ Cur.saved[p] \in Contents /\ Cur.saved[p] # "new"
      /\ Cur.saved[p] \in {Original(p)} \cup edited
  BY InvFacts, <1>w, <1>s, SavedIsOld DEF StateJson, Copies, Known
<1>d. /\ files' \in [Parts -> Contents] /\ files'[p] = Cur.saved[p]
      /\ \A q \in Parts : q # p => files'[q] = files[q]
  BY <1>s, <1>c, InvFacts
<1>a. \A q \in Parts : q \notin job.todo /\ q # p => files[q] # "new"
  BY <1>s, InvFacts DEF FilesInv
<1>1. SafeInv'
  BY RestoreFileSafe DEF Inv
<1>2. /\ (LastOnly /\ WhoWorks /\ Known /\ FilesInv /\ TablesInv)'
      /\ (RenderInv /\ DownInv /\ RunInv)'
  BY InvFacts, <1>w, <1>s, <1>a, <1>c, <1>d, InstallerAssumption, SMTT(15)
     DEF LastOnly, WhoWorks, Cur, Alive, Late, Served, Rendered, Applying, Undoing, Known,
         Original, FilesInv, Installed, Tabled, TablesInv, RenderInv, DownInv, RunInv,
         NoReboot, NewRuns
<1>. QED  BY <1>1, <1>2 DEF Inv

LEMMA AlreadyBackKeeps ==
  ASSUME Inv, NEW p \in Parts, AlreadyBack(p)
  PROVE  Inv'
<1>w. /\ Alive /\ count # 0 /\ count \in RunIds /\ Cur \in StateJson
      /\ job.run = count /\ job.first = count /\ job.chosen = {count} /\ job.queue = {}
      /\ job.flags = {} /\ Cur.undoing
  BY InvFacts, UndoFacts DEF AlreadyBack, Undoing
<1>s. /\ pc = "restore" /\ pc' = "restore" /\ UNCHANGED <<host, runs, count, copies, edited, latest, budget>>
      /\ files[p] # "new"
  BY <1>w, InvFacts, SavedIsOld DEF AlreadyBack, KeepInv, Cur
<1>j. /\ job' \in Jobs /\ job'.run = job.run /\ job'.queue = job.queue /\ job'.chosen = job.chosen
      /\ job'.first = job.first /\ job'.flags = job.flags /\ job'.todo = job.todo \ {p}
  BY InvFacts DEF AlreadyBack, Jobs
<1>1. SafeInv'
  BY AlreadyBackSafe DEF Inv
<1>2. /\ (LastOnly /\ WhoWorks /\ Known /\ FilesInv /\ TablesInv)'
      /\ (RenderInv /\ DownInv /\ RunInv)'
  BY InvFacts, <1>w, <1>s, <1>j, InstallerAssumption, SMTT(15)
     DEF host, LastOnly, WhoWorks, Cur, Alive, Late, Served, Rendered, Applying, Undoing,
         Known, Original, FilesInv, Installed, Tabled, TablesInv, RenderInv, DownInv, RunInv,
         NoReboot, NewRuns
<1>. QED  BY <1>1, <1>2 DEF Inv

(* No file is new: what has a backup is restored, the rest never was new.  *)
LEMMA RunRestoredKeeps ==
  ASSUME Inv, RunRestored
  PROVE  Inv'
<1>w. /\ Alive /\ count # 0 /\ count \in RunIds /\ Cur \in StateJson
      /\ job.run = count /\ job.first = count /\ job.chosen = {count} /\ job.queue = {}
      /\ job.flags = {} /\ Cur.undoing
  BY InvFacts, UndoFacts DEF RunRestored, Undoing
<1>a. \A p \in Parts : files[p] # "new"
  BY InvFacts DEF RunRestored, FilesInv
<1>s. /\ pc = "restore" /\ pc' = "panel" /\ UNCHANGED <<host, runs, count, copies, edited, latest, budget>>
      /\ job' = [job EXCEPT !.flags = Cur.did]
  BY <1>w DEF RunRestored, Cur
<1>g. job' \in Jobs
  BY <1>s, <1>w, InvFacts DEF Jobs, StateJson
<1>1. SafeInv'
  BY RunRestoredSafe DEF Inv
<1>2. /\ (LastOnly /\ WhoWorks /\ Known /\ FilesInv /\ TablesInv)'
      /\ (RenderInv /\ DownInv /\ RunInv)'
  BY InvFacts, <1>w, <1>a, <1>s, <1>g, InstallerAssumption, SMTT(15)
     DEF host, LastOnly, WhoWorks, Cur, Alive, Late, Served, Rendered, Applying, Known,
         Original, FilesInv, Installed, Undoing, Tabled, TablesInv, RenderInv, DownInv,
         RunInv, NoReboot, NewRuns
<1>. QED  BY <1>1, <1>2 DEF Inv

(* The panel was not restarted by the run, or was put back already.        *)
LEMMA SkipPanelKeeps ==
  ASSUME Inv, SkipPanel
  PROVE  Inv'
<1>w. /\ Alive /\ count # 0 /\ count \in RunIds /\ Cur \in StateJson
      /\ job.first = count /\ job.chosen = {count} /\ job.queue = {}
      /\ job.flags = Cur.did /\ Cur.undoing
  BY InvFacts, LateFacts DEF SkipPanel, Late, Served, Rendered
<1>1. SafeInv'
  BY SkipPanelSafe DEF Inv
<1>2. /\ (LastOnly /\ WhoWorks /\ Known /\ FilesInv /\ TablesInv)'
      /\ (RenderInv /\ DownInv /\ RunInv)'
  BY InvFacts, <1>w, InstallerAssumption, SMTT(15)
     DEF SkipPanel, host, Done, LastOnly, WhoWorks, Cur, Alive, Late, Served, Rendered,
         Applying, Known, Original, FilesInv, Installed, Undoing, Tabled, TablesInv,
         RenderInv, DownInv, RunInv, NoReboot, NewRuns
<1>. QED  BY <1>1, <1>2 DEF Inv

(* The panel loads the restored code.                                      *)
LEMMA PanelBackKeeps ==
  ASSUME Inv, PanelBack
  PROVE  Inv'
<1>w. /\ Alive /\ count # 0 /\ count \in RunIds /\ Cur \in StateJson
      /\ job.first = count /\ job.chosen = {count} /\ job.queue = {}
      /\ job.flags = Cur.did /\ Cur.undoing
  BY InvFacts, LateFacts DEF PanelBack, Late, Served, Rendered
<1>a. \A p \in Parts : files[p] # "new"
  BY InvFacts DEF PanelBack, FilesInv, Installed, Undoing, Late, Served, Rendered
<1>1. SafeInv'
  BY PanelBackSafe DEF Inv
<1>2. /\ (LastOnly /\ WhoWorks /\ Known /\ FilesInv /\ TablesInv)'
      /\ (RenderInv /\ DownInv /\ RunInv)'
  BY InvFacts, <1>w, <1>a, InstallerAssumption, SMTT(15)
     DEF PanelBack, Done, LastOnly, WhoWorks, Cur, Alive, Late, Served, Rendered, Applying,
         Known, Original, FilesInv, Installed, Undoing, Tabled, TablesInv, RenderInv, DownInv,
         RunInv, NoReboot, NewRuns
<1>. QED  BY <1>1, <1>2 DEF Inv

(* It need not be done again.                                              *)
LEMMA NotePanelKeeps ==
  ASSUME Inv, NotePanel
  PROVE  Inv'
<1>w. /\ Alive /\ count # 0 /\ count \in RunIds /\ Cur \in StateJson
      /\ job.first = count /\ job.chosen = {count} /\ job.queue = {}
      /\ job.flags = Cur.did /\ Cur.undoing
  BY InvFacts, LateFacts DEF NotePanel, Late, Served, Rendered
<1>e. runs' = [runs EXCEPT ![count] = [Cur EXCEPT !.done = Cur.done \cup {"panel"}]] /\ count' = count
  BY <1>w, InvFacts, SMTT(15) DEF NotePanel, host, NoteDone, Cur
<1>f. [Cur EXCEPT !.done = Cur.done \cup {"panel"}] \in StateJson
  BY <1>w, InvFacts, SMTT(15) DEF StateJson, Steps
<1>r. /\ runs' \in [RunIds -> StateJson] /\ count' = count
      /\ Cur' = [Cur EXCEPT !.done = Cur.done \cup {"panel"}] /\ Cur' \in StateJson
      /\ \A r \in RunIds : r < count => runs'[r] = runs[r]
  BY <1>w, InvFacts, <1>e, <1>f, RunUpdated
<1>1. SafeInv'
  BY NotePanelSafe DEF Inv
<1>2. /\ (LastOnly /\ WhoWorks /\ Known /\ FilesInv /\ TablesInv)'
      /\ (RenderInv /\ DownInv /\ RunInv)'
  BY InvFacts, <1>w, <1>r, InstallerAssumption, SMTT(15)
     DEF NotePanel, host, NoteDone, LastOnly, WhoWorks, Cur, Alive, Late, Served, Rendered,
         Applying, Known, Original, FilesInv, Installed, Undoing, Tabled, TablesInv,
         RenderInv, DownInv, RunInv, NoReboot, NewRuns
<1>. QED  BY <1>1, <1>2 DEF Inv

(* Nothing was rendered by the run, or all is rendered back.               *)
LEMMA SkipRerenderKeeps ==
  ASSUME Inv, SkipRerender
  PROVE  Inv'
<1>w. /\ Alive /\ count # 0 /\ count \in RunIds /\ Cur \in StateJson
      /\ job.first = count /\ job.chosen = {count} /\ job.queue = {}
      /\ job.flags = Cur.did /\ Cur.undoing
  BY InvFacts, LateFacts DEF SkipRerender, Late, Served, Rendered
<1>1. SafeInv'
  BY SkipRerenderSafe DEF Inv
<1>2. /\ (LastOnly /\ WhoWorks /\ Known /\ FilesInv /\ TablesInv)'
      /\ (RenderInv /\ DownInv /\ RunInv)'
  BY InvFacts, <1>w, InstallerAssumption, SMTT(15)
     DEF SkipRerender, host, Done, LastOnly, WhoWorks, Cur, Alive, Late, Served, Rendered,
         Applying, Known, Original, FilesInv, Installed, Undoing, Tabled, TablesInv,
         RenderInv, DownInv, RunInv, NoReboot, NewRuns
<1>. QED  BY <1>1, <1>2 DEF Inv

(* An attempt that was begun before is remembered.                         *)
LEMMA StartRerenderKeeps ==
  ASSUME Inv, StartRerender
  PROVE  Inv'
<1>w. /\ Alive /\ count # 0 /\ count \in RunIds /\ Cur \in StateJson
      /\ job.first = count /\ job.chosen = {count} /\ job.queue = {}
      /\ job.flags = Cur.did /\ Cur.undoing
  BY InvFacts, LateFacts DEF StartRerender, Late, Served, Rendered
<1>s. /\ pc = "rerender" /\ pc' = "rerendering" /\ UNCHANGED <<host, copies, edited, latest, budget, count>>
      /\ "rendered" \in Cur.did /\ "render" \notin Cur.done
      /\ runs' = [runs EXCEPT ![count].done = @ \cup {"started"}]
      /\ job' = [job EXCEPT !.retry = ("started" \in Cur.done)]
  BY <1>w DEF StartRerender, Done, NoteDone, Cur
<1>i. job' = [job EXCEPT !.retry = ("started" \in Cur.done)]
  BY <1>s
<1>j. job' \in Jobs /\ (job'.retry <=> "started" \in Cur.done)
  BY <1>i, InvFacts, JobRetried
<1>e. runs' = [runs EXCEPT ![count] = [Cur EXCEPT !.done = Cur.done \cup {"started"}]] /\ count' = count
  BY <1>w, InvFacts, <1>s, <1>i, <1>j, SMTT(15) DEF Cur
<1>f. [Cur EXCEPT !.done = Cur.done \cup {"started"}] \in StateJson
  BY <1>w, InvFacts, SMTT(15) DEF StateJson, Steps
<1>r. /\ runs' \in [RunIds -> StateJson] /\ count' = count
      /\ Cur' = [Cur EXCEPT !.done = Cur.done \cup {"started"}] /\ Cur' \in StateJson
      /\ \A r \in RunIds : r < count => runs'[r] = runs[r]
  BY <1>w, InvFacts, <1>e, <1>f, RunUpdated
<1>1. SafeInv'
  BY StartRerenderSafe DEF Inv
<1>2. /\ (LastOnly /\ WhoWorks /\ Known /\ FilesInv /\ TablesInv)'
      /\ (RenderInv /\ DownInv /\ RunInv)'
  BY InvFacts, <1>w, <1>s, <1>i, <1>j, <1>r, InstallerAssumption, SMTT(15)
     DEF host, LastOnly, WhoWorks, Cur, Alive, Late, Served, Rendered, Applying, Known,
         Original, FilesInv, Installed, Undoing, Tabled, TablesInv, RenderInv, DownInv,
         RunInv, NoReboot, NewRuns
<1>. QED  BY <1>1, <1>2 DEF Inv

(* What is not loaded again does not run the new configuration.            *)
LEMMA RerenderKeeps ==
  ASSUME Inv, Rerender
  PROVE  Inv'
<1>w. /\ Alive /\ count # 0 /\ count \in RunIds /\ Cur \in StateJson
      /\ job.first = count /\ job.chosen = {count} /\ job.queue = {}
      /\ job.flags = Cur.did /\ Cur.undoing
  BY InvFacts, LateFacts DEF Rerender, Late, Served, Rendered
<1>a. \A p \in Parts : files[p] # "new"
  BY InvFacts DEF Rerender, FilesInv, Installed, Undoing, Late, Served, Rendered
<1>b. "started" \in Cur.done
  BY InvFacts DEF Rerender, RenderInv
<1>c. \A p \in Edges : p \notin ToReload \cap job.flags => ~NewRuns(p)
  BY <1>a, InvFacts, <1>w DEF Rerender, RunInv, ToReload, Outdated, NewRuns
<1>d. rendered' \in [Edges -> Contents] /\ \A p \in Edges : rendered'[p] # "new"
  BY <1>a, InvFacts DEF Rerender
<1>1. SafeInv'
  BY RerenderSafe DEF Inv
<1>2. /\ (LastOnly /\ WhoWorks /\ Known /\ FilesInv /\ TablesInv)'
      /\ (RenderInv /\ DownInv /\ RunInv)'
  BY InvFacts, <1>w, <1>a, <1>b, <1>c, <1>d, InstallerAssumption, SMTT(15)
     DEF Rerender, ToReload, Outdated, LastOnly, WhoWorks, Cur, Alive, Late, Served, Rendered,
         Applying, Known, Original, FilesInv, Installed, Undoing, Tabled, TablesInv,
         RenderInv, DownInv, RunInv, NoReboot, NewRuns
<1>. QED  BY <1>1, <1>2 DEF Inv

(* One edge less runs the new configuration.                               *)
LEMMA EdgeBackKeeps ==
  ASSUME Inv, NEW p \in Edges, EdgeBack(p)
  PROVE  Inv'
<1>w. /\ Alive /\ count # 0 /\ count \in RunIds /\ Cur \in StateJson
      /\ job.first = count /\ job.chosen = {count} /\ job.queue = {}
      /\ job.flags = Cur.did /\ Cur.undoing
  BY InvFacts, LateFacts DEF EdgeBack, Late, Served, Rendered
<1>s. /\ pc = "edges" /\ pc' = pc /\ p \in job.changed
      /\ job' = [job EXCEPT !.changed = @ \ {p}]
      /\ UNCHANGED <<files, rendered, tables, router, routerRuns, runs, count, copies, edited, latest, budget>>
  BY DEF EdgeBack
<1>a. p \in Parts /\ p # Panel /\ rendered[p] # "new" /\ rendered[p] # "down"
      /\ rendered[p] \in {Original(p)} \cup edited
  BY InvFacts, <1>s, SavedIsOld DEF RenderInv, Known
<1>c. /\ running' \in [Parts -> Contents] /\ running'[p] = rendered[p]
      /\ \A q \in Parts : q # p => running'[q] = running[q]
  BY <1>a, InvFacts DEF EdgeBack, Contents
<1>j. /\ job' \in Jobs /\ job'.changed = job.changed \ {p} /\ job'.flags = job.flags
      /\ job'.first = job.first /\ job'.chosen = job.chosen /\ job'.queue = job.queue
  BY <1>s, InvFacts DEF Jobs
<1>1. SafeInv'
  BY EdgeBackSafe DEF Inv
<1>2. /\ (LastOnly /\ WhoWorks /\ Known /\ FilesInv /\ TablesInv)'
      /\ (RenderInv /\ DownInv /\ RunInv)'
  BY InvFacts, <1>w, <1>s, <1>a, <1>c, <1>j, InstallerAssumption, SMTT(15)
     DEF host, LastOnly, WhoWorks, Cur, Alive, Late, Served, Rendered, Applying, Known,
         Original, FilesInv, Installed, Undoing, Tabled, TablesInv, RenderInv, DownInv,
         RunInv, NoReboot, NewRuns
<1>. QED  BY <1>1, <1>2 DEF Inv

(* No edge does.                                                           *)
LEMMA NoteEdgesKeeps ==
  ASSUME Inv, NoteEdges
  PROVE  Inv'
<1>w. /\ Alive /\ count # 0 /\ count \in RunIds /\ Cur \in StateJson
      /\ job.first = count /\ job.chosen = {count} /\ job.queue = {}
      /\ job.flags = Cur.did /\ Cur.undoing
  BY InvFacts, LateFacts DEF NoteEdges, Late, Served, Rendered
<1>e. runs' = [runs EXCEPT ![count] = [Cur EXCEPT !.done = Cur.done \cup {"render"}]] /\ count' = count
  BY <1>w, InvFacts, SMTT(15) DEF NoteEdges, host, NoteDone, Cur
<1>f. [Cur EXCEPT !.done = Cur.done \cup {"render"}] \in StateJson
  BY <1>w, InvFacts, SMTT(15) DEF StateJson, Steps
<1>r. /\ runs' \in [RunIds -> StateJson] /\ count' = count
      /\ Cur' = [Cur EXCEPT !.done = Cur.done \cup {"render"}] /\ Cur' \in StateJson
      /\ \A r \in RunIds : r < count => runs'[r] = runs[r]
  BY <1>w, InvFacts, <1>e, <1>f, RunUpdated
<1>1. SafeInv'
  BY NoteEdgesSafe DEF Inv
<1>2. /\ (LastOnly /\ WhoWorks /\ Known /\ FilesInv /\ TablesInv)'
      /\ (RenderInv /\ DownInv /\ RunInv)'
  BY InvFacts, <1>w, <1>r, InstallerAssumption, SMTT(15)
     DEF NoteEdges, host, NoteDone, LastOnly, WhoWorks, Cur, Alive, Late, Served, Rendered,
         Applying, Known, Original, FilesInv, Installed, Undoing, Tabled, TablesInv,
         RenderInv, DownInv, RunInv, NoReboot, NewRuns
<1>. QED  BY <1>1, <1>2 DEF Inv

(* The router's configuration is not the layer's.                          *)
LEMMA SkipRouterKeeps ==
  ASSUME Inv, SkipRouter
  PROVE  Inv'
<1>w. /\ Alive /\ count # 0 /\ count \in RunIds /\ Cur \in StateJson
      /\ job.first = count /\ job.chosen = {count} /\ job.queue = {}
      /\ job.flags = Cur.did /\ Cur.undoing
  BY InvFacts, LateFacts DEF SkipRouter, Late, Served, Rendered
<1>g. copies' \subseteq Routers \ {"missing"}
  BY InvFacts DEF SkipRouter, TypeOK
<1>1. SafeInv'
  BY SkipRouterSafe DEF Inv
<1>2. /\ (LastOnly /\ WhoWorks /\ Known /\ FilesInv /\ TablesInv)'
      /\ (RenderInv /\ DownInv /\ RunInv)'
  BY InvFacts, <1>w, <1>g, InstallerAssumption, SMTT(15)
     DEF SkipRouter, host, Snap, OnlyTheLayer, LastOnly, WhoWorks, Cur, Alive, Late, Served,
         Rendered, Applying, Known, Original, FilesInv, Installed, Undoing, Tabled, TablesInv,
         RenderInv, DownInv, RunInv, NoReboot, NewRuns
<1>. QED  BY <1>1, <1>2 DEF Inv

(* It is put back already, but not loaded.                                 *)
LEMMA ResumeRouterKeeps ==
  ASSUME Inv, ResumeRouter
  PROVE  Inv'
<1>w. /\ Alive /\ count # 0 /\ count \in RunIds /\ Cur \in StateJson
      /\ job.first = count /\ job.chosen = {count} /\ job.queue = {}
      /\ job.flags = Cur.did /\ Cur.undoing
  BY InvFacts, LateFacts DEF ResumeRouter, Late, Served, Rendered
<1>1. SafeInv'
  BY ResumeRouterSafe DEF Inv
<1>2. /\ (LastOnly /\ WhoWorks /\ Known /\ FilesInv /\ TablesInv)'
      /\ (RenderInv /\ DownInv /\ RunInv)'
  BY InvFacts, <1>w, InstallerAssumption, SMTT(15)
     DEF ResumeRouter, host, Snap, LastOnly, WhoWorks, Cur, Alive, Late, Served, Rendered,
         Applying, Known, Original, FilesInv, Installed, Undoing, Tabled, TablesInv,
         RenderInv, DownInv, RunInv, NoReboot, NewRuns
<1>. QED  BY <1>1, <1>2 DEF Inv

(* It will be put back; that is on record.                                 *)
LEMMA KeepRouterKeeps ==
  ASSUME Inv, KeepRouter
  PROVE  Inv'
<1>w. /\ Alive /\ count # 0 /\ count \in RunIds /\ Cur \in StateJson
      /\ job.first = count /\ job.chosen = {count} /\ job.queue = {}
      /\ job.flags = Cur.did /\ Cur.undoing
  BY InvFacts, LateFacts DEF KeepRouter, Late, Served, Rendered
<1>e. runs' = [runs EXCEPT ![count] = [Cur EXCEPT !.pending = TRUE]] /\ count' = count
  BY <1>w, InvFacts, SMTT(15) DEF KeepRouter, host, Snap, OnlyTheLayer, Cur
<1>f. [Cur EXCEPT !.pending = TRUE] \in StateJson
  BY <1>w, InvFacts, Zenon DEF StateJson, Steps
<1>r. /\ runs' \in [RunIds -> StateJson] /\ count' = count
      /\ Cur' = [Cur EXCEPT !.pending = TRUE] /\ Cur' \in StateJson
      /\ \A r \in RunIds : r < count => runs'[r] = runs[r]
  BY <1>w, InvFacts, <1>e, <1>f, RunUpdated
<1>1. SafeInv'
  BY KeepRouterSafe DEF Inv
<1>2. /\ (LastOnly /\ WhoWorks /\ Known /\ FilesInv /\ TablesInv)'
      /\ (RenderInv /\ DownInv /\ RunInv)'
  BY InvFacts, <1>w, <1>r, InstallerAssumption, SMTT(15)
     DEF KeepRouter, host, Snap, OnlyTheLayer, LastOnly, WhoWorks, Cur, Alive, Late, Served,
         Rendered, Applying, Known, Original, FilesInv, Installed, Undoing, Tabled, TablesInv,
         RenderInv, DownInv, RunInv, NoReboot, NewRuns
<1>. QED  BY <1>1, <1>2 DEF Inv

(* It is the one from before the run.                                      *)
LEMMA PutRouterBackKeeps ==
  ASSUME Inv, PutRouterBack
  PROVE  Inv'
<1>w. /\ Alive /\ count # 0 /\ count \in RunIds /\ Cur \in StateJson
      /\ job.first = count /\ job.chosen = {count} /\ job.queue = {}
      /\ job.flags = Cur.did /\ Cur.undoing
  BY InvFacts, LateFacts DEF PutRouterBack, Late, Served, Rendered
<1>g. Snap \in Routers
  BY <1>w DEF Snap, Cur, StateJson
<1>1. SafeInv'
  BY PutRouterBackSafe DEF Inv
<1>2. /\ (LastOnly /\ WhoWorks /\ Known /\ FilesInv /\ TablesInv)'
      /\ (RenderInv /\ DownInv /\ RunInv)'
  BY InvFacts, <1>w, <1>g, InstallerAssumption, SMTT(15)
     DEF PutRouterBack, Snap, LastOnly, WhoWorks, Cur, Alive, Late, Served, Rendered,
         Applying, Known, Original, FilesInv, Installed, Undoing, Tabled, TablesInv,
         RenderInv, DownInv, RunInv, NoReboot, NewRuns
<1>. QED  BY <1>1, <1>2 DEF Inv

(* The router loads it.                                                    *)
LEMMA RestartRouterKeeps ==
  ASSUME Inv, RestartRouter
  PROVE  Inv'
<1>w. /\ Alive /\ count # 0 /\ count \in RunIds /\ Cur \in StateJson
      /\ job.first = count /\ job.chosen = {count} /\ job.queue = {}
      /\ job.flags = Cur.did /\ Cur.undoing
  BY InvFacts, LateFacts DEF RestartRouter, Late, Served, Rendered
<1>1. SafeInv'
  BY RestartRouterSafe DEF Inv
<1>2. /\ (LastOnly /\ WhoWorks /\ Known /\ FilesInv /\ TablesInv)'
      /\ (RenderInv /\ DownInv /\ RunInv)'
  BY InvFacts, <1>w, InstallerAssumption, SMTT(15)
     DEF RestartRouter, LastOnly, WhoWorks, Cur, Alive, Late, Served, Rendered, Applying,
         Known, Original, FilesInv, Installed, Undoing, Tabled, TablesInv, RenderInv, DownInv,
         RunInv, NoReboot, NewRuns
<1>. QED  BY <1>1, <1>2 DEF Inv

(* Neither the file nor the process is the layer's.                        *)
LEMMA NoteRouterKeeps ==
  ASSUME Inv, NoteRouter
  PROVE  Inv'
<1>w. /\ Alive /\ count # 0 /\ count \in RunIds /\ Cur \in StateJson
      /\ job.first = count /\ job.chosen = {count} /\ job.queue = {}
      /\ job.flags = Cur.did /\ Cur.undoing
  BY InvFacts, LateFacts DEF NoteRouter, Late, Served, Rendered
<1>e. runs' = [runs EXCEPT ![count] = [Cur EXCEPT !.pending = FALSE]] /\ count' = count
  BY <1>w, InvFacts, SMTT(15) DEF NoteRouter, host, Cur
<1>f. [Cur EXCEPT !.pending = FALSE] \in StateJson
  BY <1>w, InvFacts, Zenon DEF StateJson, Steps
<1>r. /\ runs' \in [RunIds -> StateJson] /\ count' = count
      /\ Cur' = [Cur EXCEPT !.pending = FALSE] /\ Cur' \in StateJson
      /\ \A r \in RunIds : r < count => runs'[r] = runs[r]
  BY <1>w, InvFacts, <1>e, <1>f, RunUpdated
<1>1. SafeInv'
  BY NoteRouterSafe DEF Inv
<1>2. /\ (LastOnly /\ WhoWorks /\ Known /\ FilesInv /\ TablesInv)'
      /\ (RenderInv /\ DownInv /\ RunInv)'
  BY InvFacts, <1>w, <1>r, InstallerAssumption, SMTT(15)
     DEF NoteRouter, host, LastOnly, WhoWorks, Cur, Alive, Late, Served, Rendered, Applying,
         Known, Original, FilesInv, Installed, Undoing, Tabled, TablesInv, RenderInv, DownInv,
         RunInv, NoReboot, NewRuns
<1>. QED  BY <1>1, <1>2 DEF Inv

(* The run may be closed when every service is up.                         *)
LEMMA VerifiedKeeps ==
  ASSUME Inv, Verified
  PROVE  Inv'
<1>w. /\ Alive /\ count # 0 /\ count \in RunIds /\ Cur \in StateJson
      /\ job.first = count /\ job.chosen = {count} /\ job.queue = {}
      /\ job.flags = Cur.did /\ Cur.undoing
  BY InvFacts, LateFacts DEF Verified, Late, Served, Rendered
<1>1. SafeInv'
  BY VerifiedSafe DEF Inv
<1>2. /\ (LastOnly /\ WhoWorks /\ Known /\ FilesInv /\ TablesInv)'
      /\ (RenderInv /\ DownInv /\ RunInv)'
  BY InvFacts, <1>w, InstallerAssumption, SMTT(15)
     DEF Verified, host, NoProblems, LastOnly, WhoWorks, Cur, Alive, Late, Served, Rendered,
         Applying, Known, Original, FilesInv, Installed, Undoing, Tabled, TablesInv,
         RenderInv, DownInv, RunInv, NoReboot, NewRuns
<1>. QED  BY <1>1, <1>2 DEF Inv

(* Nothing of the run is left when it is closed.                           *)
LEMMA CloseRunKeeps ==
  ASSUME Inv, CloseRun
  PROVE  Inv'
<1>w. /\ Alive /\ count # 0 /\ count \in RunIds /\ Cur \in StateJson
      /\ job.first = count /\ job.chosen = {count} /\ job.queue = {}
      /\ job.flags = Cur.did /\ Cur.undoing
  BY InvFacts, LateFacts DEF CloseRun, Late, Served, Rendered
<1>c. count \in Nat
  BY <1>w, InstallerAssumption DEF RunIds
<1>d. (CHOOSE r \in job.chosen : \A q \in job.chosen : q <= r) = count
  BY <1>c, <1>w
<1>s. /\ pc = "close" /\ pc' = "idle" /\ job' = NoJob /\ UNCHANGED <<host, copies, edited, latest, budget, count>>
      /\ runs' = [runs EXCEPT ![count].closed = TRUE]
  BY <1>w, <1>d DEF CloseRun
<1>e. runs' = [runs EXCEPT ![count] = [Cur EXCEPT !.closed = TRUE]] /\ count' = count
  BY <1>w, InvFacts, <1>c, <1>d, <1>s, SMTT(15) DEF Cur
<1>f. [Cur EXCEPT !.closed = TRUE] \in StateJson
  BY <1>w, InvFacts, Zenon DEF StateJson, Steps
<1>r. /\ runs' \in [RunIds -> StateJson] /\ count' = count
      /\ Cur' = [Cur EXCEPT !.closed = TRUE] /\ Cur' \in StateJson
      /\ \A r \in RunIds : r < count => runs'[r] = runs[r]
  BY <1>w, InvFacts, <1>e, <1>f, RunUpdated
<1>1. SafeInv'
  BY CloseRunSafe DEF Inv
<1>2. RunInv'
  <2>1. ~Alive'
    BY <1>r DEF Alive
  <2>2. \A p \in Parts : ~NewRuns(p)
    BY <1>s, InvFacts DEF RunInv, Served, Rendered, Parts
  <2>. QED  BY <2>1, <2>2, <1>s, InvFacts DEF RunInv, host, NewRuns, NoReboot, Served, Rendered
<1>3. /\ (LastOnly /\ WhoWorks /\ Known /\ FilesInv /\ TablesInv)'
      /\ (RenderInv /\ DownInv )'
  BY InvFacts, <1>w, <1>c, <1>d, <1>s, <1>r, InstallerAssumption, SMTT(15)
     DEF host, LastOnly, WhoWorks, Cur, Alive, Late, Served, Rendered, Applying, Known,
         Original, FilesInv, Installed, Undoing, Tabled, TablesInv, RenderInv, DownInv
<1>. QED  BY <1>1, <1>2, <1>3 DEF Inv

(* A failure leaves the run open, with its notes.                          *)
LEMMA RollbackFailsKeeps ==
  ASSUME Inv, RollbackFails
  PROVE  Inv'
<1>p. pc \in Undoing \cup Late
  BY DEF RollbackFails, Undoing, Late, Served, Rendered
<1>w. Alive /\ count # 0 /\ count \in RunIds /\ Cur \in StateJson /\ Cur.undoing
      /\ job.first = count /\ (pc \in Late => job.flags = Cur.did)
  BY InvFacts, <1>p, UndoFacts, LateFacts
<1>s. /\ pc' = "idle" /\ job' = NoJob
      /\ UNCHANGED <<files, rendered, tables, router, runs, count, copies, edited, latest>>
  BY DEF RollbackFails
<1>a. running' = running \/ \E p \in Parts : p \in Cur.did /\ running' = [running EXCEPT ![p] = "down"]
  BY InvFacts, <1>w DEF RollbackFails, Down, DownInv, Late
<1>b. budget' \in Budgets /\ (NoReboot' <=> NoReboot)
  BY InvFacts, InstallerAssumption DEF RollbackFails, SpendFault, TypeOK, Budgets, NoReboot
<1>c. /\ running' \in [Parts -> Contents]
      /\ \A p \in Parts : running'[p] = running[p] \/ (running'[p] = "down" /\ p \in Cur.did)
  BY <1>a, InvFacts DEF Contents
<1>d. routerRuns' = routerRuns \/ routerRuns' = "down"
  BY DEF RollbackFails
<1>1. SafeInv'
  BY RollbackFailsSafe DEF Inv
<1>2. /\ (LastOnly /\ WhoWorks /\ Known /\ FilesInv /\ TablesInv)'
      /\ (RenderInv /\ DownInv /\ RunInv)'
  BY InvFacts, <1>p, <1>w, <1>s, <1>a, <1>b, <1>c, <1>d, InstallerAssumption, SMTT(15)
     DEF host, LastOnly, WhoWorks, Cur, Alive, Late, Served, Rendered, Applying, Known,
         Original, FilesInv, Installed, Undoing, Tabled, TablesInv, RenderInv, DownInv,
         RunInv, NewRuns
<1>. QED  BY <1>1, <1>2 DEF Inv

(* The record is enough at every step.                                     *)
LEMMA KillKeeps ==
  ASSUME Inv, Kill
  PROVE  Inv'
<1>s. /\ pc' = "idle" /\ job' = NoJob
      /\ UNCHANGED <<files, rendered, running, tables, routerRuns, count, copies, edited, latest>>
      /\ (NoReboot' <=> NoReboot)
  BY InvFacts DEF Kill, SpendKill, NoReboot, TypeOK, Budgets
<1>h. /\ runs' \in [RunIds -> StateJson] /\ (Alive' <=> Alive)
      /\ count # 0 => /\ Cur'.saved = Cur.saved /\ Cur'.created = Cur.created /\ Cur'.did = Cur.did
                      /\ Cur'.finished = Cur.finished /\ Cur'.undoing = Cur.undoing
                      /\ Cur'.closed = Cur.closed /\ Cur'.done = Cur.done
      /\ \A r \in RunIds : runs'[r].closed = runs[r].closed
  BY <1>s, HalfCopied DEF Kill
<1>c. Alive => count # 0
  BY DEF Alive
<1>1. SafeInv'
  BY KillSafe DEF Inv
<1>2. /\ (LastOnly /\ WhoWorks /\ Known /\ FilesInv /\ TablesInv)'
      /\ (RenderInv /\ DownInv /\ RunInv)'
  BY InvFacts, <1>s, <1>c, <1>h, InstallerAssumption, SMTT(15)
     DEF LastOnly, WhoWorks, Late, Served, Rendered, Applying, Undoing, Known, Original,
         FilesInv, Installed, Tabled, TablesInv, RenderInv, DownInv, RunInv, NewRuns
<1>. QED  BY <1>1, <1>2 DEF Inv

(* The processes load what is on the disk, which is on record.             *)
LEMMA RebootKeeps ==
  ASSUME Inv, Reboot
  PROVE  Inv'
<1>s. /\ pc' = "idle" /\ job' = NoJob
      /\ UNCHANGED <<files, rendered, tables, count, copies, edited, latest>>
  BY DEF Reboot
<1>b. budget' \in Budgets /\ ~NoReboot'
  <2>1. budget.kills \in 1 .. MaxKills /\ budget.reboots \in 1 .. MaxReboots /\ budget \in Budgets
    BY InvFacts, InstallerAssumption DEF Reboot, TypeOK, Budgets
  <2>2. budget' = [budget EXCEPT !.kills = @ - 1, !.reboots = @ - 1]
    BY DEF Reboot
  <2>3. budget' = [faults |-> budget.faults, kills |-> budget.kills - 1,
                   reboots |-> budget.reboots - 1, outside |-> budget.outside]
    BY <2>1, <2>2 DEF Budgets
  <2>. QED  BY <2>1, <2>3, InstallerAssumption DEF Budgets, NoReboot
<1>c. /\ running' \in [Parts -> Contents]
      /\ running'[Panel] = files[Panel]
      /\ \A p \in Edges : running'[p] = rendered[p]
  <2>1. running' = [p \in Parts |-> IF p = Panel THEN files[p] ELSE rendered[p]]
    BY DEF Reboot
  <2>2. \A p \in Parts : p = Panel \/ p \in Edges
    BY DEF Parts
  <2>. QED  BY InvFacts, <2>1, <2>2
<1>d. \A p \in Parts : running'[p] # "down" /\ running'[p] \in {Original(p), "new"} \cup edited
  BY InvFacts, <1>c, SavedIsOld DEF Known, Parts
<1>h. /\ runs' \in [RunIds -> StateJson] /\ (Alive' <=> Alive)
      /\ count # 0 => /\ Cur'.saved = Cur.saved /\ Cur'.created = Cur.created /\ Cur'.did = Cur.did
                      /\ Cur'.finished = Cur.finished /\ Cur'.undoing = Cur.undoing
                      /\ Cur'.closed = Cur.closed /\ Cur'.done = Cur.done
      /\ \A r \in RunIds : runs'[r].closed = runs[r].closed
  BY <1>s, HalfCopied DEF Reboot
<1>e. Alive => count # 0
  BY DEF Alive
<1>1. SafeInv'
  BY RebootSafe DEF Inv
<1>2. /\ (LastOnly /\ WhoWorks /\ Known /\ FilesInv /\ TablesInv)'
      /\ (RenderInv /\ DownInv /\ RunInv)'
  BY InvFacts, <1>s, <1>b, <1>c, <1>d, <1>e, <1>h, InstallerAssumption, SMTT(15)
     DEF host, LastOnly, WhoWorks, Late, Served, Rendered, Applying, Known, Original,
         FilesInv, Installed, Undoing, Tabled, TablesInv, RenderInv, DownInv, RunInv, NewRuns
<1>. QED  BY <1>1, <1>2 DEF Inv

(* A service that was down loads what is on the disk.                      *)
LEMMA RepairKeeps ==
  ASSUME Inv, Repair
  PROVE  Inv'
<1>s. /\ pc = "idle" /\ pc' = "idle" /\ UNCHANGED <<job, files, rendered, tables, router, runs, count, copies, edited, latest, budget>>
      /\ routerRuns' = routerRuns \/ (router \notin {"torn", "missing"} /\ routerRuns' = router)
  BY DEF Repair
<1>c. /\ running' \in [Parts -> Contents]
      /\ \A p \in Parts : \/ running'[p] = running[p]
                          \/ /\ running[p] = "down" /\ running'[p] # "down"
                             /\ running'[p] = IF p = Panel THEN files[p] ELSE rendered[p]
  BY InvFacts, SavedIsOld DEF Repair, Known, Parts
<1>1. SafeInv'
  BY RepairSafe DEF Inv
<1>2. /\ (LastOnly /\ WhoWorks /\ Known /\ FilesInv /\ TablesInv)'
      /\ (RenderInv /\ DownInv /\ RunInv)'
  BY InvFacts, <1>s, <1>c, InstallerAssumption, SMTT(15)
     DEF host, LastOnly, WhoWorks, Cur, Alive, Late, Served, Rendered, Applying, Known,
         Original, Parts, FilesInv, Installed, Undoing, Tabled, TablesInv, RenderInv, DownInv,
         RunInv, NoReboot, NewRuns
<1>. QED  BY <1>1, <1>2 DEF Inv

(* An edit is not the new version.                                         *)
LEMMA EditFileKeeps ==
  ASSUME Inv, NEW p \in Parts, NEW e \in EditIds, EditFile(p, e)
  PROVE  Inv'
<1>s. /\ e \notin {"base", "new", "down"} /\ edited' = edited \cup {e} /\ edited' # {}
      /\ files' \in [Parts -> Contents] /\ files'[p] = e
      /\ \A q \in Parts : q # p => files'[q] = files[q]
      /\ UNCHANGED <<rendered, running, tables, router, routerRuns, runs, count, pc, job, copies, budget>>
  BY InvFacts, InstallerAssumption DEF EditFile, Contents
<1>1. SafeInv'
  BY EditFileSafe DEF Inv
<1>2. /\ (LastOnly /\ WhoWorks /\ Known /\ FilesInv /\ TablesInv)'
      /\ (RenderInv /\ DownInv /\ RunInv)'
  BY InvFacts, <1>s, InstallerAssumption, SMTT(15)
     DEF LastOnly, WhoWorks, Cur, Alive, Late, Served, Rendered, Applying, Undoing, Known,
         Original, FilesInv, Installed, Tabled, TablesInv, RenderInv, DownInv, RunInv,
         NoReboot, NewRuns
<1>. QED  BY <1>1, <1>2 DEF Inv

(* The router's configuration is not in the record.                        *)
LEMMA RoutesAppliedKeeps ==
  ASSUME Inv, NEW v \in {"layer", "foreign", "missing"}, RoutesApplied(v)
  PROVE  Inv'
<1>1. SafeInv'
  BY RoutesAppliedSafe DEF Inv
<1>2. /\ (LastOnly /\ WhoWorks /\ Known /\ FilesInv /\ TablesInv)'
      /\ (RenderInv /\ DownInv /\ RunInv)'
  BY InvFacts, InstallerAssumption, SMTT(15)
     DEF RoutesApplied, SpendOutside, LastOnly, WhoWorks, Cur, Alive, Late, Served, Rendered,
         Applying, Known, Original, FilesInv, Installed, Undoing, Tabled, TablesInv,
         RenderInv, DownInv, RunInv, NoReboot, NewRuns
<1>. QED  BY <1>1, <1>2 DEF Inv

-----------------------------------------------------------------------------

(* At the beginning nothing is installed.                                  *)
LEMMA InitInv == Init => Inv
<1>. SUFFICES ASSUME Init PROVE Inv
  OBVIOUS
<1>t. Panel \in Parts /\ Edges \subseteq Parts /\ NoJob \in Jobs /\ MaxRuns \in Nat
  BY PartsType, NoJobType
<1>o. \A p \in Parts : Original(p) \in {"absent", "base"}
  BY DEF Original
<1>1. SafeInv
  BY InitSafe
<1>2. LastOnly /\ WhoWorks /\ Known /\ FilesInv /\ TablesInv
  BY <1>t, <1>o, InstallerAssumption
     DEF Init, RunIds, LastOnly, WhoWorks, Known, FilesInv, TablesInv, Alive, Applying,
         Undoing, Late, Served, Rendered, Tabled
<1>3. RenderInv /\ DownInv /\ RunInv
  BY <1>t, <1>o
     DEF Init, RenderInv, DownInv, RunInv, NewRuns, Alive, Applying, Served, Rendered
<1>. QED  BY <1>1, <1>2, <1>3 DEF Inv

(* A step that changes nothing.                                            *)
LEMMA UnchangedKeeps ==
  ASSUME Inv, UNCHANGED vars
  PROVE  Inv'
<1>0. SafeInv'
  BY SafeHolds DEF Inv
<1>1. (LastOnly /\ WhoWorks /\ Known)'
  BY InvFacts DEF vars, host, LastOnly, WhoWorks, Known, Cur, Alive
<1>2. (FilesInv /\ TablesInv /\ RenderInv /\ DownInv)'
  BY InvFacts DEF vars, host, FilesInv, Installed, TablesInv, RenderInv, DownInv, Cur, Alive
<1>3. RunInv'
  BY InvFacts DEF vars, host, RunInv, NewRuns, NoReboot, Cur, Alive
<1>. QED  BY <1>0, <1>1, <1>2, <1>3 DEF Inv

(* Every step keeps the invariant.                                         *)
LEMMA InvHolds == ASSUME ~Again, ~Updates PROVE Inv /\ [Next]_vars => Inv'
<1>. SUFFICES ASSUME Inv, [Next]_vars PROVE Inv'
  OBVIOUS
<1>1. CASE StartApply
  BY <1>1, StartApplyKeeps
<1>2. CASE InstallAgain
  BY <1>2, InstallAgainKeeps
<1>3. CASE Backup
  BY <1>3, BackupKeeps
<1>4. CASE CopyDone
  BY <1>4, CopyDoneKeeps
<1>5. CASE Migrate
  BY <1>5, MigrateKeeps
<1>6. CASE IntendRestart
  BY <1>6, IntendRestartKeeps
<1>7. CASE RestartPanel
  BY <1>7, RestartPanelKeeps
<1>8. CASE IntendRender
  BY <1>8, IntendRenderKeeps
<1>9. CASE Render
  BY <1>9, RenderKeeps
<1>10. CASE FinishApply
  BY <1>10, FinishApplyKeeps
<1>11. CASE ApplyFails
  BY <1>11, ApplyFailsKeeps
<1>12. CASE UndoRun
  BY <1>12, UndoRunKeeps
<1>13. CASE DropTables
  BY <1>13, DropTablesKeeps
<1>14. CASE RunRestored
  BY <1>14, RunRestoredKeeps
<1>15. CASE SkipPanel
  BY <1>15, SkipPanelKeeps
<1>16. CASE PanelBack
  BY <1>16, PanelBackKeeps
<1>17. CASE NotePanel
  BY <1>17, NotePanelKeeps
<1>18. CASE SkipRerender
  BY <1>18, SkipRerenderKeeps
<1>19. CASE StartRerender
  BY <1>19, StartRerenderKeeps
<1>20. CASE Rerender
  BY <1>20, RerenderKeeps
<1>21. CASE NoteEdges
  BY <1>21, NoteEdgesKeeps
<1>22. CASE SkipRouter
  BY <1>22, SkipRouterKeeps
<1>23. CASE ResumeRouter
  BY <1>23, ResumeRouterKeeps
<1>24. CASE KeepRouter
  BY <1>24, KeepRouterKeeps
<1>25. CASE PutRouterBack
  BY <1>25, PutRouterBackKeeps
<1>26. CASE RestartRouter
  BY <1>26, RestartRouterKeeps
<1>27. CASE NoteRouter
  BY <1>27, NoteRouterKeeps
<1>28. CASE Verified
  BY <1>28, VerifiedKeeps
<1>29. CASE CloseRun
  BY <1>29, CloseRunKeeps
<1>30. CASE RollbackFails
  BY <1>30, RollbackFailsKeeps
<1>31. CASE Kill
  BY <1>31, KillKeeps
<1>32. CASE Reboot
  BY <1>32, RebootKeeps
<1>33. CASE Repair
  BY <1>33, RepairKeeps
<1>34. ASSUME NEW p \in Parts, SkipFile(p) PROVE Inv'
  BY <1>34, SkipFileKeeps
<1>35. ASSUME NEW p \in Parts, Intend(p) PROVE Inv'
  BY <1>35, IntendKeeps
<1>36. ASSUME NEW p \in Parts, Replace(p) PROVE Inv'
  BY <1>36, ReplaceKeeps
<1>37. ASSUME NEW p \in Parts, KeepDiverged(p) PROVE Inv'
  BY <1>37, KeepDivergedKeeps
<1>38. ASSUME NEW p \in Parts, RestoreFile(p) PROVE Inv'
  BY <1>38, RestoreFileKeeps
<1>39. ASSUME NEW p \in Parts, AlreadyBack(p) PROVE Inv'
  BY <1>39, AlreadyBackKeeps
<1>40. ASSUME NEW p \in Edges, IntendReload(p) PROVE Inv'
  BY <1>40, IntendReloadKeeps
<1>41. ASSUME NEW p \in Edges, Reload(p) PROVE Inv'
  BY <1>41, ReloadKeeps
<1>42. ASSUME NEW p \in Edges, EdgeBack(p) PROVE Inv'
  BY <1>42, EdgeBackKeeps
<1>43. ASSUME NEW p \in Parts, NEW e \in EditIds, EditFile(p, e) PROVE Inv'
  BY <1>43, EditFileKeeps
<1>44. ASSUME NEW v \in {"layer", "foreign", "missing"}, RoutesApplied(v) PROVE Inv'
  BY <1>44, RoutesAppliedKeeps
<1>45. CASE RollbackAll
  BY <1>45, RollbackAllKeeps
<1>46. CASE RollbackOne
  BY <1>46, RollbackOneKeeps
<1>47. ASSUME NEW p \in Parts, UpdatePanel(p) PROVE Inv'
  BY <1>47 DEF UpdatePanel
<1>48. CASE UNCHANGED vars
  BY <1>48, UnchangedKeeps
<1>. QED
  BY <1>1, <1>2, <1>3, <1>4, <1>5, <1>6, <1>7, <1>8, <1>9, <1>10, <1>11, <1>12, <1>13, <1>14,
     <1>15, <1>16, <1>17, <1>18, <1>19, <1>20, <1>21, <1>22, <1>23, <1>24, <1>25, <1>26,
     <1>27, <1>28, <1>29, <1>30, <1>31, <1>32, <1>33, <1>34, <1>35, <1>36, <1>37, <1>38,
     <1>39, <1>40, <1>41, <1>42, <1>43, <1>44, <1>45, <1>46, <1>47, <1>48
     DEF Next, Step

(* The record of the last run is ahead of the host in every state that     *)
(* multiloc_installer.py can reach, killed anywhere any number of times.   *)
THEOREM InstallerInvariant == ASSUME ~Again, ~Updates PROVE Spec => []Inv
<1>1. Inv /\ [Next]_vars => Inv'
  BY InvHolds
<1>. QED  BY InitInv, <1>1, PTL DEF Spec

(* The invariant says more than the two properties.                        *)
LEMMA InvRecords == Inv => WorkIsOnRecord
<1>. SUFFICES ASSUME Inv PROVE WorkIsOnRecord
  OBVIOUS
<1>1. TypeOK /\ LastOnly /\ Known /\ FilesInv /\ TablesInv /\ RenderInv /\ DownInv /\ RunInv
  BY DEF Inv, SafeInv
<1>2. Alive => count \in NotRolledBack /\ NotRolledBack # {}
  BY <1>1, NotRolledBackIsLast
<1>3. \A p \in Parts : {Original(p)} \cup edited \subseteq Theirs(p)
  BY <1>1 DEF Theirs, TypeOK, Known
<1>4. Edges \subseteq Parts
  BY PartsType
<1>5. FilesOnRecord
  BY <1>1, <1>2 DEF FilesOnRecord, FilesInv, Cur
<1>6. TablesOnRecord
  BY <1>1, <1>2 DEF TablesOnRecord, TablesInv, Cur
<1>7. RenderedOnRecord
  BY <1>1, <1>2, <1>3, <1>4 DEF RenderedOnRecord, RenderInv, Known, Cur
<1>8. RunningOnRecord
  BY <1>1, <1>2, <1>3 DEF RunningOnRecord, RunInv, NewRuns, Known, Cur, Theirs
<1>. QED  BY <1>5, <1>6, <1>7, <1>8 DEF WorkIsOnRecord

(* Wherever apply or rollback stops, whatever is edited in between and     *)
(* whoever applies routes, every new file, table, rendered configuration   *)
(* and process is accounted for by the STATE.json of a run that a later    *)
(* rollback will undo (cmd_apply writes its flags ahead, cmd_rollback      *)
(* closes a run last).                                                     *)
THEOREM WorkIsAccountedFor == ASSUME ~Again, ~Updates PROVE Spec => []WorkIsOnRecord
  BY InvRecords, InstallerInvariant, PTL

LEMMA InvSettles == Inv => SettledIsWhole
<1>. SUFFICES ASSUME Inv, pc = "idle", OpenRuns = {}, edited = {}, NoReboot
             PROVE  \/ Whole([p \in Parts |-> "new"]) /\ tables = "all"
                    \/ Whole([p \in Parts |-> Original(p)]) /\ tables = "none"
  BY DEF SettledIsWhole
<1>1. TypeOK /\ LastOnly /\ Known /\ FilesInv /\ TablesInv /\ RenderInv /\ DownInv /\ RunInv
  BY DEF Inv, SafeInv
<1>2. Edges \subseteq Parts
  BY PartsType
<1>3. CASE Alive
  <2>1. count \in Runs /\ ~Cur.closed
    BY <1>3, <1>1, CurType DEF Alive, Runs, RunIds
  <2>2. Cur.finished /\ ~Cur.undoing
    BY <2>1 DEF OpenRuns, IsOpen, Cur
  <2>3. /\ \A p \in Parts : files[p] = "new" /\ running[p] = "new"
        /\ \A p \in Edges : rendered[p] = "new"
        /\ tables = "all"
    BY <1>1, <1>3, <2>2 DEF FilesInv, TablesInv, RenderInv, RunInv
  <2>. QED  BY <2>3, <1>2 DEF Whole
<1>4. CASE ~Alive
  <2>1. /\ \A p \in Parts : files[p] # "new" /\ running[p] # "new"
        /\ \A p \in Edges : rendered[p] # "new"
        /\ tables = "none"
    BY <1>1, <1>4 DEF FilesInv, TablesInv, RenderInv, RunInv, NewRuns
  <2>2. /\ \A p \in Parts : files[p] = Original(p) /\ running[p] \in {Original(p), "down"}
        /\ \A p \in Edges : rendered[p] = Original(p)
    BY <1>1, <2>1, <1>2 DEF Known
  <2>. QED  BY <2>1, <2>2, <1>2 DEF Whole
<1>. QED  BY <1>3, <1>4

(* With no run open, no edit and no host restart, the host is wholly on    *)
(* the new version or wholly on the old one.                               *)
THEOREM SettledHostIsWhole == ASSUME ~Again, ~Updates PROVE Spec => []SettledIsWhole
  BY InvSettles, InstallerInvariant, PTL

=============================================================================
