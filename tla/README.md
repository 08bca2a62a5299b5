# TLA+ models of the Hiddify add-on stack

This directory models the parts of the repository that decide something over
time, or that decide something by the interplay of several writers: which exit
the traffic takes, how the router's configuration is built, applied and rolled
back, what the owner hears of an outage, what a paid plan does to the books, who
has an account and is served, who is banned for sharing one, and how the feature
of the countries gets onto a host and off it again.  TLC checks small instances
of every model; TLAPS proves the safety properties of nine of them for every
value of the constants.

Contents: [the system](#1-the-system), [modules](#2-modules),
[runs](#3-runs), [fairness](#4-fairness), [proofs](#5-proofs),
[disagreements and weaknesses](#6-disagreements-and-weaknesses),
[what is left out](#7-not-modelled), [plan](#8-plan).

Paths: `SP` stands for
`golden/overlay/opt/hiddify-manager/venv313/lib/python3.13/site-packages/hiddifypanel`,
`BS` for `golden/overlay/opt/hiddify-manager/bin-scripts`, `RB` and `RR` for
`payload/panel-overlay/hiddifypanel` of `release/business-installer` and
`release/routing-installer`, `OL` for `ops-2026-10/multiloc-layer`.  The
repository holds most files several times: `golden/overlay` as installed,
`ops-2026-10` and `multiloc` as they were delivered, `release` as packaged.  A
definition names one copy, the one that is final or, where copies are
byte-identical, any of them.  `RR/hutils/commercial_routing.py` differs from the
file of `golden` only by the layer of the countries that is appended there,
which is modelled from `OL/multiloc_router.py`.

## 1. The system

One server (the panel) serves VPN users and routes their traffic to exit nodes
in several countries.  Components, the state they keep, how they interact and
what makes them hard:

| component | state | operations | talks to | hard because |
|---|---|---|---|---|
| **auto-director** `golden/overlay/opt/auto-director/auto_director.py` | per country: smoothed latency, failure and success counters; the choice, dwell time; `state.json`, the pin file | a cycle every interval; `once`, `pin`, `unpin` | probes through the router; sets an override in the router's API | restarts between decision, API call and save; two processes on one file; hysteresis that must neither flap nor stick |
| **router configuration builder** `RR/hutils/commercial_routing.py`, `proxy/router_core.py`, `OL/multiloc_router.py`, `router_compact.py` | the file it rewrites | the renderer, five layers, the layer of the countries with its checks, compaction; full, classic and countries-only builds | database; used by router apply | each layer finds its place by recognising the rules of the others; a layer may run on a file made from an older database |
| **router apply** `SP/hutils/multiloc_apply.py`, `multiloc_full.py`, `BS/multiloc_router_apply.py`, `BS/multiloc_ctl.py` | the live `config.json`, what the process has loaded, `applied.json`, a kept configuration with two companions, `status.json`, a lock | Apply, accept, discard; console commands | panel (edits meanwhile), systemd, xray-router | inputs change while they are read; kills between replace, restart and record; a rollback that fails itself |
| **multi-location installer** `OL/multiloc_installer.py` | the host's files, tables, rendered configurations and services; per run a backup directory with `STATE.json`; a lock | `apply` with its automatic rollback, `rollback` of all runs or one, forced or not | systemd, the panel, xray, people who edit files and apply routes | killed or rebooted anywhere, also while rolling back; nothing of others may be thrown away |
| **vpn-watch** `golden/overlay/opt/vpn-watch/vpn_watch.py` | counters and alerts per check, a queue of messages: one `state.json` | a fast run and a nodes run, each on a timer | Telegram; everything it probes | two runs on one file; killed before the save; messages whose answer is lost; a bounded queue |
| **payments** `RB/panel/commercial/telegrambot/Usage.py`, `.../telegram/tgbot.py`, `RB/panel/admin/PlanAdmin.py`, `RB/commercial_logic.py`, `RB/models` | plans, users, subscriptions (database); memory of seen updates and a thread pool (process) | invoice, pre-checkout, payment, renewal; plan and user forms | Telegram (at-least-once delivery), MariaDB | duplicates, two threads on one charge, a plan edited under a payment, restarts |
| **accounts**: bot registration (`Usage.py`, `admin.py`), web trial (`.../web_trial/trial.py`), usage accounting (`SP/panel/usage.py`, `SP/drivers/xray_api.py`, the stored procedure in `init_db.py`) | users; the clients, counters and file of xray | look a number up, create or bind; every minute read and reset counters, charge, add and remove clients | Telegram, HTTP, xray's API, database | check, then insert; reset before commit; runs that overlap; lists that are stale when compared |
| **anti-share** `release/antishare-installer/.../antishare`, `ops-2026-10/antishare` | score and state per user, a profile per address, overrides, shared addresses; a set in nftables | a cycle per timer; the page; `reset_all` | access log, nft, Telegram | a ban before its commit; the page and the cycle write the same rows |
| **routing pages** `RB/panel/admin/BusinessAdmin.py`, `RR/panel/admin/RoutingRuleSourceAdmin.py`, `RoutingUpstreamAdmin.py`, `RR/hutils/commercial_routing_source_parser.py` | rule sources, rules, nodes, settings (database); lists (two files); the settings in redis | save the routing form; add, edit, import, switch, delete sources; nodes; one apply per save or press of a button | database, redis, the file of the lists; read by router apply and every other process | one table with rules of many owners; a form compared with a cache that others fill; a save that fails half way |
| routing-links page `golden/overlay/opt/routing-links` | the served page, last good copies | update, certificate | HTTP | a new page must be whole |
| disaster recovery `disaster-recovery` | snapshots | snapshot, restore, off-site copy | mariadb-dump, tar, rclone | dump and files are not one moment |
| other installers `golden`, `release`, `node`, `ops-2026-10` | backups | overlay, rollback, stages | the host | interruption between two files |
| the rest of the admin UI, cabinet, landing page, vendored code | none of their own | forms and pages | database | - |

What makes each correct:

- *auto-director*: AUTO is never directed to a country its counters call down;
  it is closed only while no country has come back; a silent country is left, a
  pin is followed, and the choice comes to rest.
- *router configuration*: what an apply calls good passes the layer's own checks;
  Russian destinations never leave through a foreign node and foreign ones never
  directly; a country's entrance never ends in another country; the short way of
  an apply gives what the full one would.
- *router apply*: "nothing to apply" is true; no edit is lost, none is undone by
  an older configuration; nothing an edit does not explain enters without
  consent; a failed run leaves the previous file and the previous router, or is
  known not to; every run ends; edits arrive.
- *installer*: whatever of the layer is on the host is on record in a run that a
  later rollback undoes; nobody's edit is lost; a closed story leaves the host
  wholly old or wholly new; an open one can be ended.
- *vpn-watch*: an alert is earned by failing runs in a row; what counts as told
  is told or queued; outages, recoveries and events reach the owner.
- *payments*: a charge renews a package at most once and never without a charge;
  the books agree with what was paid; nobody is told of a renewal that is not
  there; a charge is renewed or reported.
- *accounts*: a number and a chat have one account, an account keeps its chat;
  traffic is charged once; xray ends up serving exactly who is active, at
  every inbound.
- *anti-share*: bans are on record; who keeps to his limit is left alone in the
  end, who does not is blocked; an address of a CDN edge ends up open.

- *routing pages*: no request takes, loses or mixes another owner's rules; what a
  save reports is stored; an apply that reports success made the router of what is
  stored.

The components meet in few places: the database (users, plans, nodes), the file
of xray-router (builder, apply and installer), the router's API (auto-director).
The builder's output is what router apply carries around as versions; the
installer sees the routes that others apply as changes of one file.

## 2. Modules

### auto-director

| module | models |
|---|---|
| `Decider` | `class Decider`: the pure decision.  `Step(d, lat, pin)` is `Decider.step`, split into `Observe` (counters and smoothing), `FirstChoice`, `Reopening`, `Keeping` as the code's branches are. |
| `AutoDirector` | The daemon and the command `once` (`mem`, `pc` per process), `state.json` (`disk`, also torn), the pin file, the router's override.  `Decide`, `Apply`/`ApplyFails`, `Save`/`SaveTorn`/`SaveFails` are the three parts of `Director.cycle`; `Stop`, `Crash`, `Released` are systemd's. |
| `ExitChoice` | The abstract promise: a choice made on verdicts. |
| `DirectorRefinement` | The mapping: a country's verdict is read off its counters (`VerdictOf`); `KeepsPromise == Promise!Spec`. |
| `DirectorHistory` | The director with history variables: what was really measured since a decision. |

Latencies are 0..`MaxLat` steps.  The smoothed latency of a country is *any*
value between the previous one and the sample (`Smoothed`): this covers every
weight `ewma_alpha` in 0..1, and no property depends on the weight.  The dwell
time counts control cycles.  The code is written for two countries (`_other`
returns the first that is not the argument), so the model has two.

### router configuration

`RouterConfig`.  A rule has entrances, kinds of destination and a target; a
configuration is the sequence of rules with its outbounds, balancers and
entrances.  `Render` is the renderer, one operator follows for each layer of
`commercial_routing.py` in the order the code runs them, `Transform` is the layer
of the countries, `Sound` its own checks (what it refuses to write), `Compact`
the joining of neighbouring lists.  `Reached` is xray's reading of such a file:
the first rule that fits.  A database is edited between and during applies; a
full apply builds in a private copy, the classic one on the live file with a
restart after every layer and may stop between two, the countries' layer alone
rewrites a finished file.

### router apply

`RouterApply`.  A configuration is a function from its six *parts* to the
*version* of the input the part was built from: `rules`, `upstreams` and `settings`
(read from the database in one transaction, with `countries`), `ui_files` (files
read later), and `host` (what no hash covers and no edit explains).  This keeps
exactly what the code compares: hashes become versions, and a textual difference
becomes the set of *categories* of `router_diff.py` in which the changed parts show
(`Differing`, by the constant `Shows`); `ExplainedBy` is that file's table, and
`Unexplained` what its `review` keeps.  A part that a half-built file does not have
is `NoPart`, a file whose copy was cut short is `Torn`.

`pc` and `job` are the one job under the lock.  `Decide` (the plan), `TakeHashes`
and `Expect` read the inputs one after the other, in the order of a service run or of
a console run; `ReadDatabase`, `ReadFiles`, `Compare`, `Stage` are the pipeline in a
private copy, `StartClassic` .. `ClassicFails` the classic pipeline on the live file
(`--classic`, or a live file that is not JSON), `PreChecksFail` .. `Swapped` the
swap.  `_restore_previous` is four actions: the copy empties the file (`PutBack`),
fills it (`Copied`) or fails (`CopyFails`, which ends the run without a restart),
and the router is restarted on it or fails to be (`RestartPrevious`).  Of a torn
file `plan()` says that the countries are unknown, and `patch_config` and `accept`
raise (`CountriesRefused`, `AcceptFails`).  `Press` is the button,
`UnitLocks`/`UnitRefused`/`Finish` the service, `Kill`, `Reboot`,
`RouterStartsAgain`, `OutsideWrite` the surroundings.

### multi-location installer

`MultilocInstaller`.  A *part* is a service with the file it is made of: its file
(`files`), for an edge the configuration rendered from it (`rendered`), and what
its process has loaded (`running`).  Contents are names: the original, the new
version, somebody's edit.  `latest` remembers the last edit of each file, which the
program does not know; `NothingThrownAway` asks where it is.  `runs[r]` is the
backup directory of a run with its `STATE.json`: the backups (`saved`, `aside`), the flags apply writes ahead (`did`,
`created`), how far a rollback got (`undoing`, `done`, `pending`, `closed`).
`StartApply` .. `FinishApply` are the stages of `cmd_apply`, each split where it
saves: the dump of the database lies between the check of `preflight` and `Backup`,
a file is saved (`Intend`) and then replaced (`Replace`) without another look at it.
`ApplyFails` is the `except` branch.  `StartRollback`, `UndoRun` .. `CloseRun` are
`cmd_rollback`, `rollback_run_data` (`KeepDiverged`, then `RestoreFile`),
`rollback_services` and `restore_router`; `job.byHand` is a rollback that somebody
asked for, which may carry `--force-router`.  `Kill` and `Reboot` stop the installer
between any two steps, the router's file and its backup also in the middle of the
copy.  `EditFile`, `UpdatePanel` and `RoutesApplied` are other people: the
installer's lock keeps out only a second installer, so they act at *any* step of a
run; `Repair` removes the cause of a failed start.

### vpn-watch

`VpnWatch`.  A message is the set of facts it tells (check, working or not;
event number).  Each kind of run has `pc` and a private copy of the state
(`mem`): `Begin` takes the lock and reads the file, `Evaluate` is
`Monitor.apply` and the queueing of `notify`, `Send`/`SendFails` one message at
a time, `AllSent` the cut of the queue, `Save` the replaced file.  `told`,
`heard`, `streak` record what the owner knows and what really happened; the
program does not have them.

### payments

| module | models |
|---|---|
| `Sales` | The abstract promise: charges, and at most one renewal for each. |
| `Payments` | Telegram (`pay`, `posted`), the webhook (`seen`, `queue`), the pool's threads (`work`), the database (`plans`, `users`, `book`) and the forms. |

`Deliver` is `TGBotResource.post`, `Take` and the `Task` actions are
`_process_update_async` with its handler: `Checkout` is
`process_pre_checkout_query`; `Ignore`, `Mismatch`, `AlreadySold`, `Prepare`,
`Commit`, `Duplicate`, `Announce` are the exits and the transaction of
`successful_payment`.  A session reads a snapshot in `Prepare` and writes in
`Commit` only the columns that differ from what it read, as SQLAlchemy does.
Traffic and device limits of a plan are one value; they are set together
everywhere.

### accounts

`Accounts` puts the table of users between those who write it.  A request looks
up in one snapshot (`Trial`, `ContactOfNobody`, `ContactOfUser`, `Link`) and
writes later (`Create`, `QuickApply`, `Bind`); an administrator's action edits the
row and then tells xray or its file (`Edit` with `Push`, `PushFile`, `Remove`,
`Drop`); a run of `update_local_usage` reads and resets the counters, reads xray's
clients, charges user by user, loads the users and compares (`ReadCounters` ..
`Sweep`), with `PeriodicReset` in between.  xray has a set of clients for each
inbound: a call adds or removes a client inbound by inbound and swallows what fails
(`Serve`), the comparison takes the list of the first inbound that answers
(`Listed`).  Runs overlap or die, calls fail, panel
and xray restart.  `flown`, `forgiven`, `lost` account for all traffic there was,
`missed` for the users about whom the last call did not reach every inbound.

### anti-share

`AntiShare`.  The columns of the code are the fields of `row` and `profile`; what
is computed from them (`Excess`, `ScoreAfter`, `StateOf`, `Remembered`, `Allowed`)
are operators on what a cycle has loaded of one user (`mem`).  `Load`, `Judge`,
`Commit` are the three parts of `process_user`: rows are read, bans are set, the
columns that differ are written.  The page and `reset_all` act between any two of
them.  A timeout of nftables is counted in cycles.

### routing pages

`RoutingRules`.  Rules are a table by their unique key; a rule's owner is a source
or the text of the form.  Every request is one step, because the panel
(single-threaded) answers one at a time, except the save of the form, during
which other processes read: `Submit` (comparison with the cache, the settings set
in the session, the cache emptied), `WriteLists` (two files, each emptied and then
filled), then `Refuse` or `Commit`, `Report`; `SaveDies` in between.  A save starts
one apply after its commit (`StartApply`), the button of the sources' page another
(`PressApply`), and nothing else does.  The apply reads the settings first, from the
cache or from the database (`ReadSettings`), then tables and files (`Apply`); the
page waits for it 90 or 60 seconds and no longer (`Report`).  `StartReader` and
`OnlyRead` are another process: it fills an empty cache with the settings of its own
transaction.  A page's text may be of any age and contain anything: it is any set of
lines, some of which cannot be read back (`Unprintable`).

This is the page of `release/business-installer` with the classic apply.  The page
that the feature of the countries installs starts `multiloc_apply.apply_now`
instead, which is `Press("auto")` of `RouterApply`.

## 3. Runs

Every `MC*.tla` only gives values to constants.  Bounds count faults, edits or
kills; each is the smallest at which the interleaving the run is about happens
twice or can meet another one.

| run | bounds | shows |
|---|---|---|
| `director_once` | thresholds 1 (failures), 2 (recovery), 1 (confirm), dwell 1; the command `once` beside the daemon, 1 fault (a torn file, a kill, a failed call), 1 planned stop | whatever is read back from the shared file, a choice is supported by the counters: no direction to a country that is down, AUTO closed only while none is up (`ChoiceSupported`) |
| `director_history` | 2 countries, latencies 0..1, thresholds 2, confirm 1, dwell 2, 1 planned stop | every step is allowed by `ExitChoice` (`KeepsPromise`); left, closed and reopened only for causes that were measured (`MovedForCause`); a silent country is left, silence closes AUTO, a pin is followed and the choice comes to rest (`OverrideFollows`) |
| `apply_safety` | 2 edits, up to 2 troubles together out of 2 failed steps and 1 each of kill, host restart and writer without the lock, 1 console run; one country without an outbound; 6.0 million states | an empty plan means everything is in the file (`NothingToApply`) and, if no run was killed, in the process (`ReflectsUnkilled`); after a failure file and router are as before, unless the copy back failed as well (`FailureLeavesPrevious`); no edit is undone (`NeverBackwards`); consent for every kind of change that no edit explains (`ConsentForTheRest`) |
| `apply_live` | 1 edit, 1 each of kill, host restart, failure and console run, all of them together | runs end; edits arrive unless the owner is left with a torn or half-built file (`ApplyGetsThrough`) |
| `router_config` | 3 nodes, one named like another with a digit more, 2 countries, 7 databases to start from, 1 edit at any moment | the layer's checks refuse nothing but a clash and a file without a real node (`SoundOrClash`); Russian destinations stay home, countries apart (`EachItsOwnWay`); the countries' layer alone on a finished file gives what a full build would (`ShortWayAgrees`) |
| `install` | the panel and one added edge, 2 runs; 1 edit, 1 update of the panel or routing apply by others, 1 fault, 1 kill or host restart, up to 3 of these together, at any step; 1.0 million states | `WorkIsOnRecord`, `NothingThrownAway`, `SettledIsWhole`; an open run ends (`OpenRunsEnd`) |
| `install_powerloss` (violation) | 1 run, 1 host restart | see [section 6](#6-disagreements-and-weaknesses) |
| `watch` | a fast check and a node check, 2 changes, 1 event, 1 killed run, queue of 2 | what counts as said is said or waits, and the owner's last word is the monitor's (`MemoryIsRight`); outages, recoveries and events arrive (`NewsArrives`); `AlertIsEarned` |
| `payments` | 2 payments of 1 user, 2 threads, 1 edit, 2 lost answers or forgotten updates, 1 fault or restart | one renewal per charge (`RenewedOnce`: refinement of `Sales`), `BooksBalance`, no false news (`AnnouncedIsSold`), a charge is renewed or reported unless the plan went off sale or a fault took it (`PaidIsSettled`) |
| `accounts` | 2 users, 2 chats, 2 inbounds, 2 threads, 2 runs of the task, 2 events, 1 fault | `AccountsStayApart`, `TrafficIsCharged`, `XrayFollows` |
| `sharing` | 1 user with limit 1, 2 addresses, 1 fault, 1 action of the page, 1 move, 1 day | `BanOnRecord`; who shares nothing is left alone, CDN addresses included (`PeaceReturns`); `SharingIsStopped` |
| `routing_rules` | 2 keys, one of them with a line that cannot be read back, 2 sources, 2 policies, 1 node with priorities 0..1, 2 values of the settings, 3 requests; 2.3 million states | no rule is taken, lost or mixed by another owner (`RulesStayApart`); what a save reports is stored (`SavedIsStored`); what an apply reports is what is stored (`AppliedIsStored`) |

Thresholds of 2 tell "in a row" from "once"; two threads and two payments let
every pair of steps of the transaction interleave; with one edit an input differs
before and after any step; two failed steps are the fewest for a rollback that
fails itself; losing an answer and forgetting the update are both needed for two
threads on one charge; two runs of the installer are the fewest for "finished and
then again", one edge shows what holds of each because edges do not meet.  In
`accounts` two runs of the task overlap by using the one fault, so that what is
lost with a third party's fault is not blamed on the overlap.  Three requests are two imports and a
third request on either source, or two saves of the form after an import; a save
that was refused, one that is misled by it and the button fit in as well.  The two
sources are alike (`SYMMETRY`), and no action reads what the router was made of, so
it counts only where a property looks at it (`VIEW Distinguished`); no liveness is
checked in that run.  In `apply_safety` two troubles are a failed start and the
failed copy after it, or a kill and a writer without the lock beside the next run;
`apply_live` leaves that writer out, because nothing entitles the owner to his edits
while somebody else writes the file.  In `install` a second run on record takes a
panel update, and an edit beside a rollback that was cut short takes two troubles.
One unit of traffic
in `sharing` is enough for the multiplier to be 1 or more; larger values only
change how fast the score rises.  Payments, edits, actions and installer runs run
out in their instances, so those configurations do not look for deadlock; all
others do.

Every property has been broken on purpose: for each there is a plausible mistake
in the code, defined beside the definition it replaces ("careless", "mutant"),
under which TLC finds a violation.

## 4. Fairness

- *auto-director* (`Fairness`): the daemon is started again (`Restart=always`)
  and its loop goes on (weak fairness of the three parts of a cycle); a call of
  the router's API succeeds again and again (strong fairness of `Apply`), which
  is what the loop's retry in every cycle relies on.  Nothing is assumed of
  probes, pins and stops.
- *router apply* (`RunSpec`, `OwnerSpec`): a job under the lock goes on, a
  started unit reaches the lock.  `OwnerSpec` adds an owner who presses Apply
  again while something is pending and accepts what is kept: without him no code
  brings an edit into the router.
- *installer* (`Live`): a started command goes on (its failures from outside are
  no progress and not assumed: `GoOn`); while a run is open, `rollback`
  is started again and again (that is what the installer prints and what
  `preflight` insists on); a service that every one of these rollbacks finds down is
  repaired between two of them (strong fairness of `Repair`, because the next
  `rollback` may start at once): a restart that an earlier rollback has on record is
  not tried again by a later one.
- *vpn-watch* (`Timers`): both timers fire (`OnUnitActiveSec`), a run takes its
  steps, a timer whose run finds the lock taken comes again (strong fairness of
  `Begin`), time passes.  That Telegram stays reachable is a premise of the
  properties, not fairness.
- *payments* (`Running`): Telegram repeats an update until it is answered, the
  pool takes queued tasks and a thread finishes its handler.  Nothing is assumed
  of buyers and administrators.
- *accounts* (`Live`): the task is started every minute and goes on; an
  administrator's action that was begun is finished unless the panel restarts.
  Nothing is assumed of requests.
- *anti-share* (`Live`): the timer fires and a cycle goes on, a reset too; the
  learning of a user ends.
- *router configuration*, *routing pages*: no liveness.  The pages apply once per
  save or press, so that nothing entitles anybody to a later apply.

## 5. Proofs

TLAPS checks, for all values of the constants that meet the named assumptions
(`CountriesAssumption` and `ParamsAssumption` of `Decider`, `DirectorAssumption`,
`ApplyAssumption`, `SalesAssumption`, `InstallerAssumption`, `WatchAssumption`,
`AntiShareAssumption`, `RouterConfigAssumption`, `RoutingAssumption`):

| module | theorems | argument |
|---|---|---|
| `AutoDirectorProofs` | `TypeCorrect`, `ChoiceIsSupported`, `DirectorKeepsPromise`, `MovesHaveCause` | A decider is *coherent* when its counters are typed, a chosen country has fewer failures than the threshold, and a closed one means that no country has answered often enough; every branch of `step` keeps that (`StepCoherent`).  The property speaks of one process, but a process starts from the file and `once` writes it too: the invariant is that every process *and* the file are coherent (a torn file counts as none).  The refinement follows: a coherent decider is a sound choice.  `MovesHaveCause` compares the counters with what was really measured (`MeasuredInv`): what the daemon has, or left in the file while it is down, counts no more silence and no more answers than there were, and its dwell time is not shorter than the time since its last move; a country without a smoothed latency was silent at least as long as any.  Needs `MaxFaults = 0` and `MaxOnce = 0`: a killed cycle or a failed write puts older counters back, `once` writes its own. |
| `RouterApplyProofs`, apply | `ApplyTypeCorrect`, `EmptyPlanIsTrue`, `FileGoesForward`, `UnexplainedNeedsConsent`, `FailedRunChangesNothing`, `UnkilledRouterReflects` | Versions are ordered (`Ordered`): what is recorded is not newer than a file that is whole, the file not newer than the inputs, and a job between them keeps both, because hashes are taken before the inputs are read.  When the plan finds the outer two equal, the file is squeezed in between.  For the consent: what a run has announced is newer than what is recorded, and what it is about to swap differs only in categories that an announced part explains (`Excused`), for any map `Shows` from parts to categories.  The others follow one run (`Followed`): until it replaces the file, and again when the copy back is complete, the file is the one the run started from; a copy that failed leaves the refused file or a torn one, and `job.lost` says so; outside the few steps between file and restart the process has the file or is down, unless a run was killed.  `EmptyPlanIsTrue`, `FileGoesForward`, `UnexplainedNeedsConsent` and `UnkilledRouterReflects` need that edits are not taken back (`Reverts = FALSE`); `ApplyTypeCorrect` and `FailedRunChangesNothing` need nothing.  Writers without the lock are in all of them, as far as the properties do not except them. |
| `RouterApplyProofs`, pages | `RoutingTypeCorrect`, `OwnersStayApart`, `SavesAreStored`, `AppliesAreOfWhatIsStored` | Owners: one lemma for each request says that the new table is well formed, whole and differs only in rows of one owner or of nobody; types and wholeness are inductive together.  The cache (`CacheInv`): one that was not filled beside a save holds the committed settings or nothing; while a save has settings to commit the cache is empty or was filled beside it; and every reader and apply whose transaction overlaps that save is known to (`crossed`), so whoever fills the cache otherwise fills it with what is committed.  Saves (`SaveInv`): what is compared with such a cache is compared with the settings, and the first of the two files holds the lists from the moment it is full.  Applies (`OwnInv`): while the panel waits for its apply nobody else changes tables, so that what the apply has read is still what is stored. |
| `PaymentsProofs` | `PaymentsTypeCorrect`, `TheBooksBalance`, `NoFalseNews`, `ChargesRenewOnce` | Follow a payment: an update of a payment is posted, queued and handled only after the charge; what a session is about to write agrees with the charge, because the price was compared when the plan was read; a charge is in the books exactly if it renewed a package, so the unique index stops the second transaction. |
| `MultilocInstallerProofs` | `InstallerTypeCorrect`, `WorkIsAccountedFor`, `SettledHostIsWhole`, `NoEditIsLost` | `NoEditIsLost` and the types rest on an invariant without any premise (`SafeInv`: `TypeOK`, `JobInv`, `KeepInv`): a file is saved once in a run, as the installer has seen it, before it is replaced, and what a rollback finds is copied aside, unless it is the installer's own, before the backup goes over it; so an edit is lost only by whoever replaces the file after it has been edited once more, or copies another content to the same place aside, at whatever step it is made.  For the other two (`Inv`): only the last run can be not rolled back (`LastOnly`), because `preflight` refuses a new run while one is open, and there is nothing to install on top of a finished one.  For that run the record is ahead of the host at every step of `apply`, and behind it at every step of a rollback: one part of the invariant for each kind of thing (`FilesInv`, `TablesInv`, `RenderInv`, `DownInv`, `RunInv`), each saying what holds at which step, whatever others edit meanwhile, and what a note in `STATE.json` vouches for when a rollback is resumed.  One lemma per action.  `WorkIsAccountedFor` and `SettledHostIsWhole` need that nobody names a run that is rolled back already (`Again = FALSE`) and that the panel is not updated over a finished run (`Updates = FALSE`), which would put a second run on record; the run `install` checks both with updates, see [section 6](#6-disagreements-and-weaknesses). |
| `VpnWatchProofs` | `WatchTypeCorrect`, `AlertsAreEarned`, `NothingSaidIsLost` (one half of `MemoryIsRight`), `MemoryStaysRight` | Follow a queue together with the table of counters it belongs to: `state.json`'s while no run is under way, the run's own copy otherwise; the lock makes that copy the only one.  What a table holds for said has been said or is in its queue, because a run saves once, at its end.  Whoever reads the queue to its end is left with what the table believes, whether or not he has read some of it before, so a message sent twice does no harm.  `MemoryStaysRight` needs that no check hides another: a hidden check's alert is forgotten without a recovery. |
| `AntiShareProofs` | `AntiShareTypeCorrect`, `BansAreOnRecord` | The ban comes before its record: between verdict and commit the cycle's own copy answers for it (`Announced`).  That the commit really writes it needs that the copy, when it was read, did not already say "banned for the full time", because a column that does not differ is not written (`TodoOpen`: every ban has been counted down once before a user is loaded); that what the session read still stands but for trust and lifted bans (`CopyHolds`); and that nobody whose profile is forgotten is banned (`Recent`). |
| `RouterConfigProofs` | `ConfigInvariant`, `ConfigSoundOrClash`, `ConfigEachItsOwnWay`, `ConfigShortWayAgrees` | Every file on its way is of one of two kinds.  A *plain* one (`PlainAt`, before the layer of the countries, layer by layer) has one rule for everything; nothing after it leads abroad or is for the owner's own domains, each layer's rules are where the next one looks for them, and the targets are outbounds and nodes of the database it was built from.  A *settled* one (`Settled`, after that layer) is a plain one with the countries in it: their rules are where `Transform` puts them and each leads to its own nodes, to its balancer or to the block (`Led`), a balancer holds its country's usable nodes (`Balanced`), and a director stands above loops that each lead to one country (`Directed`).  Joining neighbours keeps both kinds, because rules that are joined have the same entrances and the same target; taking the countries off a settled file gives a plain one that says the same of Russian destinations and of the owner's, which is why an apply can start from any finished file.  The invariant `Inv` says which kind the live file and the private copy are, and of which database.  That the checks pass, and where a destination goes from an entrance whichever nodes answer, then follows from the kind alone.  `ConfigShortWayAgrees` compares two files, so it must also know where the live one comes from (`TracedInv`): the file on its way is what the layers run so far make of its database (`Stage`), and the live file of a whole apply is, once the countries are taken off it, like what the pipeline built (`Likens`).  *Like* is weaker than the same, because `Compact` joins neighbours: same entrances, outbounds, balancers and probes (`SameHouse`), and the first rule that fits a destination says the same (`Says`).  On a bare file, a plain one with nothing of the countries in it (`Bare`), `Strip` undoes `Transform`, and a `Strip` of a compacted file is the compacted file of a `Strip` as far as `Says` goes; so both ways put the same countries on files that are alike, and either both pass the checks or neither. |
| `AccountsProofs` | `AllTrafficIsCharged`, `AccountsAreApart`, `AccountsTypeCorrect`, `AccountsInvariant`, `ChatIsKept` | Traffic: what flowed is the sum of what is charged, forgiven, lost, counted by xray and held by the runs that have read the counters but not charged yet (`Balanced`); no user who was never there has any of it (`Untouched`), and a run has something left to charge only while it charges (`ChargedFirst`).  That the sum over the runs changes as one of its terms does is proved first, for the community modules' definition of a sum.  Accounts: as long as no two requests overlap, whoever is to be created is still missing and whoever is to be bound has the number that was looked up and no chat (`Alone`, `NewToChat`, `BindsKnown`).  `AccountsAreApart` needs that no number is in the table twice from the start.  All of them hold for any number of inbounds and whichever calls miss one. |

The invariants need their extra parts: types and `BooksBalance` alone do not say
that a thread that is about to commit works for a charged payment; `WorkIsOnRecord`
alone does not say that the note "panel done" of an earlier attempt still vouches
for the panel when that attempt is resumed.

Model-checked only: all liveness properties (`~>` and `<>[]` under fairness, and
with them what is `ENABLED`).  Every invariant and every action property that a run
checks for safety is stated by a theorem, some under the premises named in the
table.

TLAPS cannot instantiate an induction theorem.  Where an induction over data is
needed all the same it is done on the set of counterexamples.  Sums over finite
sets (`AccountsProofs`): it is a set of subsets of a finite set, so it has a
smallest member (`SmallestSubset`), which is none.  Sequences of rules, kept,
flattened and joined (`RouterConfigProofs`): it is a set of indices, so it has a first
one (`LeastNatural`).

`RouterApplyProofs` extends the module of the apply and the module of the pages whose
settings it reads (the names of one keep out of the way of the other: `PagesSpec`,
`PagesTypeOK`, `reader`).  Its theorems about the one assume nothing of the other but
what is assumed of its constants.

Two properties were wrong before they were proved or examined for a proof, and are
stated differently now.  `NothingThrownAway` is about the *latest* edit of a file:
an older one is overwritten when `keep_diverged` copies the same file twice in one
run; and it names the two moments in which even that one is lost.  `SoundOrClash`
held only because no instance had the countries switched on and no real node: see
the next section.

## 6. Disagreements and weaknesses

One place where a comment of the repository says one thing and the code does
another is shown by a run with one property:

- `install_powerloss`: the host restarts after the panel's code was replaced and
  before `restarted_panel` is on record: the panel comes up with the new code, and
  the rollback, which finds no restart on record, leaves it running
  (`multiloc_installer.py` 802 against the comment of `crash_point`).

Other disagreements and weaknesses that the models contain and no run singles out;
a premise of a property or a bound of a run steps around each of them:

- *auto-director*: latencies are compared after smoothing, so a cycle in which the
  other country is silent still counts as one in which it was better; AUTO may
  move to a country that has just not answered.
- *router configuration*: without any real node the last rule of the renderer is
  "block", which no layer recognises as the last: the Russian rules come after it
  and Russian traffic is blocked as well (`router_core.py` 411 intends the
  opposite); when countries are switched on, their layer refuses the file for that
  reason (`check_invariants`, number 1), and the database of a server whose last
  node is switched off cannot be applied; with one real node after a `test_blackhole` one the rule for
  DNS over the proxy points at the black hole; an outbound `to-de` that is brought back
  becomes the first, which is xray's default; an administrator's own rules that
  hold the address of a DNS server or a `.ru$` expression are dropped silently; an
  empty list of suffixes or of geoip codes has no effect; the page that simulates a
  match knows no policies; the classic pipeline that fails between two layers
  leaves the router with part of them (`EachItsOwnWay` is stated for
  whole applies).
- *router apply*: a run killed between the replaced file and the restart of
  xray-router leaves a new file and an old process; the plan compares the database
  with the file and says "nothing to apply: the router already reflects the
  database" (`multiloc_ctl.py` 292; the invariant `RouterReflects` instead of
  `ReflectsUnkilled` in `MCRouterApply_safety.cfg` shows it); an input edited and
  put back while a run reads it leaves a router of the state between and an empty plan (`Reverts = TRUE` in
  `MCRouterApply_safety.cfg` shows it with `NothingToApply`); an enabled country
  without a usable outbound keeps the plan at `full` (`Missing`).  The rollback
  copies the previous file in place (`multiloc_router.py` 479-483): a kill leaves a
  torn file, a copy that fails leaves a torn one or the refused one and the router
  is not restarted; with nothing else pending, the plan never repairs a torn or
  half-built file, because it reads only the countries in it, and `patch_config` and
  `accept` raise on a torn one (`EditsArrive` asks for a whole file).  A change of
  the host passes without a question when the owner has announced an edit of the
  same category (`router_diff.py` 226, `ConsentForTheRest` says so).  A writer
  without the lock who comes after a run's last comparison is overwritten.
- *installer*: `rollback <run>` accepts a run that is rolled back already; killed
  half way, it leaves a mixed host that no open run speaks of (`Again = TRUE` in
  `MCMultilocInstaller.cfg` shows it with `SettledIsWhole`); a second diverged copy
  of one file in one run overwrites the first (`keep_diverged`), so that only the
  latest edit is certain to be kept, and not even that when an older content takes
  its place (`CopiedOver`).  `preflight` looks at the files before the dump of the
  database, which may take half an hour, and the copy does not look again (532-546):
  a file edited in between is installed over, survives only in the run's `files/`,
  and is the "original" a rollback puts back; an edit between that copy and the
  replacement is lost (`Overtaken`).  A kill while the router's file is copied into
  the backup leaves a torn one that no rollback can put back: its run stays open
  (`OpenRunsEnd` excepts it).  The lock keeps out only a second installer: a routing
  apply that was under way may bring the layer back after a rollback has found the
  router's file as it was, so nothing is claimed of that file
  (`WorkIsOnRecord`).  With a second run beside a finished one (a panel update makes
  room for it) a rollback notes its finished services in the oldest chosen run only
  (808-832), so that one rollback may end on another's notes and leave a process on
  the new version (`RunningOnRecord` asks for no update).
- *vpn-watch*: with one message over the limit the oldest is delivered after the
  newer ones (`LastWord` asks for a queue within its limit); a gate check
  (`routercfg:read`, `wg:available`, `nodes:probe-client`) reports only failures
  and keeps its counter between them (`vpn_watch.py` 143 against the README's
  "failing runs"), so the run has no gate; a run that is killed after it sent an
  alert does not remember it, and the recovery is never told (`RecoveryIsTold` and
  `AlertIsEarned` ask for no kill).
- *payments*: a plan taken off sale between the pre-checkout answer and the
  payment: the buyer is charged, `successful_payment` returns silently
  (`Usage.py` 1055 against RELEASE_NOTES.md 30); a payment whose update was
  answered is lost with a restart of the panel (`tgbot.py` 246); two payments of
  one user at the same time may leave the plan of one with the limits of the
  other; limits edited while a plan is off sale are not pushed when the list
  switches it on.
- *accounts*: overlapping requests for one number create two trials or move an
  account to another chat (`AccountsStayApart` speaks of requests that do not
  overlap; the second look in `_create_user_from_phone` reads the snapshot of the
  first); a link `/start <uuid>` gives a chat a second account, of which one menu
  shows the first and another the newest; the administrator's bot looks for a
  number in his own branch only; clients of deleted users are looked for only when
  the number of users differs from that of clients with traffic, and never when no
  user is left; a user exactly at his limit is active and not in xray's file; the
  daily statistics lose updates when runs overlap.  "A user must be added to /
  removed from every inbound" (`xray_api.py`, `get_inbound_tags`), yet a failure at
  one inbound is swallowed (154-185) and the comparison takes the clients of the
  first inbound that answers (221-249): a client missed at another one stays there
  until xray restarts or the user is switched again (`XrayFollows` speaks of the
  users about whom the last call reached every inbound).
- *anti-share*: the traffic of a cycle is the cumulative usage minus the last
  *difference* (`runner.py` 261 and 168 against `reset.py` 4), and is modelled so;
  trust decays in every cycle by the days since the address was seen; a score reset
  by hand is overwritten by the commit of a cycle that has the row loaded; a ban of
  an address that two users share is lifted for both; a helper that fails is only
  logged; an address put on the list of shared ones stays banned until its timeout.
- *routing pages*: a save refused for one bad line has set its settings in the
  session, and the page that is shown again reads them there and leaves them in
  redis for 500 seconds; the corrected form then differs in nothing from the cache
  and stores nothing, while the page says the configs have been updated
  (`SavedIsStored` without `~save.misled` shows it).  The same happens when another
  process fills the cache between `set_hconfig` and the commit.  The refusal's
  message says nothing was saved (`BusinessAdmin.py` 541), but the lists are
  already written.  A rule `wildcard:*.x` is printed as `wildcard:x`, which is
  refused, so the untouched page cannot be saved any more.  An import enables the
  rules of a source that is switched off; an edited policy waits for the next
  import; a rule that was skipped because another source had it stays away when
  that source goes; the address of a host is `x` by hand and `x/32` from a JSON
  source; an old page's text deletes the rules somebody added since.
  There is one apply for each save or button, so what it missed stays missed: after
  a refused save the corrected one stores nothing and its apply reads the refused
  values from the cache; the router keeps them and nobody applies again by itself
  (`AppliedIsStored` excepts such a save).  An apply may start up to 500 seconds
  after the cache was filled and work with those settings (`RouterApply` takes them
  as read from the database).  The page stops waiting after 90 or 60 seconds and
  the apply goes on.  The comments "deletes all rules and recreates"
  (`commercial_routing.py` 219-221, `multiloc_apply.py` 52) describe an earlier save:
  `BusinessAdmin.py` 548-566 keeps the rows whose key is still there.

## 7. Not modelled

- *auto-director*: `status.json` and the list of switches (reports); a changed
  set of countries.  A stop ends the daemon in one step: the flag the signal sets is
  looked at within half a second between two cycles (`auto_director.py` 311-323).
- *router configuration*: what a URI says and the stream settings, `dns.servers`,
  the parsing of pasted rules, the simulation of a match on the page, the text of
  a difference.  A rule whose outbound is missing counts as blocked (`Exits`,
  `Leaving`), which is what the versions of xray do that drop such a connection.
  A layer that does not start and puts its predecessor's file back
  (`commercial_routing.py` 556-561, 1238-1252) is in `RouterApply`
  (`ClassicFails`), not here (`Fails`).
- *router apply*: the `baseline` command, waiting of `cmd_start` for the unit, the
  content of a configuration.
- *installer*: the reports of `status`, `preflight` and `verify`, what a rendered
  file contains, the content of the database dump.
- *vpn-watch*: what a probe measures, the daily summary, levels that change
  while a check fails, muting by level; loss of written data in a power cut.
  `Telegram.send` cuts a message at 3900 characters (`vpn_watch.py` 722): a message
  that joins very many facts counts as told although its end was cut off.
- *payments*: the administrator's own renew and activate commands beside a
  payment and the subscription form; dates of a package; deleting users and plans
  (so the "no such user" half of the guards in `Usage.py` 1034-1036 and 1053-1055);
  a form saved over a renewal of the same moment (a form is one step here).
- *accounts*: reminders and the welcome message, `/newuser`, the panel's form for
  deleting many users, statistics per day, expiry by date and by devices (the task
  finds out about both as it does about traffic), the limit of requests per hour.
- *anti-share*: events and their retention, messages, a change of the settings,
  users beyond `scan_limit`, the file with the position in the access log; the two
  TRUNCATEs and the updates of `reset_all` (`reset.py` 59-68) are one step.
- *routing pages*: what a line, an address, a URI or a fetched file contains and how
  it is parsed (an import supplies any set of keys), the preview, the other sections
  of the form, columns that only report, a second apply beside the first (the
  classic apply takes no lock; what it does to a run of the other kind is
  `OutsideWrite` of `RouterApply`), two panels on one database.
- `SP/hutils/multiloc.py`: the rows of the countries and the subscription
  documents are functions of the database without a state of their own; their
  slots and paths survive the country that used them.
- The rest of the admin interface, cabinet and landing page are forms and pages over the
  database; node scripts, `golden` and `release` installers and disaster recovery
  are shell run once by hand; vendored code is third-party.  The packages under
  `ops-2026-10` deliver files that are modelled in their final form.

## 8. Plan

1. `Locations`: the rows of the countries and what a subscriber is shown, composed
   with `RouterConfig` from the link to the exit.
2. `Overlay`: the golden overlay applied twice, interrupted, rolled back.
   `Snapshot`: dump and files around a running panel.
3. A disk that loses unsynced writes, for `state.json` of vpn-watch, the kept
   configuration and `STATE.json`; a changed set of countries in the
   auto-director.
