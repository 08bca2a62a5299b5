---------------------------- MODULE AutoDirector -----------------------------
(***************************************************************************)
(* The auto-director service: a daemon that measures both exit countries   *)
(* once per cycle, decides (module Decider), pins the balancer of the      *)
(* router to the decision (`xray api bo`) and saves its state; the command *)
(* "once", which runs one such cycle in a process of its own; the operator *)
(* who pins a country; and the router, whose override lives in memory and  *)
(* is lost when it restarts.                                               *)
(*                                                                         *)
(* The pin is read, the probes are answered and the decision is made in    *)
(* one step: nothing else looks at a process between them.  Applying and   *)
(* saving are steps of their own, and a process may be killed before each. *)
(***************************************************************************)
EXTENDS Decider

CONSTANTS
  NoPin,          \* the pin file is absent, empty or names no country
  NoOverride,     \* the balancer has no override: the router's leastPing
  MaxFaults,      \* bound of the model: killed processes, failed writes
  MaxStops,       \* bound of the model: planned stops of the daemon
  MaxOnce         \* bound of the model: runs of the command "once"

ASSUME DirectorAssumption ==
  /\ NoPin \notin Countries
  /\ NoOverride \notin Countries \cup {Closed, Undecided}
  /\ MaxFaults \in Nat
  /\ MaxStops \in Nat
  /\ MaxOnce \in Nat

VARIABLES
  mem,        \* the Decider of each process
  phase,      \* where each process is in its cycle
  disk,       \* state.json
  pinFile,    \* the file "pin"
  override,   \* the override the router holds
  faults,     \* how many processes were killed, how many writes failed
  stops,      \* how often the daemon was stopped
  onces       \* how often "once" was started

vars == <<mem, phase, disk, pinFile, override, faults, stops, onces>>

Daemon == "daemon"
Once == "once"
Procs == {Daemon, Once}

Phases == {"down", "idle", "applying", "saving"}
Overrides == Countries \cup {Closed, NoOverride}

TypeOK ==
  /\ mem \in [Procs -> DeciderState]
  /\ phase \in [Procs -> Phases]
  /\ disk \in DeciderState
  /\ pinFile \in Countries \cup {NoPin}
  /\ override \in Overrides
  /\ faults \in 0 .. MaxFaults
  /\ stops \in 0 .. MaxStops
  /\ onces \in 0 .. MaxOnce

Init ==
  /\ mem = [p \in Procs |-> FreshDecider]
  /\ phase = [p \in Procs |-> "down"]
  /\ disk = FreshDecider
  /\ pinFile = NoPin
  /\ override = NoOverride
  /\ faults = 0
  /\ stops = 0
  /\ onces = 0

(* One interval of wall clock time: the dwell times run off, in memory and *)
(* in the file, which both hold the moment of the last switch.             *)
Elapsed(d) == [d EXCEPT !.hold = Less(@)]

----------------------------------------------------------------------------
(* Director.__init__: the decider is restored from state.json.             *)
Load == disk

Start ==
  /\ phase[Daemon] = "down"
  /\ phase' = [phase EXCEPT ![Daemon] = "idle"]
  /\ mem' = [mem EXCEPT ![Daemon] = Load]
  /\ UNCHANGED <<disk, pinFile, override, faults, stops, onces>>

StartOnce ==
  /\ phase[Once] = "down"
  /\ onces < MaxOnce
  /\ onces' = onces + 1
  /\ phase' = [phase EXCEPT ![Once] = "idle"]
  /\ mem' = [mem EXCEPT ![Once] = Load]
  /\ UNCHANGED <<disk, pinFile, override, faults, stops>>

(* The first half of Director.cycle: read the pin, measure, decide.  The   *)
(* daemon sleeps one interval between its cycles.                          *)
Aged(p, d) == IF p = Daemon THEN Elapsed(d) ELSE d

Decide(p, r) ==
  /\ phase[p] = "idle"
  /\ phase' = [phase EXCEPT ![p] = "applying"]
  /\ \E d \in Step(Aged(p, mem[p]), pinFile, r) :
       mem' = [q \in Procs |-> IF q = p THEN d ELSE Aged(p, mem[q])]
  /\ disk' = Aged(p, disk)
  /\ UNCHANGED <<pinFile, override, faults, stops, onces>>

(* apply_target: nothing to do while there is no decision or the router    *)
(* already says so; else the override is set.                              *)
(* Mutant: no decision is applied like one. *)
AppliedAlways(target) == target
Applied(target) == IF target = Undecided THEN override ELSE target

Apply(p) ==
  /\ phase[p] = "applying"
  /\ override' = Applied(mem[p].cur)
  /\ phase' = [phase EXCEPT ![p] = "saving"]
  /\ UNCHANGED <<mem, disk, pinFile, faults, stops, onces>>

(* The API of the router does not answer: apply_target returns False and   *)
(* the cycle goes on.                                                      *)
ApplyFails(p) ==
  /\ phase[p] = "applying"
  /\ mem[p].cur # Undecided
  /\ phase' = [phase EXCEPT ![p] = "saving"]
  /\ UNCHANGED <<mem, disk, pinFile, override, faults, stops, onces>>

(* A process of "once" ends with its cycle; the daemon sleeps.  An ended   *)
(* process remembers nothing.                                              *)
Resting(p) == IF p = Daemon THEN "idle" ELSE "down"
Rested(p) == IF p = Daemon THEN mem[p] ELSE FreshDecider

Save(p) ==
  /\ phase[p] = "saving"
  /\ disk' = mem[p]
  /\ phase' = [phase EXCEPT ![p] = Resting(p)]
  /\ mem' = [mem EXCEPT ![p] = Rested(p)]
  /\ UNCHANGED <<pinFile, override, faults, stops, onces>>

(* The daemon and "once" write the same state.json.tmp: when they save at  *)
(* the same time the file may be one that does not parse, and _load then   *)
(* answers as if there were none.                                          *)
SaveTorn(p) ==
  /\ \A q \in Procs : phase[q] = "saving"
  /\ disk' = FreshDecider
  /\ phase' = [phase EXCEPT ![p] = Resting(p)]
  /\ mem' = [mem EXCEPT ![p] = Rested(p)]
  /\ UNCHANGED <<pinFile, override, faults, stops, onces>>

(* Writing a file raises: the daemon reports it and tries the next cycle.  *)
SaveFails(p) ==
  /\ phase[p] = "saving"
  /\ faults < MaxFaults
  /\ faults' = faults + 1
  /\ phase' = [phase EXCEPT ![p] = Resting(p)]
  /\ mem' = [mem EXCEPT ![p] = Rested(p)]
  /\ UNCHANGED <<disk, pinFile, override, stops, onces>>

----------------------------------------------------------------------------
(* ExecStopPost: systemd removes the override; a router that does not      *)
(* answer keeps it.                                                        *)
Released == {NoOverride, override}

(* SIGTERM is honoured between two cycles, with the last cycle saved.       *)
Stop ==
  /\ phase[Daemon] = "idle"
  /\ disk = mem[Daemon]
  /\ stops < MaxStops
  /\ stops' = stops + 1
  /\ phase' = [phase EXCEPT ![Daemon] = "down"]
  /\ override' \in Released
  /\ mem' = [mem EXCEPT ![Daemon] = FreshDecider]
  /\ UNCHANGED <<disk, pinFile, faults, onces>>

(* The process dies anywhere in a cycle: systemd cleans up all the same.   *)
Crash ==
  /\ phase[Daemon] # "down"
  /\ faults < MaxFaults
  /\ faults' = faults + 1
  /\ phase' = [phase EXCEPT ![Daemon] = "down"]
  /\ override' \in Released
  /\ mem' = [mem EXCEPT ![Daemon] = FreshDecider]
  /\ UNCHANGED <<disk, pinFile, stops, onces>>

(* The operator interrupts "once": nobody releases the override.           *)
CrashOnce ==
  /\ phase[Once] # "down"
  /\ faults < MaxFaults
  /\ faults' = faults + 1
  /\ phase' = [phase EXCEPT ![Once] = "down"]
  /\ mem' = [mem EXCEPT ![Once] = FreshDecider]
  /\ UNCHANGED <<disk, pinFile, override, stops, onces>>

(* Time passes while the daemon is down.                                   *)
Outage ==
  /\ phase[Daemon] = "down"
  /\ disk' = Elapsed(disk)
  /\ mem' = [p \in Procs |-> Elapsed(mem[p])]
  /\ UNCHANGED <<phase, pinFile, override, faults, stops, onces>>

(* The command "pin": open(..., "w") empties the file before it is written *)
(* anew, so that a reader may find no pin on the way from one country to   *)
(* another.                                                                *)
Pin(n) ==
  /\ pinFile = NoPin
  /\ pinFile' = n
  /\ UNCHANGED <<mem, phase, disk, override, faults, stops, onces>>

Unpin ==
  /\ pinFile # NoPin
  /\ pinFile' = NoPin
  /\ UNCHANGED <<mem, phase, disk, override, faults, stops, onces>>

(* The router restarts: an override is not part of its configuration.      *)
RouterRestart ==
  /\ override # NoOverride
  /\ override' = NoOverride
  /\ UNCHANGED <<mem, phase, disk, pinFile, faults, stops, onces>>

----------------------------------------------------------------------------
Next ==
  \/ Start
  \/ StartOnce
  \/ \E p \in Procs, r \in [Countries -> Samples] : Decide(p, r)
  \/ \E p \in Procs : Apply(p)
  \/ \E p \in Procs : ApplyFails(p)
  \/ \E p \in Procs : Save(p)
  \/ \E p \in Procs : SaveTorn(p)
  \/ \E p \in Procs : SaveFails(p)
  \/ Stop
  \/ Crash
  \/ CrashOnce
  \/ Outage
  \/ \E n \in Countries : Pin(n)
  \/ Unpin
  \/ RouterRestart

Spec == Init /\ [][Next]_vars

(* systemd starts the daemon again whenever it ended (Restart=always), the *)
(* daemon's loop never stops, and a started process runs to the end of its *)
(* cycle.  The API of the router need not answer every call, but it does   *)
(* not fail for ever.                                                      *)
Fairness ==
  /\ WF_vars(Start)
  /\ \A p \in Procs :
       /\ WF_vars(\E r \in [Countries -> Samples] : Decide(p, r))
       /\ WF_vars(Apply(p) \/ ApplyFails(p))
       /\ WF_vars(Save(p) \/ SaveTorn(p) \/ SaveFails(p))
  /\ SF_vars(Apply(Daemon))

FairSpec == Spec /\ Fairness

----------------------------------------------------------------------------
(* AUTO is never directed to a country the process that directs it knows   *)
(* to be down, whatever it read back from its file: a decision for a       *)
(* country is a decision for a healthy one.  (step(): every branch that    *)
(* keeps or picks a country, over restarts and parallel runs.)             *)
DirectedToHealthy ==
  \A p \in Procs : mem[p].cur \in Countries => Healthy(mem[p], mem[p].cur)

(* AUTO is closed only while no country has answered often enough to come  *)
(* back: a country that is known good never stays behind the blackhole.    *)
(* ("both down -> AUTO is pinned to the blackhole ... back as soon as a    *)
(* country answers twice in a row", lines 11 and 120)                      *)
ClosedOnlyWithoutExit ==
  \A p \in Procs : mem[p].cur = Closed => Back(mem[p]) = {}

(* What a process chose is supported by the counters it has.               *)
ChoiceSupported == DirectedToHealthy /\ ClosedOnlyWithoutExit

(* A country that stays silent while the other one answers is left: the    *)
(* router is pinned to the other one again and again, whatever the         *)
(* operator pins, over restarts of the router and of the daemon.           *)
SilentCountryIsLeft ==
  \A n \in Countries :
    <>[](mem[Daemon].ok[n] = 0 /\ mem[Daemon].ok[Other(n)] >= 1)
      => []<>(override = Other(n))

(* While no country answers, AUTO ends in the blackhole and not on the     *)
(* country that was good last, nor on the router's own leastPing.          *)
NoAnswerCloses ==
  <>[](\A n \in Countries : mem[Daemon].ok[n] = 0) => []<>(override = Closed)

(* A pinned country that answers gets the traffic, from any state.         *)
PinIsFollowed ==
  \A n \in Countries :
    <>[](pinFile = n /\ mem[Daemon].ok[n] >= 1) => []<>(override = n)

(* Hysteresis ends: once the measurements and the pin stop moving, the     *)
(* choice stops moving too; two countries never trade AUTO for ever.       *)
Calm ==
  <>[][ /\ mem'[Daemon].ewma = mem[Daemon].ewma
        /\ \A n \in Countries :
             (mem'[Daemon].ok[n] = 0) = (mem[Daemon].ok[n] = 0)
        /\ pinFile' = pinFile ]_vars
ChoiceSettles == Calm => <>[][mem'[Daemon].cur = mem[Daemon].cur]_vars

(* The router ends up where the measurements and the operator point: not   *)
(* with one silent country nor, when all are silent, with any, with a      *)
(* pinned country that answers, and for good once nothing moves.           *)
OverrideFollows == SilentCountryIsLeft /\ NoAnswerCloses /\ PinIsFollowed /\ ChoiceSettles
==============================================================================
