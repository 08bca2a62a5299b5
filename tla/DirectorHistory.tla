---------------------------- MODULE DirectorHistory ---------------------------
(***************************************************************************)
(* AutoDirector with a record of what really happened, kept beside the     *)
(* program and not by it: how many cycles in a row a country answered or   *)
(* was silent, and how long ago the daemon last changed its choice.  The   *)
(* program's own counters live in its memory and in a file; the properties *)
(* here say what its decisions mean in terms of the measurements, over     *)
(* restarts of the daemon.                                                 *)
(***************************************************************************)
EXTENDS AutoDirector

VARIABLES
  answered,   \* cycles in a row a country answered the daemon
  silent,     \* cycles in a row it did not
  age,        \* cycles since the daemon last moved AUTO
  guessed     \* the last move was the first choice after a start

hvars == <<vars, answered, silent, age, guessed>>

HInit ==
  /\ Init
  /\ answered = [n \in Countries |-> 0]
  /\ silent = [n \in Countries |-> 0]
  /\ age = 0
  /\ guessed = TRUE

Longest == IF RecoverCycles > ConfirmCycles THEN RecoverCycles ELSE ConfirmCycles

Choice == mem[Daemon].cur

Record(r) ==
  /\ answered' = [n \in Countries |->
                    IF r[n] = NoAnswer THEN 0 ELSE UpTo(answered[n], Longest)]
  /\ silent' = [n \in Countries |->
                  IF r[n] = NoAnswer THEN UpTo(silent[n], FailCycles) ELSE 0]
  /\ age' = IF Choice' # Choice THEN 0 ELSE UpTo(age, MinDwell)
  /\ guessed' = IF Choice' # Choice THEN Choice = Undecided ELSE guessed

Others ==
  \/ Start \/ StartOnce \/ Stop \/ Crash \/ CrashOnce
  \/ \E p \in Procs : Apply(p) \/ ApplyFails(p)
  \/ \E p \in Procs : Save(p) \/ SaveTorn(p) \/ SaveFails(p)
  \/ \E r \in [Countries -> Samples] : Decide(Once, r)
  \/ \E n \in Countries : Pin(n)
  \/ Unpin \/ RouterRestart

HNext ==
  \/ \E r \in [Countries -> Samples] : Decide(Daemon, r) /\ Record(r)
  \/ Others /\ UNCHANGED <<answered, silent, age, guessed>>
  \/ Outage /\ age' = UpTo(age, MinDwell) /\ UNCHANGED <<answered, silent, guessed>>

HSpec == HInit /\ [][HNext]_hvars

(* A cycle of the daemon is the Decide that Fairness speaks of.            *)
HFairSpec == HSpec /\ Fairness

Deciding == phase[Daemon] = "idle" /\ phase'[Daemon] = "applying"
Leaves(c) == Deciding /\ Choice = c /\ Choice' # c

(* AUTO leaves a country only for a reason that was measured: the country  *)
(* was silent for FailCycles cycles in a row, or the operator pinned       *)
(* another one, or the last move is at least the dwell time ago (or was    *)
(* the guess at the start).  ("one lost probe never switches anything")    *)
LeftForCause ==
  [][\A c \in Countries : Leaves(c) =>
       \/ silent'[c] >= FailCycles
       \/ pinFile = Choice'
       \/ age >= MinDwell - 1
       \/ guessed]_hvars

(* AUTO is closed only when both countries were silent for FailCycles      *)
(* cycles in a row.                                                        *)
ClosedForCause ==
  [][Deciding /\ Choice' = Closed /\ Choice # Closed
       => \A n \in Countries : silent'[n] >= FailCycles]_hvars

(* AUTO comes back only to a country that answered RecoverCycles cycles in *)
(* a row, also when the daemon was restarted meanwhile.                    *)
ReopenedForCause ==
  [][Deciding /\ Choice = Closed /\ Choice' # Closed
       => answered'[Choice'] >= RecoverCycles]_hvars

(* Every move of AUTO has a cause that was measured, whatever the counters *)
(* in memory and in state.json say after a restart.                        *)
MovedForCause == LeftForCause /\ ClosedForCause /\ ReopenedForCause
==============================================================================
