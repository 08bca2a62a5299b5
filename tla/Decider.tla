------------------------------- MODULE Decider -------------------------------
(***************************************************************************)
(* The decision of the auto-director (class Decider of auto_director.py):  *)
(* which exit country the AUTO route uses, judged once per cycle from what *)
(* the probes of both countries answered.  The decider is a value, a       *)
(* record with the fields of Decider.snapshot(); a cycle maps it to the    *)
(* set of its possible successors.                                         *)
(*                                                                         *)
(* Data abstractions.                                                      *)
(*  - a latency is a small natural number; the smoothed value moves to any *)
(*    number between the old one and the sample, which is what an EWMA     *)
(*    with any weight in 0..1 may do;                                      *)
(*  - the time stamp last_switch is kept as "hold", what is left of        *)
(*    min_dwell_s, in control cycles; "last_switch = 0" is hold = 0;       *)
(*  - a counter stops at the threshold it is compared with.                *)
(***************************************************************************)
EXTENDS Integers, FiniteSets

CONSTANTS
  Countries,      \* the exit countries of the configuration
  Closed,         \* the choice "NONE": AUTO ends in the blackhole
  Undecided,      \* Python's None: no choice was made yet
  FailCycles,     \* fail_cycles: failed cycles in a row that mean "down"
  RecoverCycles,  \* recover_cycles: answers in a row that reopen AUTO
  ConfirmCycles,  \* confirm_cycles: cycles in a row the other was better
  MinDwell,       \* min_dwell_s, in control cycles
  Margin,         \* margin_ms, in steps of latency
  MaxLat          \* bound of the model: the slowest answer

NoEwma == -1      \* a country that never answered has no smoothed latency
NoAnswer == -1    \* no probe of the cycle was answered

ASSUME CountriesAssumption ==
  /\ IsFiniteSet(Countries)
  /\ Cardinality(Countries) = 2        \* _other() knows exactly one other
  /\ Closed \notin Countries
  /\ Undecided \notin Countries
  /\ Closed # Undecided

ASSUME ParamsAssumption ==
  /\ FailCycles \in Nat \ {0}
  /\ RecoverCycles \in Nat \ {0}
  /\ ConfirmCycles \in Nat \ {0}
  /\ MinDwell \in Nat
  /\ Margin \in Nat
  /\ MaxLat \in Nat

Samples == NoAnswer .. MaxLat
Choices == Countries \cup {Closed, Undecided}

DeciderState ==
  [cur: Choices,
   ewma: [Countries -> NoEwma .. MaxLat],
   fails: [Countries -> 0 .. FailCycles],
   ok: [Countries -> 0 .. RecoverCycles],
   better: 0 .. ConfirmCycles,
   hold: 0 .. MinDwell]

(* What Decider.__init__ reads from an absent state file. *)
FreshDecider ==
  [cur |-> Undecided,
   ewma |-> [n \in Countries |-> NoEwma],
   fails |-> [n \in Countries |-> 0],
   ok |-> [n \in Countries |-> 0],
   better |-> 0,
   hold |-> 0]

UpTo(x, limit) == IF x < limit THEN x + 1 ELSE limit
Less(x) == IF x > 0 THEN x - 1 ELSE 0

(* Mutant: the failed cycles are not looked at. *)
HealthyForEver(d, n) == d.ewma[n] # NoEwma
Healthy(d, n) == d.fails[n] < FailCycles /\ d.ewma[n] # NoEwma

Other(n) == CHOOSE m \in Countries : m # n

(* The values the smoothed latency may take after one sample. *)
Between(x, y) == IF x <= y THEN x .. y ELSE y .. x
Smoothed(old, lat) ==
  IF lat = NoAnswer THEN {old}
  ELSE IF old = NoEwma THEN {lat} ELSE Between(old, lat)

(* The first half of step(): the counters and the smoothed latencies.  The *)
(* new smoothed values e are one choice of Smoothed for each country.      *)
Observe(d, res, e) ==
  [d EXCEPT
     !.ewma = e,
     !.fails = [n \in Countries |->
                  IF res[n] = NoAnswer THEN UpTo(d.fails[n], FailCycles) ELSE 0],
     !.ok = [n \in Countries |->
                  IF res[n] = NoAnswer THEN 0 ELSE UpTo(d.ok[n], RecoverCycles)]]

Observations(d, res) ==
  {Observe(d, res, e) :
     e \in {f \in [Countries -> NoEwma .. MaxLat] :
              \A n \in Countries : f[n] \in Smoothed(d.ewma[n], res[n])}}

(* Mutant: a switch does not start the dwell time. *)
SwitchNoDwell(d, c) == [d EXCEPT !.cur = c, !.better = 0]
Switch(d, c) == [d EXCEPT !.cur = c, !.better = 0, !.hold = MinDwell]

(* The very first choice must not hold the dwell time. *)
First(d, c) == [Switch(d, c) EXCEPT !.hold = 0]

Fastest(d, S) == {b \in S : \A m \in S : d.ewma[b] <= d.ewma[m]}

(* The pin counts only while it names a country that is healthy. *)
Pinned(d, pin) == pin \in Countries /\ Healthy(d, pin)

(* cur is None. *)
Ready(d) == {n \in Countries : d.ok[n] >= 1}
FirstChoice(d, pin) ==
  IF Pinned(d, pin) THEN {First(d, pin)}
  ELSE IF Ready(d) # {} THEN {First(d, b) : b \in Fastest(d, Ready(d))}
  ELSE IF \A n \in Countries : d.fails[n] >= FailCycles THEN {First(d, Closed)}
  ELSE {d}

(* cur is NONE. *)
(* Mutant: one answer reopens AUTO. *)
BackAtOnce(d) == {n \in Countries : d.ok[n] >= 1 /\ Healthy(d, n)}
Back(d) == {n \in Countries : d.ok[n] >= RecoverCycles /\ Healthy(d, n)}
Reopening(d, pin) ==
  IF Pinned(d, pin) /\ pin \in Back(d) THEN {Switch(d, pin)}
  ELSE IF Back(d) # {} THEN {Switch(d, b) : b \in Fastest(d, Back(d))}
  ELSE {d}

(* cur is a country.  The other one is preferred only after it was better  *)
(* by more than the margin for ConfirmCycles cycles and the dwell is over. *)
Faster(d, n) == Healthy(d, n) /\ d.ewma[d.cur] - d.ewma[n] > Margin
BetterRun(d) ==
  IF Faster(d, Other(d.cur)) THEN UpTo(d.better, ConfirmCycles) ELSE 0

(* Mutant: the other country is taken unseen.                              *)
KeepingBlindly(d, pin) ==
  IF ~Healthy(d, d.cur) THEN {Switch(d, Other(d.cur))} ELSE {d}
Keeping(d, pin) ==
  IF Pinned(d, pin) /\ pin # d.cur THEN {Switch(d, pin)}
  ELSE IF ~Healthy(d, d.cur)
    THEN {Switch(d, IF Healthy(d, Other(d.cur)) THEN Other(d.cur) ELSE Closed)}
  ELSE IF Pinned(d, pin) THEN {[d EXCEPT !.better = 0]}
  ELSE IF BetterRun(d) >= ConfirmCycles /\ d.hold = 0
    THEN {Switch(d, Other(d.cur))}
  ELSE {[d EXCEPT !.better = BetterRun(d)]}

(* The second half of step(). *)
Decisions(d, pin) ==
  IF d.cur = Undecided THEN FirstChoice(d, pin)
  ELSE IF d.cur = Closed THEN Reopening(d, pin)
  ELSE Keeping(d, pin)

(* step(): every decider that one cycle may leave behind. *)
Step(d, pin, res) == UNION {Decisions(o, pin) : o \in Observations(d, res)}
==============================================================================
