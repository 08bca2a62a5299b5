-------------------------- MODULE AutoDirectorProofs --------------------------
(***************************************************************************)
(* The safety of the auto-director for every number of cycles, latencies   *)
(* and faults.  First what one cycle does to a decider.  Then the          *)
(* inductive invariant: every decider, in a process or in state.json, is   *)
(* one whose choice its own counters support.  The file has to be in it,   *)
(* because a restarted daemon goes on from it.                             *)
(***************************************************************************)
EXTENDS DirectorRefinement, DirectorHistory, FiniteSetTheorems, TLAPS

(* A decider whose choice its own counters support.                        *)
Counted(d) == \A n \in Countries : d.ok[n] >= 1 => Healthy(d, n)
ChoiceHealthy(d) == d.cur \in Countries => Healthy(d, d.cur)
ChoiceNotLate(d) == d.cur = Closed => Back(d) = {}
Coherent(d) == Counted(d) /\ ChoiceHealthy(d) /\ ChoiceNotLate(d)

(* Of two countries, every one is the given one or the other one: _other() *)
(* never fails and never answers with its argument.                        *)
LEMMA OtherIsTheOther ==
  ASSUME NEW n \in Countries
  PROVE  /\ Other(n) \in Countries
         /\ Other(n) # n
         /\ \A m \in Countries : m = n \/ m = Other(n)
<1>1. /\ IsFiniteSet(Countries \ {n})
      /\ Cardinality(Countries \ {n}) = 1
  BY FS_RemoveElement, CountriesAssumption
<1>2. PICK m : Countries \ {n} = {m}
  BY <1>1, FS_Singleton
<1>3. m \in Countries /\ m # n
  BY <1>2
<1>4. Other(n) \in Countries /\ Other(n) # n
  BY <1>3 DEF Other
<1>5. Other(n) = m
  BY <1>2, <1>4
<1>6. QED
  BY <1>2, <1>4, <1>5

(* Smoothing keeps a latency that was measured within the measured range.  *)
LEMMA SmoothedType ==
  ASSUME NEW old \in NoEwma .. MaxLat, NEW lat \in Samples, NEW e \in Smoothed(old, lat)
  PROVE  /\ e \in NoEwma .. MaxLat
         /\ lat # NoAnswer => e # NoEwma
         /\ lat = NoAnswer => e = old
  BY ParamsAssumption DEF Smoothed, Between, Samples, NoEwma, NoAnswer

(* The counters after a measurement are well formed, and a country that    *)
(* just answered is healthy.                                               *)
LEMMA ObservationCounted ==
  ASSUME NEW d \in DeciderState, Counted(d),
         NEW r \in [Countries -> Samples], NEW o \in Observations(d, r)
  PROVE  /\ o \in DeciderState
         /\ Counted(o)
         /\ o.cur = d.cur
         /\ o.hold = d.hold
         /\ o.better = d.better
<1>1. PICK e \in [Countries -> NoEwma .. MaxLat] :
        /\ \A n \in Countries : e[n] \in Smoothed(d.ewma[n], r[n])
        /\ o = Observe(d, r, e)
  BY DEF Observations
<1>2. o = [cur |-> d.cur, ewma |-> e, fails |-> o.fails, ok |-> o.ok,
           better |-> d.better, hold |-> d.hold]
  BY <1>1 DEF Observe, DeciderState
<1>3. /\ o.fails = [n \in Countries |->
                      IF r[n] = NoAnswer THEN UpTo(d.fails[n], FailCycles) ELSE 0]
      /\ o.ok = [n \in Countries |->
                   IF r[n] = NoAnswer THEN 0 ELSE UpTo(d.ok[n], RecoverCycles)]
  BY <1>1 DEF Observe, DeciderState
<1>4. o.fails \in [Countries -> 0 .. FailCycles]
  <2>1. ASSUME NEW n \in Countries PROVE d.fails[n] \in 0 .. FailCycles
    BY DEF DeciderState
  <2>2. ASSUME NEW x \in 0 .. FailCycles PROVE UpTo(x, FailCycles) \in 0 .. FailCycles
    BY ParamsAssumption DEF UpTo
  <2>3. QED
    BY <1>3, <2>1, <2>2, ParamsAssumption
<1>5. o.ok \in [Countries -> 0 .. RecoverCycles]
  <2>1. ASSUME NEW n \in Countries PROVE d.ok[n] \in 0 .. RecoverCycles
    BY DEF DeciderState
  <2>2. ASSUME NEW x \in 0 .. RecoverCycles
        PROVE  UpTo(x, RecoverCycles) \in 0 .. RecoverCycles
    BY ParamsAssumption DEF UpTo
  <2>3. QED
    BY <1>3, <2>1, <2>2, ParamsAssumption
<1>6. o \in DeciderState
  BY <1>2, <1>4, <1>5 DEF DeciderState
<1>7. ASSUME NEW n \in Countries, o.ok[n] >= 1 PROVE Healthy(o, n)
  <2>1. r[n] # NoAnswer
    BY <1>3, <1>7
  <2>2. d.ewma[n] \in NoEwma .. MaxLat /\ r[n] \in Samples
    BY DEF DeciderState
  <2>3. e[n] # NoEwma
    BY <1>1, <2>1, <2>2, SmoothedType
  <2>4. o.ewma[n] # NoEwma /\ o.fails[n] = 0
    BY <1>2, <1>3, <2>1, <2>3
  <2>5. QED
    BY <2>4, ParamsAssumption DEF Healthy
<1>8. QED
  BY <1>2, <1>6, <1>7 DEF Counted

(* Changing the choice changes neither the counters nor the latencies.     *)
LEMMA SwitchKeepsCounters ==
  ASSUME NEW d \in DeciderState, NEW c \in Choices
  PROVE  /\ Switch(d, c) \in DeciderState
         /\ First(d, c) \in DeciderState
         /\ Switch(d, c).cur = c /\ First(d, c).cur = c
         /\ Switch(d, c).ok = d.ok /\ First(d, c).ok = d.ok
         /\ Switch(d, c).fails = d.fails /\ First(d, c).fails = d.fails
         /\ Switch(d, c).ewma = d.ewma /\ First(d, c).ewma = d.ewma
<1>1. Switch(d, c) \in DeciderState
  <2>1. PICK s : s = Switch(d, c)
    OBVIOUS
  <2>2. s = [cur |-> c, ewma |-> d.ewma, fails |-> d.fails, ok |-> d.ok,
             better |-> 0, hold |-> MinDwell]
    BY <2>1 DEF Switch, DeciderState
  <2>3. QED
    BY <2>1, <2>2, ParamsAssumption DEF DeciderState
<1>2. /\ Switch(d, c).cur = c
      /\ Switch(d, c).ewma = d.ewma /\ Switch(d, c).fails = d.fails
      /\ Switch(d, c).ok = d.ok
  BY DEF Switch, DeciderState
<1>3. ASSUME NEW s \in DeciderState
      PROVE  /\ [s EXCEPT !.hold = 0] \in DeciderState
             /\ [s EXCEPT !.hold = 0].cur = s.cur
             /\ [s EXCEPT !.hold = 0].ewma = s.ewma
             /\ [s EXCEPT !.hold = 0].fails = s.fails
             /\ [s EXCEPT !.hold = 0].ok = s.ok
  BY ParamsAssumption DEF DeciderState
<1>4. QED
  BY <1>1, <1>2, <1>3 DEF First

(* What a decision does: the counters stay, and the new choice is one of:  *)
(* the old choice where it may stay, a healthy country, or the blackhole   *)
(* when no country is healthy.                                             *)
Decided(d, m) ==
  /\ m \in DeciderState
  /\ m.ok = d.ok /\ m.fails = d.fails /\ m.ewma = d.ewma
  /\ m.cur \in Countries => Healthy(d, m.cur)
  /\ m.cur = Undecided => d.cur = Undecided
  /\ m.cur = Closed /\ d.cur # Closed => \A n \in Countries : ~Healthy(d, n)
  /\ m.cur = Closed /\ d.cur = Closed => Back(d) = {}
  /\ d.cur = Closed /\ m.cur # Closed => m.cur \in Back(d)

LEMMA MoveToHealthy ==
  ASSUME NEW d \in DeciderState, NEW c \in Countries, Healthy(d, c),
         d.cur = Closed => c \in Back(d),
         NEW m \in {Switch(d, c), First(d, c)}
  PROVE  Decided(d, m)
<1>1. c \in Choices /\ c # Closed /\ c # Undecided
  BY CountriesAssumption DEF Choices
<1>2. /\ m \in DeciderState
      /\ m.ok = d.ok /\ m.fails = d.fails /\ m.ewma = d.ewma
      /\ m.cur = c
  BY <1>1, SwitchKeepsCounters
<1>3. m.cur \in Countries => Healthy(d, m.cur)
  BY <1>2
<1>4. d.cur = Closed /\ m.cur # Closed => m.cur \in Back(d)
  BY <1>2
<1>5. QED
  BY <1>1, <1>2, <1>3, <1>4 DEF Decided

LEMMA DecisionsDecide ==
  ASSUME NEW d \in DeciderState, Counted(d), NEW pin, NEW m \in Decisions(d, pin)
  PROVE  Decided(d, m)
<1>a. /\ Closed \in Choices /\ Closed \notin Countries
      /\ Undecided \notin Countries /\ Undecided # Closed
      /\ Countries \subseteq Choices
      /\ d.cur \in Choices
  BY CountriesAssumption DEF Choices, DeciderState
<1>1. CASE d.cur = Undecided
  <2>1. m \in FirstChoice(d, pin)
    BY <1>1 DEF Decisions
  <2>2. CASE Pinned(d, pin)
    <3>1. m = First(d, pin) /\ pin \in Countries /\ Healthy(d, pin)
      BY <2>1, <2>2 DEF FirstChoice, Pinned
    <3>2. QED
      BY <1>a, <1>1, <3>1, MoveToHealthy
  <2>3. CASE ~Pinned(d, pin) /\ Ready(d) # {}
    <3>1. PICK b \in Fastest(d, Ready(d)) : m = First(d, b)
      BY <2>1, <2>3 DEF FirstChoice
    <3>2. b \in Countries /\ Healthy(d, b)
      BY <3>1 DEF Fastest, Ready, Counted
    <3>3. QED
      BY <1>a, <1>1, <3>1, <3>2, MoveToHealthy
  <2>4. CASE ~Pinned(d, pin) /\ Ready(d) = {} /\ \A n \in Countries : d.fails[n] >= FailCycles
    <3>1. m = First(d, Closed)
      BY <2>1, <2>4 DEF FirstChoice
    <3>2. ASSUME NEW n \in Countries PROVE ~Healthy(d, n)
      <4>1. d.fails[n] \in 0 .. FailCycles /\ d.fails[n] >= FailCycles
        BY <2>4 DEF DeciderState
      <4>2. QED
        BY <4>1, ParamsAssumption DEF Healthy
    <3>3. QED
      BY <1>a, <1>1, <3>1, <3>2, SwitchKeepsCounters DEF Decided
  <2>5. CASE ~Pinned(d, pin) /\ Ready(d) = {} /\ ~\A n \in Countries : d.fails[n] >= FailCycles
    <3>1. m = d
      BY <2>1, <2>5 DEF FirstChoice
    <3>2. QED
      BY <1>a, <1>1, <3>1 DEF Decided
  <2>6. QED
    BY <2>2, <2>3, <2>4, <2>5
<1>2. CASE d.cur = Closed
  <2>1. m \in Reopening(d, pin)
    BY <1>a, <1>2 DEF Decisions
  <2>2. CASE \E b \in Back(d) : m = Switch(d, b)
    <3>1. PICK b \in Back(d) : m = Switch(d, b)
      BY <2>2
    <3>2. b \in Countries /\ Healthy(d, b)
      BY <3>1 DEF Back
    <3>3. QED
      BY <3>1, <3>2, MoveToHealthy
  <2>3. CASE m = d /\ Back(d) = {}
    BY <1>a, <1>2, <2>3 DEF Decided
  <2>4. QED
    BY <2>1, <2>2, <2>3 DEF Reopening, Fastest
<1>3. CASE d.cur \in Countries
  <2>1. m \in Keeping(d, pin)
    BY <1>a, <1>3 DEF Decisions
  <2>o. /\ Other(d.cur) \in Countries
        /\ \A n \in Countries : n = d.cur \/ n = Other(d.cur)
    BY <1>3, OtherIsTheOther
  <2>2. CASE \E c \in Countries : m = Switch(d, c) /\ Healthy(d, c)
    BY <1>a, <1>3, <2>2, MoveToHealthy
  <2>3. CASE m = Switch(d, Closed) /\ ~Healthy(d, d.cur) /\ ~Healthy(d, Other(d.cur))
    BY <1>a, <1>3, <2>o, <2>3, SwitchKeepsCounters DEF Decided
  <2>4. CASE Healthy(d, d.cur) /\ \E b \in 0 .. ConfirmCycles : m = [d EXCEPT !.better = b]
    <3>1. /\ m \in DeciderState /\ m.cur = d.cur
          /\ m.ok = d.ok /\ m.fails = d.fails /\ m.ewma = d.ewma
      BY <2>4 DEF DeciderState
    <3>2. QED
      BY <1>a, <1>3, <2>4, <3>1 DEF Decided
  <2>5. BetterRun(d) \in 0 .. ConfirmCycles
    BY ParamsAssumption DEF BetterRun, UpTo, DeciderState
  <2>6. BetterRun(d) >= ConfirmCycles => Healthy(d, Other(d.cur))
    BY ParamsAssumption DEF BetterRun, Faster
  <2>7. 0 \in 0 .. ConfirmCycles
    BY ParamsAssumption
  <2>8. QED
    BY <2>1, <2>o, <2>2, <2>3, <2>4, <2>5, <2>6, <2>7 DEF Keeping, Pinned
<1>4. QED
  BY <1>a, <1>1, <1>2, <1>3 DEF Choices

(* A cycle leaves a coherent decider behind, whatever it measured and      *)
(* whatever is pinned.                                                     *)
LEMMA StepCoherent ==
  ASSUME NEW d \in DeciderState, Coherent(d), NEW pin,
         NEW r \in [Countries -> Samples], NEW m \in Step(d, pin, r)
  PROVE  m \in DeciderState /\ Coherent(m)
<1>1. PICK o \in Observations(d, r) : m \in Decisions(o, pin)
  BY DEF Step
<1>2. o \in DeciderState /\ Counted(o)
  BY <1>1, ObservationCounted DEF Coherent
<1>3. Decided(o, m)
  BY <1>1, <1>2, DecisionsDecide
<1>4. \A n : Healthy(m, n) = Healthy(o, n)
  BY <1>3 DEF Decided, Healthy
<1>5. Back(m) = Back(o)
  BY <1>3, <1>4 DEF Decided, Back
<1>6. Counted(m)
  BY <1>2, <1>3, <1>4 DEF Counted, Decided
<1>7. ChoiceHealthy(m)
  BY <1>3, <1>4 DEF ChoiceHealthy, Decided
<1>8. ChoiceNotLate(m)
  BY <1>3, <1>5 DEF ChoiceNotLate, Decided, Back
<1>9. QED
  BY <1>3, <1>6, <1>7, <1>8 DEF Coherent, Decided

-----------------------------------------------------------------------------
(* The auto-director.                                                      *)
CoherentState ==
  /\ TypeOK
  /\ \A p \in Procs : Coherent(mem[p])
  /\ Coherent(disk)

(* The decider of an absent state file is coherent.                        *)
LEMMA FreshCoherent == FreshDecider \in DeciderState /\ Coherent(FreshDecider)
<1>1. FreshDecider \in DeciderState
  BY ParamsAssumption DEF FreshDecider, DeciderState, Choices, NoEwma
<1>2. FreshDecider.cur = Undecided /\ \A n \in Countries : FreshDecider.ok[n] = 0
  BY DEF FreshDecider
<1>3. QED
  BY <1>1, <1>2, CountriesAssumption
     DEF Coherent, Counted, ChoiceHealthy, ChoiceNotLate

(* Time that passes takes from the dwell time and from nothing else.       *)
LEMMA ElapsedCoherent ==
  ASSUME NEW d \in DeciderState, Coherent(d)
  PROVE  /\ Elapsed(d) \in DeciderState
         /\ Coherent(Elapsed(d))
         /\ Elapsed(d).cur = d.cur
         /\ VerdictOf(Elapsed(d)) = VerdictOf(d)
<1>1. PICK e : e = Elapsed(d)
  OBVIOUS
<1>2. e = [cur |-> d.cur, ewma |-> d.ewma, fails |-> d.fails, ok |-> d.ok,
           better |-> d.better, hold |-> Less(d.hold)]
  BY <1>1 DEF Elapsed, DeciderState
<1>3. Less(d.hold) \in 0 .. MinDwell
  BY ParamsAssumption DEF Less, DeciderState
<1>4. e \in DeciderState
  BY <1>2, <1>3 DEF DeciderState
<1>5. e.cur = d.cur /\ e.ewma = d.ewma /\ e.fails = d.fails /\ e.ok = d.ok
  BY <1>2
<1>6. \A n : Healthy(e, n) = Healthy(d, n)
  BY <1>5 DEF Healthy
<1>7. Coherent(e)
  BY <1>5, <1>6 DEF Coherent, Counted, ChoiceHealthy, ChoiceNotLate, Back
<1>8. VerdictOf(e) = VerdictOf(d)
  BY <1>5, <1>6 DEF VerdictOf
<1>9. QED
  BY <1>1, <1>4, <1>5, <1>7, <1>8

LEMMA AgedCoherent ==
  ASSUME NEW p, NEW d \in DeciderState, Coherent(d)
  PROVE  /\ Aged(p, d) \in DeciderState
         /\ Coherent(Aged(p, d))
         /\ Aged(p, d).cur = d.cur
         /\ VerdictOf(Aged(p, d)) = VerdictOf(d)
  BY ElapsedCoherent DEF Aged

LEMMA InitCoherent == Init => CoherentState
<1> SUFFICES ASSUME Init PROVE CoherentState
  OBVIOUS
<1>1. TypeOK
  BY FreshCoherent, DirectorAssumption DEF Init, TypeOK, Phases, Overrides
<1>2. QED
  BY <1>1, FreshCoherent DEF Init, CoherentState

LEMMA NextCoherent == CoherentState /\ [Next]_vars => CoherentState'
<1> SUFFICES ASSUME CoherentState, [Next]_vars PROVE CoherentState'
  OBVIOUS
<1> USE DEF CoherentState
<1>m. \A p \in Procs : mem[p] \in DeciderState /\ Coherent(mem[p])
  BY DEF TypeOK
<1>d. disk \in DeciderState /\ Coherent(disk)
  BY DEF TypeOK
<1>p. Daemon \in Procs /\ Once \in Procs
  BY DEF Procs
<1>1. CASE Start
  BY <1>1, <1>d, <1>p DEF Start, Load, TypeOK, Phases
<1>2. CASE StartOnce
  BY <1>2, <1>d, <1>p, DirectorAssumption DEF StartOnce, Load, TypeOK, Phases
<1>3. ASSUME NEW p \in Procs, NEW r \in [Countries -> Samples], Decide(p, r)
      PROVE  CoherentState'
  <2>1. PICK d \in Step(Aged(p, mem[p]), pinFile, r) :
          mem' = [q \in Procs |-> IF q = p THEN d ELSE Aged(p, mem[q])]
    BY <1>3 DEF Decide
  <2>2. d \in DeciderState /\ Coherent(d)
    BY <1>m, AgedCoherent, StepCoherent
  <2>3. \A q \in Procs : Aged(p, mem[q]) \in DeciderState /\ Coherent(Aged(p, mem[q]))
    BY <1>m, AgedCoherent
  <2>4. Aged(p, disk) \in DeciderState /\ Coherent(Aged(p, disk))
    BY <1>d, AgedCoherent
  <2>5. mem' \in [Procs -> DeciderState] /\ \A q \in Procs : Coherent(mem'[q])
    BY <2>1, <2>2, <2>3
  <2>6. disk' \in DeciderState /\ Coherent(disk')
    BY <1>3, <2>4 DEF Decide
  <2>7. QED
    BY <1>3, <2>5, <2>6 DEF Decide, TypeOK, Phases
<1>4. ASSUME NEW p \in Procs, Apply(p) PROVE CoherentState'
  <2>1. mem[p].cur \in Choices
    BY <1>m DEF DeciderState
  <2>2. override' \in Overrides
    BY <1>4, <2>1 DEF Apply, Applied, Choices, Overrides, TypeOK
  <2>3. QED
    BY <1>4, <2>2 DEF Apply, TypeOK, Phases
<1>5. ASSUME NEW p \in Procs, ApplyFails(p) PROVE CoherentState'
  BY <1>5 DEF ApplyFails, TypeOK, Phases
<1>r. \A p \in Procs : Rested(p) \in DeciderState /\ Coherent(Rested(p))
  BY <1>m, FreshCoherent DEF Rested
<1>s. \A p \in Procs : Resting(p) \in Phases
  BY DEF Resting, Phases
<1>6. ASSUME NEW p \in Procs, Save(p) PROVE CoherentState'
  BY <1>6, <1>m, <1>r, <1>s DEF Save, TypeOK
<1>7. ASSUME NEW p \in Procs, SaveTorn(p) PROVE CoherentState'
  BY <1>7, <1>r, <1>s, FreshCoherent DEF SaveTorn, TypeOK
<1>8. ASSUME NEW p \in Procs, SaveFails(p) PROVE CoherentState'
  BY <1>8, <1>r, <1>s, DirectorAssumption DEF SaveFails, TypeOK
<1>o. NoOverride \in Overrides
  BY DEF Overrides
<1>9. CASE Stop
  BY <1>9, <1>p, <1>o, FreshCoherent, DirectorAssumption
     DEF Stop, Released, TypeOK, Phases
<1>10. CASE Crash
  BY <1>10, <1>p, <1>o, FreshCoherent, DirectorAssumption
     DEF Crash, Released, TypeOK, Phases
<1>11. CASE CrashOnce
  BY <1>11, <1>p, FreshCoherent, DirectorAssumption DEF CrashOnce, TypeOK, Phases
<1>12. CASE Outage
  BY <1>12, <1>m, <1>d, ElapsedCoherent DEF Outage, TypeOK
<1>13. CASE \E n \in Countries : Pin(n)
  BY <1>13 DEF Pin, TypeOK
<1>14. CASE Unpin
  BY <1>14 DEF Unpin, TypeOK
<1>15. CASE RouterRestart
  BY <1>15, <1>o DEF RouterRestart, TypeOK
<1>16. CASE UNCHANGED vars
  BY <1>16 DEF vars, TypeOK
<1>17. QED
  BY <1>1, <1>2, <1>3, <1>4, <1>5, <1>6, <1>7, <1>8, <1>9, <1>10, <1>11,
     <1>12, <1>13, <1>14, <1>15, <1>16 DEF Next

LEMMA AlwaysCoherent == Spec => []CoherentState
  BY InitCoherent, NextCoherent, PTL DEF Spec

(* The variables keep their types, and the bounded counters their bounds.  *)
THEOREM TypeCorrect == Spec => []TypeOK
<1>1. CoherentState => TypeOK
  BY DEF CoherentState
<1>2. QED
  BY <1>1, AlwaysCoherent, PTL

(* No process directs AUTO to a country that it knows to be down, nor     *)
(* does it keep AUTO closed once a country answered often enough.          *)
THEOREM ChoiceIsSupported == Spec => []ChoiceSupported
<1>1. CoherentState => DirectedToHealthy
  BY DEF CoherentState, Coherent, ChoiceHealthy, DirectedToHealthy
<1>2. CoherentState => ClosedOnlyWithoutExit
  BY DEF CoherentState, Coherent, ChoiceNotLate, ClosedOnlyWithoutExit
<1>3. CoherentState => ChoiceSupported
  BY <1>1, <1>2 DEF ChoiceSupported
<1>4. QED
  BY <1>3, AlwaysCoherent, PTL

----------------------------------------------------------------------------
(* A coherent decider is a sound choice in the sense of ExitChoice.        *)
LEMMA CoherentSound ==
  ASSUME NEW d \in DeciderState, Coherent(d)
  PROVE  /\ VerdictOf(d) \in [Countries -> Promise!Verdicts]
         /\ d.cur \in Countries \cup {Closed, Undecided}
         /\ Promise!Sound(d.cur, VerdictOf(d))
<1>1. VerdictOf(d) \in [Countries -> Promise!Verdicts]
  BY DEF VerdictOf, Promise!Verdicts
<1>2. d.cur \in Countries \cup {Closed, Undecided}
  BY DEF DeciderState, Choices
<1>3. d.cur \in Countries => VerdictOf(d)[d.cur] # "down"
  BY DEF VerdictOf, Coherent, ChoiceHealthy
<1>4. ASSUME d.cur = Closed, NEW n \in Countries PROVE VerdictOf(d)[n] # "good"
  <2>1. ~(d.ok[n] >= RecoverCycles /\ Healthy(d, n))
    BY <1>4 DEF Coherent, ChoiceNotLate, Back
  <2>2. QED
    BY <2>1 DEF VerdictOf
<1>5. QED
  BY <1>1, <1>2, <1>3, <1>4 DEF Promise!Sound

LEMMA FreshIsForgotten ==
  FreshDecider.cur = Undecided /\ VerdictOf(FreshDecider) = Promise!AllDown
<1>1. \A n \in Countries : ~Healthy(FreshDecider, n)
  BY DEF FreshDecider, Healthy
<1>2. QED
  BY <1>1 DEF FreshDecider, VerdictOf, Promise!AllDown

(* One cycle of the decider is one judgement of the selector.              *)
LEMMA StepJudges ==
  ASSUME NEW d \in DeciderState, Coherent(d), NEW pin,
         NEW r \in [Countries -> Samples], NEW m \in Step(d, pin, r)
  PROVE  /\ m.cur = Undecided => d.cur = Undecided
         /\ m.cur = Closed /\ d.cur # Closed => VerdictOf(m) = Promise!AllDown
         /\ d.cur = Closed /\ m.cur # Closed => VerdictOf(m)[m.cur] = "good"
<1>1. PICK o \in Observations(d, r) : m \in Decisions(o, pin)
  BY DEF Step
<1>2. o \in DeciderState /\ Counted(o) /\ o.cur = d.cur
  BY <1>1, ObservationCounted DEF Coherent
<1>3. Decided(o, m)
  BY <1>1, <1>2, DecisionsDecide
<1>4. \A n : Healthy(m, n) = Healthy(o, n)
  BY <1>3 DEF Decided, Healthy
<1>5. m.cur = Undecided => d.cur = Undecided
  BY <1>2, <1>3 DEF Decided
<1>6. ASSUME m.cur = Closed, d.cur # Closed PROVE VerdictOf(m) = Promise!AllDown
  <2>1. \A n \in Countries : ~Healthy(m, n)
    BY <1>2, <1>3, <1>4, <1>6 DEF Decided
  <2>2. QED
    BY <2>1 DEF VerdictOf, Promise!AllDown
<1>7. ASSUME d.cur = Closed, m.cur # Closed PROVE VerdictOf(m)[m.cur] = "good"
  <2>1. m.cur \in Back(o) /\ m.ok = o.ok
    BY <1>2, <1>3, <1>7 DEF Decided
  <2>2. m.cur \in Countries /\ m.ok[m.cur] >= RecoverCycles /\ Healthy(m, m.cur)
    BY <2>1, <1>4 DEF Back
  <2>3. QED
    BY <2>2 DEF VerdictOf
<1>8. QED
  BY <1>5, <1>6, <1>7

pvars == <<mem[Daemon].cur, VerdictOf(mem[Daemon]), <<disk.cur, VerdictOf(disk)>>>>

LEMMA InitPromises == Init => Promise!Init
  BY FreshIsForgotten DEF Init, Promise!Init, Procs, Daemon

LEMMA NextPromises ==
  CoherentState /\ CoherentState' /\ [Next]_vars => [Promise!Next]_pvars
<1> SUFFICES ASSUME CoherentState, CoherentState', [Next]_vars
             PROVE  [Promise!Next]_pvars
  OBVIOUS
<1> DEFINE D == mem[Daemon]
<1>p. Daemon \in Procs /\ Once \in Procs /\ Daemon # Once
  BY DEF Procs, Daemon, Once
<1>m. \A p \in Procs : mem[p] \in DeciderState /\ Coherent(mem[p])
  BY DEF CoherentState, TypeOK
<1>n. \A p \in Procs : mem'[p] \in DeciderState /\ Coherent(mem'[p])
  BY DEF CoherentState, TypeOK
<1>d. disk \in DeciderState /\ Coherent(disk)
  BY DEF CoherentState, TypeOK
<1>e. disk' \in DeciderState /\ Coherent(disk')
  BY DEF CoherentState, TypeOK
<1>t. mem \in [Procs -> DeciderState]
  BY DEF CoherentState, TypeOK
<1>same. ASSUME mem'[Daemon] = D, disk' = disk PROVE UNCHANGED pvars
  BY <1>same DEF pvars, VerdictOf, Healthy
<1>forget. ASSUME mem'[Daemon] = FreshDecider, disk' = disk PROVE [Promise!Next]_pvars
  <2>1. Promise!Forget
    BY <1>forget, FreshIsForgotten DEF Promise!Forget, VerdictOf, Healthy
  <2>2. QED
    BY <2>1 DEF Promise!Next
<1>remember. ASSUME mem'[Daemon] = D PROVE [Promise!Next]_pvars
  <2>1. /\ VerdictOf(disk') \in [Countries -> Promise!Verdicts]
        /\ disk'.cur \in Countries \cup {Closed, Undecided}
        /\ Promise!Sound(disk'.cur, VerdictOf(disk'))
    BY <1>e, CoherentSound
  <2>2. Promise!Remember
    BY <1>remember, <2>1 DEF Promise!Remember, VerdictOf, Healthy
  <2>3. QED
    BY <2>2 DEF Promise!Next
<1>1. CASE Start
  <2>1. mem'[Daemon] = disk /\ disk' = disk
    BY <1>1, <1>p, <1>t DEF Start, Load
  <2>2. Promise!Recall
    BY <2>1 DEF Promise!Recall, VerdictOf, Healthy
  <2>3. QED
    BY <2>2 DEF Promise!Next
<1>2. CASE StartOnce
  <2>1. mem'[Daemon] = D /\ disk' = disk
    BY <1>2, <1>p, <1>t DEF StartOnce
  <2>2. QED
    BY <2>1, <1>same
<1>3. ASSUME NEW r \in [Countries -> Samples], Decide(Daemon, r)
      PROVE  [Promise!Next]_pvars
  <2>1. PICK m \in Step(Elapsed(D), pinFile, r) : mem'[Daemon] = m
    BY <1>3, <1>p DEF Decide, Aged
  <2>2. /\ Elapsed(D) \in DeciderState /\ Coherent(Elapsed(D))
        /\ Elapsed(D).cur = D.cur
    BY <1>m, <1>p, ElapsedCoherent
  <2>3. /\ m.cur = Undecided => D.cur = Undecided
        /\ m.cur = Closed /\ D.cur # Closed => VerdictOf(m) = Promise!AllDown
        /\ D.cur = Closed /\ m.cur # Closed => VerdictOf(m)[m.cur] = "good"
    BY <2>1, <2>2, StepJudges
  <2>4. /\ VerdictOf(m) \in [Countries -> Promise!Verdicts]
        /\ m.cur \in Countries \cup {Closed, Undecided}
        /\ Promise!Sound(m.cur, VerdictOf(m))
    BY <2>1, <1>n, <1>p, CoherentSound
  <2>5. disk'.cur = disk.cur /\ VerdictOf(disk') = VerdictOf(disk)
    BY <1>3, <1>d, ElapsedCoherent DEF Decide, Aged
  <2>6. VerdictOf(mem[Daemon])' = VerdictOf(m) /\ VerdictOf(disk)' = VerdictOf(disk)
    BY <2>1, <2>5 DEF VerdictOf, Healthy
  <2>7. Promise!Judge
    BY <2>1, <2>3, <2>4, <2>5, <2>6 DEF Promise!Judge
  <2>8. QED
    BY <2>7 DEF Promise!Next
<1>4. ASSUME NEW r \in [Countries -> Samples], Decide(Once, r)
      PROVE  [Promise!Next]_pvars
  <2>1. mem'[Daemon] = D /\ disk' = disk
    BY <1>4, <1>p DEF Decide, Aged
  <2>2. QED
    BY <2>1, <1>same
<1>5. ASSUME NEW p \in Procs, Apply(p) \/ ApplyFails(p) PROVE [Promise!Next]_pvars
  BY <1>5, <1>same DEF Apply, ApplyFails
<1>6. ASSUME NEW p \in Procs, Save(p) \/ SaveTorn(p) \/ SaveFails(p)
      PROVE  [Promise!Next]_pvars
  <2>1. mem'[Daemon] = D
    BY <1>6, <1>p, <1>t DEF Save, SaveTorn, SaveFails, Rested
  <2>2. QED
    BY <2>1, <1>remember
<1>7. CASE Stop \/ Crash
  BY <1>7, <1>p, <1>t, <1>forget DEF Stop, Crash
<1>8. CASE CrashOnce
  BY <1>8, <1>p, <1>t, <1>same DEF CrashOnce
<1>9. CASE Outage
  <2>1. mem'[Daemon] = Elapsed(D) /\ disk' = Elapsed(disk)
    BY <1>9, <1>p DEF Outage
  <2>2. /\ Elapsed(D).cur = D.cur /\ VerdictOf(Elapsed(D)) = VerdictOf(D)
        /\ Elapsed(disk).cur = disk.cur /\ VerdictOf(Elapsed(disk)) = VerdictOf(disk)
    BY <1>m, <1>d, <1>p, ElapsedCoherent
  <2>3. VerdictOf(mem[Daemon])' = VerdictOf(D) /\ VerdictOf(disk)' = VerdictOf(disk)
    BY <2>1, <2>2 DEF VerdictOf, Healthy
  <2>4. QED
    BY <2>1, <2>2, <2>3 DEF pvars
<1>10. CASE (\E n \in Countries : Pin(n)) \/ Unpin \/ RouterRestart
  BY <1>10, <1>same DEF Pin, Unpin, RouterRestart
<1>11. CASE UNCHANGED vars
  BY <1>11, <1>same DEF vars
<1>12. QED
  BY <1>1, <1>2, <1>3, <1>4, <1>5, <1>6, <1>7, <1>8, <1>9, <1>10, <1>11
     DEF Next, Procs

(* The auto-director implements the selector: whatever it measures, reads  *)
(* back or shares with "once", every choice follows from its verdicts.     *)
THEOREM DirectorKeepsPromise == Spec => KeepsPromise
<1>1. Init => Promise!Init
  BY InitPromises
<1>2. CoherentState /\ CoherentState' /\ [Next]_vars
        => [Promise!Next]_<<mem[Daemon].cur, VerdictOf(mem[Daemon]),
                            <<disk.cur, VerdictOf(disk)>>>>
  BY NextPromises DEF pvars
<1>3. QED
  BY <1>1, <1>2, AlwaysCoherent, PTL DEF Spec, KeepsPromise, Promise!Spec

-----------------------------------------------------------------------------
(* The second part: the history that DirectorHistory keeps beside the      *)
(* program.  As long as no process is killed, no write fails and nobody    *)
(* runs "once", what the daemon has, or while it is down what it left in   *)
(* state.json, counts no more silence and no more answers than there were, *)
(* and no less time since the last move.                                   *)
Kept == IF phase[Daemon] = "down" THEN disk ELSE mem[Daemon]

(* A country without a smoothed latency never answered: none was silent    *)
(* for longer.                                                             *)
Measured(d) ==
  /\ \A n \in Countries : d.fails[n] <= silent[n] /\ d.ok[n] <= answered[n]
  /\ \A n \in Countries : d.ewma[n] = NoEwma => \A m \in Countries : silent[m] <= silent[n]
  /\ guessed \/ d.hold + age >= MinDwell

HistoryType ==
  /\ answered \in [Countries -> 0 .. Longest] /\ silent \in [Countries -> 0 .. FailCycles]
  /\ age \in 0 .. MinDwell /\ guessed \in BOOLEAN

MeasuredInv == HistoryType /\ phase[Once] = "down" /\ Measured(Kept)

(* What one measurement does to the counters.                              *)
LEMMA ObservationCounts ==
  ASSUME NEW d \in DeciderState, NEW r \in [Countries -> Samples], NEW o \in Observations(d, r)
  PROVE  /\ o.cur = d.cur /\ o.hold = d.hold
         /\ \A n \in Countries :
              /\ o.fails[n] = IF r[n] = NoAnswer THEN UpTo(d.fails[n], FailCycles) ELSE 0
              /\ o.ok[n] = IF r[n] = NoAnswer THEN 0 ELSE UpTo(d.ok[n], RecoverCycles)
              /\ r[n] # NoAnswer => o.ewma[n] # NoEwma
              /\ r[n] = NoAnswer => o.ewma[n] = d.ewma[n]
<1>1. PICK e \in [Countries -> NoEwma .. MaxLat] :
        /\ \A n \in Countries : e[n] \in Smoothed(d.ewma[n], r[n])
        /\ o = Observe(d, r, e)
  BY DEF Observations
<1>2. /\ o.cur = d.cur /\ o.hold = d.hold /\ o.ewma = e
      /\ o.fails = [n \in Countries |->
                      IF r[n] = NoAnswer THEN UpTo(d.fails[n], FailCycles) ELSE 0]
      /\ o.ok = [n \in Countries |->
                   IF r[n] = NoAnswer THEN 0 ELSE UpTo(d.ok[n], RecoverCycles)]
  BY <1>1 DEF Observe, DeciderState
<1>3. ASSUME NEW n \in Countries
      PROVE  /\ r[n] # NoAnswer => e[n] # NoEwma
             /\ r[n] = NoAnswer => e[n] = d.ewma[n]
  <2>1. d.ewma[n] \in NoEwma .. MaxLat /\ r[n] \in Samples
    BY DEF DeciderState
  <2>. QED  BY <1>1, <2>1, SmoothedType
<1>. QED  BY <1>2, <1>3

LEMMA SwitchHolds ==
  ASSUME NEW d \in DeciderState, NEW c \in Choices
  PROVE  Switch(d, c).cur = c /\ Switch(d, c).hold = MinDwell
         /\ First(d, c).cur = c /\ First(d, c).hold = 0
BY DEF Switch, First, DeciderState

(* Every move starts the dwell time but the first choice; a move away from *)
(* a country is to the pinned one, from an unhealthy one, or late enough.  *)
Moves(d, m, pin) ==
  \/ m.cur = d.cur /\ m.hold = d.hold
  \/ /\ d.cur = Undecided /\ m.cur # Undecided
     /\ m.cur = Closed => \A n \in Countries : d.fails[n] >= FailCycles
  \/ d.cur = Closed /\ m.cur \in Countries /\ m.hold = MinDwell
  \/ /\ d.cur \in Countries /\ m.cur # d.cur /\ m.hold = MinDwell
     /\ pin = m.cur \/ ~Healthy(d, d.cur) \/ d.hold = 0

LEMMA DecisionsMove ==
  ASSUME NEW d \in DeciderState, NEW pin, NEW m \in Decisions(d, pin)
  PROVE  Moves(d, m, pin)
<1>a. /\ Closed \in Choices /\ Closed \notin Countries
      /\ Undecided \notin Countries /\ Undecided # Closed
      /\ Countries \subseteq Choices /\ d.cur \in Choices
  BY CountriesAssumption DEF Choices, DeciderState
<1>1. CASE d.cur = Undecided
  <2>1. m \in FirstChoice(d, pin)
    BY <1>1 DEF Decisions
  <2>2. \/ \E c \in Countries : m = First(d, c)
        \/ m = First(d, Closed) /\ \A n \in Countries : d.fails[n] >= FailCycles
        \/ m = d
    BY <2>1 DEF FirstChoice, Pinned, Fastest, Ready
  <2>3. ASSUME NEW c \in Countries, m = First(d, c) PROVE Moves(d, m, pin)
    BY <1>a, <1>1, <2>3, SwitchHolds DEF Moves
  <2>4. ASSUME m = First(d, Closed) /\ \A n \in Countries : d.fails[n] >= FailCycles
        PROVE  Moves(d, m, pin)
    BY <1>a, <1>1, <2>4, SwitchHolds DEF Moves
  <2>5. ASSUME m = d PROVE Moves(d, m, pin)
    BY <2>5 DEF Moves
  <2>. QED  BY <2>2, <2>3, <2>4, <2>5
<1>2. CASE d.cur = Closed
  <2>1. m \in Reopening(d, pin)
    BY <1>a, <1>2 DEF Decisions
  <2>2. m = d \/ \E c \in Countries : m = Switch(d, c)
    BY <2>1 DEF Reopening, Pinned, Fastest, Back
  <2>3. ASSUME NEW c \in Countries, m = Switch(d, c) PROVE Moves(d, m, pin)
    BY <1>a, <1>2, <2>3, SwitchHolds DEF Moves
  <2>. QED  BY <2>2, <2>3 DEF Moves
<1>3. CASE d.cur \in Countries
  <2>1. m \in Keeping(d, pin)
    BY <1>a, <1>3 DEF Decisions
  <2>o. Other(d.cur) \in Countries /\ Other(d.cur) # d.cur
    BY <1>3, OtherIsTheOther
  <2>2. \/ m = Switch(d, pin) /\ pin \in Countries /\ pin # d.cur
        \/ ~Healthy(d, d.cur) /\ \E c \in {Other(d.cur), Closed} : m = Switch(d, c)
        \/ m = Switch(d, Other(d.cur)) /\ d.hold = 0
        \/ \E b \in {0, BetterRun(d)} : m = [d EXCEPT !.better = b]
    BY <2>1 DEF Keeping, Pinned
  <2>3. ASSUME m = Switch(d, pin) /\ pin \in Countries /\ pin # d.cur PROVE Moves(d, m, pin)
    BY <1>a, <1>3, <2>3, SwitchHolds DEF Moves
  <2>4. ASSUME ~Healthy(d, d.cur), NEW c \in {Other(d.cur), Closed}, m = Switch(d, c)
        PROVE  Moves(d, m, pin)
    BY <1>a, <1>3, <2>o, <2>4, SwitchHolds DEF Moves
  <2>5. ASSUME m = Switch(d, Other(d.cur)) /\ d.hold = 0 PROVE Moves(d, m, pin)
    BY <1>a, <1>3, <2>o, <2>5, SwitchHolds DEF Moves
  <2>6. ASSUME NEW b \in {0, BetterRun(d)}, m = [d EXCEPT !.better = b] PROVE Moves(d, m, pin)
    <3>1. m.cur = d.cur /\ m.hold = d.hold
      BY <2>6 DEF DeciderState
    <3>. QED  BY <3>1 DEF Moves
  <2>. QED  BY <2>2, <2>3, <2>4, <2>5, <2>6
<1>. QED  BY <1>a, <1>1, <1>2, <1>3 DEF Choices

LEMMA UpToSteps ==
  \A x, y, l, k \in Nat : x <= y /\ x <= l /\ y <= k /\ l <= k =>
    UpTo(x, l) <= UpTo(y, k) /\ UpTo(y, k) \in 0 .. k /\ UpTo(x, l) \in 0 .. l
BY DEF UpTo

LEMMA LongestType ==
  Longest \in Nat /\ RecoverCycles <= Longest /\ FailCycles \in Nat /\ RecoverCycles \in Nat
  /\ MinDwell \in Nat
BY ParamsAssumption DEF Longest

(* A cycle of the daemon: the counters follow the measurements, and a move *)
(* has its cause.                                                          *)
LEMMA CycleMeasured ==
  ASSUME CoherentState, MeasuredInv, NEW r \in [Countries -> Samples],
         Decide(Daemon, r), Record(r)
  PROVE  /\ MeasuredInv'
         /\ \A c \in Countries : Choice = c /\ Choice' # c =>
              silent'[c] >= FailCycles \/ pinFile = Choice' \/ age >= MinDwell - 1 \/ guessed
         /\ Choice' = Closed /\ Choice # Closed => \A n \in Countries : silent'[n] >= FailCycles
         /\ Choice = Closed /\ Choice' # Closed => answered'[Choice'] >= RecoverCycles
<1>. USE LongestType
<1>1. phase[Daemon] = "idle" /\ phase' = [phase EXCEPT ![Daemon] = "applying"]
  BY DEF Decide
<1>2. mem \in [Procs -> DeciderState] /\ phase \in [Procs -> Phases] /\ Daemon \in Procs
      /\ Once \in Procs /\ Once # Daemon
  BY DEF CoherentState, TypeOK, Procs, Daemon, Once
<1>. DEFINE a == Elapsed(mem[Daemon])
<1>3. mem[Daemon] \in DeciderState /\ Coherent(mem[Daemon])
  BY <1>2 DEF CoherentState
<1>4. a \in DeciderState /\ Coherent(a) /\ a.cur = mem[Daemon].cur
  BY <1>3, ElapsedCoherent
<1>5. a.fails = mem[Daemon].fails /\ a.ok = mem[Daemon].ok /\ a.ewma = mem[Daemon].ewma
      /\ a.hold = Less(mem[Daemon].hold)
  BY <1>3 DEF Elapsed, DeciderState
<1>6. PICK m \in Step(a, pinFile, r) : mem'[Daemon] = m
  BY <1>2 DEF Decide, Aged
<1>. HIDE DEF a
<1>7. PICK o \in Observations(a, r) : m \in Decisions(o, pinFile)
  BY <1>6 DEF Step
<1>8. o \in DeciderState /\ Counted(o)
  BY <1>4, <1>7, ObservationCounted DEF Coherent
<1>9. Decided(o, m) /\ Moves(o, m, pinFile)
  BY <1>7, <1>8, DecisionsDecide, DecisionsMove
<1>10. /\ o.cur = mem[Daemon].cur /\ o.hold = Less(mem[Daemon].hold)
       /\ \A n \in Countries :
            /\ o.fails[n] = IF r[n] = NoAnswer THEN UpTo(mem[Daemon].fails[n], FailCycles) ELSE 0
            /\ o.ok[n] = IF r[n] = NoAnswer THEN 0 ELSE UpTo(mem[Daemon].ok[n], RecoverCycles)
            /\ r[n] # NoAnswer => o.ewma[n] # NoEwma
            /\ r[n] = NoAnswer => o.ewma[n] = mem[Daemon].ewma[n]
  BY <1>4, <1>5, <1>7, ObservationCounts
<1>11. Kept = mem[Daemon] /\ Kept' = m
  BY <1>1, <1>2, <1>6 DEF Kept
<1>12. /\ HistoryType /\ phase[Once] = "down" /\ Measured(mem[Daemon])
  BY <1>11 DEF MeasuredInv
<1>13. /\ \A n \in Countries :
            /\ answered'[n] = IF r[n] = NoAnswer THEN 0 ELSE UpTo(answered[n], Longest)
            /\ silent'[n] = IF r[n] = NoAnswer THEN UpTo(silent[n], FailCycles) ELSE 0
       /\ age' = IF m.cur # o.cur THEN 0 ELSE UpTo(age, MinDwell)
       /\ guessed' = IF m.cur # o.cur THEN o.cur = Undecided ELSE guessed
  BY <1>6, <1>10 DEF Record, Choice
<1>14. \A n \in Countries :
         /\ mem[Daemon].fails[n] \in 0 .. FailCycles /\ mem[Daemon].ok[n] \in 0 .. RecoverCycles
         /\ silent[n] \in 0 .. FailCycles /\ answered[n] \in 0 .. Longest
         /\ mem[Daemon].fails[n] <= silent[n] /\ mem[Daemon].ok[n] <= answered[n]
  BY <1>3, <1>12 DEF DeciderState, HistoryType, Measured
<1>15. \A n \in Countries : o.fails[n] <= silent'[n] /\ o.ok[n] <= answered'[n]
  <2>. SUFFICES ASSUME NEW n \in Countries
               PROVE  o.fails[n] <= silent'[n] /\ o.ok[n] <= answered'[n]
    OBVIOUS
  <2>1. UpTo(mem[Daemon].fails[n], FailCycles) <= UpTo(silent[n], FailCycles)
    BY <1>14, UpToSteps
  <2>2. UpTo(mem[Daemon].ok[n], RecoverCycles) <= UpTo(answered[n], Longest)
    BY <1>14, UpToSteps
  <2>. QED  BY <1>10, <1>13, <2>1, <2>2
<1>16. HistoryType'
  <2>1. \A n \in Countries : /\ UpTo(answered[n], Longest) \in 0 .. Longest
                             /\ UpTo(silent[n], FailCycles) \in 0 .. FailCycles
    BY <1>14, UpToSteps
  <2>2. answered' \in [Countries -> 0 .. Longest] /\ silent' \in [Countries -> 0 .. FailCycles]
    BY <2>1 DEF Record
  <2>3. age' \in 0 .. MinDwell
    BY <1>12, <1>13, UpToSteps DEF HistoryType, UpTo
  <2>4. guessed' \in BOOLEAN
    <3>1. (o.cur = Undecided) \in BOOLEAN /\ guessed \in BOOLEAN
      BY <1>12 DEF HistoryType
    <3>. QED  BY <1>13, <3>1, Zenon
  <2>. QED  BY <2>2, <2>3, <2>4 DEF HistoryType
<1>17. \A n \in Countries : o.ewma[n] = NoEwma => \A k \in Countries : silent'[k] <= silent'[n]
  <2>. SUFFICES ASSUME NEW n \in Countries, o.ewma[n] = NoEwma, NEW k \in Countries
               PROVE  silent'[k] <= silent'[n]
    OBVIOUS
  <2>1. r[n] = NoAnswer /\ mem[Daemon].ewma[n] = NoEwma
    BY <1>10
  <2>2. silent[k] <= silent[n]
    BY <1>12, <2>1 DEF Measured
  <2>3. UpTo(silent[k], FailCycles) <= UpTo(silent[n], FailCycles)
        /\ UpTo(silent[n], FailCycles) \in Nat
    BY <1>14, <2>2, UpToSteps
  <2>. QED  BY <1>13, <2>1, <2>3
<1>18. m.ok = o.ok /\ m.fails = o.fails /\ m.ewma = o.ewma /\ m \in DeciderState
  BY <1>9 DEF Decided
<1>19. guessed' \/ m.hold + age' >= MinDwell
  <2>1. age \in 0 .. MinDwell /\ mem[Daemon].hold \in 0 .. MinDwell /\ m.hold \in 0 .. MinDwell
    BY <1>3, <1>12, <1>18 DEF HistoryType, DeciderState
  <2>2. guessed \/ mem[Daemon].hold + age >= MinDwell
    BY <1>12 DEF Measured
  <2>3. CASE m.cur = o.cur /\ m.hold = o.hold
    BY <1>10, <1>13, <2>1, <2>2, <2>3 DEF UpTo, Less
  <2>4. CASE o.cur = Undecided /\ m.cur # Undecided
    BY <1>13, <2>4
  <2>5. CASE m.cur # o.cur /\ m.hold = MinDwell
    BY <1>13, <2>5
  <2>6. Closed \notin Countries
    BY CountriesAssumption
  <2>. QED  BY <1>9, <2>3, <2>4, <2>5, <2>6 DEF Moves
<1>20. MeasuredInv'
  <2>1. Measured(m)'
    BY <1>15, <1>17, <1>18, <1>19 DEF Measured
  <2>2. phase'[Once] = "down"
    BY <1>1, <1>2, <1>12
  <2>3. Measured(Kept)'
    BY <1>11, <2>1 DEF Measured
  <2>. QED  BY <1>16, <2>2, <2>3 DEF MeasuredInv
<1>21. \A n \in Countries : o.fails[n] >= FailCycles => silent'[n] >= FailCycles
  <2>1. \A n \in Countries : o.fails[n] \in Nat /\ silent'[n] \in Nat
    BY <1>8, <1>16 DEF DeciderState, HistoryType
  <2>. QED  BY <1>15, <2>1
<1>22. \A n \in Countries : ~Healthy(o, n) => o.fails[n] >= FailCycles \/ o.ewma[n] = NoEwma
  BY <1>8 DEF Healthy, DeciderState
<1>23. Choice = o.cur /\ Choice' = m.cur
  BY <1>6, <1>10 DEF Choice
<1>24. ASSUME NEW c \in Countries, o.cur = c, m.cur # c
       PROVE  silent'[c] >= FailCycles \/ pinFile = m.cur \/ age >= MinDwell - 1 \/ guessed
  <2>1. pinFile = m.cur \/ ~Healthy(o, c) \/ o.hold = 0
    BY <1>9, <1>24, CountriesAssumption DEF Moves
  <2>2. CASE ~Healthy(o, c)
    <3>1. o.ewma[c] # NoEwma
      <4>1. mem[Daemon].cur = c
        BY <1>10, <1>24
      <4>2. mem[Daemon].ewma[c] # NoEwma
        BY <1>3, <4>1 DEF Coherent, ChoiceHealthy, Healthy
      <4>. QED  BY <1>10, <4>2
    <3>. QED  BY <1>21, <1>22, <2>2, <3>1
  <2>3. CASE o.hold = 0
    <3>1. age \in 0 .. MinDwell /\ mem[Daemon].hold \in 0 .. MinDwell
      BY <1>3, <1>12 DEF HistoryType, DeciderState
    <3>2. mem[Daemon].hold <= 1
      BY <1>10, <2>3, <3>1 DEF Less
    <3>. QED  BY <1>12, <3>1, <3>2 DEF Measured
  <2>. QED  BY <2>1, <2>2, <2>3
<1>25. ASSUME m.cur = Closed, o.cur # Closed, NEW n \in Countries
       PROVE  silent'[n] >= FailCycles
  <2>1. CASE o.cur = Undecided
    <3>1. \A k \in Countries : o.fails[k] >= FailCycles
      BY <1>9, <1>25, <2>1, CountriesAssumption DEF Moves
    <3>. QED  BY <1>21, <3>1
  <2>2. CASE o.cur \in Countries
    <3>1. \A k \in Countries : ~Healthy(o, k)
      BY <1>9, <1>25 DEF Decided
    <3>2. o.ewma[o.cur] # NoEwma
      <4>1. mem[Daemon].ewma[o.cur] # NoEwma
        BY <1>3, <1>10, <2>2 DEF Coherent, ChoiceHealthy, Healthy
      <4>. QED  BY <1>10, <2>2, <4>1
    <3>3. silent'[o.cur] >= FailCycles
      BY <1>21, <1>22, <2>2, <3>1, <3>2
    <3>4. CASE o.ewma[n] = NoEwma
      <4>1. silent'[o.cur] <= silent'[n]
        BY <1>17, <2>2, <3>4
      <4>2. silent'[o.cur] \in Nat /\ silent'[n] \in Nat
        BY <1>16, <2>2 DEF HistoryType
      <4>. QED  BY <3>3, <4>1, <4>2
    <3>5. CASE o.ewma[n] # NoEwma
      BY <1>21, <1>22, <3>1, <3>5
    <3>. QED  BY <3>4, <3>5
  <2>. QED  BY <1>8, <1>25, <2>1, <2>2 DEF DeciderState, Choices
<1>26. ASSUME o.cur = Closed, m.cur # Closed
       PROVE  answered'[m.cur] >= RecoverCycles
  <2>1. m.cur \in Countries /\ o.ok[m.cur] >= RecoverCycles
    BY <1>9, <1>26 DEF Decided, Back
  <2>2. o.ok[m.cur] \in Nat /\ answered'[m.cur] \in Nat
    BY <1>8, <1>16, <2>1 DEF DeciderState, HistoryType
  <2>. QED  BY <1>15, <2>1, <2>2
<1>. QED  BY <1>20, <1>23, <1>24, <1>25, <1>26

LEMMA InitMeasured == HInit => MeasuredInv
<1>. SUFFICES ASSUME HInit PROVE MeasuredInv
  OBVIOUS
<1>1. HistoryType
  BY LongestType DEF HInit, HistoryType
<1>2. phase[Once] = "down" /\ phase[Daemon] = "down" /\ disk = FreshDecider
  BY DEF HInit, Init, Procs, Daemon, Once
<1>3. Measured(FreshDecider)
  BY DEF HInit, Measured, FreshDecider
<1>. QED  BY <1>1, <1>2, <1>3 DEF MeasuredInv, Kept

(* The other steps of the daemon move what it has between its memory and   *)
(* the file, or let the same time run off in it and in the history.        *)
LEMMA OthersMeasured ==
  ASSUME MaxFaults = 0, MaxOnce = 0, CoherentState, MeasuredInv, Others,
         UNCHANGED <<answered, silent, age, guessed>>
  PROVE  MeasuredInv' /\ ~Deciding
<1>1. mem \in [Procs -> DeciderState] /\ phase \in [Procs -> Phases] /\ Daemon \in Procs
      /\ Once \in Procs /\ Once # Daemon /\ Procs = {Daemon, Once}
      /\ faults = 0 /\ onces = 0 /\ phase[Once] = "down" /\ Measured(Kept)
  BY DEF CoherentState, TypeOK, Procs, Daemon, Once, MeasuredInv
<1>2. ASSUME Kept' = Kept, phase'[Once] = "down" PROVE MeasuredInv'
  BY <1>1, <1>2 DEF MeasuredInv, HistoryType, Measured
<1>3. CASE Start
  <2>1. phase' = [phase EXCEPT ![Daemon] = "idle"] /\ phase[Daemon] = "down"
        /\ mem'[Daemon] = disk
    BY <1>1, <1>3 DEF Start, Load
  <2>2. phase'[Daemon] = "idle" /\ phase'[Once] = "down" /\ Kept' = Kept
    BY <1>1, <2>1 DEF Kept
  <2>. QED  BY <1>2, <2>2 DEF Deciding
<1>4. ~StartOnce /\ ~Crash /\ ~CrashOnce /\ ~SaveFails(Daemon) /\ ~SaveFails(Once)
  BY <1>1 DEF StartOnce, Crash, CrashOnce, SaveFails
<1>5. CASE Stop
  <2>1. phase' = [phase EXCEPT ![Daemon] = "down"] /\ phase[Daemon] = "idle"
        /\ disk = mem[Daemon] /\ disk' = disk
    BY <1>5 DEF Stop
  <2>2. phase'[Daemon] = "down" /\ phase'[Once] = "down" /\ Kept' = Kept
    BY <1>1, <2>1 DEF Kept
  <2>. QED  BY <1>2, <2>2 DEF Deciding
<1>6. CASE Apply(Daemon) \/ ApplyFails(Daemon)
  <2>1. phase' = [phase EXCEPT ![Daemon] = "saving"] /\ phase[Daemon] = "applying"
        /\ mem' = mem
    BY <1>6 DEF Apply, ApplyFails
  <2>2. phase'[Daemon] = "saving" /\ phase'[Once] = "down" /\ Kept' = Kept
    BY <1>1, <2>1 DEF Kept
  <2>. QED  BY <1>2, <2>2 DEF Deciding
<1>7. CASE Save(Daemon)
  <2>1. phase' = [phase EXCEPT ![Daemon] = "idle"] /\ phase[Daemon] = "saving"
        /\ mem' = [mem EXCEPT ![Daemon] = mem[Daemon]]
    BY <1>7 DEF Save, Resting, Rested
  <2>2. phase'[Daemon] = "idle" /\ phase'[Once] = "down" /\ Kept' = Kept
    BY <1>1, <2>1 DEF Kept
  <2>. QED  BY <1>2, <2>2 DEF Deciding
<1>8. ~Apply(Once) /\ ~ApplyFails(Once) /\ ~Save(Once)
      /\ ~SaveTorn(Daemon) /\ ~SaveTorn(Once)
  BY <1>1 DEF Apply, ApplyFails, Save, SaveTorn
<1>9. \A r \in [Countries -> Samples] : ~Decide(Once, r)
  BY <1>1 DEF Decide
<1>10. CASE (\E n \in Countries : Pin(n)) \/ Unpin \/ RouterRestart
  <2>1. phase' = phase /\ mem' = mem /\ disk' = disk
    BY <1>10 DEF Pin, Unpin, RouterRestart
  <2>. QED  BY <1>1, <1>2, <2>1 DEF Deciding, Kept
<1>. QED  BY <1>1, <1>3, <1>4, <1>5, <1>6, <1>7, <1>8, <1>9, <1>10 DEF Others

LEMMA OutageMeasured ==
  ASSUME CoherentState, MeasuredInv, Outage, age' = UpTo(age, MinDwell),
         UNCHANGED <<answered, silent, guessed>>
  PROVE  MeasuredInv' /\ ~Deciding
<1>. USE LongestType
<1>1. disk \in DeciderState /\ Measured(disk) /\ HistoryType
      /\ phase[Daemon] = "down" /\ phase[Once] = "down" /\ phase' = phase
      /\ disk' = Elapsed(disk)
  BY DEF CoherentState, TypeOK, MeasuredInv, Kept, Outage
<1>2. /\ Elapsed(disk).fails = disk.fails /\ Elapsed(disk).ok = disk.ok
      /\ Elapsed(disk).ewma = disk.ewma /\ Elapsed(disk).hold = Less(disk.hold)
  BY <1>1 DEF Elapsed, DeciderState
<1>3. guessed \/ Less(disk.hold) + UpTo(age, MinDwell) >= MinDwell
  <2>1. age \in 0 .. MinDwell /\ disk.hold \in 0 .. MinDwell
    BY <1>1 DEF HistoryType, DeciderState
  <2>. QED  BY <1>1, <2>1 DEF Measured, Less, UpTo
<1>4. Measured(disk)'
  BY <1>1, <1>2, <1>3 DEF Measured
<1>5. HistoryType'
  <2>1. UpTo(age, MinDwell) \in 0 .. MinDwell
    BY <1>1, UpToSteps DEF HistoryType
  <2>. QED  BY <1>1, <2>1 DEF HistoryType
<1>6. Measured(Kept)' /\ phase'[Once] = "down"
  BY <1>1, <1>4 DEF Kept
<1>. QED  BY <1>1, <1>5, <1>6 DEF MeasuredInv, Deciding

(* Without its history the program takes the steps of AutoDirector.        *)
LEMMA HistoryAddsNothing ==
  /\ HInit => Init
  /\ [HNext]_hvars => [Next]_vars
<1>1. HNext => Next
  BY DEF HNext, Others, Next, Procs
<1>. QED  BY <1>1 DEF HInit, hvars

LEMMA AlwaysCoherentToo == HSpec => []CoherentState
<1>1. HInit => CoherentState
  BY InitCoherent, HistoryAddsNothing
<1>2. CoherentState /\ [HNext]_hvars => CoherentState'
  BY NextCoherent, HistoryAddsNothing
<1>. QED  BY <1>1, <1>2, PTL DEF HSpec

(* The causes of one step, as the three properties state them.             *)
StepLeft ==
  \A c \in Countries : Leaves(c) =>
    \/ silent'[c] >= FailCycles
    \/ pinFile = Choice'
    \/ age >= MinDwell - 1
    \/ guessed
StepClosed ==
  Deciding /\ Choice' = Closed /\ Choice # Closed
    => \A n \in Countries : silent'[n] >= FailCycles
StepReopened ==
  Deciding /\ Choice = Closed /\ Choice' # Closed
    => answered'[Choice'] >= RecoverCycles

LEMMA NextMeasured ==
  ASSUME MaxFaults = 0, MaxOnce = 0
  PROVE  CoherentState /\ MeasuredInv /\ [HNext]_hvars
           => MeasuredInv' /\ ((StepLeft /\ StepClosed /\ StepReopened) \/ UNCHANGED hvars)
<1>. SUFFICES ASSUME CoherentState, MeasuredInv, [HNext]_hvars
     PROVE  MeasuredInv' /\ ((StepLeft /\ StepClosed /\ StepReopened) \/ UNCHANGED hvars)
  OBVIOUS
<1>1. ASSUME ~Deciding PROVE StepLeft /\ StepClosed /\ StepReopened
  BY <1>1 DEF StepLeft, StepClosed, StepReopened, Leaves
<1>2. ASSUME NEW r \in [Countries -> Samples], Decide(Daemon, r), Record(r)
      PROVE  MeasuredInv' /\ StepLeft /\ StepClosed /\ StepReopened
  BY <1>2, CycleMeasured DEF StepLeft, StepClosed, StepReopened, Leaves
<1>3. CASE Others /\ UNCHANGED <<answered, silent, age, guessed>>
  BY <1>1, <1>3, OthersMeasured
<1>4. CASE Outage /\ age' = UpTo(age, MinDwell) /\ UNCHANGED <<answered, silent, guessed>>
  BY <1>1, <1>4, OutageMeasured
<1>5. CASE UNCHANGED hvars
  BY <1>5 DEF hvars, vars, MeasuredInv, HistoryType, Measured, Kept
<1>. QED  BY <1>2, <1>3, <1>4, <1>5 DEF HNext

(* AUTO leaves a country, is closed and comes back only for a cause that   *)
(* was measured, over planned restarts and outages of any length: the      *)
(* counters of the daemon, in memory or in its file, never run ahead of    *)
(* the measurements.  A killed cycle or a failed write puts older counters *)
(* back and "once" writes its own: neither is here.                        *)
THEOREM MovesHaveCause ==
  ASSUME MaxFaults = 0, MaxOnce = 0
  PROVE  HSpec => MovedForCause
<1>1. HInit => MeasuredInv
  BY InitMeasured
<1>2. CoherentState /\ MeasuredInv /\ [HNext]_hvars
        => MeasuredInv' /\ [StepLeft]_hvars /\ [StepClosed]_hvars /\ [StepReopened]_hvars
  BY NextMeasured
<1>3. HSpec => [][StepLeft]_hvars /\ [][StepClosed]_hvars /\ [][StepReopened]_hvars
  BY <1>1, <1>2, AlwaysCoherentToo, PTL DEF HSpec
<1>. QED
  BY <1>3 DEF MovedForCause, LeftForCause, ClosedForCause, ReopenedForCause,
              StepLeft, StepClosed, StepReopened
==============================================================================
