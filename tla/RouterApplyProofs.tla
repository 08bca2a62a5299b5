-------------------------- MODULE RouterApplyProofs --------------------------
(***************************************************************************)
(* Proofs about the apply of the router's configuration and about the      *)
(* pages whose settings it reads.                                          *)
(*                                                                         *)
(* RouterApply.  "Nothing to apply" is the truth about the router's file,  *)
(* for every number of edits, runs, failures, kills and reboots, as long   *)
(* as an edit is never taken back to an earlier version.                   *)
(*                                                                         *)
(* The argument orders everything by version.  Hashes are taken before the *)
(* pipeline reads, so a record is never newer than the file it stands for; *)
(* what is built is never newer than the inputs.  So                       *)
(*     applied <= live <= inputs                                           *)
(* for every part the file has, and when the plan finds the outer two      *)
(* equal the file is squeezed in between.                                  *)
(*                                                                         *)
(* What a run leaves when it fails follows from Followed: until a run      *)
(* replaces the file, the file is the one the run started from, and again  *)
(* when it has been copied back.  What it may change without consent       *)
(* follows from Excused: an edit announced to the comparison is still      *)
(* ahead of the record when the file is replaced.                          *)
(*                                                                         *)
(* RoutingRules.  The rules of the sources and of the form stay apart,     *)
(* because a request touches the rows of one owner and rows of nobody.  A  *)
(* save that says "updated" has stored what was submitted: the cache the   *)
(* form is compared with (SaveInv) holds the committed settings or         *)
(* nothing, unless it was filled beside a save, and it can be so filled    *)
(* only by a process whose transaction overlaps that save                  *)
(* (reader.crossed), or by the page that is shown again after a refusal.   *)
(***************************************************************************)
EXTENDS RouterApply, RoutingRules, TLAPS

Older(a, b, S) == \A p \in S : a[p] <= b[p]

(* A record against a file that may lack parts.                            *)
Kept(h, c) == \A p \in Hashed : c[p] # NoPart => h[p] <= c[p]

(* A job between its first look at the live file and its last write to it. *)
Building == {"reading", "built", "stage", "swap", "replaced", "serving"} \cup Rollback

(* The inputs have been read; the new file is in place.                    *)
Read   == {"built", "stage", "swap", "replaced", "serving"}
Placed == {"replaced", "serving", "record", "layers", "last"}

Hashing == {"expect", "full", "reading"} \cup Read \cup Placed \cup InPlace

JobTyped ==
  /\ pc \in Building => job.base \in Configs /\ job.built \in Configs
  /\ pc \in InPlace => job.built \in Inputs
  /\ pc \in {"layers", "last"} => live # Torn
  /\ pc \in Hashing => job.kind = "countries" \/ job.parts \in PartHashes
  /\ pc \in {"hash", "expect", "full", "reading", "built", "stage", "record"} \cup InPlace
       => job.kind # "countries"

Typed == TypeOK /\ JobTyped

JobOrdered ==
  /\ pc \in Building =>
       /\ Older(job.base, job.built, Owned)
       /\ Older(job.built, inputs, Owned)
       /\ applied # None => Kept(applied, job.base) /\ Kept(applied, job.built)
  /\ pc \in Hashing /\ job.kind # "countries" => Older(job.parts, inputs, Hashed)
  /\ pc = "reading" => Older(job.parts, job.built, Database)
  /\ pc \in Read /\ job.kind # "countries" => Older(job.parts, job.built, Hashed)
  /\ pc \in Placed /\ job.kind # "countries" /\ live # Torn => Kept(job.parts, live)
  /\ pc \in InPlace =>
       /\ Older(job.built, inputs, Owned)
       /\ Older(job.parts, job.built, Hashed)
       /\ applied # None => Older(applied, job.built, Hashed)

StagedOrdered ==
  staged # None /\ staged.config # None =>
    /\ Older(staged.base, staged.config, Owned)
    /\ Older(staged.parts, staged.config, Hashed)
    /\ Older(staged.config, inputs, Owned)

Ordered ==
  /\ Typed
  /\ \A p \in Parts : inputs[p] <= edits
  /\ live # Torn => Older(live, inputs, Owned)
  /\ applied # None => Older(applied, inputs, Hashed)
  /\ applied # None /\ live # Torn => Kept(applied, live)
  /\ StagedOrdered
  /\ JobOrdered

(***************************************************************************)
(* Types.                                                                  *)
(***************************************************************************)

LEMMA HashesTyped == TypeOK => PartsOf(inputs) \in PartHashes
  BY DEF TypeOK, PartsOf, PartHashes, Inputs, Hashed, Owned, Parts

LEMMA ExpectedTyped == Expected(inputs) \in SUBSET Parts
  BY DEF Expected, Changed, Hashed, Owned, Parts

LEMMA Overwritten ==
  ASSUME NEW c \in Configs, NEW p \in Parts, NEW v \in Versions
  PROVE  [c EXCEPT ![p] = v] \in Configs
  BY DEF Configs

LEMMA InputsAreConfigs ==
  ASSUME NEW i \in Inputs
  PROVE  i \in Configs /\ Core(i) \in Configs /\ Layered(i) \in Configs
  BY DEF Inputs, Configs, Core, Layered, Database, Hashed, Owned, Parts

LEMMA LoadedTyped ==
  ASSUME NEW f \in Configs \cup {Torn}
  PROVE  Loaded(f) \in Configs \cup {None}
  BY DEF Loaded

(* The files the steps of a build write.                                   *)
LEMMA WrittenTyped ==
  ASSUME NEW c \in Configs, NEW i \in Inputs
  PROVE  /\ [c EXCEPT !.countries = i.countries] \in Configs
         /\ [c EXCEPT !.ui_files = i.ui_files, !.host = i.host] \in Configs
         /\ [p \in Parts |-> IF p \in Database \cup {"countries"} THEN i[p] ELSE c[p]] \in Configs
  BY DEF Inputs, Configs, Parts, Owned, Hashed, Database

LEMMA WithParts ==
  ASSUME NEW j \in JobType, NEW k \in Kinds, NEW h \in PartHashes, NEW e \in SUBSET Parts
  PROVE  /\ [j EXCEPT !.kind = k, !.expected = e] \in JobType
         /\ [j EXCEPT !.expected = e] \in JobType
         /\ [j EXCEPT !.parts = h] \in JobType
  BY DEF JobType

LEMMA WithConfigs ==
  ASSUME NEW j \in JobType, NEW b \in Configs, NEW c \in Configs
  PROVE  /\ [j EXCEPT !.base = b, !.built = c] \in JobType
         /\ \A k \in Kinds : [j EXCEPT !.kind = k, !.base = b, !.built = c] \in JobType
         /\ \A h \in PartHashes : [j EXCEPT !.parts = h, !.base = b, !.built = c] \in JobType
  BY DEF JobType

LEMMA IdleTyped == Idle \in JobType
  BY DEF Idle, JobType, Kinds

LEMMA InitTypes == Init => TypeOK
<1> SUFFICES ASSUME Init PROVE TypeOK
  OBVIOUS
<1>1. inputs \in Inputs /\ inputs \in Configs
  BY ApplyAssumption DEF Init, Inputs, Configs, Versions
<1>2. applied \in PartHashes \cup {None}
  BY <1>1 DEF Init, PartsOf, PartHashes, Inputs, Hashed, Owned, Parts
<1>3. BudgetOK
  BY ApplyAssumption DEF Init, BudgetOK
<1>4. QED
  BY <1>1, <1>2, <1>3, IdleTyped DEF Init, TypeOK, Statuses, Steps

LEMMA StepTypes == Typed /\ [Next]_vars => TypeOK'
<1> SUFFICES ASSUME TypeOK, JobTyped, [Next]_vars PROVE TypeOK'
  BY DEF Typed
<1> USE ApplyAssumption
<1>1. ASSUME NEW p \in Edited, Edit(p) PROVE TypeOK'
  <2>1. inputs' \in Inputs
    <3>1. PICK v \in {edits + 1} \cup {0} : inputs' = [inputs EXCEPT ![p] = v]
      BY <1>1 DEF Edit
    <3>2. v \in Versions
      BY <1>1, <3>1 DEF Edit, TypeOK, BudgetOK, Versions
    <3>3. QED
      BY <3>1, <3>2 DEF TypeOK, Inputs
  <2>2. QED
    BY <1>1, <2>1 DEF Edit, TypeOK, BudgetOK, system
<1>2. ASSUME NEW mode \in PanelModes, Press(mode) PROVE TypeOK'
  BY <1>2 DEF Press, TypeOK, BudgetOK, budget, Modes
<1>3. ASSUME NEW mode \in ConsoleModes, ConsoleLocks(mode) PROVE TypeOK'
  <2>1. job' \in JobType
    BY <1>3 DEF ConsoleLocks, Idle, JobType, Kinds
  <2>2. QED
    BY <1>3, <2>1 DEF ConsoleLocks, TypeOK, BudgetOK, Steps
<1>4. CASE UnitLocks
  <2>1. job' \in JobType
    BY <1>4 DEF UnitLocks, Idle, JobType, Kinds, TypeOK
  <2>2. QED
    BY <1>4, <2>1 DEF UnitLocks, TypeOK, BudgetOK, budget, Steps, Statuses
<1>5. CASE UnitRefused
  BY <1>5 DEF UnitRefused, TypeOK, BudgetOK, budget
<1>6. ASSUME NEW rc \in {0, 1, 2, 4}, Exit(rc) PROVE pc' \in Steps /\ job' \in JobType
  BY <1>6 DEF Exit, TypeOK, JobType, Steps
<1>7. CASE Discard
  BY <1>6, <1>7 DEF Discard, Untouched, TypeOK, BudgetOK
<1>8. CASE NothingToDo
  BY <1>6, <1>8 DEF NothingToDo, Untouched, TypeOK, BudgetOK
<1>9. CASE Decide \/ TakeHashes \/ Expect
  <2>1. job' \in JobType
    <3>1. CASE Decide
      <4>1. PICK k \in Kinds, e \in SUBSET Parts :
              job' = [job EXCEPT !.kind = k, !.expected = e]
        BY <3>1, ExpectedTyped DEF Decide, TypeOK, JobType, Kinds, Modes
      <4>2. QED
        BY <4>1, HashesTyped, WithParts DEF TypeOK
    <3>2. CASE TakeHashes
      <4>1. PICK h \in PartHashes : job' = [job EXCEPT !.parts = h]
        BY <3>2, HashesTyped DEF TakeHashes
      <4>2. QED
        BY <4>1 DEF TypeOK, JobType
    <3>3. CASE Expect
      <4>1. PICK e \in SUBSET Parts : job' = [job EXCEPT !.expected = e]
        BY <3>3, ExpectedTyped DEF Expect
      <4>2. QED
        BY <4>1 DEF TypeOK, JobType
    <3>4. QED
      BY <1>9, <3>1, <3>2, <3>3
  <2>2. QED
    BY <1>9, <2>1 DEF Decide, TakeHashes, Expect, Untouched, TypeOK, BudgetOK, Steps
<1>10. CASE StartCountries
  <2>1. live \in Configs /\ [live EXCEPT !.countries = inputs.countries] \in Configs
    BY <1>10, WrittenTyped DEF TypeOK, StartCountries
  <2>2. job' \in JobType
    BY <1>10, <2>1, WithConfigs DEF StartCountries, TypeOK, Kinds, Modes
  <2>3. QED
    BY <1>10, <2>2 DEF StartCountries, Untouched, TypeOK, BudgetOK, Steps
<1>11. CASE StartAccept
  <2>1. CASE Acceptable(PartsOf(inputs))
    <3>1. staged.config \in Configs /\ live \in Configs
      BY <2>1 DEF Acceptable, TypeOK, StagedType
    <3>2. job' \in JobType
      <4>1. PICK h \in PartHashes, c \in Configs : h = PartsOf(inputs) /\ c = staged.config
        BY <3>1, HashesTyped
      <4>2. job' = [job EXCEPT !.parts = h, !.base = live, !.built = c]
        BY <1>11, <2>1, <4>1 DEF StartAccept
      <4>3. QED
        BY <3>1, <4>2, WithConfigs DEF TypeOK
    <3>3. QED
      BY <1>11, <2>1, <3>2 DEF StartAccept, Untouched, TypeOK, BudgetOK, Steps
  <2>2. CASE ~Acceptable(PartsOf(inputs))
    BY <1>6, <1>11, <2>2 DEF StartAccept, Untouched, TypeOK, BudgetOK
  <2>3. QED
    BY <2>1, <2>2
<1>12. CASE ReadDatabase
  <2>1. live \in Configs
    BY <1>12 DEF ReadDatabase, Private, TypeOK
  <2>2. PICK c : c = [p \in Parts |-> IF p \in Database \cup {"countries"}
                                     THEN inputs[p] ELSE live[p]]
    OBVIOUS
  <2>3. c \in Configs
    BY <2>1, <2>2, WrittenTyped DEF TypeOK
  <2>4. job' \in JobType
    BY <1>12, <2>1, <2>2, <2>3, WithConfigs DEF ReadDatabase, TypeOK
  <2>5. QED
    BY <1>12, <2>4 DEF ReadDatabase, Untouched, TypeOK, BudgetOK, Steps
<1>13. CASE ReadFiles
  <2>1. job.base \in Configs /\ job.built \in Configs
    BY <1>13 DEF ReadFiles, JobTyped, Building
  <2>2. PICK c : c = [job.built EXCEPT !.ui_files = inputs.ui_files, !.host = inputs.host]
    OBVIOUS
  <2>3. c \in Configs
    BY <2>1, <2>2, WrittenTyped DEF TypeOK
  <2>4. job' = [job EXCEPT !.built = c]
    BY <1>13, <2>2 DEF ReadFiles, TypeOK, JobType
  <2>5. job' \in JobType
    BY <2>3, <2>4 DEF TypeOK, JobType
  <2>6. QED
    BY <1>13, <2>5 DEF ReadFiles, Untouched, TypeOK, BudgetOK, Steps
<1>14. CASE PipelineFails
  BY <1>6, <1>14 DEF PipelineFails, MayFail, Untouched, TypeOK, BudgetOK
<1>15. CASE ChangedMeanwhile
  BY <1>6, <1>15 DEF ChangedMeanwhile, Untouched, TypeOK, BudgetOK
<1>16. CASE EqualToLive
  BY <1>16 DEF EqualToLive, Untouched, TypeOK, BudgetOK, Steps
<1>17. CASE Compare
  BY <1>17 DEF Compare, Untouched, TypeOK, BudgetOK, Steps
<1>18. CASE Stage
  <2>1. job.base \in Configs /\ job.built \in Configs /\ job.parts \in PartHashes
    BY <1>18 DEF Stage, JobTyped, Building, Hashing, Read
  <2>2. staged' \in StagedType
    BY <1>18, <2>1 DEF Stage, StagedType
  <2>3. QED
    BY <1>6, <1>18, <2>2 DEF Stage, Untouched, TypeOK, BudgetOK
<1>19. CASE PreChecksFail
  BY <1>6, <1>19 DEF PreChecksFail, MayFail, Untouched, TypeOK, BudgetOK
<1>20. CASE Replace
  BY <1>20 DEF Replace, JobTyped, Building, Untouched, TypeOK, BudgetOK, Steps
<1>21. CASE Restart
  BY <1>21, LoadedTyped DEF Restart, Untouched, TypeOK, BudgetOK, Steps
<1>22. CASE RestartFails
  BY <1>22, LoadedTyped DEF RestartFails, MayFail, Untouched, TypeOK, BudgetOK, Steps, Rollback
<1>23. CASE PutBack \/ Copied \/ CopyFails
  <2>1. CASE PutBack
    BY <2>1 DEF PutBack, Untouched, TypeOK, BudgetOK, Steps, Rollback
  <2>2. CASE Copied
    BY <2>2 DEF Copied, JobTyped, Building, Rollback, Untouched, TypeOK, BudgetOK, Steps
  <2>3. CASE CopyFails
    <3>1. job' \in JobType
      BY <2>3 DEF CopyFails, TypeOK, JobType
    <3>2. QED
      BY <2>3, <3>1 DEF CopyFails, MayFail, Untouched, TypeOK, BudgetOK, Steps
  <2>4. QED
    BY <1>23, <2>1, <2>2, <2>3
<1>24. CASE RestartPrevious
  BY <1>6, <1>24, LoadedTyped DEF RestartPrevious, MayFail, Untouched, TypeOK, BudgetOK
<1>25. CASE Swapped
  BY <1>6, <1>25 DEF Swapped, Untouched, TypeOK, BudgetOK, Steps
<1>26. CASE Record
  <2>1. job.parts \in PartHashes
    BY <1>26 DEF Record, JobTyped, Hashing, Placed
  <2>2. QED
    BY <1>6, <1>26, <2>1 DEF Record, Untouched, TypeOK, BudgetOK
<1>27. CASE Finish
  BY <1>27, IdleTyped DEF Finish, TypeOK, BudgetOK, budget, Steps, Statuses
<1>28. CASE Kill
  BY <1>28, IdleTyped DEF Kill, TypeOK, BudgetOK, Steps, Statuses
<1>29. CASE Reboot
  <2>1. staged' \in StagedType \cup {None}
    BY <1>29 DEF Reboot, TypeOK, StagedType
  <2>2. live' \in Configs \cup {Torn} /\ served' \in Configs \cup {None}
    BY <1>29, LoadedTyped DEF Reboot, TypeOK
  <2>3. QED
    BY <1>29, <2>1, <2>2, IdleTyped DEF Reboot, TypeOK, BudgetOK, Steps
<1>30. CASE RouterStartsAgain
  BY <1>30, LoadedTyped DEF RouterStartsAgain, TypeOK, BudgetOK, budget
<1>31. CASE OutsideWrite
  <2>1. \A v \in Versions : live # Torn => [live EXCEPT !.host = v] \in Configs
    BY Overwritten DEF TypeOK, Parts
  <2>2. live' \in Configs /\ served' \in Configs \cup {None}
    BY <1>31, <2>1, InputsAreConfigs DEF OutsideWrite, TypeOK
  <2>3. QED
    BY <1>31, <2>2 DEF OutsideWrite, TypeOK, BudgetOK
<1>32. CASE UNCHANGED vars
  BY <1>32 DEF vars, system, budget, TypeOK, BudgetOK
<1>33. CASE CountriesRefused \/ AcceptFails
  BY <1>6, <1>33 DEF CountriesRefused, AcceptFails, Untouched, TypeOK, BudgetOK
<1>34. CASE StartClassic
  <2>1. job' \in JobType
    BY <1>34, InputsAreConfigs DEF StartClassic, TypeOK, JobType
  <2>2. QED
    BY <1>34, <2>1 DEF StartClassic, Untouched, TypeOK, BudgetOK, Steps, InPlace
<1>35. CASE WriteCore
  <2>1. Core(job.built) \in Configs
    BY <1>35, InputsAreConfigs DEF WriteCore, JobTyped, InPlace
  <2>2. QED
    BY <1>35, <2>1 DEF WriteCore, Untouched, TypeOK, BudgetOK, Steps, InPlace
<1>36. CASE WriteLayers
  <2>1. live' \in Configs /\ served' = live'
    BY <1>36, WrittenTyped DEF WriteLayers, TypeOK, JobTyped
  <2>2. QED
    BY <1>36, <2>1 DEF WriteLayers, Untouched, TypeOK, BudgetOK, Steps, InPlace
<1>37. CASE WriteCountries
  <2>1. live' \in Configs /\ served' = live'
    BY <1>37, WrittenTyped DEF WriteCountries, TypeOK, JobTyped, InPlace
  <2>2. QED
    BY <1>37, <2>1 DEF WriteCountries, Untouched, TypeOK, BudgetOK, Steps
<1>38. CASE ClassicFails
  BY <1>6, <1>38 DEF ClassicFails, MayFail, Untouched, TypeOK, BudgetOK
<1>39. QED
  BY <1>33, <1>34, <1>35, <1>36, <1>37, <1>38, <1>1, <1>2, <1>3, <1>4, <1>5, <1>7, <1>8, <1>9, <1>10, <1>11, <1>12, <1>13,
     <1>14, <1>15, <1>16, <1>17, <1>18, <1>19, <1>20, <1>21, <1>22, <1>23, <1>24,
     <1>25, <1>26, <1>27, <1>28, <1>29, <1>30, <1>31, <1>32
     DEF Next, JobStep, UnitStep

(***************************************************************************)
(* What the actions that write the job's variables leave in them.          *)
(***************************************************************************)

LEMMA HashFields ==
  TypeOK /\ TakeHashes =>
    /\ pc' \in {"full", "expect"} /\ job'.parts = PartsOf(inputs)
    /\ job'.kind = job.kind /\ job'.expected = job.expected /\ job'.base = job.base
  BY DEF TypeOK, JobType, TakeHashes

LEMMA ExpectFields ==
  TypeOK /\ Expect =>
    /\ pc' = "full" /\ job'.parts = job.parts /\ job'.kind = job.kind
    /\ job'.expected = Expected(inputs) /\ job'.base = job.base
  BY DEF TypeOK, JobType, Expect

LEMMA DecideFields ==
  TypeOK /\ Decide =>
    /\ pc' = "hash" /\ job'.kind = "full"
    /\ job'.expected = Expected(inputs) /\ job'.base = job.base
  BY DEF TypeOK, JobType, Decide

LEMMA StartClassicFields ==
  TypeOK /\ StartClassic =>
    /\ pc' = "core" /\ job'.built = inputs /\ job'.parts = job.parts
    /\ job'.kind = job.kind /\ job'.base = job.base
  BY DEF TypeOK, JobType, StartClassic

LEMMA StartCountriesFields ==
  TypeOK /\ StartCountries =>
    /\ pc' \in {"exit", "swap"} /\ live \in Configs
    /\ job'.kind = "countries" /\ job'.base = live /\ job'.expected = job.expected
    /\ job'.rc = job.rc
    /\ job'.built = [live EXCEPT !.countries = inputs.countries]
  BY DEF TypeOK, JobType, StartCountries

LEMMA StartAcceptFields ==
  ASSUME TypeOK, StartAccept, Acceptable(PartsOf(inputs))
  PROVE  /\ pc' = "swap" /\ staged' = staged
         /\ job'.kind = "accept" /\ job'.parts = PartsOf(inputs)
         /\ job'.base = live /\ job'.built = staged.config
         /\ staged \in StagedType /\ staged.config \in Configs /\ live \in Configs
<1>1. PICK h, c : h = PartsOf(inputs) /\ c = staged.config
  OBVIOUS
<1>2. job' = [job EXCEPT !.parts = h, !.base = live, !.built = c]
  BY <1>1 DEF StartAccept
<1>3. staged \in StagedType /\ staged.config \in Configs /\ live \in Configs
  BY DEF Acceptable, TypeOK, StagedType
<1>4. QED
  BY <1>1, <1>2, <1>3 DEF TypeOK, JobType, StartAccept

LEMMA ReadDatabaseFields ==
  ASSUME TypeOK, ReadDatabase
  PROVE  /\ pc' = "reading" /\ live \in Configs
         /\ job'.kind = job.kind /\ job'.parts = job.parts /\ job'.base = live
         /\ job'.expected = job.expected
         /\ job'.built = [p \in Parts |-> IF p \in Database \cup {"countries"}
                                         THEN inputs[p] ELSE live[p]]
         /\ job'.built \in Configs
<1>1. PICK c : c = [p \in Parts |-> IF p \in Database \cup {"countries"}
                                   THEN inputs[p] ELSE live[p]]
  OBVIOUS
<1>2. live \in Configs
  BY DEF ReadDatabase, Private, TypeOK
<1>3. c \in Configs
  BY <1>1, <1>2, WrittenTyped DEF TypeOK
<1>4. job' = [job EXCEPT !.base = live, !.built = c]
  BY <1>1 DEF ReadDatabase
<1>5. QED
  BY <1>1, <1>2, <1>3, <1>4 DEF TypeOK, JobType, ReadDatabase

LEMMA ReadFilesFields ==
  ASSUME Typed, ReadFiles
  PROVE  /\ pc' = "built"
         /\ job'.kind = job.kind /\ job'.parts = job.parts /\ job'.base = job.base
         /\ job'.expected = job.expected
         /\ job'.built = [job.built EXCEPT !.ui_files = inputs.ui_files, !.host = inputs.host]
         /\ job'.built \in Configs
<1>1. job.built \in Configs
  BY DEF ReadFiles, Typed, JobTyped, Building
<1>2. PICK c : c = [job.built EXCEPT !.ui_files = inputs.ui_files, !.host = inputs.host]
  OBVIOUS
<1>3. c \in Configs
  BY <1>1, <1>2, WrittenTyped DEF TypeOK, Typed
<1>4. job' = [job EXCEPT !.built = c]
  BY <1>2 DEF ReadFiles, TypeOK, Typed, JobType
<1>5. QED
  BY <1>2, <1>3, <1>4 DEF TypeOK, Typed, JobType, ReadFiles

LEMMA StepJobTyped == Typed /\ TypeOK' /\ [Next]_vars => JobTyped'
<1> SUFFICES ASSUME TypeOK, JobTyped, TypeOK', [Next]_vars PROVE JobTyped'
  BY DEF Typed
<1> USE DEF JobTyped, Building, Hashing, Read, Placed, InPlace, Rollback
<1>1. ASSUME NEW p \in Edited, Edit(p) PROVE JobTyped'
  BY <1>1 DEF Edit, system
<1>2. ASSUME NEW mode \in PanelModes, Press(mode) PROVE JobTyped'
  BY <1>2 DEF Press
<1>3. ASSUME NEW mode \in ConsoleModes, ConsoleLocks(mode) PROVE JobTyped'
  BY <1>3 DEF ConsoleLocks
<1>4. CASE Discard
  BY <1>4 DEF Discard, Exit
<1>5. CASE NothingToDo
  BY <1>5 DEF NothingToDo, Exit
<1>6. CASE Decide
  BY <1>6, DecideFields
<1>7. CASE TakeHashes
  <2>1. job.kind # "countries"
    BY <1>7 DEF TakeHashes
  <2>2. QED
    BY <1>7, <2>1, HashFields, HashesTyped
<1>8. CASE Expect
  <2>1. pc = "expect"
    BY <1>8 DEF Expect
  <2>2. QED
    BY <1>8, <2>1, ExpectFields
<1>9. CASE StartCountries
  <2>1. job'.built \in Configs
    BY <1>9, StartCountriesFields, WrittenTyped DEF TypeOK
  <2>2. QED
    BY <1>9, <2>1, StartCountriesFields
<1>10. CASE StartAccept
  <2>1. CASE Acceptable(PartsOf(inputs))
    BY <1>10, <2>1, StartAcceptFields, HashesTyped
  <2>2. CASE ~Acceptable(PartsOf(inputs))
    BY <1>10, <2>2 DEF StartAccept, Exit
  <2>3. QED
    BY <2>1, <2>2
<1>11. CASE CountriesRefused \/ AcceptFails
  BY <1>11 DEF CountriesRefused, AcceptFails, Exit
<1>12. CASE ReadDatabase
  <2>1. pc = "full"
    BY <1>12 DEF ReadDatabase
  <2>2. QED
    BY <1>12, <2>1, ReadDatabaseFields
<1>13. CASE ReadFiles
  <2>1. pc = "reading"
    BY <1>13 DEF ReadFiles
  <2>2. QED
    BY <1>13, <2>1, ReadFilesFields DEF Typed
<1>14. CASE PipelineFails
  BY <1>14 DEF PipelineFails, Exit
<1>15. CASE ChangedMeanwhile
  BY <1>15 DEF ChangedMeanwhile, Exit
<1>16. CASE EqualToLive
  BY <1>16 DEF EqualToLive
<1>17. CASE Compare
  BY <1>17 DEF Compare
<1>18. CASE Stage
  BY <1>18 DEF Stage, Exit
<1>19. CASE StartClassic
  <2>1. pc = "full"
    BY <1>19 DEF StartClassic
  <2>2. QED
    BY <1>19, <2>1, StartClassicFields DEF TypeOK
<1>20. CASE WriteCore
  <2>1. job.built \in Inputs /\ live' = Core(job.built) /\ live' # Torn
    BY <1>20, InputsAreConfigs, ApplyAssumption DEF WriteCore
  <2>2. QED
    BY <1>20, <2>1 DEF WriteCore
<1>21. CASE WriteLayers
  <2>1. live \in Configs
    BY <1>21 DEF WriteLayers, TypeOK
  <2>2. live' \in Configs /\ live' # Torn
    BY <1>21, <2>1, WrittenTyped, ApplyAssumption DEF WriteLayers, TypeOK
  <2>3. QED
    BY <1>21, <2>2 DEF WriteLayers
<1>22. CASE WriteCountries
  BY <1>22 DEF WriteCountries
<1>23. CASE ClassicFails
  BY <1>23 DEF ClassicFails, Exit
<1>24. CASE PreChecksFail
  BY <1>24 DEF PreChecksFail, Exit
<1>25. CASE Replace
  BY <1>25 DEF Replace
<1>26. CASE Restart
  BY <1>26 DEF Restart
<1>27. CASE RestartFails
  BY <1>27 DEF RestartFails
<1>28. CASE PutBack
  BY <1>28 DEF PutBack
<1>29. CASE Copied
  BY <1>29 DEF Copied
<1>30. CASE CopyFails
  BY <1>30 DEF CopyFails
<1>31. CASE RestartPrevious
  BY <1>31 DEF RestartPrevious, Exit
<1>32. CASE Swapped
  BY <1>32 DEF Swapped, Exit
<1>33. CASE Record
  BY <1>33 DEF Record, Exit
<1>34. CASE Finish \/ Kill \/ Reboot
  BY <1>34 DEF Finish, Kill, Reboot
<1>35. CASE UnitLocks
  BY <1>35 DEF UnitLocks
<1>36. CASE UnitRefused
  BY <1>36 DEF UnitRefused
<1>37. CASE RouterStartsAgain
  BY <1>37 DEF RouterStartsAgain
<1>38. CASE OutsideWrite
  <2>1. live' # Torn
    <3>1. \A v \in Versions : live # Torn => [live EXCEPT !.host = v] \in Configs
      BY Overwritten DEF TypeOK, Parts
    <3>2. QED
      BY <1>38, <3>1, InputsAreConfigs, ApplyAssumption DEF OutsideWrite, TypeOK
  <2>2. QED
    BY <1>38, <2>1 DEF OutsideWrite
<1>39. CASE UNCHANGED vars
  BY <1>39 DEF vars, system
<1>40. QED
  BY <1>1, <1>2, <1>3, <1>4, <1>5, <1>6, <1>7, <1>8, <1>9, <1>10, <1>11, <1>12,
     <1>13, <1>14, <1>15, <1>16, <1>17, <1>18, <1>19, <1>20, <1>21, <1>22, <1>23,
     <1>24, <1>25, <1>26, <1>27, <1>28, <1>29, <1>30, <1>31, <1>32, <1>33, <1>34,
     <1>35, <1>36, <1>37, <1>38, <1>39
     DEF Next, JobStep, UnitStep

(***************************************************************************)
(* The order.                                                              *)
(***************************************************************************)

LEMMA VersionsCompare ==
  /\ \A i \in Inputs : \A p \in Parts : i[p] \in Int /\ i[p] >= 0
  /\ \A c \in Configs : \A p \in Parts : c[p] \in Int
  /\ \A h \in PartHashes : \A p \in Hashed : h[p] \in Int
  BY ApplyAssumption DEF Inputs, Configs, PartHashes, Versions, NoPart

LEMMA Subparts == Hashed \subseteq Owned /\ Owned \subseteq Parts /\ Database \subseteq Hashed
  BY DEF Hashed, Owned, Parts

LEMMA InitOrdered == Init => Ordered
<1> SUFFICES ASSUME Init PROVE Ordered
  OBVIOUS
<1>1. Typed
  BY InitTypes DEF Init, Typed, JobTyped, Building, Hashing, Read, Placed, InPlace, Rollback
<1>2. \A p \in Parts : inputs[p] = 0 /\ live[p] = 0
  BY DEF Init
<1>3. applied # None => \A p \in Hashed : applied[p] = 0
  BY <1>2, Subparts DEF Init, PartsOf
<1>4. JobOrdered
  BY DEF Init, JobOrdered, Building, Hashing, Read, Placed, InPlace, Rollback
<1>5. QED
  BY <1>1, <1>2, <1>3, <1>4, Subparts
     DEF Init, Ordered, Older, Kept, StagedOrdered

(* A new version is newer than anything there is.                          *)
LEMMA InputsGrow ==
  ASSUME Ordered, NEW p \in Edited, Edit(p), Reverts = FALSE
  PROVE  /\ Older(inputs, inputs', Parts)
         /\ \A q \in Parts : inputs'[q] <= edits'
<1>1. inputs \in Inputs /\ edits \in Int /\ \A q \in Parts : inputs[q] \in Int /\ inputs[q] <= edits
  BY VersionsCompare DEF Ordered, Typed, TypeOK, BudgetOK
<1>2. inputs' = [inputs EXCEPT ![p] = edits + 1] /\ edits' = edits + 1
  BY DEF Edit
<1>3. \A q \in Parts : inputs'[q] = IF q = p THEN edits + 1 ELSE inputs[q]
  BY <1>1, <1>2 DEF Inputs
<1>4. QED
  BY <1>1, <1>2, <1>3 DEF Older

LEMMA EditOrdered ==
  ASSUME Ordered, Typed', NEW p \in Edited, Edit(p), Reverts = FALSE
  PROVE  Ordered'
<1>1. Older(inputs, inputs', Parts) /\ \A q \in Parts : inputs'[q] <= edits'
  BY InputsGrow
<1>2. UNCHANGED system
  BY DEF Edit
<1>3. \A q \in Parts : inputs[q] \in Int /\ inputs'[q] \in Int
  BY VersionsCompare DEF Typed, TypeOK, Ordered
<1>4. \A c : (\A q \in Parts : c[q] \in Int) /\ Older(c, inputs, Owned) => Older(c, inputs', Owned)
  BY <1>1, <1>3, Subparts DEF Older
<1>5. \A h : (\A q \in Hashed : h[q] \in Int) /\ Older(h, inputs, Hashed) => Older(h, inputs', Hashed)
  BY <1>1, <1>3, Subparts DEF Older
<1>6. live' # Torn => Older(live', inputs', Owned)
  BY <1>2, <1>4, VersionsCompare DEF Ordered, Typed, TypeOK, system
<1>7. applied' # None => Older(applied', inputs', Hashed)
  BY <1>2, <1>5, VersionsCompare DEF Ordered, Typed, TypeOK, system
<1>8. StagedOrdered'
  <2>1. staged # None /\ staged.config # None => staged.config \in Configs
    BY DEF Ordered, Typed, TypeOK, StagedType
  <2>2. QED
    BY <1>2, <1>4, <2>1, VersionsCompare DEF Ordered, StagedOrdered, system
<1>9. JobOrdered'
  <2>1. pc \in Building => Older(job.built, inputs', Owned)
    BY <1>4, VersionsCompare DEF Ordered, Typed, JobTyped, JobOrdered
  <2>2. pc \in Hashing /\ job.kind # "countries" => Older(job.parts, inputs', Hashed)
    BY <1>5, VersionsCompare DEF Ordered, Typed, JobTyped, JobOrdered
  <2>3. pc \in InPlace => Older(job.built, inputs', Owned)
    BY <1>4, VersionsCompare DEF Ordered, Typed, JobTyped, JobOrdered
  <2>4. QED
    BY <1>2, <2>1, <2>2, <2>3 DEF Ordered, JobOrdered, system
<1>10. QED
  BY <1>1, <1>2, <1>6, <1>7, <1>8, <1>9 DEF Ordered, system

(* A step that moves no version, but for a file it damages, and ends       *)
(* outside the job's ordered part.                                         *)
LEMMA QuietOrdered ==
  ASSUME Ordered, Typed', UNCHANGED <<inputs, applied, edits>>, live' \in {live, Torn},
         staged' = staged \/ staged' = None \/ staged'.config = None,
         pc' \notin Building \cup Hashing
  PROVE  Ordered'
<1>1. StagedOrdered'
  BY DEF Ordered, StagedOrdered
<1>2. JobOrdered'
  BY DEF JobOrdered, Building, Hashing, Read, Placed, InPlace, Rollback
<1>3. QED
  BY <1>1, <1>2 DEF Ordered

(* A step that leaves the job where it was.                                *)
LEMMA AsideOrdered ==
  ASSUME Ordered, Typed', UNCHANGED <<inputs, live, applied, staged, pc, job, edits>>
  PROVE  Ordered'
  BY DEF Ordered, StagedOrdered, JobOrdered

(* The order turns an empty plan into agreement of file and inputs.        *)
LEMMA OrderedIsEnough == Ordered => NothingToApply
<1> SUFFICES ASSUME Ordered, Plan(inputs) = "none", Complete(live)
             PROVE  \A p \in Owned : live[p] = inputs[p]
  BY DEF NothingToApply, Reflects
<1>1. applied # None /\ Changed(inputs) = {} /\ InSync(inputs) /\ live # Torn
  BY DEF Plan, Complete
<1>2. \A p \in Hashed : applied[p] = inputs[p]
  BY <1>1 DEF Changed
<1>3. \A p \in Hashed : applied[p] <= live[p] /\ live[p] <= inputs[p]
  BY <1>1, Subparts DEF Ordered, Older, Kept, Complete
<1>4. \A p \in Hashed : live[p] \in Int /\ inputs[p] \in Int
  BY <1>1, VersionsCompare, Subparts DEF Ordered, Typed, TypeOK
<1>5. \A p \in Hashed : live[p] = inputs[p]
  BY <1>2, <1>3, <1>4
<1>6. QED
  BY <1>1, <1>5 DEF InSync, Owned

(* What stands in a file, or in the record, and what the owner wants.      *)
LEMMA Standing ==
  ASSUME Ordered
  PROVE  /\ \A p \in Parts : inputs[p] \in Int /\ inputs[p] >= 0
         /\ live # Torn => \A p \in Parts : live[p] \in Int
         /\ live # Torn => \A p \in Owned : live[p] <= inputs[p]
         /\ applied # None => \A p \in Hashed : applied[p] \in Int /\ applied[p] <= inputs[p]
         /\ applied # None /\ live # Torn =>
              \A p \in Hashed : live[p] # NoPart => applied[p] <= live[p]
  BY VersionsCompare DEF Ordered, Typed, TypeOK, Older, Kept

LEMMA HashOrdered ==
  ASSUME Ordered, Typed', Decide \/ TakeHashes \/ Expect
  PROVE  Ordered'
<1> USE DEF Building, Hashing, Read, Placed, InPlace, Rollback
<1>1. UNCHANGED <<inputs, live, applied, staged, edits>>
  BY DEF Decide, TakeHashes, Expect, Untouched
<1>2. StagedOrdered'
  BY <1>1 DEF Ordered, StagedOrdered
<1>3. CASE Decide
  BY <1>1, <1>3, DecideFields, QuietOrdered DEF Ordered, Typed
<1>4. CASE TakeHashes
  <2>1. pc' \in {"full", "expect"} /\ job'.parts = PartsOf(inputs)
    BY <1>4, HashFields DEF Ordered, Typed
  <2>2. Older(job'.parts, inputs', Hashed)
    BY <1>1, <2>1, Standing, Subparts DEF Older, PartsOf
  <2>3. JobOrdered'
    BY <2>1, <2>2 DEF JobOrdered
  <2>4. QED
    BY <1>1, <1>2, <2>3 DEF Ordered
<1>5. CASE Expect
  <2>1. pc = "expect" /\ pc' = "full" /\ job'.parts = job.parts /\ job'.kind = job.kind
    BY <1>5, ExpectFields DEF Ordered, Typed, Expect
  <2>2. JobOrdered'
    BY <1>1, <2>1 DEF Ordered, JobOrdered
  <2>3. QED
    BY <1>1, <1>2, <2>2 DEF Ordered
<1>6. QED
  BY <1>3, <1>4, <1>5

LEMMA StartOrdered ==
  ASSUME Ordered, Typed', StartCountries \/ StartAccept
  PROVE  Ordered'
<1> USE DEF Building, Hashing, Read, Placed, InPlace, Rollback
<1>1. UNCHANGED <<inputs, live, applied, edits>> /\ pc = "start"
  BY DEF StartCountries, Countries, StartAccept, Untouched
<1>2. CASE StartCountries
  <2>1. staged' = staged
    BY <1>2 DEF StartCountries
  <2>2. StagedOrdered'
    BY <1>1, <2>1 DEF Ordered, StagedOrdered
  <2>3. /\ pc' \in {"exit", "swap"} /\ job'.kind = "countries" /\ job'.base = live
        /\ live \in Configs /\ live # Torn
        /\ job'.built = [live EXCEPT !.countries = inputs.countries]
    BY <1>2, StartCountriesFields DEF Ordered, Typed, StartCountries
  <2>4. \A p \in Parts : job'.built[p] = IF p = "countries" THEN inputs[p] ELSE live[p]
    BY <2>3 DEF Configs
  <2>5. Older(job'.base, job'.built, Owned) /\ Older(job'.built, inputs', Owned)
    BY <1>1, <2>3, <2>4, Standing, Subparts DEF Older
  <2>6. applied' # None => Kept(applied', job'.base) /\ Kept(applied', job'.built)
    <3>1. \A p \in Hashed : p # "countries" /\ job'.built[p] = live[p]
      BY <2>4, Subparts DEF Hashed, Database
    <3>2. QED
      BY <1>1, <2>3, <3>1, Standing DEF Kept
  <2>7. JobOrdered'
    BY <2>3, <2>5, <2>6 DEF JobOrdered
  <2>8. QED
    BY <1>1, <2>1, <2>2, <2>7 DEF Ordered
<1>3. CASE StartAccept /\ Acceptable(PartsOf(inputs))
  <2>1. /\ pc' = "swap" /\ staged' = staged
        /\ job'.kind = "accept" /\ job'.parts = PartsOf(inputs)
        /\ job'.base = live /\ job'.built = staged.config
        /\ staged \in StagedType /\ staged.config \in Configs /\ live \in Configs
    BY <1>3, StartAcceptFields DEF Ordered, Typed
  <2>2. staged # None /\ staged.config # None /\ staged.base = live /\ staged.parts = PartsOf(inputs)
    BY <1>3 DEF Acceptable
  <2>3. live # Torn
    BY <2>1, ApplyAssumption
  <2>4. /\ Older(job'.base, job'.built, Owned)
        /\ Older(job'.parts, job'.built, Hashed)
        /\ Older(job'.built, inputs', Owned)
    BY <1>1, <2>1, <2>2 DEF Ordered, StagedOrdered
  <2>5. Older(job'.parts, inputs', Hashed)
    BY <1>1, <2>1, Standing, Subparts DEF Older, PartsOf
  <2>6. \A p \in Hashed : inputs[p] <= job'.built[p] /\ job'.built[p] \in Int
    BY <2>1, <2>4, VersionsCompare, Subparts DEF Older, PartsOf
  <2>7. applied' # None => Kept(applied', job'.base) /\ Kept(applied', job'.built)
    BY <1>1, <2>1, <2>3, <2>6, Standing, Subparts DEF Kept
  <2>8. JobOrdered'
    BY <2>1, <2>4, <2>5, <2>7 DEF JobOrdered
  <2>9. StagedOrdered'
    BY <1>1, <2>1 DEF Ordered, StagedOrdered
  <2>10. QED
    BY <1>1, <2>8, <2>9 DEF Ordered
<1>4. CASE StartAccept /\ ~Acceptable(PartsOf(inputs))
  <2>1. staged' = None /\ pc' = "exit"
    BY <1>4 DEF StartAccept, Exit
  <2>2. QED
    BY <1>1, <2>1, QuietOrdered
<1>5. QED
  BY <1>2, <1>3, <1>4

LEMMA ReadOrdered ==
  ASSUME Ordered, Typed', ReadDatabase \/ ReadFiles
  PROVE  Ordered'
<1> USE DEF Building, Hashing, Read, Placed, InPlace, Rollback
<1>1. UNCHANGED <<inputs, live, applied, staged, edits>>
  BY DEF ReadDatabase, ReadFiles, Untouched
<1>2. StagedOrdered'
  BY <1>1 DEF Ordered, StagedOrdered
<1>3. CASE ReadDatabase
  <2>1. /\ pc = "full" /\ pc' = "reading" /\ live \in Configs /\ live # Torn
        /\ job'.kind = job.kind /\ job'.parts = job.parts /\ job'.base = live
        /\ job'.built = [p \in Parts |-> IF p \in Database \cup {"countries"}
                                        THEN inputs[p] ELSE live[p]]
    BY <1>3, ReadDatabaseFields DEF Ordered, Typed, ReadDatabase, Private
  <2>2. \A p \in Parts : job'.built[p] = IF p \in Database \cup {"countries"}
                                         THEN inputs[p] ELSE live[p]
    BY <2>1
  <2>3. Older(job'.base, job'.built, Owned) /\ Older(job'.built, inputs', Owned)
    BY <1>1, <2>1, <2>2, Standing, Subparts DEF Older
  <2>4. applied' # None => Kept(applied', job'.base) /\ Kept(applied', job'.built)
    BY <1>1, <2>1, <2>2, Standing, Subparts DEF Kept
  <2>5. job.kind # "countries" => Older(job'.parts, inputs', Hashed)
    BY <1>1, <2>1 DEF Ordered, JobOrdered
  <2>6. Older(job'.parts, job'.built, Database)
    <3>1. job.kind # "countries"
      BY <2>1 DEF Ordered, Typed, JobTyped
    <3>2. QED
      BY <1>1, <2>2, <2>5, <3>1, Subparts DEF Older
  <2>7. JobOrdered'
    BY <2>1, <2>3, <2>4, <2>5, <2>6 DEF JobOrdered
  <2>8. QED
    BY <1>1, <1>2, <2>7 DEF Ordered
<1>4. CASE ReadFiles
  <2>1. /\ pc' = "built" /\ job'.parts = job.parts /\ job'.base = job.base
        /\ job'.kind = job.kind
        /\ job'.built = [job.built EXCEPT !.ui_files = inputs.ui_files, !.host = inputs.host]
    BY <1>4, ReadFilesFields DEF Ordered
  <2>2. pc = "reading" /\ job.base \in Configs /\ job.built \in Configs /\ job.kind # "countries"
    BY <1>4 DEF ReadFiles, Ordered, Typed, JobTyped
  <2>3. \A p \in Parts : job'.built[p] = IF p \in {"ui_files", "host"} THEN inputs[p] ELSE job.built[p]
    BY <2>1, <2>2 DEF Configs
  <2>4. \A p \in Owned : /\ job.base[p] \in Int /\ job.built[p] \in Int
                         /\ job.base[p] <= job.built[p] /\ job.built[p] <= inputs[p]
    BY <2>2, VersionsCompare, Subparts DEF Ordered, JobOrdered, Older
  <2>5. Older(job'.base, job'.built, Owned) /\ Older(job'.built, inputs', Owned)
    BY <1>1, <2>1, <2>3, <2>4, Standing, Subparts DEF Older
  <2>6. applied' # None => Kept(applied', job'.base) /\ Kept(applied', job'.built)
    <3>1. applied # None => Kept(applied, job.base) /\ Kept(applied, job.built)
      BY <2>2 DEF Ordered, JobOrdered
    <3>2. QED
      BY <1>1, <2>1, <2>3, <3>1, Standing, Subparts DEF Kept
  <2>7. Older(job'.parts, inputs', Hashed)
    BY <1>1, <2>1, <2>2 DEF Ordered, JobOrdered
  <2>8. Older(job'.parts, job'.built, Hashed)
    <3>1. Older(job.parts, job.built, Database)
      BY <2>2 DEF Ordered, JobOrdered
    <3>2. QED
      BY <1>1, <2>1, <2>3, <2>7, <3>1, Subparts DEF Older, Hashed, Database
  <2>9. JobOrdered'
    BY <2>1, <2>5, <2>6, <2>7, <2>8 DEF JobOrdered
  <2>10. QED
    BY <1>1, <1>2, <2>9 DEF Ordered
<1>5. QED
  BY <1>3, <1>4

LEMMA CompareOrdered ==
  ASSUME Ordered, Typed', EqualToLive \/ Compare \/ Stage
  PROVE  Ordered'
<1> USE DEF Building, Hashing, Read, Placed, InPlace, Rollback
<1>1. UNCHANGED <<inputs, live, applied, edits>>
  BY DEF EqualToLive, Compare, Stage, Untouched
<1>2. CASE EqualToLive
  <2>1. pc' = "record" /\ staged' = None /\ job' = job /\ live = job.built /\ pc = "built"
    BY <1>2 DEF EqualToLive
  <2>2. StagedOrdered'
    BY <2>1 DEF StagedOrdered
  <2>3. job.kind # "countries" => Kept(job.parts, live)
    BY <2>1, Subparts DEF Ordered, JobOrdered, Older, Kept
  <2>4. JobOrdered'
    BY <1>1, <2>1, <2>3 DEF Ordered, JobOrdered
  <2>5. QED
    BY <1>1, <2>2, <2>4 DEF Ordered
<1>3. CASE Compare
  <2>1. pc' \in {"stage", "swap"} /\ staged' = staged /\ job' = job /\ pc = "built"
    BY <1>3 DEF Compare
  <2>2. StagedOrdered'
    BY <1>1, <2>1 DEF Ordered, StagedOrdered
  <2>3. JobOrdered'
    BY <1>1, <2>1 DEF Ordered, JobOrdered
  <2>4. QED
    BY <1>1, <2>1, <2>2, <2>3 DEF Ordered
<1>4. CASE Stage
  <2>1. /\ pc' = "exit" /\ pc = "stage"
        /\ staged' = [base |-> job.base, parts |-> job.parts, config |-> job.built]
    BY <1>4 DEF Stage, Exit
  <2>2. job.kind # "countries"
    BY <2>1 DEF Ordered, Typed, JobTyped
  <2>3. StagedOrdered'
    BY <1>1, <2>1, <2>2 DEF Ordered, JobOrdered, StagedOrdered
  <2>4. JobOrdered'
    BY <2>1 DEF JobOrdered
  <2>5. QED
    BY <1>1, <2>3, <2>4 DEF Ordered
<1>5. QED
  BY <1>2, <1>3, <1>4

(* The layers of the classic pipeline, each written to the live file.      *)
LEMMA ClassicOrdered ==
  ASSUME Ordered, Typed', StartClassic \/ WriteCore \/ WriteLayers \/ WriteCountries
  PROVE  Ordered'
<1> USE DEF Building, Hashing, Read, Placed, InPlace, Rollback
<1>1. UNCHANGED <<inputs, applied, staged, edits>>
  BY DEF StartClassic, WriteCore, WriteLayers, WriteCountries, Untouched
<1>2. StagedOrdered'
  BY <1>1 DEF Ordered, StagedOrdered
<1>3. CASE StartClassic
  <2>1. /\ pc = "full" /\ pc' = "core" /\ live' = live
        /\ job'.built = inputs /\ job'.parts = job.parts /\ job'.kind = job.kind
    BY <1>3, StartClassicFields DEF Ordered, Typed, StartClassic
  <2>2. job.kind # "countries" /\ Older(job.parts, inputs, Hashed)
    BY <2>1 DEF Ordered, Typed, JobTyped, JobOrdered
  <2>3. Older(inputs, inputs, Owned)
    BY Standing, Subparts DEF Older
  <2>4. JobOrdered'
    BY <1>1, <2>1, <2>2, <2>3 DEF Ordered, JobOrdered
  <2>5. QED
    BY <1>1, <1>2, <2>1, <2>4 DEF Ordered
<1>4. ASSUME WriteCore \/ WriteLayers \/ WriteCountries PROVE Ordered'
  <2>1. job' = job /\ pc \in InPlace
    BY <1>4 DEF WriteCore, WriteLayers, WriteCountries
  <2>2. /\ job.built \in Inputs /\ job.kind # "countries" /\ job.parts \in PartHashes
        /\ Older(job.built, inputs, Owned) /\ Older(job.parts, job.built, Hashed)
        /\ Older(job.parts, inputs, Hashed)
        /\ applied # None => Older(applied, job.built, Hashed)
    BY <2>1 DEF Ordered, Typed, JobTyped, JobOrdered
  <2>3. /\ \A p \in Owned : job.built[p] \in Int /\ job.built[p] >= 0 /\ job.built[p] <= inputs[p]
        /\ \A p \in Hashed : /\ job.parts[p] \in Int /\ job.parts[p] <= job.built[p]
                             /\ job.parts[p] <= inputs[p]
        /\ applied # None => \A p \in Hashed : applied[p] <= job.built[p]
    BY <2>2, VersionsCompare, Subparts DEF Older
  <2>4. CASE WriteCore
    <3>1. pc' = "layers" /\ live' = Core(job.built)
      BY <2>4 DEF WriteCore
    <3>2. \A p \in Parts : live'[p] = IF p \in Database THEN job.built[p] ELSE NoPart
      BY <3>1 DEF Core
    <3>3. Older(live', inputs', Owned)
      BY <1>1, <2>3, <3>2, Standing, Subparts DEF Older, NoPart
    <3>4. Kept(job'.parts, live') /\ (applied' # None => Kept(applied', live'))
      BY <1>1, <2>1, <2>3, <3>2, Subparts DEF Kept
    <3>5. JobOrdered'
      BY <1>1, <2>1, <2>2, <3>1, <3>4 DEF JobOrdered
    <3>6. QED
      BY <1>1, <1>2, <3>3, <3>4, <3>5 DEF Ordered
  <2>5. CASE WriteLayers
    <3>1. pc = "layers" /\ pc' = "last"
          /\ live' = [live EXCEPT !.ui_files = inputs.ui_files, !.host = inputs.host]
      BY <2>5 DEF WriteLayers
    <3>2. live # Torn /\ live \in Configs /\ Kept(job.parts, live)
      BY <2>2, <3>1 DEF Ordered, Typed, TypeOK, JobTyped, JobOrdered
    <3>3. \A p \in Parts : live'[p] = IF p \in {"ui_files", "host"} THEN inputs[p] ELSE live[p]
      BY <3>1, <3>2 DEF Configs
    <3>4. Older(live', inputs', Owned)
      BY <1>1, <3>2, <3>3, Standing, Subparts DEF Older
    <3>5. Kept(job'.parts, live')
      BY <2>1, <2>3, <3>2, <3>3, Subparts DEF Kept
    <3>6. applied' # None => Kept(applied', live')
      BY <1>1, <3>2, <3>3, Standing, Subparts DEF Kept
    <3>7. JobOrdered'
      BY <1>1, <2>1, <2>2, <3>1, <3>5 DEF JobOrdered
    <3>8. QED
      BY <1>1, <1>2, <3>4, <3>6, <3>7 DEF Ordered
  <2>6. CASE WriteCountries
    <3>1. /\ pc = "last" /\ pc' = "record"
          /\ live' = [live EXCEPT !.countries = job.built.countries]
      BY <2>6 DEF WriteCountries
    <3>2. live # Torn /\ live \in Configs /\ Kept(job.parts, live)
      BY <2>2, <3>1 DEF Ordered, Typed, TypeOK, JobTyped, JobOrdered
    <3>3. \A p \in Parts : live'[p] = IF p = "countries" THEN job.built[p] ELSE live[p]
      BY <3>1, <3>2 DEF Configs
    <3>4. Older(live', inputs', Owned)
      BY <1>1, <2>3, <3>2, <3>3, Standing, Subparts DEF Older
    <3>5. \A p \in Hashed : live'[p] = live[p]
      BY <3>3, Subparts DEF Hashed, Database
    <3>6. Kept(job'.parts, live') /\ (applied' # None => Kept(applied', live'))
      BY <1>1, <2>1, <3>2, <3>5, Standing DEF Kept
    <3>7. JobOrdered'
      BY <1>1, <2>1, <2>2, <3>1, <3>6 DEF JobOrdered
    <3>8. QED
      BY <1>1, <1>2, <3>4, <3>6, <3>7 DEF Ordered
  <2>7. QED
    BY <1>4, <2>4, <2>5, <2>6
<1>5. QED
  BY <1>3, <1>4

LEMMA SwapOrdered ==
  ASSUME Ordered, Typed', Replace \/ Restart \/ RestartFails \/ PutBack \/ Copied
  PROVE  Ordered'
<1> USE DEF Building, Hashing, Read, Placed, InPlace, Rollback
<1>1. UNCHANGED <<inputs, applied, staged, job, edits>>
  BY DEF Replace, Restart, RestartFails, PutBack, Copied, Untouched
<1>2. StagedOrdered'
  BY <1>1 DEF Ordered, StagedOrdered
<1>3. pc \in {"swap", "replaced", "failed", "copying"}
  BY DEF Replace, Restart, RestartFails, PutBack, Copied
<1>4. /\ job.base \in Configs /\ job.built \in Configs
      /\ Older(job.base, job.built, Owned) /\ Older(job.built, inputs, Owned)
      /\ applied # None => Kept(applied, job.base) /\ Kept(applied, job.built)
  BY <1>3 DEF Ordered, Typed, JobTyped, JobOrdered
<1>5. \A p \in Owned : /\ job.base[p] \in Int /\ job.built[p] \in Int /\ inputs[p] \in Int
                       /\ job.base[p] <= job.built[p] /\ job.built[p] <= inputs[p]
  BY <1>4, Standing, VersionsCompare, Subparts DEF Older
<1>6. CASE Replace
  <2>1. pc = "swap" /\ pc' = "replaced" /\ live' = job.built
    BY <1>6 DEF Replace
  <2>2. job.kind # "countries" => Kept(job.parts, live')
    BY <2>1, Subparts DEF Ordered, JobOrdered, Older, Kept
  <2>3. JobOrdered'
    BY <1>1, <2>1, <2>2 DEF Ordered, JobOrdered
  <2>4. QED
    BY <1>1, <1>2, <1>4, <2>1, <2>3 DEF Ordered
<1>7. CASE Restart \/ RestartFails
  <2>1. pc = "replaced" /\ pc' \in {"serving", "failed"} /\ live' = live
    BY <1>7 DEF Restart, RestartFails
  <2>2. JobOrdered'
    BY <1>1, <2>1 DEF Ordered, JobOrdered
  <2>3. QED
    BY <1>1, <1>2, <2>1, <2>2 DEF Ordered
<1>8. CASE PutBack
  <2>1. pc = "failed" /\ pc' = "copying" /\ live' = Torn
    BY <1>8 DEF PutBack
  <2>2. JobOrdered'
    BY <1>1, <2>1 DEF Ordered, JobOrdered
  <2>3. QED
    BY <1>1, <1>2, <2>1, <2>2 DEF Ordered
<1>9. CASE Copied
  <2>1. pc = "copying" /\ pc' = "restoring" /\ live' = job.base
    BY <1>9 DEF Copied
  <2>2. Older(live', inputs', Owned)
    BY <1>1, <1>5, <2>1 DEF Older
  <2>3. JobOrdered'
    BY <2>1 DEF JobOrdered
  <2>4. QED
    BY <1>1, <1>2, <1>4, <2>1, <2>2, <2>3 DEF Ordered
<1>10. QED
  BY <1>6, <1>7, <1>8, <1>9

LEMMA RecordOrdered ==
  ASSUME Ordered, Typed', Swapped \/ Record
  PROVE  Ordered'
<1> USE DEF Building, Hashing, Read, Placed, InPlace, Rollback
<1>1. UNCHANGED <<inputs, live, edits>>
  BY DEF Swapped, Record, Untouched
<1>2. CASE Swapped /\ job.kind = "countries"
  <2>1. pc' = "exit" /\ UNCHANGED <<applied, staged>>
    BY <1>2 DEF Swapped, Exit
  <2>2. QED
    BY <1>1, <2>1, QuietOrdered
<1>3. CASE Swapped /\ job.kind # "countries"
  <2>1. pc = "serving" /\ pc' = "record" /\ job' = job /\ staged' = None /\ applied' = applied
    BY <1>3 DEF Swapped
  <2>2. StagedOrdered'
    BY <2>1 DEF StagedOrdered
  <2>3. JobOrdered'
    BY <1>1, <1>3, <2>1 DEF Ordered, JobOrdered
  <2>4. QED
    BY <1>1, <2>1, <2>2, <2>3 DEF Ordered
<1>4. CASE Record
  <2>1. pc = "record" /\ pc' = "exit" /\ applied' = job.parts /\ staged' = staged
    BY <1>4 DEF Record, Exit
  <2>2. Older(applied', inputs', Hashed) /\ (live' # Torn => Kept(applied', live'))
    BY <1>1, <2>1 DEF Ordered, Typed, JobTyped, JobOrdered
  <2>3. StagedOrdered'
    BY <1>1, <2>1 DEF Ordered, StagedOrdered
  <2>4. JobOrdered'
    BY <2>1 DEF JobOrdered
  <2>5. QED
    BY <1>1, <2>2, <2>3, <2>4 DEF Ordered
<1>5. QED
  BY <1>2, <1>3, <1>4

(* A writer without the lock writes what the inputs say, of the layers it  *)
(* gets to, or what no hash covers.                                        *)
LEMMA OutsideOrdered ==
  ASSUME Ordered, Typed', OutsideWrite
  PROVE  Ordered'
<1> USE DEF Building, Hashing, Read, Placed, InPlace, Rollback
<1>1. UNCHANGED <<inputs, applied, staged, pc, job, edits>>
  BY DEF OutsideWrite
<1>2. StagedOrdered'
  BY <1>1 DEF Ordered, StagedOrdered
<1>3. \/ \A p \in Owned : live'[p] \in {inputs[p], NoPart}
      \/ live # Torn /\ \A p \in Owned : live'[p] = live[p]
  <2>1. CASE live' \in {Core(inputs), Layered(inputs), inputs}
    <3>1. \A p \in Parts : /\ Core(inputs)[p] \in {inputs[p], NoPart}
                           /\ Layered(inputs)[p] \in {inputs[p], NoPart}
      BY DEF Core, Layered, Ordered, Typed, TypeOK, Inputs
    <3>2. QED
      BY <2>1, <3>1, Subparts
  <2>2. CASE live # Torn /\ \E v \in Versions : live' = [live EXCEPT !.host = v]
    <3>1. live \in Configs
      BY <2>2 DEF Ordered, Typed, TypeOK
    <3>2. QED
      BY <2>2, <3>1 DEF Configs, Owned, Hashed, Database, Parts
  <2>3. QED
    BY <2>1, <2>2 DEF OutsideWrite
<1>4. Older(live', inputs', Owned)
  BY <1>1, <1>3, Standing, Subparts DEF Older, NoPart
<1>5. applied' # None => Kept(applied', live')
  BY <1>1, <1>3, Standing, Subparts DEF Kept
<1>6. ASSUME pc \in Placed, job.kind # "countries" PROVE Kept(job.parts, live')
  <2>1. Older(job.parts, inputs, Hashed) /\ (live # Torn => Kept(job.parts, live))
    BY <1>6 DEF Ordered, JobOrdered
  <2>2. QED
    BY <1>3, <2>1, Subparts DEF Older, Kept
<1>7. JobOrdered'
  BY <1>1, <1>6 DEF Ordered, JobOrdered
<1>8. QED
  BY <1>1, <1>2, <1>4, <1>5, <1>7 DEF Ordered

LEMMA StepOrdered == Reverts = FALSE /\ Ordered /\ [Next]_vars => Ordered'
<1> SUFFICES ASSUME Reverts = FALSE, Ordered, [Next]_vars PROVE Ordered'
  OBVIOUS
<1> USE DEF Building, Hashing, Read, Placed, InPlace, Rollback
<1>1. Typed'
  BY StepTypes, StepJobTyped DEF Ordered, Typed
<1>2. ASSUME NEW p \in Edited, Edit(p) PROVE Ordered'
  BY <1>1, <1>2, EditOrdered
<1>3. ASSUME NEW mode \in PanelModes, Press(mode) PROVE Ordered'
  BY <1>1, <1>3, AsideOrdered DEF Press, budget
<1>4. ASSUME NEW mode \in ConsoleModes, ConsoleLocks(mode) PROVE Ordered'
  BY <1>1, <1>4, QuietOrdered DEF ConsoleLocks
<1>5. CASE UnitLocks
  BY <1>1, <1>5, QuietOrdered DEF UnitLocks, budget
<1>6. CASE UnitRefused \/ RouterStartsAgain \/ UNCHANGED vars
  BY <1>1, <1>6, AsideOrdered DEF UnitRefused, RouterStartsAgain, vars, system, budget
<1>7. CASE Decide \/ TakeHashes \/ Expect
  BY <1>1, <1>7, HashOrdered
<1>8. CASE StartCountries \/ StartAccept
  BY <1>1, <1>8, StartOrdered
<1>9. CASE ReadDatabase \/ ReadFiles
  BY <1>1, <1>9, ReadOrdered
<1>10. CASE EqualToLive \/ Compare \/ Stage
  BY <1>1, <1>10, CompareOrdered
<1>11. CASE StartClassic \/ WriteCore \/ WriteLayers \/ WriteCountries
  BY <1>1, <1>11, ClassicOrdered
<1>12. CASE Replace \/ Restart \/ RestartFails \/ PutBack \/ Copied
  BY <1>1, <1>12, SwapOrdered
<1>13. CASE Swapped \/ Record
  BY <1>1, <1>13, RecordOrdered
<1>14. CASE OutsideWrite
  BY <1>1, <1>14, OutsideOrdered
<1>15. CASE Discard \/ NothingToDo \/ CountriesRefused \/ AcceptFails \/ PipelineFails
            \/ ChangedMeanwhile
  BY <1>1, <1>15, QuietOrdered
     DEF Discard, NothingToDo, CountriesRefused, AcceptFails, PipelineFails,
         ChangedMeanwhile, Exit, Untouched
<1>16. CASE ClassicFails \/ PreChecksFail \/ CopyFails \/ RestartPrevious
  BY <1>1, <1>16, QuietOrdered
     DEF ClassicFails, PreChecksFail, CopyFails, RestartPrevious, Exit, Untouched
<1>17. CASE Finish
  BY <1>1, <1>17, QuietOrdered DEF Finish, budget
<1>18. CASE Kill
  BY <1>1, <1>18, QuietOrdered DEF Kill
<1>19. CASE Reboot
  <2>1. staged' = staged \/ staged' = None \/ staged'.config = None
    BY <1>19 DEF Reboot, Ordered, Typed, TypeOK, StagedType
  <2>2. live' \in {live, Torn}
    BY <1>19 DEF Reboot
  <2>3. QED
    BY <1>1, <1>19, <2>1, <2>2, QuietOrdered DEF Reboot
<1>20. QED
  BY <1>2, <1>3, <1>4, <1>5, <1>6, <1>7, <1>8, <1>9, <1>10, <1>11, <1>12, <1>13, <1>14,
     <1>15, <1>16, <1>17, <1>18, <1>19 DEF Next, JobStep, UnitStep

-----------------------------------------------------------------------------
(* Type correctness, whatever is killed, restarted or reverted: the        *)
(* router's file is a configuration, whole or half built by the classic    *)
(* pipeline, or torn by a rollback cut short (multiloc_full._swap replaces *)
(* it by a rename, _restore_previous copies over it), and no step of a job *)
(* takes a torn one for a configuration.                                   *)
THEOREM ApplyTypeCorrect == Spec => []TypeOK
<1>1. Init => Typed
  BY InitTypes DEF Init, Typed, JobTyped, Building, Hashing, Read, Placed, InPlace, Rollback
<1>2. Typed /\ [Next]_vars => Typed'
  BY StepTypes, StepJobTyped DEF Typed
<1>3. Typed => TypeOK
  BY DEF Typed
<1>4. QED
  BY <1>1, <1>2, <1>3, PTL DEF Spec

(* As long as every save is a new version, "nothing to apply" means that   *)
(* the router's file, unless it is torn or half built, holds every edit:   *)
(* whatever is edited during a run, killed, restarted, failed, accepted    *)
(* late or written without the lock (multiloc_apply.plan,                  *)
(* multiloc_ctl._do_apply).                                                *)
THEOREM EmptyPlanIsTrue ==
  ASSUME Reverts = FALSE
  PROVE  Spec => []NothingToApply
<1>1. Init => Ordered
  BY InitOrdered
<1>2. Ordered /\ [Next]_vars => Ordered'
  BY StepOrdered
<1>3. Ordered => NothingToApply
  BY OrderedIsEnough
<1>4. QED
  BY <1>1, <1>2, <1>3, PTL DEF Spec

(* The steps that write the file.                                          *)
LEMMA Writers ==
  ASSUME [Next]_vars, live' # live, live' # Torn
  PROVE  Replace \/ Copied \/ pc \in InPlace \/ OutsideWrite
  BY DEF Next, JobStep, UnitStep, Edit, Press, ConsoleLocks, UnitLocks, UnitRefused,
         Discard, NothingToDo, Decide, TakeHashes, Expect, StartCountries,
         CountriesRefused, StartAccept, AcceptFails, ReadDatabase,
         ReadFiles, PipelineFails, ChangedMeanwhile, EqualToLive, Compare, Stage,
         StartClassic, WriteCore, WriteLayers, WriteCountries, ClassicFails, InPlace,
         PreChecksFail, Restart, RestartFails, PutBack, CopyFails, RestartPrevious,
         Swapped, Record, Finish, Kill, Reboot, RouterStartsAgain, vars, system

LEMMA ForwardStep ==
  ASSUME Ordered, [Next]_vars, live # Torn, live' # Torn,
         NEW p \in Owned, live'[p] < live[p]
  PROVE  \/ pc \in InPlace \cup Rollback
         \/ outside' # outside
         \/ pc = "swap" /\ live # job.base
<1>1. live[p] \in Int
  BY VersionsCompare, Subparts DEF Ordered, Typed, TypeOK
<1>2. live' # live
  BY <1>1
<1>3. CASE OutsideWrite
  BY <1>3 DEF OutsideWrite, Ordered, Typed, TypeOK, BudgetOK
<1>4. CASE Copied \/ pc \in InPlace
  BY <1>4 DEF Copied, Rollback
<1>5. ASSUME Replace, live = job.base PROVE FALSE
  <2>1. live' = job.built /\ job.built \in Configs /\ Older(job.base, job.built, Owned)
    BY <1>5 DEF Replace, Ordered, Typed, JobTyped, JobOrdered, Building
  <2>2. job.built[p] \in Int /\ live[p] <= job.built[p]
    BY <1>5, <2>1, VersionsCompare, Subparts DEF Older
  <2>3. QED
    BY <1>1, <2>1, <2>2
<1>6. QED
  BY <1>2, <1>3, <1>4, <1>5, Writers DEF Replace

(* A staged config, a build that began before the last edit, a run that    *)
(* was killed: none of them ever takes a part of the router's file back to *)
(* an older version than it has, but for the rollback of the same run, the *)
(* half-built files of the classic pipeline, and a file that somebody      *)
(* without the lock wrote behind the run's last comparison                 *)
(* (multiloc_full._run 259-262, accept 355-370).                           *)
THEOREM FileGoesForward ==
  ASSUME Reverts = FALSE
  PROVE  Spec => NeverBackwards
<1>1. Init => Ordered
  BY InitOrdered
<1>2. Ordered /\ [Next]_vars => Ordered'
  BY StepOrdered
<1>3. Ordered /\ [Next]_vars
        => [live # Torn /\ live' # Torn =>
              \A p \in Owned : live'[p] < live[p] =>
                \/ pc \in InPlace \cup Rollback
                \/ outside' # outside
                \/ pc = "swap" /\ live # job.base]_vars
  BY ForwardStep
<1>4. QED
  BY <1>1, <1>2, <1>3, PTL DEF Spec, NeverBackwards

(***************************************************************************)
(* The edits a run announces to the comparison, and what passes it.  An    *)
(* announced edit stays ahead of the record until the run itself makes the *)
(* record: no other run can, and no edit takes it back.                    *)
(***************************************************************************)

Announcing == {"start", "hash", "expect", "full", "reading", "built", "swap"}

Announced ==
  pc \in Announcing =>
    \A p \in job.expected :
      p = "countries" \/ (p \in Hashed /\ applied # None /\ applied[p] < inputs[p])

Compared ==
  pc = "swap" =>
    \/ job.kind \in {"accept", "force"}
    \/ job.kind = "countries" /\ \A p \in Parts \ {"countries"} : job.built[p] = job.base[p]
    \/ Unexplained(job.base, job.built, job.expected) = {}

Excused == Announced /\ Compared

LEMMA InitExcused == Init => Excused
  BY DEF Init, Excused, Announced, Compared, Announcing, Idle

LEMMA EditExcused ==
  ASSUME Ordered, Ordered', Excused, NEW p \in Edited, Edit(p), Reverts = FALSE
  PROVE  Excused'
<1>1. Older(inputs, inputs', Parts) /\ UNCHANGED system
  BY InputsGrow DEF Edit
<1>2. applied # None => \A q \in Hashed : applied[q] \in Int
  BY Standing
<1>3. \A q \in Parts : inputs[q] \in Int /\ inputs'[q] \in Int
  BY VersionsCompare DEF Ordered, Typed, TypeOK
<1>4. Announced'
  BY <1>1, <1>2, <1>3, Subparts DEF Excused, Announced, Older, system
<1>5. Compared'
  BY <1>1 DEF Excused, Compared, system
<1>6. QED
  BY <1>4, <1>5 DEF Excused

(* What the plan announces is ahead of the record.                         *)
LEMMA AheadOfRecord ==
  ASSUME Ordered
  PROVE  \A p \in Expected(inputs) :
           p = "countries" \/ (p \in Hashed /\ applied # None /\ applied[p] < inputs[p])
<1> SUFFICES ASSUME NEW p \in Changed(inputs)
             PROVE  p \in Hashed /\ applied # None /\ applied[p] < inputs[p]
  BY DEF Expected
<1>1. p \in Hashed /\ applied # None /\ inputs[p] # applied[p]
  BY DEF Changed
<1>2. applied[p] \in Int /\ inputs[p] \in Int /\ applied[p] <= inputs[p]
  BY <1>1, Standing, Subparts
<1>3. QED
  BY <1>1, <1>2

LEMMA StartExcused ==
  ASSUME Ordered, Excused,
         Decide \/ TakeHashes \/ Expect \/ StartCountries \/ StartAccept
  PROVE  Excused'
<1> USE DEF Announcing
<1>1. UNCHANGED <<inputs, applied>> /\ pc \in {"start", "hash", "expect"}
  BY DEF Decide, TakeHashes, Expect, StartCountries, Countries, StartAccept, Untouched
<1>2. CASE Decide
  BY <1>1, <1>2, DecideFields, AheadOfRecord
     DEF Excused, Announced, Compared, Ordered, Typed
<1>3. CASE TakeHashes
  BY <1>1, <1>3, HashFields DEF Excused, Announced, Compared, Ordered, Typed
<1>4. CASE Expect
  BY <1>1, <1>4, ExpectFields, AheadOfRecord
     DEF Excused, Announced, Compared, Ordered, Typed
<1>5. CASE StartCountries
  <2>1. /\ job'.kind = "countries" /\ job'.base = live /\ live \in Configs
        /\ job'.expected = job.expected
        /\ job'.built = [live EXCEPT !.countries = inputs.countries]
    BY <1>5, StartCountriesFields DEF Ordered, Typed
  <2>2. \A p \in Parts \ {"countries"} : job'.built[p] = job'.base[p]
    BY <2>1 DEF Configs
  <2>3. QED
    BY <1>1, <2>1, <2>2 DEF Excused, Announced, Compared
<1>6. CASE StartAccept
  <2>1. job'.expected = job.expected /\ job'.kind = job.kind /\ job.kind = "accept"
    BY <1>6 DEF StartAccept, Exit, Ordered, Typed, TypeOK, JobType
  <2>2. QED
    BY <1>1, <2>1 DEF Excused, Announced, Compared
<1>7. QED
  BY <1>2, <1>3, <1>4, <1>5, <1>6

LEMMA CompareExcused ==
  ASSUME Ordered, Excused, ReadDatabase \/ ReadFiles \/ Compare
  PROVE  Excused'
<1> USE DEF Announcing
<1>1. UNCHANGED <<inputs, applied>>
  BY DEF ReadDatabase, ReadFiles, Compare, Untouched
<1>2. CASE ReadDatabase
  <2>1. pc = "full" /\ pc' = "reading" /\ job'.expected = job.expected
    BY <1>2, ReadDatabaseFields DEF ReadDatabase, Ordered, Typed
  <2>2. QED
    BY <1>1, <2>1 DEF Excused, Announced, Compared
<1>3. CASE ReadFiles
  <2>1. pc = "reading" /\ pc' = "built" /\ job'.expected = job.expected
    BY <1>3, ReadFilesFields DEF ReadFiles, Ordered
  <2>2. QED
    BY <1>1, <2>1 DEF Excused, Announced, Compared
<1>4. CASE Compare
  <2>1. pc = "built" /\ job' = job /\ pc' \in {"stage", "swap"}
    BY <1>4 DEF Compare
  <2>2. pc' = "swap" /\ job.kind # "force"
          => Unexplained(job.base, job.built, job.expected) = {}
    BY <1>4 DEF Compare
  <2>3. QED
    BY <1>1, <2>1, <2>2 DEF Excused, Announced, Compared
<1>5. QED
  BY <1>2, <1>3, <1>4

(* A job that begins has announced nothing; the rest ends the announcement *)
(* or leaves it.                                                           *)
LEMMA StepExcused ==
  Reverts = FALSE /\ Ordered /\ Ordered' /\ Excused /\ [Next]_vars => Excused'
<1> SUFFICES ASSUME Reverts = FALSE, Ordered, Ordered', Excused, [Next]_vars PROVE Excused'
  OBVIOUS
<1>1. CASE UNCHANGED <<inputs, applied, pc, job>>
  BY <1>1 DEF Excused, Announced, Compared
<1>2. CASE pc' \notin Announcing
  BY <1>2 DEF Excused, Announced, Compared, Announcing
<1>3. CASE \E p \in Edited : Edit(p)
  BY <1>3, EditExcused
<1>4. CASE \E mode \in PanelModes : Press(mode)
  BY <1>1, <1>4 DEF Press
<1>5. CASE UnitLocks \/ \E mode \in ConsoleModes : ConsoleLocks(mode)
  BY <1>5 DEF UnitLocks, ConsoleLocks, Idle, Excused, Announced, Compared
<1>6. CASE UnitRefused \/ RouterStartsAgain \/ OutsideWrite \/ UNCHANGED vars
  BY <1>1, <1>6 DEF UnitRefused, RouterStartsAgain, OutsideWrite, vars, system
<1>7. CASE Decide \/ TakeHashes \/ Expect \/ StartCountries \/ StartAccept
  BY <1>7, StartExcused
<1>8. CASE ReadDatabase \/ ReadFiles \/ Compare
  BY <1>8, CompareExcused
<1>9. CASE Discard \/ NothingToDo \/ CountriesRefused \/ AcceptFails \/ PipelineFails
           \/ ChangedMeanwhile \/ EqualToLive \/ Stage
  BY <1>2, <1>9 DEF Discard, NothingToDo, CountriesRefused, AcceptFails, PipelineFails,
                    ChangedMeanwhile, EqualToLive, Stage, Exit, Announcing
<1>10. CASE StartClassic \/ WriteCore \/ WriteLayers \/ WriteCountries \/ ClassicFails
            \/ PreChecksFail \/ Replace \/ Restart \/ RestartFails
  BY <1>2, <1>10 DEF StartClassic, WriteCore, WriteLayers, WriteCountries, ClassicFails,
                     PreChecksFail, Replace, Restart, RestartFails, Exit, Announcing
<1>11. CASE PutBack \/ Copied \/ CopyFails \/ RestartPrevious \/ Swapped \/ Record
            \/ Finish \/ Kill \/ Reboot
  BY <1>2, <1>11 DEF PutBack, Copied, CopyFails, RestartPrevious, Swapped, Record,
                     Finish, Kill, Reboot, Exit, Announcing
<1>12. QED
  BY <1>3, <1>4, <1>5, <1>6, <1>7, <1>8, <1>9, <1>10, <1>11 DEF Next, JobStep, UnitStep

(* Only the rename of a run replaces a file at the swap.                   *)
LEMMA OnlyReplace ==
  ASSUME [Next]_vars, pc = "swap", pc' = "replaced"
  PROVE  live' = job.built
  BY DEF Next, JobStep, UnitStep, Edit, Press, ConsoleLocks, UnitLocks, UnitRefused,
         Discard, NothingToDo, Decide, TakeHashes, Expect, StartCountries, Countries,
         CountriesRefused, StartAccept, AcceptFails, ReadDatabase,
         ReadFiles, PipelineFails, ChangedMeanwhile, EqualToLive, Compare, Stage,
         StartClassic, WriteCore, WriteLayers, WriteCountries, ClassicFails, Exit,
         PreChecksFail, Replace, Restart, RestartFails, PutBack, Copied, CopyFails,
         RestartPrevious, Swapped, Record, Finish, Kill, Reboot, RouterStartsAgain,
         OutsideWrite, vars, system

(* What an unattended run puts in place of the file it was compared with   *)
(* differs from it in the countries only, or only in kinds of settings     *)
(* that an edit still ahead of the record can produce (router_diff.review, *)
(* multiloc_full._run 259-296): in every behaviour in which no edit is     *)
(* taken back, however the host, an editor or a killed run changed the     *)
(* file in between.                                                        *)
THEOREM UnexplainedNeedsConsent ==
  ASSUME Reverts = FALSE
  PROVE  Spec => ConsentForTheRest
<1>1. Init => Ordered /\ Excused
  BY InitOrdered, InitExcused
<1>2. Ordered /\ Excused /\ [Next]_vars => Ordered' /\ Excused'
  BY StepOrdered, StepExcused
<1>3. ASSUME Ordered, Excused, [Next]_vars, pc = "swap", pc' = "replaced", live = job.base
      PROVE  \/ job.kind \in {"accept", "force"}
             \/ job.kind = "countries" /\ \A p \in Parts \ {"countries"} : live'[p] = live[p]
             \/ \A c \in Differing(live, live') : \E p \in ExplainedBy[c] : Pending(p)
  <2>1. live' = job.built
    BY <1>3, OnlyReplace
  <2>2. ASSUME Unexplained(job.base, job.built, job.expected) = {},
               NEW c \in Differing(live, live')
        PROVE  \E p \in ExplainedBy[c] : Pending(p)
    <3>1. PICK p \in ExplainedBy[c] : p \in job.expected
      BY <1>3, <2>1, <2>2 DEF Unexplained
    <3>2. p = "countries" \/ (p \in Hashed /\ applied # None /\ applied[p] < inputs[p])
      BY <1>3, <3>1 DEF Excused, Announced, Announcing
    <3>3. p \in Hashed /\ applied # None => applied[p] \in Int /\ inputs[p] \in Int
      BY <1>3, Standing, Subparts
    <3>4. Pending(p)
      BY <3>1, <3>2, <3>3 DEF Pending
    <3>5. QED
      BY <3>1, <3>4
  <2>3. QED
    BY <1>3, <2>1, <2>2 DEF Excused, Compared
<1>4. Ordered /\ Excused /\ [Next]_vars
        => [pc = "swap" /\ pc' = "replaced" /\ live = job.base =>
              \/ job.kind \in {"accept", "force"}
              \/ job.kind = "countries" /\ \A p \in Parts \ {"countries"} : live'[p] = live[p]
              \/ \A c \in Differing(live, live') : \E p \in ExplainedBy[c] : Pending(p)]_vars
  BY <1>3
<1>5. QED
  BY <1>1, <1>2, <1>4, PTL DEF Spec, ConsentForTheRest

(***************************************************************************)
(* The file and the process, followed through a job.  While every writer   *)
(* takes the lock, a job finds the file as it first read it, and a failed  *)
(* one that could copy it back leaves it so; while no run is killed, only  *)
(* the steps between a write and its restart see the process on another    *)
(* file than a readable live one.                                          *)
(***************************************************************************)

Moving == {"replaced", "failed", "copying", "restoring"}

Unmoved ==
  /\ pc \in {"reading", "built", "stage", "swap", "restoring"} => live = job.base
  /\ pc \in {"replaced", "serving", "failed"} => live = job.built
  /\ pc = "copying" => live = Torn
  /\ pc = "failed" => served \in {live, None}
  /\ pc = "exit" /\ job.rc = 2 /\ job.base # None =>
       IF job.lost THEN live \in {job.built, Torn} ELSE live = job.base

Followed ==
  /\ lock = "free" => pc = "idle"
  /\ pc \in {"start", "hash", "expect", "full"} \cup InPlace => job.base = None
  /\ pc # "exit" => ~job.lost
  /\ outside = 0 => Unmoved
  /\ kills = 0 /\ outside = 0 /\ pc \notin Moving => live = Torn \/ served \in {live, None}

LEMMA InitFollowed == Init => Followed
  BY DEF Init, Followed, Unmoved, Moving, Idle, InPlace

LEMMA LoadedIs == \A f : Loaded(f) \in {f, None}
  BY DEF Loaded

(* A job that ends, or begins, anew.                                       *)
LEMMA IdleFollowed ==
  ASSUME Followed, pc' = "idle", job' = Idle, outside' = outside,
         kills' = 0 => /\ kills = 0
                       /\ \/ pc \notin Moving /\ UNCHANGED <<served, live>>
                          \/ served' \in {live', None}
  PROVE  Followed'
  BY DEF Followed, Unmoved, Moving, Idle, InPlace

LEMMA StartFollowed ==
  ASSUME Typed, Followed,
         Decide \/ TakeHashes \/ Expect \/ StartCountries \/ StartAccept
  PROVE  Followed'
<1>1. /\ UNCHANGED <<live, served, lock, outside, kills>>
      /\ pc \in {"start", "hash", "expect"}
  BY DEF Decide, TakeHashes, Expect, StartCountries, Countries, StartAccept, Untouched
<1>2. /\ lock # "free" /\ job.base = None /\ ~job.lost
      /\ kills = 0 /\ outside = 0 => live = Torn \/ served \in {live, None}
  BY <1>1 DEF Followed, Moving
<1>3. job'.lost = job.lost
  BY DEF Decide, TakeHashes, Expect, StartCountries, StartAccept, Exit, Typed, TypeOK, JobType
<1>4. CASE Decide \/ TakeHashes \/ Expect
  <2>1. pc' \in {"hash", "expect", "full"} /\ job'.base = None
    BY <1>2, <1>4, DecideFields, HashFields, ExpectFields DEF Typed
  <2>2. QED
    BY <1>1, <1>2, <1>3, <2>1 DEF Followed, Unmoved, Moving
<1>5. CASE StartCountries
  <2>1. pc' \in {"exit", "swap"} /\ job'.base = live
    BY <1>5, StartCountriesFields DEF Typed
  <2>2. QED
    BY <1>1, <1>2, <1>3, <2>1 DEF Followed, Unmoved, Moving, InPlace
<1>6. CASE StartAccept /\ Acceptable(PartsOf(inputs))
  <2>1. pc' = "swap" /\ job'.base = live
    BY <1>6, StartAcceptFields DEF Typed
  <2>2. QED
    BY <1>1, <1>2, <1>3, <2>1 DEF Followed, Unmoved, Moving, InPlace
<1>7. CASE StartAccept /\ ~Acceptable(PartsOf(inputs))
  <2>1. pc' = "exit" /\ job'.base = None
    BY <1>2, <1>7 DEF StartAccept, Exit, Typed, TypeOK, JobType
  <2>2. QED
    BY <1>1, <1>2, <1>3, <2>1 DEF Followed, Unmoved, Moving, InPlace
<1>8. QED
  BY <1>4, <1>5, <1>6, <1>7

LEMMA ReadFollowed ==
  ASSUME Typed, Followed, ReadDatabase \/ ReadFiles
  PROVE  Followed'
<1>1. UNCHANGED <<live, served, lock, outside, kills>> /\ pc \in {"full", "reading"}
  BY DEF ReadDatabase, ReadFiles, Untouched
<1>2. ~job'.lost
  BY <1>1 DEF ReadDatabase, ReadFiles, Followed, Typed, TypeOK, JobType
<1>3. CASE ReadDatabase
  <2>1. pc' = "reading" /\ job'.base = live
    BY <1>3, ReadDatabaseFields DEF Typed
  <2>2. QED
    BY <1>1, <1>2, <2>1 DEF Followed, Unmoved, Moving, InPlace
<1>4. CASE ReadFiles
  <2>1. pc = "reading" /\ pc' = "built" /\ job'.base = job.base
    BY <1>4, ReadFilesFields DEF ReadFiles
  <2>2. QED
    BY <1>1, <1>2, <2>1 DEF Followed, Unmoved, Moving, InPlace
<1>5. QED
  BY <1>3, <1>4

LEMMA CompareFollowed ==
  ASSUME Typed, Followed, EqualToLive \/ Compare \/ Stage
  PROVE  Followed'
<1>1. UNCHANGED <<live, served, lock, outside, kills>> /\ pc \in {"built", "stage"}
  BY DEF EqualToLive, Compare, Stage, Untouched
<1>2. CASE EqualToLive \/ Compare
  <2>1. pc' \in {"record", "stage", "swap"} /\ pc = "built" /\ job' = job
    BY <1>2 DEF EqualToLive, Compare
  <2>2. QED
    BY <1>1, <2>1 DEF Followed, Unmoved, Moving, InPlace
<1>3. CASE Stage
  <2>1. pc' = "exit" /\ job'.rc = 4
    BY <1>3 DEF Stage, Exit, Typed, TypeOK, JobType
  <2>2. QED
    BY <1>1, <2>1 DEF Followed, Unmoved, Moving, InPlace
<1>4. QED
  BY <1>2, <1>3

(* The classic pipeline restarts the router after every layer.             *)
LEMMA ClassicFollowed ==
  ASSUME Typed, Followed,
         StartClassic \/ WriteCore \/ WriteLayers \/ WriteCountries \/ ClassicFails
  PROVE  Followed'
<1> USE DEF InPlace
<1>1. UNCHANGED <<lock, outside, kills>> /\ pc \in {"full"} \cup InPlace
  BY DEF StartClassic, WriteCore, WriteLayers, WriteCountries, ClassicFails, Untouched
<1>2. lock # "free" /\ job.base = None /\ ~job.lost
  BY <1>1 DEF Followed
<1>3. CASE StartClassic
  <2>1. pc' = "core" /\ job'.base = None /\ job'.lost = job.lost /\ UNCHANGED <<live, served>>
    BY <1>2, <1>3 DEF StartClassic, Typed, TypeOK, JobType
  <2>2. QED
    BY <1>1, <1>2, <2>1 DEF Followed, Unmoved, Moving
<1>4. CASE WriteCore \/ WriteLayers \/ WriteCountries
  <2>1. pc' \in {"layers", "last", "record"} /\ job' = job /\ served' = live'
    BY <1>4 DEF WriteCore, WriteLayers, WriteCountries
  <2>2. QED
    BY <1>1, <1>2, <2>1 DEF Followed, Unmoved, Moving
<1>5. CASE ClassicFails
  <2>1. /\ pc' = "exit" /\ job'.base = None
        /\ live' \in {live, Torn} /\ served' \in {served, None}
    BY <1>2, <1>5 DEF ClassicFails, Exit, Typed, TypeOK, JobType
  <2>2. QED
    BY <1>1, <1>2, <2>1 DEF Followed, Unmoved, Moving
<1>6. QED
  BY <1>3, <1>4, <1>5

LEMMA SwapFollowed ==
  ASSUME Typed, Followed, Replace \/ Restart \/ RestartFails \/ Swapped \/ Record
  PROVE  Followed'
<1> USE DEF InPlace
<1>1. UNCHANGED <<lock, outside, kills>> /\ pc # "idle" /\ pc # "exit"
  BY DEF Replace, Restart, RestartFails, Swapped, Record, Untouched
<1>2. lock # "free" /\ ~job.lost
  BY <1>1 DEF Followed
<1>3. CASE Replace
  <2>1. pc' = "replaced" /\ live' = job.built /\ job' = job
    BY <1>3 DEF Replace
  <2>2. QED
    BY <1>1, <1>2, <2>1 DEF Followed, Unmoved, Moving
<1>4. CASE Restart \/ RestartFails
  <2>1. /\ pc = "replaced" /\ pc' \in {"serving", "failed"} /\ live' = live /\ job' = job
        /\ served' \in {live, None}
    BY <1>4, LoadedIs DEF Restart, RestartFails
  <2>2. QED
    BY <1>1, <1>2, <2>1 DEF Followed, Unmoved, Moving
<1>5. CASE Swapped \/ Record
  <2>1. /\ pc \in {"serving", "record"} /\ UNCHANGED <<live, served>>
        /\ (pc' = "record" /\ job' = job) \/ (pc' = "exit" /\ job'.rc = 0)
    BY <1>5 DEF Swapped, Record, Exit, Typed, TypeOK, JobType
  <2>2. QED
    BY <1>1, <1>2, <2>1 DEF Followed, Unmoved, Moving
<1>6. QED
  BY <1>3, <1>4, <1>5

(* The rollback: emptied, written, restarted; or lost on the way.          *)
LEMMA RollbackFollowed ==
  ASSUME Typed, Followed, PutBack \/ Copied \/ CopyFails \/ RestartPrevious
  PROVE  Followed'
<1> USE DEF InPlace
<1>1. UNCHANGED <<lock, outside, kills>> /\ pc \in {"failed", "copying", "restoring"}
  BY DEF PutBack, Copied, CopyFails, RestartPrevious, Untouched
<1>2. lock # "free" /\ ~job.lost
  BY <1>1 DEF Followed
<1>3. CASE PutBack \/ Copied
  <2>1. \/ pc' = "copying" /\ live' = Torn /\ job' = job
        \/ pc' = "restoring" /\ live' = job.base /\ job' = job
    BY <1>3 DEF PutBack, Copied
  <2>2. QED
    BY <1>1, <1>2, <2>1 DEF Followed, Unmoved, Moving
<1>4. CASE CopyFails
  <2>1. /\ pc \in {"failed", "copying"} /\ pc' = "exit" /\ UNCHANGED <<live, served>>
        /\ job'.lost /\ job'.built = job.built
    BY <1>4 DEF CopyFails, Typed, TypeOK, JobType
  <2>2. outside = 0 => live \in {job.built, Torn} /\ (live = Torn \/ served \in {live, None})
    BY <2>1 DEF Followed, Unmoved
  <2>3. QED
    BY <1>1, <1>2, <2>1, <2>2 DEF Followed, Unmoved, Moving
<1>5. CASE RestartPrevious
  <2>1. /\ pc = "restoring" /\ pc' = "exit" /\ live' = live
        /\ served' \in {live, None} /\ job'.base = job.base /\ job'.lost = job.lost
    BY <1>5, LoadedIs DEF RestartPrevious, Exit, Typed, TypeOK, JobType
  <2>2. QED
    BY <1>1, <1>2, <2>1 DEF Followed, Unmoved, Moving
<1>6. QED
  BY <1>3, <1>4, <1>5

(* A job that gives up leaves everything as it found it.                   *)
LEMMA GiveUpFollowed ==
  ASSUME Typed, Followed,
         \/ Discard \/ NothingToDo \/ CountriesRefused \/ AcceptFails
         \/ PipelineFails \/ ChangedMeanwhile \/ PreChecksFail
  PROVE  Followed'
<1>1. /\ UNCHANGED <<lock, outside, kills, live, served>> /\ pc' = "exit"
      /\ pc \in {"start", "reading", "built", "swap"}
      /\ job'.base = job.base /\ job'.lost = job.lost
  BY DEF Discard, NothingToDo, CountriesRefused, Countries, AcceptFails, PipelineFails,
         ChangedMeanwhile, PreChecksFail, Untouched, Exit, Typed, TypeOK, JobType
<1>2. QED
  BY <1>1 DEF Followed, Unmoved, Moving, InPlace

LEMMA StepFollowed == Typed /\ Followed /\ [Next]_vars => Followed'
<1> SUFFICES ASSUME Typed, Followed, [Next]_vars PROVE Followed'
  OBVIOUS
<1>1. CASE UNCHANGED <<live, served, lock, pc, job, outside, kills>>
  BY <1>1 DEF Followed, Unmoved, Moving
<1>2. CASE \E p \in Edited : Edit(p)
  BY <1>1, <1>2 DEF Edit, system
<1>3. CASE \E mode \in PanelModes : Press(mode)
  BY <1>1, <1>3 DEF Press, budget
<1>4. CASE UnitRefused \/ UNCHANGED vars
  BY <1>1, <1>4 DEF UnitRefused, vars, system, budget
<1>5. ASSUME UnitLocks \/ \E mode \in ConsoleModes : ConsoleLocks(mode)
      PROVE  Followed'
  <2>1. /\ pc' = "start" /\ job'.base = None /\ ~job'.lost /\ lock' # "free"
        /\ UNCHANGED <<live, served, outside, kills>> /\ lock = "free"
    BY <1>5 DEF UnitLocks, ConsoleLocks, Idle, budget
  <2>2. QED
    BY <2>1 DEF Followed, Unmoved, Moving, InPlace
<1>6. CASE Decide \/ TakeHashes \/ Expect \/ StartCountries \/ StartAccept
  BY <1>6, StartFollowed
<1>7. CASE ReadDatabase \/ ReadFiles
  BY <1>7, ReadFollowed
<1>8. CASE EqualToLive \/ Compare \/ Stage
  BY <1>8, CompareFollowed
<1>9. CASE StartClassic \/ WriteCore \/ WriteLayers \/ WriteCountries \/ ClassicFails
  BY <1>9, ClassicFollowed
<1>10. CASE Replace \/ Restart \/ RestartFails \/ Swapped \/ Record
  BY <1>10, SwapFollowed
<1>11. CASE PutBack \/ Copied \/ CopyFails \/ RestartPrevious
  BY <1>11, RollbackFollowed
<1>12. CASE \/ Discard \/ NothingToDo \/ CountriesRefused \/ AcceptFails
            \/ PipelineFails \/ ChangedMeanwhile \/ PreChecksFail
  BY <1>12, GiveUpFollowed
<1>13. CASE Finish
  BY <1>13, IdleFollowed DEF Finish, budget, Moving
<1>14. CASE Kill
  <2>1. kills' # 0
    BY <1>14 DEF Kill, Typed, TypeOK, BudgetOK
  <2>2. QED
    BY <1>14, <2>1, IdleFollowed DEF Kill
<1>15. CASE Reboot
  BY <1>15, IdleFollowed, LoadedIs DEF Reboot
<1>16. CASE RouterStartsAgain
  BY <1>16, LoadedIs DEF RouterStartsAgain, budget, Followed, Unmoved, Moving
<1>17. CASE OutsideWrite
  <2>1. outside' # 0
    BY <1>17 DEF OutsideWrite, Typed, TypeOK, BudgetOK
  <2>2. QED
    BY <1>17, <2>1 DEF OutsideWrite, Followed, Moving
<1>18. QED
  BY <1>2, <1>3, <1>4, <1>5, <1>6, <1>7, <1>8, <1>9, <1>10, <1>11, <1>12, <1>13, <1>14,
     <1>15, <1>16, <1>17 DEF Next, JobStep, UnitStep

(* Every behaviour follows the file and the process, and is typed.         *)
LEMMA AlwaysFollowed == Spec => [](Typed /\ Followed)
<1>1. Init => Typed
  BY InitTypes DEF Init, Typed, JobTyped, Building, Hashing, Read, Placed, InPlace, Rollback
<1>2. Typed /\ [Next]_vars => Typed'
  BY StepTypes, StepJobTyped DEF Typed
<1>3. QED
  BY <1>1, <1>2, InitFollowed, StepFollowed, PTL DEF Spec

(* A run that failed, at the build, the comparison, the checks or the      *)
(* restart, left the file it found, and the router on it or down, unless   *)
(* its rollback could not copy that file back: then the refused file or a  *)
(* torn one stays (multiloc_full._swap, multiloc_router._restore_previous  *)
(* 477-493).                                                               *)
THEOREM FailedRunChangesNothing == Spec => []FailureLeavesPrevious
<1>1. Typed /\ Followed => FailureLeavesPrevious
  <2> SUFFICES ASSUME Typed, Followed, pc = "exit", job.rc = 2, job.base # None, outside = 0
               PROVE  IF job.lost
                      THEN live \in {job.built, Torn}
                      ELSE live = job.base /\ (kills = 0 => served \in {job.base, None})
    BY DEF FailureLeavesPrevious
  <2>1. job.base # Torn
    BY ApplyAssumption DEF Typed, TypeOK, JobType
  <2>2. QED
    BY <2>1 DEF Followed, Unmoved, Moving
<1>2. QED
  BY <1>1, AlwaysFollowed, PTL

(* While no run is killed, no edit taken back and every writer takes the   *)
(* lock, "nothing to apply" is also true of what the router process has    *)
(* loaded, unless its file is torn or half built (multiloc_ctl.py 292).    *)
THEOREM UnkilledRouterReflects ==
  ASSUME Reverts = FALSE
  PROVE  Spec => []ReflectsUnkilled
<1>1. Followed /\ NothingToApply => ReflectsUnkilled
  BY DEF Followed, Moving, NothingToApply, ReflectsUnkilled, RouterReflects, Busy, Complete
<1>2. QED
  BY <1>1, AlwaysFollowed, EmptyPlanIsTrue, PTL

-----------------------------------------------------------------------------
(* The pages.                                                              *)

LEMMA RowsTyped == HandRule \in RowType /\ NoRule \in RowType /\ HandRule # NoRule
BY RoutingAssumption DEF HandRule, NoRule, RowType

LEMMA ImportedTyped ==
  ASSUME PagesTypeOK, NEW s \in Sources, sources[s] # Absent
  PROVE  Imported(s) \in RowType /\ Imported(s).owner = s
BY DEF PagesTypeOK, SourceType, Imported, RowType

(* What is read for an apply is a set of pairs.                            *)
LEMMA ReadsTyped ==
  ASSUME PagesTypeOK
  PROVE  Routed \in RoutedType /\ Active \in ActiveType
<1>1. \A k \in Keys : rules[k].policy \in Ways
  BY DEF PagesTypeOK, RowType
<1>2. \A n \in Upstreams : nodes[n] # Absent => nodes[n].priority \in 0 .. MaxPriority
  BY DEF PagesTypeOK, NodeType
<1>3. Routed \in RoutedType
  BY <1>1 DEF Routed, RoutedType
<1>4. Active \in ActiveType
  BY <1>2 DEF Active, ActiveType
<1> QED
  BY <1>3, <1>4

LEMMA SeenTyped ==
  ASSUME PagesTypeOK, NEW own \in Values
  PROVE  Seen(own) \in Values
BY DEF PagesTypeOK, Seen

-----------------------------------------------------------------------------
(* The tables.  Rows is what a table of rules looks like at any time; each *)
(* request leaves such a table and has touched one owner's rows.           *)
Rows(r) ==
  /\ r \in [Keys -> RowType]
  /\ \A k \in Keys : /\ r[k].owner = ByHand => r[k] = HandRule
                     /\ r[k].owner = Nobody => r[k] = NoRule
Touches(r, o) ==
  \A k \in Keys : r[k] # rules[k] => {rules[k].owner, r[k].owner} \subseteq {o, Nobody}
Whole(r, there) ==
  /\ \A k \in Keys : r[k].owner \in Sources => there[r[k].owner] # Absent
  /\ \A k, l \in Keys : r[k].owner = r[l].owner => r[k] = r[l]

LEMMA RowsHold == PagesTypeOK => Rows(rules)
BY DEF PagesTypeOK, Rows

LEMMA DeletedSource ==
  ASSUME PagesTypeOK, SourcesWhole, NEW s \in Sources
  PROVE  /\ Rows(Without(s)) /\ Touches(Without(s), s)
         /\ Whole(Without(s), [sources EXCEPT ![s] = Absent])
<1>1. /\ s # ByHand /\ s # Nobody /\ ByHand # Nobody /\ NoRule.owner = Nobody
      /\ Nobody \notin Sources /\ ByHand \notin Sources
  BY RoutingAssumption DEF NoRule
<1>2. Rows(Without(s))
  BY <1>1, RowsTyped, RowsHold DEF Rows, Without
<1>3. Touches(Without(s), s)
  BY <1>1 DEF Touches, Without
<1>4. ASSUME NEW k \in Keys, Without(s)[k].owner \in Sources
      PROVE  [sources EXCEPT ![s] = Absent][Without(s)[k].owner] # Absent
  <2>1. Without(s)[k] = rules[k] /\ rules[k].owner # s
    BY <1>1, <1>4 DEF Without
  <2> QED
    BY <1>4, <2>1 DEF SourcesWhole, PagesTypeOK
<1>5. ASSUME NEW k \in Keys, NEW l \in Keys, Without(s)[k].owner = Without(s)[l].owner
      PROVE  Without(s)[k] = Without(s)[l]
  BY <1>1, <1>5, RowsHold DEF Without, SourcesWhole, Rows
<1> QED
  BY <1>2, <1>3, <1>4, <1>5 DEF Whole

LEMMA ToggledSource ==
  ASSUME PagesTypeOK, SourcesWhole, NEW s \in Sources, sources[s] # Absent
  PROVE  /\ Rows(Switched(s)) /\ Touches(Switched(s), s)
         /\ Whole(Switched(s), [sources EXCEPT ![s].enabled = ~@])
<1>1. s # ByHand /\ s # Nobody
  BY RoutingAssumption
<1>2. sources[s] \in SourceType
  BY DEF PagesTypeOK
<1>3. \A k \in Keys : rules[k] \in RowType
  BY DEF PagesTypeOK
<1>4. \A k \in Keys : /\ Switched(s)[k] \in RowType
                      /\ Switched(s)[k].owner = rules[k].owner
                      /\ rules[k].owner # s => Switched(s)[k] = rules[k]
  BY <1>2, <1>3 DEF Switched, RowType, SourceType
<1>5. Rows(Switched(s))
  <2>1. Switched(s) \in [Keys -> RowType]
    BY <1>4 DEF Switched
  <2> QED
    BY <1>1, <1>4, <2>1, RowsHold DEF Rows
<1>6. Touches(Switched(s), s)
  BY <1>4 DEF Touches
<1>7. ASSUME NEW k \in Keys, Switched(s)[k].owner \in Sources
      PROVE  [sources EXCEPT ![s].enabled = ~@][Switched(s)[k].owner] # Absent
  <2>1. sources[rules[k].owner] # Absent /\ Switched(s)[k].owner = rules[k].owner
    BY <1>4, <1>7 DEF SourcesWhole
  <2>2. [sources[s] EXCEPT !.enabled = ~@] # Absent
    BY <1>2, RoutingAssumption DEF SourceType
  <2> QED
    BY <2>1, <2>2, <1>7 DEF PagesTypeOK
<1>8. ASSUME NEW k \in Keys, NEW l \in Keys, Switched(s)[k].owner = Switched(s)[l].owner
      PROVE  Switched(s)[k] = Switched(s)[l]
  <2>1. rules[k] = rules[l]
    BY <1>4, <1>8 DEF SourcesWhole
  <2> QED
    BY <2>1 DEF Switched
<1> QED
  BY <1>5, <1>6, <1>7, <1>8 DEF Whole

LEMMA ImportedSource ==
  ASSUME PagesTypeOK, SourcesWhole, NEW s \in Sources, sources[s] # Absent, NEW keys \in SUBSET Keys
  PROVE  /\ Rows(Replaced(s, keys)) /\ Touches(Replaced(s, keys), s)
         /\ Whole(Replaced(s, keys), sources)
<1>1. s # ByHand /\ s # Nobody /\ NoRule.owner = Nobody /\ Nobody \notin Sources
  BY RoutingAssumption DEF NoRule
<1>2. Imported(s) \in RowType /\ Imported(s).owner = s
  BY ImportedTyped
<1>3. \A k \in Keys :
        \/ rules[k].owner \notin {s, Nobody} /\ Replaced(s, keys)[k] = rules[k]
        \/ rules[k].owner \in {s, Nobody} /\ Replaced(s, keys)[k] \in {Imported(s), NoRule}
  BY DEF Replaced
<1>4. Rows(Replaced(s, keys))
  <2>1. \A k \in Keys : Replaced(s, keys)[k] \in RowType
    BY <1>2, <1>3, RowsTyped, RowsHold DEF Rows
  <2>2. Replaced(s, keys) \in [Keys -> RowType]
    BY <2>1 DEF Replaced
  <2>3. ByHand # Nobody
    BY RoutingAssumption
  <2> QED
    BY <1>1, <1>2, <1>3, <2>2, <2>3, RowsHold DEF Rows
<1>5. Touches(Replaced(s, keys), s)
  BY <1>1, <1>2, <1>3 DEF Touches
<1>6. \A k \in Keys : Replaced(s, keys)[k].owner \in Sources => sources[Replaced(s, keys)[k].owner] # Absent
  BY <1>1, <1>2, <1>3 DEF SourcesWhole
<1>7. ASSUME NEW k \in Keys, NEW l \in Keys, Replaced(s, keys)[k].owner = Replaced(s, keys)[l].owner
      PROVE  Replaced(s, keys)[k] = Replaced(s, keys)[l]
  BY <1>1, <1>2, <1>3, <1>7 DEF SourcesWhole
<1> QED
  BY <1>4, <1>5, <1>6, <1>7 DEF Whole

LEMMA SavedText ==
  ASSUME PagesTypeOK, SourcesWhole, NEW text \in Texts
  PROVE  /\ Rows(Rewritten(text)) /\ Touches(Rewritten(text), ByHand)
         /\ Whole(Rewritten(text), sources)
         /\ text = PageText => Rewritten(text) = rules
<1>1. ByHand # Nobody /\ HandRule.owner = ByHand /\ NoRule.owner = Nobody
      /\ ByHand \notin Sources /\ Nobody \notin Sources
  BY RoutingAssumption DEF NoRule, HandRule
<1>2. \A k \in Keys :
        \/ Rewritten(text)[k] = rules[k]
        \/ rules[k].owner = ByHand /\ Rewritten(text)[k] = NoRule
        \/ rules[k].owner = Nobody /\ Rewritten(text)[k] = HandRule
  BY <1>1 DEF Rewritten, OnPage
<1>3. Rows(Rewritten(text))
  <2>1. Rewritten(text) \in [Keys -> RowType]
    BY RowsTyped, RowsHold DEF Rewritten, Rows
  <2> QED
    BY <1>1, <1>2, <2>1, RowsHold DEF Rows
<1>4. Touches(Rewritten(text), ByHand)
  BY <1>1, <1>2 DEF Touches
<1>5. \A k \in Keys : Rewritten(text)[k].owner \in Sources => sources[Rewritten(text)[k].owner] # Absent
  BY <1>1, <1>2 DEF SourcesWhole
<1>6. ASSUME NEW k \in Keys, NEW l \in Keys, Rewritten(text)[k].owner = Rewritten(text)[l].owner
      PROVE  Rewritten(text)[k] = Rewritten(text)[l]
  BY <1>1, <1>2, <1>3, <1>6, RowsHold DEF SourcesWhole, Rows
<1>7. ASSUME text = PageText PROVE Rewritten(text) = rules
  <2>1. Parsed(text) = OnPage
    <3>1. \A k \in OnPage : Printed(k) \in text /\ Printed(k).key = k
      BY <1>7 DEF PageText, Printed
    <3>2. \A l \in text : \E k \in OnPage : l.key = k
      BY <1>7 DEF PageText, Printed
    <3> QED
      BY <3>1, <3>2 DEF Parsed
  <2>2. \A k \in OnPage : rules[k] # NoRule
    BY <1>1 DEF OnPage
  <2> QED
    BY <2>1, <2>2 DEF Rewritten, PagesTypeOK
<1> QED
  BY <1>3, <1>4, <1>5, <1>6, <1>7 DEF Whole

-----------------------------------------------------------------------------
(* Types.                                                                  *)

LEMMA InitTyped == PagesInit => PagesTypeOK
<1> SUFFICES ASSUME PagesInit PROVE PagesTypeOK
  OBVIOUS
<1>1. NoRule \in RowType /\ NoRule.owner = Nobody /\ ByHand # Nobody
  BY RoutingAssumption, RowsTyped DEF NoRule
<1>2. sources \in [Sources -> SourceType \cup {Absent}] /\ nodes \in [Upstreams -> NodeType \cup {Absent}]
  BY RoutingAssumption DEF PagesInit, SourceType
<1>3. save \in SaveType
  BY RoutingAssumption DEF PagesInit, NoSave, SaveType, Stages, Texts, Lines
<1>4. reader \in ReaderType /\ apply \in ApplyType
  BY RoutingAssumption DEF PagesInit, NoReader, ReaderType, NoApply, NoView, ApplyType, ViewType, RoutedType, ActiveType
<1>5. router \in RouterType
  BY RoutingAssumption DEF PagesInit, RouterType, RoutedType, ActiveType
<1>6. requests \in 0 .. MaxRequests
  BY RoutingAssumption DEF PagesInit
<1> QED
  BY <1>1, <1>2, <1>3, <1>4, <1>5, <1>6, RoutingAssumption DEF PagesInit, PagesTypeOK

(* A request more.                                                         *)
LEMMA RequestTyped == PagesTypeOK /\ Request => requests' \in 0 .. MaxRequests
BY RoutingAssumption DEF PagesTypeOK, Request

LEMMA NodesTyped ==
  ASSUME PagesTypeOK, NEW n \in Upstreams,
         (\E e \in BOOLEAN, i \in 0 .. MaxPriority : SaveNode(n, e, i)) \/ ChangeNode(n)
  PROVE  nodes' \in [Upstreams -> NodeType \cup {Absent}]
<1>1. CASE \E e \in BOOLEAN, i \in 0 .. MaxPriority : SaveNode(n, e, i)
  BY <1>1 DEF SaveNode, PagesTypeOK, NodeType
<1>2. CASE ChangeNode(n)
  <2>1. nodes[n] \in NodeType
    BY <1>2 DEF ChangeNode, PagesTypeOK
  <2>2. /\ [nodes[n] EXCEPT !.enabled = ~@] \in NodeType
        /\ nodes[n].priority > 0 => [nodes[n] EXCEPT !.priority = @ - 1] \in NodeType
        /\ nodes[n].priority < MaxPriority => [nodes[n] EXCEPT !.priority = @ + 1] \in NodeType
    <3>1. PICK e \in BOOLEAN, i \in 0 .. MaxPriority : nodes[n] = [enabled |-> e, priority |-> i]
      BY <2>1 DEF NodeType
    <3>2. [nodes[n] EXCEPT !.enabled = ~@] = [enabled |-> ~e, priority |-> i]
      BY <3>1
    <3>3. \A j \in 0 .. MaxPriority : [nodes[n] EXCEPT !.priority = j] \in NodeType
      BY <3>1 DEF NodeType
    <3>4. (i > 0 => i - 1 \in 0 .. MaxPriority) /\ (i < MaxPriority => i + 1 \in 0 .. MaxPriority)
      BY <3>1, RoutingAssumption
    <3>5. [nodes[n] EXCEPT !.priority = @ - 1] = [nodes[n] EXCEPT !.priority = i - 1]
      BY <3>1
    <3>6. [nodes[n] EXCEPT !.priority = @ + 1] = [nodes[n] EXCEPT !.priority = i + 1]
      BY <3>1
    <3> QED
      BY <3>1, <3>2, <3>3, <3>4, <3>5, <3>6 DEF NodeType
  <2> QED
    BY <1>2, <2>2 DEF ChangeNode, PagesTypeOK
<1> QED
  BY <1>1, <1>2

(* Each step on the tables leaves typed rules, and touches one owner's.    *)
LEMMA TablesStep ==
  ASSUME PagesTypeOK, SourcesWhole, [PagesNext]_pagesVars
  PROVE  /\ Rows(rules') /\ Whole(rules', sources')
         /\ sources' \in [Sources -> SourceType \cup {Absent}]
         /\ nodes' \in [Upstreams -> NodeType \cup {Absent}]
         /\ rules' # rules => \E o \in Sources \cup {ByHand} : Touches(rules', o)
         /\ SavedAsShown
<1> DEFINE Goal == /\ Rows(rules') /\ Whole(rules', sources')
                   /\ sources' \in [Sources -> SourceType \cup {Absent}]
                   /\ nodes' \in [Upstreams -> NodeType \cup {Absent}]
                   /\ rules' # rules => \E o \in Sources \cup {ByHand} : Touches(rules', o)
                   /\ SavedAsShown
<1>a. Rows(rules) /\ Whole(rules, sources)
  BY RowsHold DEF SourcesWhole, Whole
<1>b. ASSUME save'.stage # "saved" \/ save.stage # "written" PROVE SavedAsShown
  BY <1>b DEF SavedAsShown
<1>c. /\ sources \in [Sources -> SourceType \cup {Absent}] /\ nodes \in [Upstreams -> NodeType \cup {Absent}]
      /\ save \in SaveType
  BY DEF PagesTypeOK
<1>d. ASSUME rules' = rules PROVE SavedAsShown
  BY <1>d DEF SavedAsShown
<1>1. ASSUME NEW s \in Sources, NEW e \in BOOLEAN, NEW p \in Ways, SaveSource(s, e, p) PROVE Goal
  <2>1. [enabled |-> e, policy |-> p] \in SourceType /\ [enabled |-> e, policy |-> p] # Absent
    BY RoutingAssumption DEF SourceType
  <2>2. \A t \in Sources : sources[t] # Absent => sources'[t] # Absent
    BY <1>1, <1>c, <2>1 DEF SaveSource
  <2>3. Whole(rules', sources')
    BY <1>1, <1>a, <2>2 DEF SaveSource, Whole
  <2> QED
    BY <1>1, <1>a, <1>c, <1>d, <2>1, <2>3 DEF SaveSource
<1>2. ASSUME NEW s \in Sources, DeleteSource(s) PROVE Goal
  BY <1>2, <1>b, <1>c, DeletedSource DEF DeleteSource, Request
<1>3. ASSUME NEW s \in Sources, ToggleSource(s) PROVE Goal
  <2>1. [sources[s] EXCEPT !.enabled = ~@] \in SourceType
    BY <1>3, <1>c DEF ToggleSource, SourceType
  <2>2. sources' \in [Sources -> SourceType \cup {Absent}]
    BY <1>3, <1>c, <2>1 DEF ToggleSource
  <2> QED
    BY <1>3, <1>b, <1>c, <2>2, ToggledSource DEF ToggleSource, Request
<1>4. ASSUME NEW s \in Sources, NEW keys \in SUBSET Keys, ImportSource(s, keys) PROVE Goal
  BY <1>4, <1>b, <1>c, ImportedSource DEF ImportSource, Request
<1>5. ASSUME NEW s \in Sources, ImportFails(s) PROVE Goal
  BY <1>5, <1>a, <1>c, <1>d DEF ImportFails, tables
<1>6. ASSUME NEW n \in Upstreams, (\E e \in BOOLEAN, i \in 0 .. MaxPriority : SaveNode(n, e, i)) \/ ChangeNode(n)
      PROVE  Goal
  <2>1. rules' = rules /\ sources' = sources
    BY <1>6 DEF SaveNode, ChangeNode
  <2> QED
    BY <1>6, <2>1, <1>a, <1>c, <1>d, NodesTyped
<1>7. CASE Commit
  <2>1. save.text \in Texts
    BY <1>c DEF SaveType
  <2> QED
    BY <1>7, <1>c, <2>1, SavedText DEF Commit, SavedAsShown
<1>8. CASE \/ \E text \in Texts, v \in Values : Submit(text, v)
           \/ WriteLists \/ Refuse \/ Report \/ SaveDies \/ Expire \/ StartReader \/ OnlyRead
           \/ StartApply \/ PressApply \/ ReadSettings \/ Apply \/ ApplyFails
           \/ UNCHANGED pagesVars
  <2>1. rules' = rules /\ sources' = sources /\ nodes' = nodes
    BY <1>8 DEF Submit, WriteLists, Refuse, Report, SaveDies, Expire, StartReader, OnlyRead, StartApply,
                PressApply, ReadSettings, Apply, ApplyFails, tables, pagesVars
  <2> QED
    BY <2>1, <1>a, <1>c, <1>d
<1> QED
  BY <1>1, <1>2, <1>3, <1>4, <1>5, <1>6, <1>7, <1>8 DEF PagesNext, EditTables

(* What is not in the tables.                                              *)
RestOK ==
  /\ setting \in Values /\ primary \in Values \cup {CutOff} /\ legacy \in Values \cup {CutOff}
  /\ cache \in Values \cup {Empty}
  /\ save \in SaveType /\ reader \in ReaderType /\ apply \in ApplyType /\ router \in RouterType
  /\ requests \in 0 .. MaxRequests /\ tainted \in BOOLEAN

LEMMA NothingTyped ==
  /\ NoSave \in SaveType /\ NoReader \in ReaderType /\ NoApply \in ApplyType /\ NoView \in ViewType
  /\ \A m \in BOOLEAN : [NoSave EXCEPT !.stage = "applying", !.misled = m] \in SaveType
<1>1. NoView \in ViewType
  BY RoutingAssumption DEF NoView, ViewType, RoutedType, ActiveType
<1>2. NoApply \in ApplyType
  BY <1>1, RoutingAssumption DEF NoApply, ApplyType
<1>3. {} \in Texts
  BY DEF Texts, Lines
<1>4. NoSave \in SaveType /\ NoReader \in ReaderType
  BY <1>3, RoutingAssumption DEF SaveType, ReaderType, NoSave, NoReader, Stages
<1>5. \A m \in BOOLEAN : [NoSave EXCEPT !.stage = "applying", !.misled = m] \in SaveType
  BY <1>3, <1>4, RoutingAssumption DEF SaveType, NoSave, Stages
<1> QED
  BY <1>1, <1>2, <1>4, <1>5

(* What the two who read the settings get, and leave in the cache.         *)
LEMMA AsksTyped ==
  ASSUME PagesTypeOK, NEW own \in Values, NEW p, p.crossed \in BOOLEAN, Asks(p, own)
  PROVE  cache' \in Values /\ tainted' \in BOOLEAN /\ Seen(own) \in Values
BY SeenTyped DEF Asks, PagesTypeOK

LEMMA StartedTyped ==
  ASSUME PagesTypeOK, Started
  PROVE  apply' \in ApplyType
<1>1. View \in ViewType
  BY ReadsTyped DEF View, ViewType, PagesTypeOK
<1>2. NoApply \in ApplyType
  BY NothingTyped
<1> QED
  BY <1>1, <1>2 DEF Started, ApplyType

LEMMA RestTyped ==
  ASSUME PagesTypeOK, [PagesNext]_pagesVars
  PROVE  RestOK'
<1>a. RestOK
  BY DEF PagesTypeOK, RestOK
<1>b. \A own \in Values : Seen(own) \in Values
  BY SeenTyped
<1>c. \A g \in Stages : [save EXCEPT !.stage = g] \in SaveType
  BY <1>a DEF RestOK, SaveType, Stages
<1>1. CASE EditTables
  <2>1. Request /\ UNCHANGED <<setting, files, cache, save, others, tainted>>
    BY <1>1 DEF EditTables, SaveSource, DeleteSource, ToggleSource, ImportSource, ImportFails, SaveNode, ChangeNode
  <2> QED
    BY <2>1, <1>a, RequestTyped DEF RestOK, files, others
<1>2. ASSUME NEW text \in Texts, NEW v \in Values, Submit(text, v) PROVE RestOK'
  <2>1. Seen(setting) \in Values
    BY <1>a, <1>b DEF RestOK
  <2>2. save' \in SaveType
    BY <1>2, <1>a DEF Submit, SaveType, Stages, RestOK
  <2>3. reader' \in ReaderType
    BY <1>2, <1>a DEF Submit, ReaderType, RestOK
  <2>4. apply' \in ApplyType
    BY <1>2, <1>a DEF Submit, ApplyType, RestOK
  <2>5. cache' \in Values \cup {Empty} /\ tainted' \in BOOLEAN
    BY <1>2, <2>1, <1>a DEF Submit, Forgotten, RestOK
  <2>6. Request /\ UNCHANGED <<setting, files, router>>
    BY <1>2 DEF Submit
  <2> QED
    BY <2>2, <2>3, <2>4, <2>5, <2>6, <1>a, RequestTyped DEF RestOK, files
<1>3. CASE WriteLists
  <2>1. save.value \in Values
    BY <1>a DEF SaveType, RestOK
  <2>2. save' \in SaveType
    BY <1>3, <1>c DEF WriteLists, Stages
  <2>3. primary' \in Values \cup {CutOff} /\ legacy' \in Values \cup {CutOff}
    BY <1>3, <2>1, <1>a DEF WriteLists, RestOK
  <2> QED
    BY <1>3, <2>2, <2>3, <1>a DEF WriteLists, RestOK, others
<1>4. CASE Refuse
  <2>1. save.value \in Values
    BY <1>a DEF SaveType, RestOK
  <2>2. cache' \in Values /\ tainted' \in BOOLEAN
    BY <1>4, <2>1, <1>a, <1>b DEF Refuse, RestOK
  <2> QED
    BY <1>4, <2>2, <1>a, NothingTyped DEF Refuse, RestOK, files, others
<1>5. CASE Commit
  <2>1. Stored \in Values
    BY <1>a DEF Stored, SaveType, RestOK
  <2>2. save' \in SaveType
    <3>1. {} \in Texts
      BY DEF Texts, Lines
    <3> QED
      BY <1>5, <3>1, <1>a DEF Commit, SaveType, Stages, RestOK
  <2> QED
    BY <1>5, <2>1, <2>2, <1>a DEF Commit, RestOK, files, others
<1>6. CASE Report \/ SaveDies \/ Expire \/ UNCHANGED pagesVars
  <2> QED
    BY <1>6, <1>a, NothingTyped DEF Report, SaveDies, Expire, RestOK, pagesVars, files, others
<1>7. CASE StartReader
  <2>1. reader' \in ReaderType
    BY <1>7, <1>a DEF StartReader, Saving, ReaderType, SaveType, RestOK
  <2> QED
    BY <1>7, <2>1, <1>a DEF StartReader, RestOK, files
<1>8. CASE OnlyRead
  <2>1. cache' \in Values /\ tainted' \in BOOLEAN
    BY <1>8, <1>a, AsksTyped DEF OnlyRead, ReaderType, RestOK
  <2> QED
    BY <1>8, <2>1, <1>a, NothingTyped DEF OnlyRead, RestOK, files
<1>9. CASE StartApply
  <2>1. save' \in SaveType
    BY <1>9, <1>a, NothingTyped DEF StartApply, RestOK, SaveType
  <2> QED
    BY <1>9, <2>1, <1>a, StartedTyped DEF StartApply, RestOK, files
<1>10. CASE PressApply
  <2>1. save' \in SaveType
    BY <1>10, NothingTyped DEF PressApply, NoSave, SaveType, Stages
  <2> QED
    BY <1>10, <2>1, <1>a, StartedTyped, RequestTyped DEF PressApply, RestOK, files
<1>11. CASE ReadSettings
  <2>1. apply.view.setting \in Values /\ apply.view \in ViewType /\ apply.crossed \in BOOLEAN
    BY <1>a DEF ApplyType, ViewType, RestOK
  <2>2. cache' \in Values /\ tainted' \in BOOLEAN /\ Seen(apply.view.setting) \in Values
    BY <1>11, <2>1, AsksTyped DEF ReadSettings
  <2>3. apply' \in ApplyType
    BY <1>11, <2>1, <2>2, <1>a, NothingTyped DEF ReadSettings, ApplyType, RestOK
  <2>4. save' \in SaveType
    BY <1>11, <2>2, <1>a DEF ReadSettings, SaveType, RestOK
  <2> QED
    BY <1>11, <2>2, <2>3, <2>4, <1>a DEF ReadSettings, RestOK, files
<1>12. CASE Apply
  <2> DEFINE view == IF apply.begun THEN apply.view ELSE View
  <2>1. view \in ViewType /\ apply.known \in Values
    BY <1>a, ReadsTyped DEF View, ViewType, ApplyType, RestOK
  <2>2. Lists \in Values \cup {Default}
    BY <1>a DEF Lists, RestOK
  <2>3. router' = [rules |-> view.rules, nodes |-> view.nodes, setting |-> apply.known, lists |-> Lists]
    BY <1>12 DEF Apply
  <2>4. router' \in RouterType
    BY <2>1, <2>2, <2>3 DEF ViewType, RouterType
  <2>5. save' \in SaveType
    BY <1>12, <1>a, <1>c DEF Apply, Stages, RestOK
  <2> QED
    BY <1>12, <2>4, <2>5, <1>a, NothingTyped DEF Apply, RestOK, files
<1>13. CASE ApplyFails
  BY <1>13, <1>a, NothingTyped DEF ApplyFails, RestOK, files
<1> QED
  BY <1>1, <1>2, <1>3, <1>4, <1>5, <1>6, <1>7, <1>8, <1>9, <1>10, <1>11, <1>12, <1>13 DEF PagesNext

(* PagesTypeOK and SourcesWhole together are inductive.                         *)
LEMMA RowsStep == PagesTypeOK /\ SourcesWhole /\ [PagesNext]_pagesVars => PagesTypeOK' /\ SourcesWhole'
<1> SUFFICES ASSUME PagesTypeOK, SourcesWhole, [PagesNext]_pagesVars PROVE PagesTypeOK' /\ SourcesWhole'
  OBVIOUS
<1>1. PagesTypeOK'
  BY TablesStep, RestTyped DEF PagesTypeOK, Rows, RestOK
<1>2. SourcesWhole'
  BY TablesStep DEF SourcesWhole, Whole
<1> QED
  BY <1>1, <1>2

LEMMA InitWhole == PagesInit => SourcesWhole
BY RoutingAssumption DEF PagesInit, SourcesWhole, NoRule

(* The types of tables, settings, cache, save, reader and router, for any     *)
(* constants; what is in the text of the form is enabled and direct        *)
(* whatever the sources do.                                                *)
THEOREM RoutingTypeCorrect == PagesSpec => []PagesTypeOK
<1>1. PagesInit => PagesTypeOK /\ SourcesWhole
  BY InitTyped, InitWhole
<1>2. PagesTypeOK /\ SourcesWhole /\ [PagesNext]_pagesVars => (PagesTypeOK /\ SourcesWhole)'
  BY RowsStep
<1> QED
  BY <1>1, <1>2, PTL DEF PagesSpec

(* No request takes or loses a rule of another owner, whatever is          *)
(* imported, switched, deleted or pasted (rule_source_import,              *)
(* rule_source_toggle, rule_source_delete, BusinessAdmin.post).            *)
THEOREM OwnersStayApart == PagesSpec => RulesStayApart
<1>1. PagesInit => PagesTypeOK /\ SourcesWhole
  BY InitTyped, InitWhole
<1>2. PagesTypeOK /\ SourcesWhole /\ [PagesNext]_pagesVars => (PagesTypeOK /\ SourcesWhole)'
  BY RowsStep
<1>3. PagesTypeOK /\ SourcesWhole /\ [PagesNext]_pagesVars => OneOwner /\ SavedAsShown
  <2> SUFFICES ASSUME PagesTypeOK, SourcesWhole, [PagesNext]_pagesVars PROVE OneOwner /\ SavedAsShown
    OBVIOUS
  <2>1. CASE rules' = rules
    BY <2>1, TablesStep DEF OneOwner
  <2>2. CASE rules' # rules
    BY <2>2, TablesStep DEF OneOwner, Touches
  <2> QED
    BY <2>1, <2>2
<1>4. PagesTypeOK /\ SourcesWhole /\ [PagesNext]_pagesVars => [OneOwner /\ SavedAsShown]_pagesVars
  BY <1>3
<1> QED
  BY <1>1, <1>2, <1>4, PTL DEF PagesSpec, RulesStayApart

-----------------------------------------------------------------------------
(* Saves, applies and the cache.                                           *)

Open == save.stage \in {"checked", "primary", "legacy", "written"}

(* The cache, and who may fill it beside a save.                           *)
CacheInv ==
  /\ ~tainted => cache \in {Empty, setting}
  /\ Saving => cache = Empty \/ tainted
  /\ reader.on /\ ~reader.crossed => reader.setting = setting
  /\ reader.on /\ Saving => reader.crossed
  /\ apply.pc = "open" /\ ~apply.crossed => apply.view.setting = setting
  /\ apply.pc = "open" /\ Saving => apply.crossed

(* The save, and the files it writes.                                      *)
SaveInv ==
  /\ Open /\ ~save.pending /\ ~save.misled => save.value = setting
  /\ save.stage \in {"legacy", "written", "saved"} => primary = save.value
  /\ save.stage = "saved" /\ ~save.misled => setting = save.value

(* The apply the panel waits for; an abandoned one is not bound.           *)
OwnInv ==
  /\ save.stage = "applying" /\ apply.pc = "open" => apply.view = View /\ ~apply.crossed
  /\ save.stage = "applying" /\ apply.pc = "known" =>
       /\ save.misled \/ apply.known = setting
       /\ apply.begun => apply.view = View
  /\ save.stage = "applied" => apply.pc = "off"

ReadInv == CacheInv /\ SaveInv /\ OwnInv /\ AppliedIsStored

LEMMA InitRead == PagesInit => ReadInv
BY DEF PagesInit, ReadInv, CacheInv, SaveInv, OwnInv, AppliedIsStored, Open, Saving, NoSave, NoReader, NoApply

(* What is on disk and in the tables is what is read, as long as neither   *)
(* changes.                                                                *)
LEMMA SameRead ==
  ASSUME UNCHANGED <<rules, nodes, setting>>
  PROVE  View' = View /\ Routed' = Routed /\ Active' = Active
BY DEF View, Routed, Active

LEMMA SameLists == ASSUME UNCHANGED files PROVE Lists' = Lists
BY DEF Lists, files

(* A step that leaves the save, the apply and what they read alone.        *)
LEMMA IdleRead ==
  ASSUME ReadInv, save.stage = "idle", save' = save, UNCHANGED <<setting, cache, others, tainted>>
  PROVE  ReadInv'
BY DEF ReadInv, CacheInv, SaveInv, OwnInv, AppliedIsStored, Open, Saving, others

(* The form is submitted.                                                  *)
LEMMA SubmitRead ==
  ASSUME PagesTypeOK, ReadInv, NEW text \in Texts, NEW v \in Values, Submit(text, v)
  PROVE  ReadInv'
<1>1. /\ save'.stage = "checked" /\ save'.value = v /\ save'.pending = (v # Seen(setting))
      /\ save'.misled = tainted
  BY DEF Submit
<1>2. /\ cache' = (IF v # Seen(setting) THEN Empty ELSE Seen(setting))
      /\ tainted' = (v = Seen(setting) /\ tainted)
      /\ setting' = setting
  BY DEF Submit, Forgotten
<1>3. reader'.on = reader.on /\ reader'.setting = reader.setting
      /\ reader'.crossed = (reader.on /\ (reader.crossed \/ v # Seen(setting)))
  BY DEF Submit, PagesTypeOK, ReaderType
<1>4. apply'.pc = apply.pc /\ apply'.view = apply.view
      /\ apply'.crossed = (apply.pc # "off" /\ (apply.crossed \/ v # Seen(setting)))
  BY DEF Submit, PagesTypeOK, ApplyType
<1>5. ~tainted => Seen(setting) = setting
  BY DEF ReadInv, CacheInv, Seen
<1>6. CacheInv'
  BY <1>1, <1>2, <1>3, <1>4, <1>5 DEF ReadInv, CacheInv, Saving
<1>7. SaveInv'
  BY <1>1, <1>2, <1>5 DEF SaveInv, Open
<1>8. OwnInv' /\ AppliedIsStored'
  BY <1>1 DEF OwnInv, AppliedIsStored
<1> QED
  BY <1>6, <1>7, <1>8 DEF ReadInv

LEMMA WriteRead ==
  ASSUME PagesTypeOK, ReadInv, WriteLists
  PROVE  ReadInv'
<1>1. /\ save.stage \in {"checked", "primary", "legacy"} /\ save'.stage \in {"primary", "legacy", "written"}
      /\ save'.value = save.value /\ save'.pending = save.pending /\ save'.misled = save.misled
  BY DEF WriteLists, PagesTypeOK, SaveType
<1>2. save'.stage \in {"legacy", "written"} => primary' = save.value
  BY DEF WriteLists, ReadInv, SaveInv, PagesTypeOK, SaveType
<1>3. UNCHANGED <<setting, cache, reader, apply, router, tainted>>
  BY DEF WriteLists, others
<1> QED
  BY <1>1, <1>2, <1>3 DEF ReadInv, CacheInv, SaveInv, OwnInv, AppliedIsStored, Open, Saving

(* The page is shown again.                                                *)
LEMMA RefuseRead ==
  ASSUME PagesTypeOK, ReadInv, Refuse
  PROVE  ReadInv'
<1>1. save'.stage = "idle" /\ ~save'.pending /\ UNCHANGED <<setting, reader, apply>>
  BY DEF Refuse, NoSave, others
<1>2. ~tainted' => cache' \in {Empty, setting}
  BY DEF Refuse, ReadInv, CacheInv, Seen
<1> QED
  BY <1>1, <1>2 DEF ReadInv, CacheInv, SaveInv, OwnInv, AppliedIsStored, Open, Saving

LEMMA CommitRead ==
  ASSUME PagesTypeOK, ReadInv, Commit
  PROVE  ReadInv'
<1>1. save'.stage = "saved" /\ save'.value = save.value /\ save'.misled = save.misled
  BY DEF Commit, PagesTypeOK, SaveType
<1>2. /\ save.stage = "written" /\ setting' = (IF save.pending THEN save.value ELSE setting)
      /\ UNCHANGED <<cache, reader, apply, tainted, primary>>
  BY DEF Commit, Stored, files, others
<1>3. CASE save.pending
  BY <1>1, <1>2, <1>3 DEF ReadInv, CacheInv, SaveInv, OwnInv, AppliedIsStored, Open, Saving
<1>4. CASE ~save.pending
  BY <1>1, <1>2, <1>4 DEF ReadInv, CacheInv, SaveInv, OwnInv, AppliedIsStored, Open, Saving
<1> QED
  BY <1>2, <1>3, <1>4 DEF PagesTypeOK, SaveType

(* The save is over, or lost.                                              *)
LEMMA EndRead ==
  ASSUME PagesTypeOK, ReadInv, Report \/ SaveDies
  PROVE  ReadInv'
<1>1. save'.stage = "idle" /\ UNCHANGED <<setting, cache, reader, apply, tainted>>
  BY DEF Report, SaveDies, NoSave, others
<1> QED
  BY <1>1 DEF ReadInv, CacheInv, SaveInv, OwnInv, AppliedIsStored, Open, Saving

(* The cache alone.                                                        *)
LEMMA ExpireRead ==
  ASSUME PagesTypeOK, ReadInv, Expire
  PROVE  ReadInv'
<1>1. /\ cache' = Empty /\ tainted' = FALSE
      /\ UNCHANGED <<rules, nodes, setting, primary, legacy, save, reader, apply, router>>
  BY DEF Expire, tables, files, others
<1>2. View' = View /\ Routed' = Routed /\ Active' = Active /\ Lists' = Lists
  BY <1>1, SameRead, SameLists DEF files
<1> QED
  BY <1>1, <1>2 DEF ReadInv, CacheInv, SaveInv, OwnInv, AppliedIsStored, Open, Saving

(* Another process reads, and may fill the cache.                          *)
LEMMA ReaderRead ==
  ASSUME PagesTypeOK, ReadInv, StartReader \/ OnlyRead
  PROVE  ReadInv'
<1>1. UNCHANGED <<rules, nodes, setting, primary, legacy, save, apply, router>>
  BY DEF StartReader, OnlyRead, tables, files
<1>2. View' = View /\ Routed' = Routed /\ Active' = Active /\ Lists' = Lists
  BY <1>1, SameRead, SameLists DEF files
<1>3. SaveInv' /\ OwnInv' /\ AppliedIsStored'
  BY <1>1, <1>2 DEF ReadInv, SaveInv, OwnInv, AppliedIsStored, Open
<1>4. CASE StartReader
  <2>1. reader'.setting = setting /\ reader'.crossed = Saving /\ UNCHANGED <<cache, tainted>>
    BY <1>4 DEF StartReader
  <2> QED
    BY <1>1, <1>3, <2>1 DEF ReadInv, CacheInv, Saving
<1>5. CASE OnlyRead
  <2>1. /\ ~reader'.on /\ reader.on
        /\ cache # Empty => cache' = cache /\ tainted' = tainted
        /\ cache = Empty => cache' = reader.setting /\ tainted' = (tainted \/ reader.crossed)
    BY <1>5 DEF OnlyRead, Asks, Seen, NoReader, PagesTypeOK
  <2>2. CASE cache # Empty
    BY <1>1, <1>3, <2>1, <2>2 DEF ReadInv, CacheInv, Saving
  <2>3. CASE cache = Empty
    BY <1>1, <1>3, <2>1, <2>3 DEF ReadInv, CacheInv, Saving
  <2> QED
    BY <2>2, <2>3
<1> QED
  BY <1>4, <1>5

(* The panel starts an apply: its view is what is stored.                  *)
LEMMA StartRead ==
  ASSUME PagesTypeOK, ReadInv, StartApply \/ PressApply
  PROVE  ReadInv'
<1>1. /\ save'.stage = "applying" /\ apply.pc = "off" /\ apply'.pc = "open" /\ apply'.view = View
      /\ ~apply'.crossed
  BY DEF StartApply, PressApply, Started, NoSave, NoApply
<1>2. UNCHANGED <<rules, nodes, setting, cache, reader, tainted>>
  BY DEF StartApply, PressApply, tables
<1>3. View' = View /\ View.setting = setting
  BY <1>2, SameRead DEF View
<1> QED
  BY <1>1, <1>2, <1>3 DEF ReadInv, CacheInv, SaveInv, OwnInv, AppliedIsStored, Open, Saving

(* The apply learns the settings.                                          *)
LEMMA SettingsRead ==
  ASSUME PagesTypeOK, ReadInv, ReadSettings
  PROVE  ReadInv'
<1>1. /\ apply.pc = "open" /\ apply'.pc = "known" /\ apply'.known = Seen(apply.view.setting)
      /\ apply'.begun = (cache = Empty)
      /\ cache = Empty => apply'.view = apply.view
  BY DEF ReadSettings, PagesTypeOK, ApplyType
<1>2. /\ cache # Empty => cache' = cache /\ tainted' = tainted
      /\ cache = Empty => cache' = apply.view.setting /\ tainted' = (tainted \/ apply.crossed)
  BY DEF ReadSettings, Asks, Seen, PagesTypeOK
<1>3. /\ save'.stage = save.stage /\ save'.value = save.value /\ save'.pending = save.pending
      /\ save'.misled = (save.misled \/ (save.stage = "applying" /\ tainted'))
      /\ UNCHANGED <<rules, nodes, setting, primary, legacy, reader, router>>
  BY DEF ReadSettings, PagesTypeOK, SaveType, tables, files
<1>4. View' = View /\ View.setting = setting
  BY <1>3, SameRead DEF View
<1>5. CacheInv'
  <2>1. CASE cache # Empty
    BY <1>1, <1>2, <1>3, <2>1 DEF ReadInv, CacheInv, Saving
  <2>2. CASE cache = Empty
    BY <1>1, <1>2, <1>3, <2>2 DEF ReadInv, CacheInv, Saving
  <2> QED
    BY <2>1, <2>2
<1>6. SaveInv'
  BY <1>3 DEF ReadInv, SaveInv, Open
<1>7. OwnInv' /\ AppliedIsStored'
  <2>1. ASSUME save.stage = "applying", ~save'.misled PROVE apply'.known = setting
    <3>1. CASE cache = Empty
      BY <1>1, <1>4, <2>1, <3>1 DEF ReadInv, OwnInv, Seen
    <3>2. CASE cache # Empty
      <4>1. ~tainted
        BY <1>2, <1>3, <2>1, <3>2
      <4>2. cache = setting
        BY <3>2, <4>1 DEF ReadInv, CacheInv
      <4> QED
        BY <1>1, <3>2, <4>2 DEF Seen
    <3> QED
      BY <3>1, <3>2
  <2>2. save.stage = "applying" /\ apply'.begun => apply'.view = View'
    BY <1>1, <1>4 DEF ReadInv, OwnInv
  <2>3. save'.stage # "applied"
    BY <1>1, <1>3 DEF ReadInv, OwnInv
  <2>4. save.misled => save'.misled
    BY <1>3
  <2> QED
    BY <1>1, <1>3, <2>1, <2>2, <2>3, <2>4 DEF OwnInv, AppliedIsStored
<1> QED
  BY <1>5, <1>6, <1>7 DEF ReadInv

(* The apply is over.                                                      *)
LEMMA ApplyRead ==
  ASSUME PagesTypeOK, ReadInv, Apply \/ ApplyFails
  PROVE  ReadInv'
<1>1. apply'.pc = "off" /\ UNCHANGED <<rules, nodes, setting, primary, legacy, cache, reader, tainted>>
  BY DEF Apply, ApplyFails, NoApply, tables, files
<1>2. View' = View /\ Routed' = Routed /\ Active' = Active /\ Lists' = Lists
  BY <1>1, SameRead, SameLists DEF files
<1>3. CASE ApplyFails
  <2>1. UNCHANGED <<save, router>>
    BY <1>3 DEF ApplyFails
  <2> QED
    BY <1>1, <1>2, <2>1 DEF ReadInv, CacheInv, SaveInv, OwnInv, AppliedIsStored, Open, Saving
<1>4. CASE Apply
  <2> DEFINE view == IF apply.begun THEN apply.view ELSE View
  <2>1. /\ apply.pc = "known"
        /\ router' = [rules |-> view.rules, nodes |-> view.nodes, setting |-> apply.known, lists |-> Lists]
    BY <1>4 DEF Apply
  <2>2. /\ save'.stage = (IF save.stage = "applying" THEN "applied" ELSE save.stage)
        /\ save'.value = save.value /\ save'.pending = save.pending /\ save'.misled = save.misled
    BY <1>4 DEF Apply, PagesTypeOK, SaveType
  <2>3. save.stage # "applied"
    BY <2>1 DEF ReadInv, OwnInv
  <2>4. ASSUME save.stage = "applying", ~save.misled
        PROVE  router' = [rules |-> Routed, nodes |-> Active, setting |-> setting, lists |-> Lists]
    <3>1. apply.known = setting /\ view = View
      BY <2>1, <2>4 DEF ReadInv, OwnInv
    <3> QED
      BY <2>1, <3>1 DEF View
  <2>5. AppliedIsStored'
    BY <1>1, <1>2, <2>2, <2>3, <2>4 DEF AppliedIsStored
  <2> QED
    BY <1>1, <2>2, <2>5 DEF ReadInv, CacheInv, SaveInv, OwnInv, Open, Saving
<1> QED
  BY <1>3, <1>4

LEMMA ReadStep == PagesTypeOK /\ ReadInv /\ [PagesNext]_pagesVars => ReadInv'
<1> SUFFICES ASSUME PagesTypeOK, ReadInv, [PagesNext]_pagesVars PROVE ReadInv'
  OBVIOUS
<1>1. CASE EditTables
  <2>1. save.stage = "idle" /\ UNCHANGED <<setting, cache, save, others, tainted>>
    BY <1>1 DEF EditTables, SaveSource, DeleteSource, ToggleSource, ImportSource, ImportFails, SaveNode, ChangeNode,
                Request
  <2> QED
    BY <2>1, IdleRead
<1>2. CASE UNCHANGED pagesVars
  <2>1. UNCHANGED <<rules, nodes, setting, primary, legacy, cache, save, reader, apply, router, tainted>>
    BY <1>2 DEF pagesVars, tables, files, others
  <2>2. View' = View /\ Routed' = Routed /\ Active' = Active /\ Lists' = Lists
    BY <2>1, SameRead, SameLists DEF files
  <2> QED
    BY <2>1, <2>2 DEF ReadInv, CacheInv, SaveInv, OwnInv, AppliedIsStored, Open, Saving
<1> QED
  BY <1>1, <1>2, SubmitRead, WriteRead, RefuseRead, CommitRead, EndRead, ExpireRead, ReaderRead, StartRead,
     SettingsRead, ApplyRead DEF PagesNext

LEMMA PagesInvariant == PagesSpec => [](PagesTypeOK /\ ReadInv)
<1>1. PagesInit => PagesTypeOK /\ SourcesWhole /\ ReadInv
  BY InitTyped, InitWhole, InitRead
<1>2. PagesTypeOK /\ SourcesWhole /\ ReadInv /\ [PagesNext]_pagesVars => (PagesTypeOK /\ SourcesWhole /\ ReadInv)'
  BY RowsStep, ReadStep
<1> QED
  BY <1>1, <1>2, PTL DEF PagesSpec

(* What a save reports as saved is in the database and in the file that is *)
(* read, unless the cache it was compared with had been filled beside an   *)
(* earlier save (BusinessAdmin.post, set_hconfig, get_hconfigs).           *)
THEOREM SavesAreStored == PagesSpec => []SavedIsStored
<1>1. PagesTypeOK /\ ReadInv => SavedIsStored
  <2> SUFFICES ASSUME PagesTypeOK, ReadInv, save.stage = "saved"
               PROVE  Lists = save.value /\ (~save.misled => setting = save.value)
    BY DEF SavedIsStored
  <2>1. primary = save.value /\ save.value \in Values
    BY DEF ReadInv, SaveInv, PagesTypeOK, SaveType
  <2>2. primary # CutOff
    BY <2>1, RoutingAssumption
  <2> QED
    BY <2>1, <2>2 DEF Lists, ReadInv, SaveInv
<1> QED
  BY <1>1, PagesInvariant, PTL

(* When the apply of a save, or of the button, is reported to have         *)
(* succeeded, the router was made of what is stored: the rules, the nodes, *)
(* the lists, and the settings though they come through the cache, unless  *)
(* the cache was filled beside a save (commercial_routing, get_hconfigs).  *)
THEOREM AppliesAreOfWhatIsStored == PagesSpec => []AppliedIsStored
<1>1. ReadInv => AppliedIsStored
  BY DEF ReadInv
<1> QED
  BY <1>1, PagesInvariant, PTL
=============================================================================
