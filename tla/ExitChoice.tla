------------------------------ MODULE ExitChoice ------------------------------
(***************************************************************************)
(* What the auto-director promises, without its counters, smoothing and    *)
(* dwell times: an exit is chosen among the countries on verdicts about    *)
(* them; AUTO closes only when every country is down, opens only to one    *)
(* that is good, and the choice that is remembered over a restart is as    *)
(* sound as one that was just made.                                        *)
(***************************************************************************)
CONSTANTS Countries, Closed, Undecided

VARIABLES choice, verdict, kept

Verdicts == {"down", "shaky", "good"}

(* A choice that its own verdicts support. *)
Sound(c, v) ==
  /\ c \in Countries => v[c] # "down"
  /\ c = Closed => \A n \in Countries : v[n] # "good"

AllDown == [n \in Countries |-> "down"]

Init ==
  /\ choice = Undecided
  /\ verdict = AllDown
  /\ kept = <<Undecided, AllDown>>

(* One cycle: new verdicts, and a choice that follows from them.           *)
Judge ==
  /\ verdict' \in [Countries -> Verdicts]
  /\ choice' \in Countries \cup {Closed, Undecided}
  /\ Sound(choice', verdict')
  /\ choice' = Undecided => choice = Undecided
  /\ choice' = Closed /\ choice # Closed => verdict' = AllDown
  /\ choice = Closed /\ choice' # Closed => verdict'[choice'] = "good"
  /\ UNCHANGED kept

(* What is remembered is sound, whoever wrote it.                          *)
Remember ==
  /\ kept' \in (Countries \cup {Closed, Undecided}) \X [Countries -> Verdicts]
  /\ Sound(kept'[1], kept'[2])
  /\ UNCHANGED <<choice, verdict>>

Forget ==
  /\ choice' = Undecided
  /\ verdict' = AllDown
  /\ UNCHANGED kept

Recall ==
  /\ choice' = kept[1]
  /\ verdict' = kept[2]
  /\ UNCHANGED kept

Next == Judge \/ Remember \/ Forget \/ Recall

Spec == Init /\ [][Next]_<<choice, verdict, kept>>
==============================================================================
