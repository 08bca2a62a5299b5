-------------------------- MODULE DirectorRefinement --------------------------
(***************************************************************************)
(* The daemon implements ExitChoice: its choice is the choice, the verdict *)
(* on a country is read off its counters, and state.json is what is kept.  *)
(***************************************************************************)
EXTENDS AutoDirector

VerdictOf(d) ==
  [n \in Countries |->
     IF ~Healthy(d, n) THEN "down"
     ELSE IF d.ok[n] >= RecoverCycles THEN "good" ELSE "shaky"]

Promise == INSTANCE ExitChoice WITH
  choice <- mem[Daemon].cur,
  verdict <- VerdictOf(mem[Daemon]),
  kept <- <<disk.cur, VerdictOf(disk)>>

(* Every step of the system is a step of the selector or none: a choice    *)
(* is always supported by the verdicts it was made on, AUTO is closed only *)
(* on "everything is down" and opened only to a country that came back,    *)
(* and that holds for a choice read back from the file.                    *)
KeepsPromise == Promise!Spec
==============================================================================
