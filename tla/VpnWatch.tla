------------------------------ MODULE VpnWatch ------------------------------
(***************************************************************************)
(* vpn-watch: the monitoring of a node.  Two timers start short runs, the  *)
(* fast checks and the per-node probes; the runs share one state.json, one *)
(* lock and one queue of messages to the owner's Telegram chat.            *)
(*   Monitor.apply     counters, hysteresis, repeats, recovery notices     *)
(*   Monitor.notify    the queue of messages not yet delivered             *)
(*   main              the lock, and the save at the very end              *)
(*                                                                         *)
(* A message is the set of facts it tells.  Time is counted in ticks and   *)
(* only as far as the code compares it: `quiet` since the last alert of a  *)
(* check (up to Repeat), `unseen` since its last report (up to Forget).    *)
(***************************************************************************)
EXTENDS Naturals, Sequences, FiniteSets

CONSTANTS
  None,
  Fast, Nodes,     \* the checks of the two kinds of run
  Gate,            \* [Checks -> Checks \cup {None}]: c is reported only while
                   \* its gate does not fail; a gate reports only failures
  Need,            \* [Checks -> Nat]: failing runs before an alert
  Repeat,          \* ticks between two alerts of one failure
  Forget,          \* ticks without a report until a check is dropped
  QueueMax,        \* messages kept while they cannot be delivered
  MaxChanges,      \* bound on changes of what is watched
  MaxEvents,       \* bound on events (a changed file, a restarted service)
  MaxKills         \* bound on killed runs

Checks == Fast \cup Nodes
Kinds  == {"fast", "nodes"}
ChecksOf(kind) == IF kind = "fast" THEN Fast ELSE Nodes
Gates == {Gate[c] : c \in Checks} \ {None}

ASSUME WatchAssumption ==
  /\ Fast \cap Nodes = {}
  /\ None \notin Checks
  /\ Gate \in [Checks -> Checks \cup {None}]
  /\ \A c \in Checks : Gate[c] # None =>
        Gate[Gate[c]] = None /\ (Gate[c] \in Fast <=> c \in Fast)
  /\ Need \in [Checks -> Nat \ {0}]
  /\ {Repeat, Forget, QueueMax} \subseteq Nat \ {0}
  /\ {MaxChanges, MaxEvents, MaxKills} \subseteq Nat

VARIABLES
  up,         \* what is watched: does it work?
  version,    \* and the number of events so far
  telegram,   \* can a message be delivered?
  state,      \* state.json
  pc, mem,    \* per kind: where its run is, and its copy of the state
  told,       \* the owner's last word about each check
  heard,      \* and the last event he was told of
  streak,     \* failing reports in a row, as they really were
  overflow,   \* has the queue been over its limit, has it lost a message?
  changes, kills

world  == <<up, version, telegram, changes>>
owner  == <<told, heard>>
vars   == <<world, state, pc, mem, owner, streak, overflow, kills>>

-----------------------------------------------------------------------------
Fresh == [fails |-> 0, alerted |-> FALSE, quiet |-> 0, unseen |-> 0]

NoMemory == [checks |-> [c \in Checks |-> Fresh], seen |-> 0,
             kept |-> <<>>, todo |-> <<>>]

Init ==
  /\ up = [c \in Checks |-> TRUE] /\ version = 0 /\ telegram = TRUE
  /\ state = [checks |-> [c \in Checks |-> Fresh], seen |-> 0, pending |-> <<>>]
  /\ pc = [k \in Kinds |-> "idle"] /\ mem = [k \in Kinds |-> NoMemory]
  /\ told = [c \in Checks |-> "nothing"] /\ heard = 0
  /\ streak = [c \in Checks |-> 0] /\ overflow = "no"
  /\ changes = 0 /\ kills = 0

(* What is watched, and the way to Telegram, change at any time.           *)
Changes(c) ==
  /\ changes < MaxChanges
  /\ changes' = changes + 1 /\ up' = [up EXCEPT ![c] = ~@]
  /\ UNCHANGED <<version, telegram, state, pc, mem, owner, streak, overflow, kills>>

Happens ==
  /\ version < MaxEvents
  /\ version' = version + 1
  /\ UNCHANGED <<up, telegram, changes, state, pc, mem, owner, streak, overflow, kills>>

TelegramFlips ==
  /\ telegram' = ~telegram
  /\ UNCHANGED <<up, version, changes, state, pc, mem, owner, streak, overflow, kills>>

UpTo(n, limit) == IF n < limit THEN n ELSE limit

(* A check without a failure has nothing that could be forgotten.          *)
Older(e) == [e EXCEPT !.quiet  = IF e.alerted THEN UpTo(@ + 1, Repeat) ELSE 0,
                      !.unseen = IF e.fails > 0 THEN UpTo(@ + 1, Forget) ELSE 0]

(* Time passes between runs.                                               *)
Tick ==
  /\ \A k \in Kinds : pc[k] = "idle"
  /\ state' = [state EXCEPT !.checks = [c \in Checks |-> Older(@[c])]]
  /\ state' # state
  /\ UNCHANGED <<world, pc, mem, owner, streak, overflow, kills>>

-----------------------------------------------------------------------------
(* A run.  The lock is taken first, then the state is read.                *)

(* Without the lock, for the mutation checks.                              *)
Unlocked(kind) == pc[kind] = "idle"

LockIsFree(kind) == \A k \in Kinds : pc[k] = "idle"

Begin(kind) ==
  /\ LockIsFree(kind)
  /\ pc'  = [pc EXCEPT ![kind] = "loaded"]
  /\ mem' = [mem EXCEPT ![kind] =
               [checks |-> state.checks, seen |-> state.seen,
                kept |-> state.pending, todo |-> <<>>]]
  /\ UNCHANGED <<world, state, owner, streak, overflow, kills>>

(* What a run reports of a check.                                          *)
Hidden(c) == Gate[c] # None /\ ~up[Gate[c]]
Report(c) == IF Hidden(c) THEN "none"
             ELSE IF ~up[c] THEN "fail"
             ELSE IF c \in Gates THEN "none" ELSE "ok"

Failing(c, e) == [e EXCEPT !.fails = UpTo(@ + 1, Need[c]), !.unseen = 0]

(* Careless, for the mutation checks: a failure is told once, no repeats;  *)
(* it is told one run too soon.                                            *)
DueOnce(c, e)    == e.fails >= Need[c] /\ ~e.alerted
DueTooSoon(c, e) == e.fails + 1 >= Need[c] /\ (~e.alerted \/ e.quiet >= Repeat)

Due(c, e) == e.fails >= Need[c] /\ (~e.alerted \/ e.quiet >= Repeat)

Failed(c, e) ==
  LET f == Failing(c, e)
  IN IF Due(c, f) THEN [f EXCEPT !.alerted = TRUE, !.quiet = 0] ELSE f

Good(e) == Fresh

(* Monitor.apply: every reported check of this kind, then the forgetting.  *)
Counted(kind, checks) ==
  [c \in Checks |->
     IF c \notin ChecksOf(kind) THEN checks[c]
     ELSE CASE Report(c) = "ok"   -> Good(checks[c])
            [] Report(c) = "fail" -> Failed(c, checks[c])
            [] OTHER -> IF checks[c].unseen >= Forget THEN Fresh ELSE checks[c]]

Alerts(kind, checks) ==
  {c \in ChecksOf(kind) : Report(c) = "fail" /\ Due(c, Failing(c, checks[c]))}

Recoveries(kind, checks) ==
  {c \in ChecksOf(kind) : Report(c) = "ok" /\ checks[c].alerted}

(* One message per run, events first seen by the fast run included.        *)
Message(kind, m) ==
  [down  |-> Alerts(kind, m.checks),
   back  |-> Recoveries(kind, m.checks),
   event |-> IF kind = "fast" THEN version ELSE 0]

Worth(kind, m, msg) ==
  msg.down # {} \/ msg.back # {} \/ (kind = "fast" /\ version # m.seen)

(* notify looks at the last QueueMax messages; what is before them stays.  *)
Split(queue) ==
  LET over == IF Len(queue) > QueueMax THEN Len(queue) - QueueMax ELSE 0
  IN [kept |-> SubSeq(queue, 1, over),
      todo |-> SubSeq(queue, over + 1, Len(queue))]

Evaluate(kind) ==
  LET m     == mem[kind]
      msg   == Message(kind, m)
      queue == IF Worth(kind, m, msg) THEN Append(m.kept, msg) ELSE m.kept
  IN /\ pc[kind] = "loaded"
     /\ pc'  = [pc EXCEPT ![kind] = "sending"]
     /\ mem' = [mem EXCEPT ![kind] =
                  [checks |-> Counted(kind, m.checks),
                   seen   |-> IF kind = "fast" THEN version ELSE m.seen,
                   kept   |-> Split(queue).kept,
                   todo   |-> Split(queue).todo]]
     /\ streak' = [c \in Checks |->
                     IF c \notin ChecksOf(kind) \/ Report(c) = "none" THEN streak[c]
                     ELSE IF Report(c) = "fail" THEN UpTo(streak[c] + 1, Need[c])
                     ELSE 0]
     /\ overflow' = IF overflow = "no" /\ Len(queue) > QueueMax THEN "full" ELSE overflow
     /\ UNCHANGED <<world, state, owner, kills>>

(* The owner reads a message.  (Telegram.send cuts a text at 3900          *)
(* characters: what is cut off counts as told here, as it does there.)     *)
Reads(msg) ==
  /\ told' = [c \in Checks |-> IF c \in msg.down THEN "down"
                               ELSE IF c \in msg.back THEN "back" ELSE told[c]]
  /\ heard' = IF msg.event > heard THEN msg.event ELSE heard

Send(kind) ==
  /\ pc[kind] = "sending" /\ mem[kind].todo # <<>>
  /\ telegram
  /\ Reads(Head(mem[kind].todo))
  /\ mem' = [mem EXCEPT ![kind].todo = Tail(@)]
  /\ UNCHANGED <<world, state, pc, streak, overflow, kills>>

LastOnes(queue) == Split(queue).todo

(* The first message that does not go through ends the sending; it may     *)
(* have arrived all the same, its answer lost.                             *)
SendFails(kind) ==
  /\ pc[kind] = "sending" /\ mem[kind].todo # <<>>
  /\ ~telegram
  /\ pc' = [pc EXCEPT ![kind] = "unsaved"]
  /\ Reads(Head(mem[kind].todo)) \/ UNCHANGED owner
  /\ UNCHANGED <<world, state, mem, streak, overflow, kills>>

AllSent(kind) ==
  /\ pc[kind] = "sending" /\ mem[kind].todo = <<>>
  /\ pc' = [pc EXCEPT ![kind] = "unsaved"]
  /\ UNCHANGED <<world, state, mem, owner, streak, overflow, kills>>

(* Careless, for the mutation checks: undelivered messages are kept        *)
(* without a limit.                                                        *)
KeepsEverything(m) == m.kept \o m.todo

Undelivered(m) == LastOnes(m.kept \o m.todo)

Save(kind) ==
  LET m == mem[kind] IN
  /\ pc[kind] = "unsaved"
  /\ state' = [checks |-> m.checks, seen |-> m.seen, pending |-> Undelivered(m)]
  /\ overflow' = IF Len(m.kept) + Len(m.todo) > QueueMax THEN "lost" ELSE overflow
  /\ pc'  = [pc EXCEPT ![kind] = "idle"]
  /\ mem' = [mem EXCEPT ![kind] = NoMemory]
  /\ UNCHANGED <<world, owner, streak, kills>>

(* systemd's start timeout, or the operator, kills a run; nothing of it is *)
(* in state.json before the save.                                          *)
Kill(kind) ==
  /\ kills < MaxKills /\ pc[kind] # "idle"
  /\ kills' = kills + 1
  /\ pc'  = [pc EXCEPT ![kind] = "idle"]
  /\ mem' = [mem EXCEPT ![kind] = NoMemory]
  /\ UNCHANGED <<world, state, owner, streak, overflow>>

RunStep(kind) ==
  Evaluate(kind) \/ Send(kind) \/ SendFails(kind) \/ AllSent(kind) \/ Save(kind)

Next ==
  \/ \E c \in Checks : Changes(c)
  \/ Happens \/ TelegramFlips \/ Tick
  \/ \E kind \in Kinds : Begin(kind) \/ RunStep(kind) \/ Kill(kind)

Spec == Init /\ [][Next]_vars

(* The timers fire for ever, a run that finds the lock taken polls it, and *)
(* time passes.                                                            *)
Timers ==
  /\ \A kind \in Kinds : SF_vars(Begin(kind)) /\ WF_vars(RunStep(kind))
  /\ SF_vars(Tick)

LiveSpec == Spec /\ Timers

-----------------------------------------------------------------------------
(* Properties.                                                             *)

EntryType == [fails : Nat, alerted : BOOLEAN, quiet : 0 .. Repeat, unseen : 0 .. Forget]
TableType == [Checks -> EntryType]
MessageType == [down : SUBSET Checks, back : SUBSET Checks, event : 0 .. MaxEvents]
MemoryType == [checks : TableType, seen : 0 .. MaxEvents,
               kept : Seq(MessageType), todo : Seq(MessageType)]

(* Every variable has its type, counters within their thresholds; the      *)
(* queue in state.json is never over its limit (notify, the last slice).   *)
TypeOK ==
  /\ up \in [Checks -> BOOLEAN] /\ version \in 0 .. MaxEvents /\ telegram \in BOOLEAN
  /\ state \in [checks : TableType, seen : 0 .. MaxEvents, pending : Seq(MessageType)]
  /\ Len(state.pending) <= QueueMax
  /\ \A c \in Checks : state.checks[c].fails <= Need[c]
  /\ pc \in [Kinds -> {"idle", "loaded", "sending", "unsaved"}]
  /\ mem \in [Kinds -> MemoryType]
  /\ told \in [Checks -> {"nothing", "down", "back"}] /\ heard \in 0 .. MaxEvents
  /\ streak \in [Checks -> Nat] /\ \A c \in Checks : streak[c] <= Need[c]
  /\ overflow \in {"no", "full", "lost"}
  /\ changes \in 0 .. MaxChanges /\ kills \in 0 .. MaxKills

AtRest == \A k \in Kinds : pc[k] = "idle"

(* An alert, and every repeat of it, is about a check that failed in the   *)
(* last Need[c] runs that reported it, whichever runs of the other kind    *)
(* came between ("3 failing runs = critical, 5 = warning", vpn_watch.py 8).*)
(* A killed run forgets what it saw, so that none was killed is a premise. *)
AlertIsEarned ==
  [][\A k \in Kinds : kills = 0 /\ pc[k] = "loaded" /\ pc'[k] = "sending" =>
       \A c \in Alerts(k, mem[k].checks) : streak'[c] >= Need[c]]_vars

(* When every message is delivered and no run was killed, what the owner   *)
(* read last about a check is what the monitor believes of it.             *)
Agrees == \A c \in Checks : (told[c] = "down") <=> state.checks[c].alerted

LastWord == AtRest /\ kills = 0 /\ state.pending = <<>> /\ overflow = "no" => Agrees

(* What state.json counts as said is said or waits to be said, whenever a  *)
(* run is killed: an alert and an event are never taken for told before.   *)
SaidOrWaiting ==
  AtRest /\ overflow = "no" =>
    /\ \A c \in Checks : state.checks[c].alerted =>
          \/ told[c] # "nothing"
          \/ \E i \in DOMAIN state.pending : c \in state.pending[i].down
    /\ \/ heard >= state.seen
       \/ \E i \in DOMAIN state.pending : state.pending[i].event = state.seen

(* What the owner is told and what state.json holds for told agree, after  *)
(* every run.                                                              *)
MemoryIsRight == SaidOrWaiting /\ LastWord

(* What stays broken is told, and the owner is not left with the opposite, *)
(* whatever runs were killed and messages lost before.                     *)
OutageIsTold ==
  \A c \in Checks :
    <>[](~up[c] /\ ~Hidden(c)) /\ <>[]telegram => <>[](told[c] = "down")

(* Who was told of a failure is told of its end, if no run was killed: the *)
(* alert of a killed run may be sent and not saved, and then nothing is    *)
(* known of an outage to be ended.                                         *)
RecoveryIsTold ==
  \A c \in Checks :
    <>[](up[c] /\ ~Hidden(c)) /\ <>[]telegram /\ [](overflow = "no" /\ kills = 0)
      => <>[](told[c] # "down")

(* Every event is told.                                                    *)
EventIsTold == <>[]telegram /\ [](overflow # "lost") => []<>(heard = version)

(* Once Telegram answers again, the owner hears of all that is to be heard.*)
NewsArrives == OutageIsTold /\ RecoveryIsTold /\ EventIsTold
=============================================================================
