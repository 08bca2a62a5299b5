---------------------------- MODULE VpnWatchProofs ----------------------------
(***************************************************************************)
(* What the monitor remembers is right, for any number of checks, runs,    *)
(* messages and kills.                                                     *)
(*                                                                         *)
(* The argument follows a queue of messages together with the table of     *)
(* counters it belongs to: state.json's while no run is under way, the     *)
(* run's own copy otherwise.  The lock makes the copy of a run the only    *)
(* one.  What a table holds for said has been said or is in its queue; and *)
(* whoever reads the queue to its end is left with what the table          *)
(* believes, whether or not some of it was read before.                    *)
(***************************************************************************)
EXTENDS VpnWatch, TLAPS

Ended == {"sending", "unsaved"}

(* No check hides another: every run reports every check of its kind.      *)
NoGates == \A c \in Checks : Gate[c] = None

OneRun == \A j, k \in Kinds : pc[j] # "idle" /\ pc[k] # "idle" => j = k

Counters == \A k \in Kinds, c \in Checks : mem[k].checks[c].fails <= Need[c]

(* Between its start and its verdict a run holds what state.json says.     *)
Copied ==
  \A k \in Kinds : pc[k] = "loaded" =>
    /\ mem[k].checks = state.checks /\ mem[k].seen = state.seen
    /\ mem[k].kept = state.pending

Roomy ==
  overflow = "no" =>
    \A k \in Kinds : pc[k] \in Ended => mem[k].kept = <<>> /\ Len(mem[k].todo) <= QueueMax

Typed == TypeOK /\ OneRun /\ Counters /\ Copied /\ Roomy

(* A counter is not ahead of the failures there were.                      *)
NotAhead ==
  kills = 0 =>
    /\ AtRest => \A c \in Checks : state.checks[c].fails <= streak[c]
    /\ \A k \in Kinds : pc[k] # "idle" =>
         \A c \in Checks : mem[k].checks[c].fails <= streak[c]

(* What a table holds for said was said, or is in the queue.               *)
Said(table, seen, queue) ==
  /\ \A c \in Checks : table[c].alerted =>
        told[c] # "nothing" \/ \E i \in DOMAIN queue : c \in queue[i].down
  /\ heard >= seen \/ \E i \in DOMAIN queue : queue[i].event = seen

AllSaid ==
  overflow = "no" =>
    /\ Said(state.checks, state.seen, state.pending)
    /\ \A k \in Kinds : pc[k] \in Ended => Said(mem[k].checks, mem[k].seen, mem[k].todo)

(* Who reads the queue to its end is left with what the table believes.    *)
Names(msg, c) == c \in msg.down \/ c \in msg.back

EndsWith(table, queue) ==
  \A c \in Checks :
    /\ (\A i \in DOMAIN queue : ~Names(queue[i], c)) =>
          (told[c] = "down" <=> table[c].alerted)
    /\ \A i \in DOMAIN queue :
          Names(queue[i], c) /\ (\A j \in DOMAIN queue : j > i => ~Names(queue[j], c)) =>
            (c \in queue[i].down <=> table[c].alerted)

Understood ==
  kills = 0 /\ overflow = "no" =>
    /\ AtRest => EndsWith(state.checks, state.pending)
    /\ \A k \in Kinds : pc[k] = "loaded" => EndsWith(state.checks, state.pending)
    /\ \A k \in Kinds : pc[k] \in Ended => EndsWith(mem[k].checks, mem[k].todo)

(***************************************************************************)
(* Counters and queues.                                                    *)
(***************************************************************************)

LEMMA FreshTyped == Fresh \in EntryType /\ Fresh.fails = 0 /\ ~Fresh.alerted
  BY WatchAssumption DEF Fresh, EntryType

LEMMA FailingFields ==
  ASSUME NEW c \in Checks, NEW e \in EntryType
  PROVE  /\ Failing(c, e) \in EntryType
         /\ Failing(c, e).fails = UpTo(e.fails + 1, Need[c])
         /\ Failing(c, e).alerted = e.alerted
<1>1. Need[c] \in Nat /\ e.fails \in Nat
  BY WatchAssumption DEF EntryType
<1>2. UpTo(e.fails + 1, Need[c]) \in Nat /\ 0 \in 0 .. Forget
  BY <1>1, WatchAssumption DEF UpTo
<1>3. PICK n \in Nat : n = UpTo(e.fails + 1, Need[c])
  BY <1>2
<1>4. Failing(c, e) = [e EXCEPT !.fails = n, !.unseen = 0]
  BY <1>3 DEF Failing
<1>5. QED
  BY <1>2, <1>3, <1>4 DEF EntryType

LEMMA FailedFields ==
  ASSUME NEW c \in Checks, NEW e \in EntryType
  PROVE  /\ Failed(c, e) \in EntryType
         /\ Failed(c, e).fails = UpTo(e.fails + 1, Need[c])
         /\ Due(c, Failing(c, e)) => Failed(c, e).alerted
         /\ ~Due(c, Failing(c, e)) => Failed(c, e).alerted = e.alerted
<1>1. PICK f \in EntryType : f = Failing(c, e)
  BY FailingFields
<1>2. f.fails = UpTo(e.fails + 1, Need[c]) /\ f.alerted = e.alerted
  BY <1>1, FailingFields
<1>3. Failed(c, e) = IF Due(c, f) THEN [f EXCEPT !.alerted = TRUE, !.quiet = 0] ELSE f
  BY <1>1 DEF Failed
<1>4. CASE Due(c, f)
  <2>1. 0 \in 0 .. Repeat /\ TRUE \in BOOLEAN
    BY WatchAssumption
  <2>2. PICK g : g = [f EXCEPT !.alerted = TRUE, !.quiet = 0]
    OBVIOUS
  <2>3. g \in EntryType /\ g.fails = f.fails /\ g.alerted
    BY <2>1, <2>2 DEF EntryType
  <2>4. QED
    BY <1>1, <1>2, <1>3, <1>4, <2>2, <2>3
<1>5. CASE ~Due(c, f)
  BY <1>1, <1>2, <1>3, <1>5
<1>6. QED
  BY <1>4, <1>5

LEMMA OlderFields ==
  ASSUME NEW e \in EntryType
  PROVE  Older(e) \in EntryType /\ Older(e).fails = e.fails /\ Older(e).alerted = e.alerted
<1>1. Repeat \in Nat /\ Forget \in Nat
  BY WatchAssumption
<1>2. e.quiet \in Nat /\ e.unseen \in Nat
  BY <1>1 DEF EntryType
<1>3. PICK q \in 0 .. Repeat : q = IF e.alerted THEN UpTo(e.quiet + 1, Repeat) ELSE 0
  BY <1>1, <1>2 DEF UpTo
<1>4. PICK u \in 0 .. Forget : u = IF e.fails > 0 THEN UpTo(e.unseen + 1, Forget) ELSE 0
  BY <1>1, <1>2 DEF UpTo
<1>5. Older(e) = [e EXCEPT !.quiet = q, !.unseen = u]
  BY <1>3, <1>4 DEF Older, EntryType
<1>6. QED
  BY <1>5 DEF EntryType

(* What a run makes of an entry, by what it reports.                       *)
LEMMA CountedFields ==
  ASSUME NEW kind \in Kinds, NEW table \in TableType, NEW c \in Checks
  PROVE  LET now == Counted(kind, table)[c] IN
         /\ now \in EntryType
         /\ c \notin ChecksOf(kind) => now = table[c]
         /\ c \in ChecksOf(kind) /\ Report(c) = "fail" => now = Failed(c, table[c])
         /\ c \in ChecksOf(kind) /\ Report(c) = "ok" => now = Fresh
         /\ c \in ChecksOf(kind) /\ Report(c) = "none" => now = table[c] \/ now = Fresh
<1>1. table[c] \in EntryType
  BY DEF TableType
<1>2. Report(c) \in {"ok", "fail", "none"}
  BY DEF Report
<1>3. Counted(kind, table)[c] =
        IF c \notin ChecksOf(kind) THEN table[c]
        ELSE CASE Report(c) = "ok"   -> Good(table[c])
               [] Report(c) = "fail" -> Failed(c, table[c])
               [] OTHER -> IF table[c].unseen >= Forget THEN Fresh ELSE table[c]
  BY DEF Counted
<1>4. Good(table[c]) = Fresh
  BY DEF Good
<1>5. QED
  BY <1>1, <1>2, <1>3, <1>4, FreshTyped, FailedFields

LEMMA CountedTyped ==
  ASSUME NEW kind \in Kinds, NEW table \in TableType,
         \A c \in Checks : table[c].fails <= Need[c]
  PROVE  /\ Counted(kind, table) \in TableType
         /\ \A c \in Checks : Counted(kind, table)[c].fails <= Need[c]
<1>1. Counted(kind, table) \in TableType
  BY CountedFields DEF TableType, Counted
<1>2. ASSUME NEW c \in Checks PROVE Counted(kind, table)[c].fails <= Need[c]
  <2>1. Need[c] \in Nat /\ table[c] \in EntryType /\ table[c].fails \in Nat
    BY WatchAssumption DEF TableType, EntryType
  <2>2. Failed(c, table[c]).fails <= Need[c]
    BY <2>1, FailedFields DEF UpTo
  <2>3. Report(c) \in {"ok", "fail", "none"}
    BY DEF Report
  <2>4. QED
    BY <2>1, <2>2, <2>3, CountedFields, FreshTyped
<1>3. QED
  BY <1>1, <1>2

LEMMA MessageTyped ==
  ASSUME TypeOK, NEW kind \in Kinds, NEW m
  PROVE  Message(kind, m) \in MessageType
<1>1. Alerts(kind, m.checks) \in SUBSET Checks /\ Recoveries(kind, m.checks) \in SUBSET Checks
  BY DEF Alerts, Recoveries, ChecksOf, Checks
<1>2. version \in 0 .. MaxEvents /\ 0 \in 0 .. MaxEvents
  BY WatchAssumption DEF TypeOK
<1>3. QED
  BY <1>1, <1>2 DEF Message, MessageType

(* The limit of the queue cuts off what is too much, and nothing else.     *)
LEMMA SplitTyped ==
  ASSUME NEW T, NEW queue \in Seq(T)
  PROVE  /\ Split(queue).kept \in Seq(T) /\ Split(queue).todo \in Seq(T)
         /\ Len(Split(queue).todo) <= QueueMax
         /\ Len(queue) <= QueueMax => Split(queue).kept = <<>> /\ Split(queue).todo = queue
<1>1. QueueMax \in Nat \ {0} /\ Len(queue) \in Nat
  BY WatchAssumption
<1>2. PICK over : over = IF Len(queue) > QueueMax THEN Len(queue) - QueueMax ELSE 0
  OBVIOUS
<1>3. over \in 0 .. Len(queue) /\ Len(queue) - over <= QueueMax
  BY <1>1, <1>2
<1>4. /\ Split(queue).kept = SubSeq(queue, 1, over)
      /\ Split(queue).todo = SubSeq(queue, over + 1, Len(queue))
  BY <1>2 DEF Split
<1>5. /\ SubSeq(queue, 1, over) \in Seq(T) /\ SubSeq(queue, over + 1, Len(queue)) \in Seq(T)
      /\ Len(SubSeq(queue, over + 1, Len(queue))) = Len(queue) - over
  BY <1>1, <1>3
<1>6. ASSUME Len(queue) <= QueueMax PROVE Split(queue).kept = <<>> /\ Split(queue).todo = queue
  <2>1. over = 0
    BY <1>1, <1>2, <1>6
  <2>2. SubSeq(queue, 1, 0) = <<>> /\ SubSeq(queue, 1, Len(queue)) = queue
    BY <1>1
  <2>3. QED
    BY <1>4, <2>1, <2>2
<1>7. QED
  BY <1>3, <1>4, <1>5, <1>6

(***************************************************************************)
(* Types, one run at a time.                                               *)
(***************************************************************************)

LEMMA NoMemoryTyped ==
  NoMemory \in MemoryType /\ \A c \in Checks : NoMemory.checks[c].fails <= Need[c]
<1>1. [c \in Checks |-> Fresh] \in TableType
  BY FreshTyped DEF TableType
<1>2. 0 \in 0 .. MaxEvents /\ <<>> \in Seq(MessageType)
  BY WatchAssumption
<1>3. NoMemory \in MemoryType
  BY <1>1, <1>2 DEF NoMemory, MemoryType
<1>4. \A c \in Checks : NoMemory.checks[c].fails <= Need[c]
  BY FreshTyped, WatchAssumption DEF NoMemory
<1>5. QED
  BY <1>3, <1>4

LEMMA InitTyped == Init => Typed
<1> SUFFICES ASSUME Init PROVE Typed
  OBVIOUS
<1>1. [c \in Checks |-> Fresh] \in TableType
  BY FreshTyped DEF TableType
<1>2. 0 \in 0 .. MaxEvents /\ <<>> \in Seq(MessageType) /\ Len(<<>>) <= QueueMax
  BY WatchAssumption
<1>3. /\ state \in [checks : TableType, seen : 0 .. MaxEvents, pending : Seq(MessageType)]
      /\ Len(state.pending) <= QueueMax
      /\ \A c \in Checks : state.checks[c].fails <= Need[c]
  BY <1>1, <1>2, FreshTyped, WatchAssumption DEF Init
<1>4. mem \in [Kinds -> MemoryType] /\ Counters
  BY NoMemoryTyped DEF Init, Counters
<1>5. TypeOK
  BY <1>2, <1>3, <1>4, WatchAssumption DEF Init, TypeOK
<1>6. QED
  BY <1>4, <1>5 DEF Init, Typed, OneRun, Copied, Roomy, Ended

(* The run that is under way is the only one.                              *)
LEMMA OthersIdle ==
  ASSUME OneRun, NEW kind \in Kinds, pc[kind] # "idle"
  PROVE  \A k \in Kinds : k # kind => pc[k] = "idle"
  BY DEF OneRun

LEMMA WorldTyped ==
  ASSUME Typed, UNCHANGED <<state, pc, mem, owner, streak, overflow, kills>>, TypeOK'
  PROVE  Typed'
  BY DEF Typed, OneRun, Counters, Copied, Roomy, Ended

LEMMA TickTyped ==
  ASSUME Typed, Tick
  PROVE  Typed'
<1>1. /\ \A k \in Kinds : pc[k] = "idle"
      /\ UNCHANGED <<world, pc, mem, owner, streak, overflow, kills>>
      /\ state' = [state EXCEPT !.checks = [c \in Checks |-> Older(@[c])]]
  BY DEF Tick
<1>2. PICK table : table = [c \in Checks |-> Older(state.checks[c])]
  OBVIOUS
<1>3. state' = [state EXCEPT !.checks = table]
  BY <1>1, <1>2 DEF Typed, TypeOK
<1>4. state.checks \in TableType
  BY DEF Typed, TypeOK
<1>5. table \in TableType /\ \A c \in Checks : table[c].fails = state.checks[c].fails
  BY <1>2, <1>4, OlderFields DEF TableType
<1>6. /\ state' \in [checks : TableType, seen : 0 .. MaxEvents, pending : Seq(MessageType)]
      /\ Len(state'.pending) <= QueueMax
      /\ \A c \in Checks : state'.checks[c].fails <= Need[c]
  BY <1>3, <1>5 DEF Typed, TypeOK
<1>7. TypeOK'
  BY <1>1, <1>6 DEF Typed, TypeOK, world, owner
<1>8. QED
  BY <1>1, <1>7 DEF Typed, OneRun, Counters, Copied, Roomy, Ended

LEMMA BeginTyped ==
  ASSUME Typed, NEW kind \in Kinds, Begin(kind)
  PROVE  Typed'
<1>1. /\ \A k \in Kinds : pc[k] = "idle"
      /\ pc' = [pc EXCEPT ![kind] = "loaded"]
      /\ UNCHANGED <<world, state, owner, streak, overflow, kills>>
  BY DEF Begin, LockIsFree
<1>2. PICK m : m = [checks |-> state.checks, seen |-> state.seen,
                    kept |-> state.pending, todo |-> <<>>]
  OBVIOUS
<1>3. mem' = [mem EXCEPT ![kind] = m]
  BY <1>2 DEF Begin
<1>4. m \in MemoryType /\ \A c \in Checks : m.checks[c].fails <= Need[c]
  BY <1>2 DEF Typed, TypeOK, MemoryType
<1>5. TypeOK'
  BY <1>1, <1>3, <1>4 DEF Typed, TypeOK, world, owner
<1>6. OneRun' /\ Copied' /\ Counters' /\ Roomy'
  BY <1>1, <1>2, <1>3, <1>4 DEF Typed, TypeOK, OneRun, Copied, Counters, Roomy, Ended
<1>7. QED
  BY <1>5, <1>6 DEF Typed

(* The queue after the verdict, and what of it is tried.                   *)
Queue(kind) ==
  IF Worth(kind, mem[kind], Message(kind, mem[kind]))
  THEN Append(mem[kind].kept, Message(kind, mem[kind])) ELSE mem[kind].kept

Seen(kind) == IF kind = "fast" THEN version ELSE mem[kind].seen

LEMMA EvaluateFields ==
  ASSUME Typed, NEW kind \in Kinds, Evaluate(kind)
  PROVE  /\ pc[kind] = "loaded" /\ pc' = [pc EXCEPT ![kind] = "sending"]
         /\ mem' = [mem EXCEPT ![kind] = mem'[kind]]
         /\ mem'[kind].checks = Counted(kind, mem[kind].checks)
         /\ mem'[kind].seen = Seen(kind)
         /\ mem'[kind].kept = Split(Queue(kind)).kept
         /\ mem'[kind].todo = Split(Queue(kind)).todo
         /\ mem'[kind] \in MemoryType
         /\ Queue(kind) \in Seq(MessageType)
         /\ overflow' = IF overflow = "no" /\ Len(Queue(kind)) > QueueMax THEN "full" ELSE overflow
         /\ UNCHANGED <<world, state, owner, kills>>
<1>1. PICK m : m = [checks |-> Counted(kind, mem[kind].checks), seen |-> Seen(kind),
                    kept |-> Split(Queue(kind)).kept, todo |-> Split(Queue(kind)).todo]
  OBVIOUS
<1>2. mem' = [mem EXCEPT ![kind] = m]
  BY <1>1 DEF Evaluate, Queue, Seen
<1>3. mem[kind] \in MemoryType /\ \A c \in Checks : mem[kind].checks[c].fails <= Need[c]
  BY DEF Typed, TypeOK, Counters
<1>4. Queue(kind) \in Seq(MessageType)
  <2>1. PICK msg \in MessageType : msg = Message(kind, mem[kind])
    BY MessageTyped DEF Typed
  <2>2. mem[kind].kept \in Seq(MessageType)
    BY <1>3 DEF MemoryType
  <2>3. QED
    BY <2>1, <2>2 DEF Queue
<1>5. Counted(kind, mem[kind].checks) \in TableType
  BY <1>3, CountedTyped DEF MemoryType
<1>6. Seen(kind) \in 0 .. MaxEvents
  BY <1>3 DEF Seen, Typed, TypeOK, MemoryType
<1>7. Split(Queue(kind)).kept \in Seq(MessageType) /\ Split(Queue(kind)).todo \in Seq(MessageType)
  BY <1>4, SplitTyped
<1>8. m \in MemoryType
  BY <1>1, <1>5, <1>6, <1>7 DEF MemoryType
<1>9. mem'[kind] = m
  BY <1>2 DEF Typed, TypeOK
<1>10. /\ pc[kind] = "loaded" /\ pc' = [pc EXCEPT ![kind] = "sending"]
       /\ UNCHANGED <<world, state, owner, kills>>
  BY DEF Evaluate
<1>11. overflow' = IF overflow = "no" /\ Len(Queue(kind)) > QueueMax THEN "full" ELSE overflow
  BY DEF Evaluate, Queue
<1>12. mem' = [mem EXCEPT ![kind] = mem'[kind]]
  BY <1>2, <1>9
<1>13. /\ m.checks = Counted(kind, mem[kind].checks) /\ m.seen = Seen(kind)
       /\ m.kept = Split(Queue(kind)).kept /\ m.todo = Split(Queue(kind)).todo
  BY <1>1
<1>14. QED
  BY <1>4, <1>8, <1>9, <1>10, <1>11, <1>12, <1>13, Zenon

LEMMA EvaluateTyped ==
  ASSUME Typed, NEW kind \in Kinds, Evaluate(kind)
  PROVE  Typed'
<1>1. /\ pc[kind] = "loaded" /\ pc' = [pc EXCEPT ![kind] = "sending"]
      /\ mem' = [mem EXCEPT ![kind] = mem'[kind]] /\ mem'[kind] \in MemoryType
      /\ UNCHANGED <<world, state, owner, kills>>
  BY EvaluateFields
<1>2. \A k \in Kinds : k # kind => pc[k] = "idle"
  BY <1>1, OthersIdle DEF Typed
<1>3. \A c \in Checks : mem'[kind].checks[c].fails <= Need[c]
  <2>1. mem[kind].checks \in TableType /\ \A c \in Checks : mem[kind].checks[c].fails <= Need[c]
    BY DEF Typed, TypeOK, MemoryType, Counters
  <2>2. \A c \in Checks : Counted(kind, mem[kind].checks)[c].fails <= Need[c]
    BY <2>1, CountedTyped
  <2>3. mem'[kind].checks = Counted(kind, mem[kind].checks)
    BY EvaluateFields
  <2>4. QED
    BY <2>2, <2>3
<1>4. streak' \in [Checks -> Nat] /\ \A c \in Checks : streak'[c] <= Need[c]
  <2>1. \A c \in Checks : streak[c] \in Nat /\ streak[c] <= Need[c] /\ Need[c] \in Nat
    BY WatchAssumption DEF Typed, TypeOK
  <2>2. streak' = [c \in Checks |->
                     IF c \notin ChecksOf(kind) \/ Report(c) = "none" THEN streak[c]
                     ELSE IF Report(c) = "fail" THEN UpTo(streak[c] + 1, Need[c])
                     ELSE 0]
    BY DEF Evaluate
  <2>3. \A c \in Checks : UpTo(streak[c] + 1, Need[c]) \in Nat
                          /\ UpTo(streak[c] + 1, Need[c]) <= Need[c]
    BY <2>1 DEF UpTo
  <2>4. QED
    BY <2>1, <2>2, <2>3
<1>5. overflow' \in {"no", "full", "lost"}
  BY EvaluateFields DEF Typed, TypeOK
<1>6. TypeOK'
  BY <1>1, <1>4, <1>5 DEF Typed, TypeOK, world, owner
<1>7. OneRun' /\ Copied'
  BY <1>1, <1>2 DEF Typed, TypeOK, OneRun, Copied
<1>8. Counters'
  BY <1>1, <1>3 DEF Typed, TypeOK, Counters
<1>9. Roomy'
  <2>1. ASSUME overflow' = "no"
        PROVE  mem'[kind].kept = <<>> /\ Len(mem'[kind].todo) <= QueueMax
    <3>1. Queue(kind) \in Seq(MessageType) /\ Len(Queue(kind)) <= QueueMax
      BY <2>1, EvaluateFields, WatchAssumption
    <3>2. QED
      BY <3>1, EvaluateFields, SplitTyped
  <2>2. QED
    BY <1>1, <1>2, <2>1 DEF Typed, TypeOK, Roomy, Ended
<1>10. QED
  BY <1>6, <1>7, <1>8, <1>9 DEF Typed

LEMMA SendFields ==
  ASSUME Typed, NEW kind \in Kinds, Send(kind)
  PROVE  /\ pc[kind] = "sending" /\ mem[kind].todo # <<>>
         /\ UNCHANGED <<world, state, pc, streak, overflow, kills>>
         /\ mem[kind].todo \in Seq(MessageType) /\ mem'[kind].todo = Tail(mem[kind].todo)
         /\ \A k \in Kinds : mem'[k].checks = mem[k].checks /\ mem'[k].seen = mem[k].seen
         /\ \A k \in Kinds : k # kind => mem'[k] = mem[k]
<1>1. /\ pc[kind] = "sending" /\ mem[kind].todo # <<>>
      /\ UNCHANGED <<world, state, pc, streak, overflow, kills>>
  BY DEF Send
<1>2. mem[kind] \in MemoryType /\ mem[kind].todo \in Seq(MessageType)
  BY DEF Typed, TypeOK, MemoryType
<1>3. PICK m : m = [mem[kind] EXCEPT !.todo = Tail(mem[kind].todo)]
  OBVIOUS
<1>4. mem' = [mem EXCEPT ![kind] = m]
  BY <1>3 DEF Send, Typed, TypeOK
<1>5. mem'[kind] = m /\ \A k \in Kinds : k # kind => mem'[k] = mem[k]
  BY <1>4 DEF Typed, TypeOK
<1>6. m.checks = mem[kind].checks /\ m.seen = mem[kind].seen /\ m.todo = Tail(mem[kind].todo)
  BY <1>2, <1>3 DEF MemoryType
<1>7. QED
  BY <1>1, <1>2, <1>5, <1>6

LEMMA SendTyped ==
  ASSUME Typed, NEW kind \in Kinds, Send(kind)
  PROVE  Typed'
<1>1. /\ pc[kind] = "sending" /\ mem[kind].todo # <<>>
      /\ UNCHANGED <<world, state, pc, streak, overflow, kills>>
      /\ Reads(Head(mem[kind].todo))
  BY DEF Send
<1>2. mem[kind] \in MemoryType /\ mem[kind].todo \in Seq(MessageType)
  BY DEF Typed, TypeOK, MemoryType
<1>3. PICK m : m = [mem[kind] EXCEPT !.todo = Tail(mem[kind].todo)]
  OBVIOUS
<1>4. mem' = [mem EXCEPT ![kind] = m]
  BY <1>3 DEF Send, Typed, TypeOK
<1>5. /\ Tail(mem[kind].todo) \in Seq(MessageType) /\ Head(mem[kind].todo) \in MessageType
      /\ Len(Tail(mem[kind].todo)) <= Len(mem[kind].todo) /\ Len(mem[kind].todo) \in Nat
      /\ Len(Tail(mem[kind].todo)) \in Nat
  BY <1>1, <1>2
<1>6. /\ m \in MemoryType /\ m.checks = mem[kind].checks /\ m.kept = mem[kind].kept
      /\ m.todo = Tail(mem[kind].todo)
  BY <1>2, <1>3, <1>5 DEF MemoryType
<1>7. told' \in [Checks -> {"nothing", "down", "back"}] /\ heard' \in 0 .. MaxEvents
  BY <1>1, <1>5 DEF Reads, Typed, TypeOK, MessageType
<1>8. TypeOK'
  BY <1>1, <1>4, <1>6, <1>7 DEF Typed, TypeOK, world
<1>9. OneRun' /\ Copied'
  BY <1>1, <1>4 DEF Typed, TypeOK, OneRun, Copied
<1>10. Counters'
  BY <1>4, <1>6 DEF Typed, TypeOK, Counters
<1>11. Roomy'
  <2>1. \A k \in Kinds : k # kind => mem'[k] = mem[k]
    BY <1>4 DEF Typed, TypeOK
  <2>2. mem'[kind].kept = mem[kind].kept /\ Len(mem'[kind].todo) <= Len(mem[kind].todo)
    BY <1>4, <1>5, <1>6 DEF Typed, TypeOK
  <2>3. ASSUME overflow = "no" PROVE mem'[kind].kept = <<>> /\ Len(mem'[kind].todo) <= QueueMax
    <3>1. mem[kind].kept = <<>> /\ Len(mem[kind].todo) <= QueueMax
      BY <1>1, <2>3 DEF Typed, Roomy, Ended
    <3>2. QED
      BY <1>4, <1>5, <1>6, <2>2, <3>1, WatchAssumption DEF Typed, TypeOK
  <2>4. QED
    BY <1>1, <2>1, <2>3 DEF Typed, Roomy
<1>12. QED
  BY <1>8, <1>9, <1>10, <1>11 DEF Typed

LEMMA StopTyped ==
  ASSUME Typed, NEW kind \in Kinds, SendFails(kind) \/ AllSent(kind)
  PROVE  Typed'
<1>1. /\ pc[kind] = "sending" /\ pc' = [pc EXCEPT ![kind] = "unsaved"]
      /\ UNCHANGED <<world, state, mem, streak, overflow, kills>>
  BY DEF SendFails, AllSent
<1>2. told' \in [Checks -> {"nothing", "down", "back"}] /\ heard' \in 0 .. MaxEvents
  <2>1. CASE UNCHANGED owner
    BY <2>1 DEF owner, Typed, TypeOK
  <2>2. CASE mem[kind].todo # <<>> /\ Reads(Head(mem[kind].todo))
    <3>1. mem[kind].todo \in Seq(MessageType)
      BY DEF Typed, TypeOK, MemoryType
    <3>2. Head(mem[kind].todo) \in MessageType
      BY <2>2, <3>1
    <3>3. QED
      BY <2>2, <3>2 DEF Reads, Typed, TypeOK, MessageType
  <2>3. QED
    BY <2>1, <2>2 DEF SendFails, AllSent
<1>3. TypeOK'
  BY <1>1, <1>2 DEF Typed, TypeOK, world
<1>4. OneRun' /\ Copied' /\ Counters' /\ Roomy'
  BY <1>1 DEF Typed, TypeOK, OneRun, Copied, Counters, Roomy, Ended
<1>5. QED
  BY <1>3, <1>4 DEF Typed

LEMMA SaveFields ==
  ASSUME Typed, NEW kind \in Kinds, Save(kind)
  PROVE  /\ pc[kind] = "unsaved" /\ pc' = [pc EXCEPT ![kind] = "idle"]
         /\ mem' = [mem EXCEPT ![kind] = NoMemory]
         /\ state'.checks = mem[kind].checks /\ state'.seen = mem[kind].seen
         /\ state' \in [checks : TableType, seen : 0 .. MaxEvents, pending : Seq(MessageType)]
         /\ Len(state'.pending) <= QueueMax
         /\ overflow = "no" => state'.pending = mem[kind].todo /\ overflow' = "no"
         /\ overflow' \in {"lost", overflow}
         /\ UNCHANGED <<world, owner, streak, kills>>
<1>1. /\ pc[kind] = "unsaved" /\ pc' = [pc EXCEPT ![kind] = "idle"]
      /\ mem' = [mem EXCEPT ![kind] = NoMemory]
      /\ state' = [checks |-> mem[kind].checks, seen |-> mem[kind].seen,
                   pending |-> Undelivered(mem[kind])]
      /\ overflow' = IF Len(mem[kind].kept) + Len(mem[kind].todo) > QueueMax
                     THEN "lost" ELSE overflow
      /\ UNCHANGED <<world, owner, streak, kills>>
  BY DEF Save
<1>2. /\ mem[kind].checks \in TableType /\ mem[kind].seen \in 0 .. MaxEvents
      /\ mem[kind].kept \in Seq(MessageType) /\ mem[kind].todo \in Seq(MessageType)
  BY DEF Typed, TypeOK, MemoryType
<1>3. PICK queue \in Seq(MessageType) : queue = mem[kind].kept \o mem[kind].todo
  <2>1. \A s, t \in Seq(MessageType) : s \o t \in Seq(MessageType)
    OBVIOUS
  <2>2. QED
    BY <1>2, <2>1
<1>4. Undelivered(mem[kind]) = Split(queue).todo
  BY <1>3 DEF Undelivered, LastOnes
<1>5. Undelivered(mem[kind]) \in Seq(MessageType) /\ Len(Undelivered(mem[kind])) <= QueueMax
  BY <1>4, SplitTyped
<1>6. ASSUME overflow = "no"
      PROVE  Undelivered(mem[kind]) = mem[kind].todo /\ overflow' = "no"
  <2>1. mem[kind].kept = <<>> /\ Len(mem[kind].todo) <= QueueMax
    BY <1>1, <1>6 DEF Typed, Roomy, Ended
  <2>2. queue = mem[kind].todo
    <3>1. \A t \in Seq(MessageType) : <<>> \o t = t
      OBVIOUS
    <3>2. QED
      BY <1>2, <1>3, <2>1, <3>1
  <2>3. Len(mem[kind].kept) + Len(mem[kind].todo) <= QueueMax
    <3>1. Len(mem[kind].kept) = 0
      BY <2>1
    <3>2. \A t \in Seq(MessageType) : Len(t) \in Nat
      OBVIOUS
    <3>3. QED
      BY <1>2, <2>1, <3>1, <3>2, WatchAssumption
  <2>4. overflow' = "no"
    <3>1. Len(mem[kind].kept) \in Nat /\ Len(mem[kind].todo) \in Nat
      BY <1>2
    <3>2. PICK m \in Nat, n \in Nat : m = Len(mem[kind].kept) /\ n = Len(mem[kind].todo)
      BY <3>1
    <3>3. m + n <= QueueMax /\ QueueMax \in Nat
      BY <2>3, <3>2, WatchAssumption
    <3>4. ~ (m + n > QueueMax)
      BY <3>3
    <3>5. QED
      BY <1>1, <1>6, <3>2, <3>4, Zenon
  <2>5. QED
    BY <1>4, <2>1, <2>2, <2>4, SplitTyped
<1>7. QED
  BY <1>1, <1>2, <1>5, <1>6

LEMMA SaveTyped ==
  ASSUME Typed, NEW kind \in Kinds, Save(kind)
  PROVE  Typed'
<1>1. /\ pc[kind] = "unsaved" /\ pc' = [pc EXCEPT ![kind] = "idle"]
      /\ mem' = [mem EXCEPT ![kind] = NoMemory]
      /\ state'.checks = mem[kind].checks
      /\ state' \in [checks : TableType, seen : 0 .. MaxEvents, pending : Seq(MessageType)]
      /\ Len(state'.pending) <= QueueMax
      /\ overflow' \in {"lost", overflow}
      /\ UNCHANGED <<world, owner, streak, kills>>
  BY SaveFields
<1>2. \A k \in Kinds : pc'[k] = "idle"
  BY <1>1, OthersIdle DEF Typed, TypeOK
<1>3. \A c \in Checks : state'.checks[c].fails <= Need[c]
  BY <1>1 DEF Typed, Counters
<1>4. TypeOK'
  BY <1>1, <1>3, NoMemoryTyped DEF Typed, TypeOK, world, owner
<1>5. Counters'
  BY <1>1, NoMemoryTyped DEF Typed, TypeOK, Counters
<1>6. QED
  BY <1>2, <1>4, <1>5 DEF Typed, OneRun, Copied, Roomy, Ended

LEMMA KillTyped ==
  ASSUME Typed, NEW kind \in Kinds, Kill(kind)
  PROVE  Typed'
<1>1. /\ pc[kind] # "idle" /\ pc' = [pc EXCEPT ![kind] = "idle"]
      /\ mem' = [mem EXCEPT ![kind] = NoMemory]
      /\ kills' = kills + 1 /\ kills < MaxKills
      /\ UNCHANGED <<world, state, owner, streak, overflow>>
  BY DEF Kill
<1>2. \A k \in Kinds : pc'[k] = "idle"
  BY <1>1, OthersIdle DEF Typed, TypeOK
<1>3. kills' \in 0 .. MaxKills
  BY <1>1, WatchAssumption DEF Typed, TypeOK
<1>4. TypeOK'
  BY <1>1, <1>3, NoMemoryTyped DEF Typed, TypeOK, world, owner
<1>5. Counters'
  BY <1>1, NoMemoryTyped DEF Typed, TypeOK, Counters
<1>6. QED
  BY <1>2, <1>4, <1>5 DEF Typed, OneRun, Copied, Roomy, Ended

(* What is watched changes, and nothing else.                              *)
LEMMA WorldFields ==
  ASSUME Typed, (\E c \in Checks : Changes(c)) \/ Happens \/ TelegramFlips \/ UNCHANGED vars
  PROVE  UNCHANGED <<state, pc, mem, owner, streak, overflow, kills>> /\ TypeOK'
<1>1. UNCHANGED <<state, pc, mem, owner, streak, overflow, kills>>
  BY DEF Changes, Happens, TelegramFlips, vars
<1>2. UNCHANGED <<told, heard>>
  BY <1>1 DEF owner
<1>3. /\ up' \in [Checks -> BOOLEAN] /\ version' \in 0 .. MaxEvents /\ telegram' \in BOOLEAN
      /\ changes' \in 0 .. MaxChanges
  <2>1. CASE \E c \in Checks : Changes(c)
    <3>1. PICK c \in Checks : Changes(c)
      BY <2>1
    <3>2. up' = [up EXCEPT ![c] = ~up[c]] /\ version' = version /\ telegram' = telegram
      BY <3>1 DEF Changes
    <3>3. up' \in [Checks -> BOOLEAN]
      BY <3>2, Zenon DEF Typed, TypeOK
    <3>4. changes' \in 0 .. MaxChanges
      BY <3>1, WatchAssumption DEF Changes, Typed, TypeOK
    <3>5. QED
      BY <3>2, <3>3, <3>4 DEF Typed, TypeOK
  <2>2. CASE Happens
    BY <2>2, WatchAssumption DEF Happens, Typed, TypeOK
  <2>3. CASE TelegramFlips
    BY <2>3 DEF TelegramFlips, Typed, TypeOK
  <2>4. CASE UNCHANGED vars
    BY <2>4 DEF vars, world, Typed, TypeOK
  <2>5. QED
    BY <2>1, <2>2, <2>3, <2>4
<1>4. TypeOK'
  BY <1>1, <1>2, <1>3 DEF Typed, TypeOK
<1>5. QED
  BY <1>1, <1>4

LEMMA StepTyped == Typed /\ [Next]_vars => Typed'
<1> SUFFICES ASSUME Typed, [Next]_vars PROVE Typed'
  OBVIOUS
<1>1. CASE (\E c \in Checks : Changes(c)) \/ Happens \/ TelegramFlips \/ UNCHANGED vars
  BY <1>1, WorldFields, WorldTyped
<1>2. CASE Tick
  BY <1>2, TickTyped
<1>3. ASSUME NEW kind \in Kinds, Begin(kind) \/ RunStep(kind) \/ Kill(kind) PROVE Typed'
  BY <1>3, BeginTyped, EvaluateTyped, SendTyped, StopTyped, SaveTyped, KillTyped DEF RunStep
<1>4. QED
  BY <1>1, <1>2, <1>3 DEF Next

(***************************************************************************)
(* Alerts are earned.                                                      *)
(***************************************************************************)

LEMMA KillsOnce ==
  ASSUME Typed, [Next]_vars, kills' = 0
  PROVE  kills = 0 /\ \A k \in Kinds : ~Kill(k)
<1>1. kills \in Nat
  BY WatchAssumption DEF Typed, TypeOK
<1>2. \A k \in Kinds : ~Kill(k)
  BY <1>1 DEF Kill
<1>3. QED
  BY <1>2 DEF Next, Changes, Happens, TelegramFlips, Tick, Begin, RunStep, Evaluate, Send,
              SendFails, AllSent, Save, vars

(* The verdict counts a failure where there was one.                       *)
LEMMA VerdictNotAhead ==
  ASSUME Typed, NEW kind \in Kinds, Evaluate(kind), NEW c \in Checks,
         mem[kind].checks[c].fails <= streak[c]
  PROVE  /\ Counted(kind, mem[kind].checks)[c].fails <= streak'[c]
         /\ c \in Alerts(kind, mem[kind].checks) => streak'[c] >= Need[c]
<1>1. PICK table \in TableType : table = mem[kind].checks
  BY DEF Typed, TypeOK, MemoryType
<1>2. PICK e \in EntryType : e = table[c] /\ e.fails \in Nat
  BY DEF TableType, EntryType
<1>3. streak[c] \in Nat /\ Need[c] \in Nat /\ e.fails <= streak[c]
  BY <1>1, <1>2, WatchAssumption DEF Typed, TypeOK
<1>4. streak'[c] = IF c \notin ChecksOf(kind) \/ Report(c) = "none" THEN streak[c]
                   ELSE IF Report(c) = "fail" THEN UpTo(streak[c] + 1, Need[c]) ELSE 0
  BY DEF Evaluate
<1>5. Report(c) \in {"ok", "fail", "none"}
  BY DEF Report
<1>6. PICK now : now = Counted(kind, table)[c]
  OBVIOUS
<1>7. CASE c \in ChecksOf(kind) /\ Report(c) = "fail"
  <2>1. now = Failed(c, e)
    BY <1>2, <1>6, <1>7, CountedFields
  <2>2. now.fails = UpTo(e.fails + 1, Need[c]) /\ Failing(c, e).fails = UpTo(e.fails + 1, Need[c])
    BY <2>1, FailedFields, FailingFields
  <2>3. streak'[c] = UpTo(streak[c] + 1, Need[c])
    BY <1>4, <1>7
  <2>4. UpTo(e.fails + 1, Need[c]) <= UpTo(streak[c] + 1, Need[c])
    BY <1>2, <1>3 DEF UpTo
  <2>5. ASSUME c \in Alerts(kind, table) PROVE streak'[c] >= Need[c]
    <3>1. Failing(c, e).fails >= Need[c]
      BY <1>2, <2>5 DEF Alerts, Due
    <3>2. UpTo(e.fails + 1, Need[c]) >= Need[c]
      BY <2>2, <3>1
    <3>3. UpTo(streak[c] + 1, Need[c]) >= Need[c]
      BY <1>2, <1>3, <3>2 DEF UpTo
    <3>4. QED
      BY <2>3, <3>3
  <2>6. QED
    BY <1>1, <1>6, <2>2, <2>3, <2>4, <2>5
<1>8. CASE c \notin ChecksOf(kind) \/ Report(c) # "fail"
  <2>1. c \notin Alerts(kind, table)
    BY <1>8 DEF Alerts
  <2>2. \/ now = e /\ streak'[c] = streak[c]
        \/ now = Fresh /\ streak'[c] \in Nat
    BY <1>2, <1>3, <1>4, <1>5, <1>6, <1>8, CountedFields
  <2>3. QED
    BY <1>1, <1>3, <1>6, <2>1, <2>2, FreshTyped
<1>9. QED
  BY <1>7, <1>8

LEMMA StepNotAhead == Typed /\ NotAhead /\ [Next]_vars => NotAhead'
<1> SUFFICES ASSUME Typed, NotAhead, [Next]_vars, kills' = 0 PROVE NotAhead'
  BY DEF NotAhead
<1>1. kills = 0 /\ \A k \in Kinds : ~Kill(k)
  BY KillsOnce
<1>2. CASE (\E c \in Checks : Changes(c)) \/ Happens \/ TelegramFlips \/ UNCHANGED vars
  BY <1>1, <1>2, WorldFields DEF NotAhead, AtRest
<1>3. CASE Tick
  <2>1. /\ \A k \in Kinds : pc[k] = "idle"
        /\ UNCHANGED <<pc, mem, streak>>
        /\ \A c \in Checks : state'.checks[c] = Older(state.checks[c])
    BY <1>3 DEF Tick, Typed, TypeOK
  <2>2. \A c \in Checks : state'.checks[c].fails = state.checks[c].fails
    BY <2>1, OlderFields DEF Typed, TypeOK, TableType
  <2>3. QED
    BY <1>1, <2>1, <2>2 DEF NotAhead, AtRest
<1>4. ASSUME NEW kind \in Kinds, Begin(kind) PROVE NotAhead'
  <2>1. /\ AtRest /\ pc' = [pc EXCEPT ![kind] = "loaded"] /\ streak' = streak
        /\ mem'[kind].checks = state.checks
    BY <1>4 DEF Begin, LockIsFree, AtRest, Typed, TypeOK
  <2>2. pc'[kind] = "loaded" /\ \A k \in Kinds : k # kind => pc'[k] = "idle"
    BY <2>1 DEF AtRest, Typed, TypeOK
  <2>3. QED
    BY <1>1, <2>1, <2>2 DEF NotAhead, AtRest
<1>5. ASSUME NEW kind \in Kinds, Evaluate(kind) PROVE NotAhead'
  <2>1. /\ pc[kind] = "loaded" /\ pc' = [pc EXCEPT ![kind] = "sending"]
        /\ mem'[kind].checks = Counted(kind, mem[kind].checks)
    BY <1>5, EvaluateFields
  <2>2. pc'[kind] = "sending" /\ \A k \in Kinds : k # kind => pc'[k] = "idle"
    BY <2>1, OthersIdle DEF Typed, TypeOK
  <2>3. \A c \in Checks : mem[kind].checks[c].fails <= streak[c]
    BY <1>1, <2>1 DEF NotAhead
  <2>4. \A c \in Checks : mem'[kind].checks[c].fails <= streak'[c]
    BY <1>5, <2>1, <2>3, VerdictNotAhead
  <2>5. QED
    BY <2>2, <2>4 DEF NotAhead, AtRest
<1>6. ASSUME NEW kind \in Kinds, Send(kind) \/ SendFails(kind) \/ AllSent(kind)
      PROVE  NotAhead'
  <2>1. /\ pc[kind] = "sending" /\ pc'[kind] # "idle" /\ streak' = streak
        /\ \A k \in Kinds : k # kind => pc'[k] = pc[k]
        /\ \A k \in Kinds : mem'[k].checks = mem[k].checks
    <3>1. CASE Send(kind)
      BY <3>1, SendFields
    <3>2. CASE SendFails(kind) \/ AllSent(kind)
      BY <3>2 DEF SendFails, AllSent, Typed, TypeOK
    <3>3. QED
      BY <1>6, <3>1, <3>2
  <2>2. QED
    BY <1>1, <2>1 DEF NotAhead, AtRest
<1>7. ASSUME NEW kind \in Kinds, Save(kind) PROVE NotAhead'
  <2>1. /\ pc[kind] = "unsaved" /\ pc' = [pc EXCEPT ![kind] = "idle"]
        /\ state'.checks = mem[kind].checks /\ streak' = streak
    BY <1>7, SaveFields
  <2>2. \A k \in Kinds : pc'[k] = "idle"
    BY <2>1, OthersIdle DEF Typed, TypeOK
  <2>3. QED
    BY <1>1, <2>1, <2>2 DEF NotAhead
<1>8. QED
  BY <1>1, <1>2, <1>3, <1>4, <1>5, <1>6, <1>7 DEF Next, RunStep

LEMMA EarnedStep ==
  ASSUME Typed, NotAhead, [Next]_vars, NEW k \in Kinds, kills = 0,
         pc[k] = "loaded", pc'[k] = "sending", NEW c \in Alerts(k, mem[k].checks)
  PROVE  streak'[c] >= Need[c]
<1>1. Evaluate(k)
  <2>1. \A j \in Kinds : j # k => pc[j] = "idle"
    BY OthersIdle DEF Typed
  <2>2. PICK j \in Kinds : Evaluate(j)
    BY DEF Next, RunStep, Changes, Happens, TelegramFlips, Tick, Begin, Send, SendFails,
           AllSent, Save, Kill, vars, Typed, TypeOK
  <2>3. pc[j] = "loaded"
    BY <2>2 DEF Evaluate
  <2>4. QED
    BY <2>1, <2>2, <2>3
<1>2. c \in Checks
  BY DEF Alerts, ChecksOf, Checks
<1>3. mem[k].checks[c].fails <= streak[c]
  BY <1>2 DEF NotAhead
<1>4. QED
  BY <1>1, <1>2, <1>3, VerdictNotAhead

(***************************************************************************)
(* The queue and its table.                                                *)
(***************************************************************************)

(* What the verdict puts into the queue, and where.                        *)
LEMMA QueueFields ==
  ASSUME Typed, NEW kind \in Kinds, NEW msg, msg = Message(kind, mem[kind]), NEW old,
         old = mem[kind].kept, NEW queue, queue = Queue(kind)
  PROVE  /\ Len(old) \in Nat /\ DOMAIN old = 1 .. Len(old)
         /\ \A i \in DOMAIN old : queue[i] = old[i]
         /\ Worth(kind, mem[kind], msg) =>
              DOMAIN queue = 1 .. Len(old) + 1 /\ queue[Len(old) + 1] = msg
         /\ ~Worth(kind, mem[kind], msg) => queue = old
<1>1. old \in Seq(MessageType) /\ msg \in MessageType
  BY MessageTyped DEF Typed, TypeOK, MemoryType
<1>2. Len(old) \in Nat /\ DOMAIN old = 1 .. Len(old)
  BY <1>1
<1>3. CASE Worth(kind, mem[kind], msg)
  <2>1. queue = Append(old, msg)
    BY <1>3 DEF Queue
  <2>2. /\ DOMAIN queue = 1 .. Len(old) + 1 /\ queue[Len(old) + 1] = msg
        /\ \A i \in 1 .. Len(old) : queue[i] = old[i]
    BY <1>1, <1>2, <2>1
  <2>3. QED
    BY <1>2, <1>3, <2>2
<1>4. CASE ~Worth(kind, mem[kind], msg)
  BY <1>2, <1>4 DEF Queue
<1>5. QED
  BY <1>3, <1>4

(* What the verdict says, and what it believes afterwards.                 *)
LEMMA VerdictSays ==
  ASSUME Typed, NEW kind \in Kinds, NEW c \in Checks,
         NEW table, table = mem[kind].checks, NEW now, now = Counted(kind, table)[c]
  PROVE  /\ now.alerted => c \in Alerts(kind, table) \/ table[c].alerted
         /\ c \in Alerts(kind, table) => now.alerted
         /\ c \in Recoveries(kind, table) => c \notin Alerts(kind, table) /\ ~now.alerted
         /\ NoGates /\ c \notin Alerts(kind, table) /\ c \notin Recoveries(kind, table)
              => (now.alerted <=> table[c].alerted)
<1>1. table \in TableType /\ table[c] \in EntryType
  BY DEF Typed, TypeOK, MemoryType, TableType
<1>2. Report(c) \in {"ok", "fail", "none"} /\ (NoGates => Report(c) # "none")
  BY DEF Report, NoGates, Hidden, Gates
<1>3. CASE c \notin ChecksOf(kind)
  BY <1>1, <1>3, CountedFields DEF Alerts, Recoveries
<1>4. CASE c \in ChecksOf(kind) /\ Report(c) = "fail"
  <2>1. now = Failed(c, table[c])
    BY <1>1, <1>4, CountedFields
  <2>2. c \in Alerts(kind, table) <=> Due(c, Failing(c, table[c]))
    BY <1>4 DEF Alerts
  <2>3. c \notin Recoveries(kind, table)
    BY <1>4 DEF Recoveries
  <2>4. QED
    BY <1>1, <2>1, <2>2, <2>3, FailedFields
<1>5. CASE c \in ChecksOf(kind) /\ Report(c) = "ok"
  <2>1. now = Fresh
    BY <1>1, <1>5, CountedFields
  <2>2. c \notin Alerts(kind, table) /\ (c \in Recoveries(kind, table) <=> table[c].alerted)
    BY <1>5 DEF Alerts, Recoveries
  <2>3. QED
    BY <2>1, <2>2, FreshTyped
<1>6. CASE c \in ChecksOf(kind) /\ Report(c) = "none"
  <2>1. now = table[c] \/ now = Fresh
    BY <1>1, <1>6, CountedFields
  <2>2. c \notin Alerts(kind, table) /\ c \notin Recoveries(kind, table)
    BY <1>6 DEF Alerts, Recoveries
  <2>3. QED
    BY <1>2, <1>6, <2>1, <2>2, FreshTyped
<1>7. QED
  BY <1>2, <1>3, <1>4, <1>5, <1>6

(* The owner forgets nothing that he was told.                             *)
LEMMA ToldForGood ==
  ASSUME Typed, [Next]_vars
  PROVE  /\ \A c \in Checks : told[c] # "nothing" => told'[c] # "nothing"
         /\ heard' >= heard
<1>1. heard \in Nat
  BY DEF Typed, TypeOK
<1>2. CASE UNCHANGED <<told, heard>>
  BY <1>1, <1>2
<1>3. ASSUME NEW kind \in Kinds, mem[kind].todo # <<>>, Reads(Head(mem[kind].todo))
      PROVE  /\ \A c \in Checks : told[c] # "nothing" => told'[c] # "nothing"
             /\ heard' >= heard
  <2>1. mem[kind].todo \in Seq(MessageType)
    BY DEF Typed, TypeOK, MemoryType
  <2>2. Head(mem[kind].todo) \in MessageType
    BY <1>3, <2>1
  <2>3. Head(mem[kind].todo).event \in Nat
    BY <2>2 DEF MessageType
  <2>4. QED
    BY <1>1, <1>3, <2>3 DEF Reads
<1>4. QED
  BY <1>2, <1>3 DEF Next, Changes, Happens, TelegramFlips, Tick, Begin, RunStep, Evaluate,
                    Send, SendFails, AllSent, Save, Kill, vars, owner

(* The queue of a run that has said its verdict, while it fits.            *)
LEMMA VerdictQueue ==
  ASSUME Typed, NEW kind \in Kinds, Evaluate(kind), overflow' = "no"
  PROVE  /\ overflow = "no" /\ mem'[kind].todo = Queue(kind)
         /\ mem[kind].checks = state.checks /\ mem[kind].seen = state.seen
         /\ mem[kind].kept = state.pending
<1>1. overflow = "no" /\ Queue(kind) \in Seq(MessageType) /\ Len(Queue(kind)) <= QueueMax
  BY EvaluateFields, WatchAssumption
<1>2. Split(Queue(kind)).todo = Queue(kind)
  BY <1>1, SplitTyped
<1>3. QED
  BY <1>1, <1>2, EvaluateFields DEF Typed, Copied

LEMMA VerdictSaid ==
  ASSUME Typed, AllSaid, NEW kind \in Kinds, Evaluate(kind), overflow' = "no"
  PROVE  Said(mem[kind].checks, mem[kind].seen, mem[kind].kept)
         => Said(mem'[kind].checks, mem'[kind].seen, mem'[kind].todo)
<1> SUFFICES ASSUME Said(mem[kind].checks, mem[kind].seen, mem[kind].kept)
             PROVE  Said(mem'[kind].checks, mem'[kind].seen, mem'[kind].todo)
  OBVIOUS
<1>1. PICK table, msg, old, queue :
        /\ table = mem[kind].checks /\ msg = Message(kind, mem[kind])
        /\ old = mem[kind].kept /\ queue = Queue(kind)
  OBVIOUS
<1>2. /\ Len(old) \in Nat /\ DOMAIN old = 1 .. Len(old)
      /\ \A i \in DOMAIN old : queue[i] = old[i]
      /\ Worth(kind, mem[kind], msg) =>
           DOMAIN queue = 1 .. Len(old) + 1 /\ queue[Len(old) + 1] = msg
      /\ ~Worth(kind, mem[kind], msg) => queue = old
  BY <1>1, QueueFields
<1>3. \A i \in DOMAIN old : i \in DOMAIN queue /\ queue[i] = old[i]
  BY <1>2
<1>4. Worth(kind, mem[kind], msg) => Len(old) + 1 \in DOMAIN queue /\ queue[Len(old) + 1] = msg
  BY <1>2
<1>5. ASSUME NEW c \in Checks, Counted(kind, table)[c].alerted
      PROVE  told[c] # "nothing" \/ \E i \in DOMAIN queue : c \in queue[i].down
  <2>1. CASE c \in Alerts(kind, table)
    <3>1. c \in msg.down /\ Worth(kind, mem[kind], msg)
      BY <1>1, <2>1 DEF Message, Worth
    <3>2. QED
      BY <1>4, <3>1
  <2>2. CASE table[c].alerted
    <3>1. told[c] # "nothing" \/ \E i \in DOMAIN old : c \in old[i].down
      BY <1>1, <2>2 DEF Said
    <3>2. QED
      BY <1>3, <3>1
  <2>3. QED
    BY <1>1, <1>5, <2>1, <2>2, VerdictSays
<1>6. heard >= Seen(kind) \/ \E i \in DOMAIN queue : queue[i].event = Seen(kind)
  <2>1. CASE Seen(kind) = mem[kind].seen
    <3>1. heard >= mem[kind].seen \/ \E i \in DOMAIN old : old[i].event = mem[kind].seen
      BY <1>1 DEF Said
    <3>2. QED
      BY <1>3, <2>1, <3>1
  <2>2. CASE Seen(kind) # mem[kind].seen
    <3>1. kind = "fast" /\ version # mem[kind].seen /\ Seen(kind) = version
      BY <2>2 DEF Seen
    <3>2. msg.event = version /\ Worth(kind, mem[kind], msg)
      BY <1>1, <3>1 DEF Message, Worth
    <3>3. QED
      BY <1>4, <3>1, <3>2
  <2>3. QED
    BY <2>1, <2>2
<1>7. /\ mem'[kind].checks = Counted(kind, table) /\ mem'[kind].seen = Seen(kind)
      /\ mem'[kind].todo = queue
  BY <1>1, EvaluateFields, VerdictQueue
<1>8. QED
  BY <1>5, <1>6, <1>7 DEF Said

(* To speak of the next state: what the owner has been told by then.       *)
SaidThen(table, seen, queue) ==
  /\ \A c \in Checks : table[c].alerted =>
        told'[c] # "nothing" \/ \E i \in DOMAIN queue : c \in queue[i].down
  /\ heard' >= seen \/ \E i \in DOMAIN queue : queue[i].event = seen

LEMMA StillSaid ==
  ASSUME Typed, [Next]_vars, NEW table, NEW seen \in Nat, NEW queue, Said(table, seen, queue)
  PROVE  SaidThen(table, seen, queue)
<1>1. heard \in Nat /\ heard' \in Nat
  BY StepTyped DEF Typed, TypeOK
<1>2. heard >= seen => heard' >= seen
  BY <1>1, ToldForGood
<1>3. QED
  BY <1>2, ToldForGood DEF Said, SaidThen

LEMMA ReadSaid ==
  ASSUME Typed, NEW kind \in Kinds, Send(kind), [Next]_vars,
         Said(mem[kind].checks, mem[kind].seen, mem[kind].todo)
  PROVE  SaidThen(mem'[kind].checks, mem'[kind].seen, mem'[kind].todo)
<1>1. PICK queue \in Seq(MessageType) : queue = mem[kind].todo
  BY SendFields
<1>2. /\ queue # <<>> /\ mem'[kind].todo = Tail(queue)
      /\ mem'[kind].checks = mem[kind].checks /\ mem'[kind].seen = mem[kind].seen
  BY <1>1, SendFields
<1>3. PICK seen \in Nat : seen = mem[kind].seen
  BY DEF Typed, TypeOK, MemoryType
<1>4. SaidThen(mem[kind].checks, seen, queue)
  BY <1>1, <1>3, StillSaid
<1>5. Head(queue) \in MessageType /\ Head(queue) = queue[1]
  BY <1>2
<1>6. PICK rest : rest = Tail(queue)
  OBVIOUS
<1>7. \A i \in DOMAIN queue : i # 1 => i - 1 \in DOMAIN rest /\ rest[i - 1] = queue[i]
  BY <1>2, <1>6
<1>8. ASSUME NEW c \in Checks, mem[kind].checks[c].alerted
      PROVE  told'[c] # "nothing" \/ \E i \in DOMAIN rest : c \in rest[i].down
  <2>1. told'[c] # "nothing" \/ \E i \in DOMAIN queue : c \in queue[i].down
    BY <1>4, <1>8 DEF SaidThen
  <2>2. ASSUME c \in queue[1].down PROVE told'[c] # "nothing"
    BY <1>1, <1>5, <2>2 DEF Send, Reads
  <2>3. ASSUME NEW i \in DOMAIN queue, i # 1, c \in queue[i].down
        PROVE  \E j \in DOMAIN rest : c \in rest[j].down
    BY <1>7, <2>3
  <2>4. QED
    BY <2>1, <2>2, <2>3
<1>9. heard' >= seen \/ \E i \in DOMAIN rest : rest[i].event = seen
  <2>1. heard' >= seen \/ \E i \in DOMAIN queue : queue[i].event = seen
    BY <1>4 DEF SaidThen
  <2>2. ASSUME queue[1].event = seen PROVE heard' >= seen
    BY <1>1, <1>3, <1>5, <2>2 DEF Send, Reads, Typed, TypeOK
  <2>3. ASSUME NEW i \in DOMAIN queue, i # 1, queue[i].event = seen
        PROVE  \E j \in DOMAIN rest : rest[j].event = seen
    BY <1>7, <2>3
  <2>4. QED
    BY <2>1, <2>2, <2>3
<1>10. QED
  BY <1>2, <1>3, <1>6, <1>8, <1>9 DEF SaidThen

LEMMA StepSaid == Typed /\ AllSaid /\ [Next]_vars => AllSaid'
<1> SUFFICES ASSUME Typed, AllSaid, [Next]_vars, overflow' = "no"
             PROVE  /\ SaidThen(state'.checks, state'.seen, state'.pending)
                    /\ \A k \in Kinds : pc'[k] \in Ended =>
                         SaidThen(mem'[k].checks, mem'[k].seen, mem'[k].todo)
  BY DEF AllSaid, Said, SaidThen
<1>1. /\ state.seen \in Nat /\ \A k \in Kinds : mem[k].seen \in Nat
      /\ state'.seen \in Nat /\ \A k \in Kinds : mem'[k].seen \in Nat
  BY StepTyped DEF Typed, TypeOK, MemoryType
<1>2. overflow = "no"
  <2>1. ASSUME NEW kind \in Kinds, Evaluate(kind) PROVE overflow = "no"
    BY <2>1, VerdictQueue
  <2>2. ASSUME NEW kind \in Kinds, Save(kind) PROVE overflow = "no"
    BY <2>2, SaveFields
  <2>3. QED
    BY <2>1, <2>2 DEF Next, RunStep, Changes, Happens, TelegramFlips, Tick, Begin, Send,
                      SendFails, AllSent, Kill, vars
<1>3. SaidThen(state.checks, state.seen, state.pending)
  BY <1>1, <1>2, StillSaid DEF AllSaid
<1>4. \A k \in Kinds : pc[k] \in Ended => SaidThen(mem[k].checks, mem[k].seen, mem[k].todo)
  BY <1>1, <1>2, StillSaid DEF AllSaid
<1>5. CASE UNCHANGED <<state, pc, mem>>
  BY <1>3, <1>4, <1>5
<1>6. CASE (\E c \in Checks : Changes(c)) \/ Happens \/ TelegramFlips \/ UNCHANGED vars
  BY <1>5, <1>6, WorldFields
<1>7. CASE Tick
  <2>1. /\ \A k \in Kinds : pc'[k] = "idle"
        /\ state'.seen = state.seen /\ state'.pending = state.pending
        /\ \A c \in Checks : state'.checks[c] = Older(state.checks[c])
    BY <1>7 DEF Tick, Typed, TypeOK
  <2>2. \A c \in Checks : state'.checks[c].alerted = state.checks[c].alerted
    BY <2>1, OlderFields DEF Typed, TypeOK, TableType
  <2>3. QED
    BY <1>3, <2>1, <2>2 DEF SaidThen, Ended
<1>8. ASSUME NEW kind \in Kinds, Begin(kind) \/ Kill(kind)
      PROVE  /\ SaidThen(state'.checks, state'.seen, state'.pending)
             /\ \A k \in Kinds : pc'[k] \in Ended =>
                  SaidThen(mem'[k].checks, mem'[k].seen, mem'[k].todo)
  <2>1. state' = state /\ pc'[kind] \notin Ended
        /\ \A k \in Kinds : k # kind => pc'[k] = pc[k] /\ mem'[k] = mem[k]
    BY <1>8 DEF Begin, Kill, Ended, Typed, TypeOK
  <2>2. QED
    BY <1>3, <1>4, <2>1
<1>9. ASSUME NEW kind \in Kinds, Evaluate(kind)
      PROVE  /\ SaidThen(state'.checks, state'.seen, state'.pending)
             /\ \A k \in Kinds : pc'[k] \in Ended =>
                  SaidThen(mem'[k].checks, mem'[k].seen, mem'[k].todo)
  <2>1. /\ state' = state /\ UNCHANGED <<told, heard>>
        /\ pc[kind] = "loaded" /\ pc' = [pc EXCEPT ![kind] = "sending"]
    BY <1>9, EvaluateFields DEF owner
  <2>2. Said(mem'[kind].checks, mem'[kind].seen, mem'[kind].todo)
    BY <1>2, <1>9, VerdictQueue, VerdictSaid DEF AllSaid
  <2>3. SaidThen(mem'[kind].checks, mem'[kind].seen, mem'[kind].todo)
    BY <2>1, <2>2 DEF Said, SaidThen
  <2>4. \A k \in Kinds : k # kind => pc'[k] = "idle"
    BY <2>1, OthersIdle DEF Typed, TypeOK
  <2>5. QED
    BY <1>3, <2>1, <2>3, <2>4 DEF Ended
<1>10. ASSUME NEW kind \in Kinds, Send(kind)
       PROVE  /\ SaidThen(state'.checks, state'.seen, state'.pending)
              /\ \A k \in Kinds : pc'[k] \in Ended =>
                   SaidThen(mem'[k].checks, mem'[k].seen, mem'[k].todo)
  <2>1. /\ state' = state /\ pc' = pc /\ pc[kind] = "sending"
        /\ \A k \in Kinds : k # kind => mem'[k] = mem[k]
    BY <1>10, SendFields
  <2>2. SaidThen(mem'[kind].checks, mem'[kind].seen, mem'[kind].todo)
    BY <1>2, <1>10, <2>1, ReadSaid DEF AllSaid, Ended
  <2>3. QED
    BY <1>3, <1>4, <2>1, <2>2
<1>11. ASSUME NEW kind \in Kinds, SendFails(kind) \/ AllSent(kind)
       PROVE  /\ SaidThen(state'.checks, state'.seen, state'.pending)
              /\ \A k \in Kinds : pc'[k] \in Ended =>
                   SaidThen(mem'[k].checks, mem'[k].seen, mem'[k].todo)
  <2>1. /\ state' = state /\ mem' = mem /\ pc[kind] = "sending"
        /\ \A k \in Kinds : k # kind => pc'[k] = pc[k]
    BY <1>11 DEF SendFails, AllSent, Typed, TypeOK
  <2>2. QED
    BY <1>3, <1>4, <2>1 DEF Ended
<1>12. ASSUME NEW kind \in Kinds, Save(kind)
       PROVE  /\ SaidThen(state'.checks, state'.seen, state'.pending)
              /\ \A k \in Kinds : pc'[k] \in Ended =>
                   SaidThen(mem'[k].checks, mem'[k].seen, mem'[k].todo)
  <2>1. /\ pc[kind] = "unsaved" /\ pc' = [pc EXCEPT ![kind] = "idle"]
        /\ state'.checks = mem[kind].checks /\ state'.seen = mem[kind].seen
        /\ state'.pending = mem[kind].todo
    BY <1>2, <1>12, SaveFields
  <2>2. \A k \in Kinds : pc'[k] = "idle"
    BY <2>1, OthersIdle DEF Typed, TypeOK
  <2>3. QED
    BY <1>4, <2>1, <2>2 DEF Ended
<1>13. QED
  BY <1>6, <1>7, <1>8, <1>9, <1>10, <1>11, <1>12 DEF Next, RunStep

(***************************************************************************)
(* Whoever reads to the end.                                               *)
(***************************************************************************)

EndsWithThen(table, queue) ==
  \A c \in Checks :
    /\ (\A i \in DOMAIN queue : ~Names(queue[i], c)) =>
          (told'[c] = "down" <=> table[c].alerted)
    /\ \A i \in DOMAIN queue :
          Names(queue[i], c) /\ (\A j \in DOMAIN queue : j > i => ~Names(queue[j], c)) =>
            (c \in queue[i].down <=> table[c].alerted)

(* The verdict and its message.                                            *)
LEMMA VerdictEnds ==
  ASSUME NoGates, Typed, NEW kind \in Kinds, Evaluate(kind), overflow' = "no",
         EndsWith(mem[kind].checks, mem[kind].kept)
  PROVE  EndsWith(mem'[kind].checks, mem'[kind].todo)
<1>1. PICK table, msg, old, queue :
        /\ table = mem[kind].checks /\ msg = Message(kind, mem[kind])
        /\ old = mem[kind].kept /\ queue = Queue(kind)
  OBVIOUS
<1>2. /\ Len(old) \in Nat /\ DOMAIN old = 1 .. Len(old)
      /\ \A i \in DOMAIN old : queue[i] = old[i]
      /\ Worth(kind, mem[kind], msg) =>
           DOMAIN queue = 1 .. Len(old) + 1 /\ queue[Len(old) + 1] = msg
      /\ ~Worth(kind, mem[kind], msg) => queue = old
  BY <1>1, QueueFields
<1>3. mem'[kind].checks = Counted(kind, table) /\ mem'[kind].todo = queue
  BY <1>1, EvaluateFields, VerdictQueue
<1>4. msg.down = Alerts(kind, table) /\ msg.back = Recoveries(kind, table)
  BY <1>1 DEF Message
<1>5. ASSUME NEW c \in Checks
      PROVE  /\ (\A i \in DOMAIN queue : ~Names(queue[i], c)) =>
                   (told[c] = "down" <=> Counted(kind, table)[c].alerted)
             /\ \A i \in DOMAIN queue :
                   Names(queue[i], c) /\ (\A j \in DOMAIN queue : j > i => ~Names(queue[j], c)) =>
                     (c \in queue[i].down <=> Counted(kind, table)[c].alerted)
  <2>1. /\ (\A i \in DOMAIN old : ~Names(old[i], c)) =>
              (told[c] = "down" <=> table[c].alerted)
        /\ \A i \in DOMAIN old :
              Names(old[i], c) /\ (\A j \in DOMAIN old : j > i => ~Names(old[j], c)) =>
                (c \in old[i].down <=> table[c].alerted)
    BY <1>1 DEF EndsWith
  <2>2. CASE Names(msg, c)
    <3>1. Worth(kind, mem[kind], msg)
      BY <2>2 DEF Names, Worth
    <3>2. DOMAIN queue = 1 .. Len(old) + 1 /\ queue[Len(old) + 1] = msg
      BY <1>2, <3>1
    <3>3. c \in msg.down <=> Counted(kind, table)[c].alerted
      BY <1>1, <1>4, <2>2, VerdictSays DEF Names
    <3>4. \A i \in DOMAIN queue : i = Len(old) + 1 \/ Len(old) + 1 > i
      BY <1>2, <3>2
    <3>5. Len(old) + 1 \in DOMAIN queue
      BY <1>2, <3>2
    <3>6. QED
      BY <2>2, <3>2, <3>3, <3>4, <3>5
  <2>3. CASE ~Names(msg, c)
    <3>1. Counted(kind, table)[c].alerted <=> table[c].alerted
      BY <1>1, <1>4, <2>3, VerdictSays DEF Names
    <3>2. \A i \in DOMAIN queue : i \in DOMAIN old \/ queue[i] = msg
      BY <1>2
    <3>3. \A i \in DOMAIN old : i \in DOMAIN queue /\ queue[i] = old[i]
      BY <1>2
    <3>4. (\A i \in DOMAIN queue : ~Names(queue[i], c)) => \A i \in DOMAIN old : ~Names(old[i], c)
      BY <3>3
    <3>5. ASSUME NEW i \in DOMAIN queue, Names(queue[i], c),
                 \A j \in DOMAIN queue : j > i => ~Names(queue[j], c)
          PROVE  c \in queue[i].down <=> table[c].alerted
      <4>1. i \in DOMAIN old /\ queue[i] = old[i]
        BY <2>3, <3>2, <3>3, <3>5
      <4>2. Names(old[i], c) /\ \A j \in DOMAIN old : j > i => ~Names(old[j], c)
        BY <3>3, <3>5, <4>1
      <4>3. QED
        BY <2>1, <4>1, <4>2
    <3>6. QED
      BY <2>1, <3>1, <3>4, <3>5
  <2>4. QED
    BY <2>2, <2>3
<1>6. QED
  BY <1>3, <1>5 DEF EndsWith

LEMMA ReadEnds ==
  ASSUME Typed, NEW kind \in Kinds, Send(kind), EndsWith(mem[kind].checks, mem[kind].todo)
  PROVE  EndsWithThen(mem'[kind].checks, mem'[kind].todo)
<1>1. PICK queue \in Seq(MessageType) : queue = mem[kind].todo
  BY SendFields
<1>2. /\ queue # <<>> /\ mem'[kind].todo = Tail(queue) /\ mem'[kind].checks = mem[kind].checks
  BY <1>1, SendFields
<1>3. PICK msg, rest, table : msg = queue[1] /\ rest = Tail(queue) /\ table = mem[kind].checks
  OBVIOUS
<1>4. msg = Head(queue) /\ 1 \in DOMAIN queue
  BY <1>2, <1>3
<1>5. \A i \in DOMAIN queue : i \in Nat /\ i >= 1
                              /\ (i # 1 => i - 1 \in DOMAIN rest /\ rest[i - 1] = queue[i])
  BY <1>2, <1>3
<1>6. \A i \in DOMAIN rest : i \in Nat /\ i + 1 \in DOMAIN queue /\ queue[i + 1] = rest[i]
                             /\ i + 1 > 1
  BY <1>2, <1>3
<1>7. ASSUME NEW c \in Checks
      PROVE  /\ (\A i \in DOMAIN rest : ~Names(rest[i], c)) =>
                   (told'[c] = "down" <=> table[c].alerted)
             /\ \A i \in DOMAIN rest :
                   Names(rest[i], c) /\ (\A j \in DOMAIN rest : j > i => ~Names(rest[j], c)) =>
                     (c \in rest[i].down <=> table[c].alerted)
  <2>1. /\ (\A i \in DOMAIN queue : ~Names(queue[i], c)) =>
              (told[c] = "down" <=> table[c].alerted)
        /\ \A i \in DOMAIN queue :
              Names(queue[i], c) /\ (\A j \in DOMAIN queue : j > i => ~Names(queue[j], c)) =>
                (c \in queue[i].down <=> table[c].alerted)
    BY <1>1, <1>3 DEF EndsWith
  <2>2. told'[c] = IF c \in msg.down THEN "down" ELSE IF c \in msg.back THEN "back" ELSE told[c]
    BY <1>1, <1>4 DEF Send, Reads
  <2>3. ASSUME \A i \in DOMAIN rest : ~Names(rest[i], c)
        PROVE  told'[c] = "down" <=> table[c].alerted
    <3>1. \A i \in DOMAIN queue : i > 1 => ~Names(queue[i], c)
      BY <1>5, <2>3
    <3>2. CASE Names(msg, c)
      <4>1. c \in msg.down <=> table[c].alerted
        BY <1>3, <1>4, <2>1, <3>1, <3>2
      <4>2. QED
        BY <2>2, <3>2, <4>1 DEF Names
    <3>3. CASE ~Names(msg, c)
      <4>1. \A i \in DOMAIN queue : ~Names(queue[i], c)
        BY <1>3, <1>5, <3>1, <3>3
      <4>2. QED
        BY <2>1, <2>2, <3>3, <4>1 DEF Names
    <3>4. QED
      BY <3>2, <3>3
  <2>4. ASSUME NEW i \in DOMAIN rest, Names(rest[i], c),
               \A j \in DOMAIN rest : j > i => ~Names(rest[j], c)
        PROVE  c \in rest[i].down <=> table[c].alerted
    <3>1. i + 1 \in DOMAIN queue /\ queue[i + 1] = rest[i] /\ i \in Nat
      BY <1>6
    <3>2. ASSUME NEW j \in DOMAIN queue, j > i + 1 PROVE ~Names(queue[j], c)
      <4>1. j \in Nat /\ j # 1 /\ j - 1 > i
        BY <1>5, <3>1, <3>2
      <4>2. j - 1 \in DOMAIN rest /\ rest[j - 1] = queue[j]
        BY <1>5, <4>1
      <4>3. QED
        BY <2>4, <4>1, <4>2
    <3>3. QED
      BY <2>1, <2>4, <3>1, <3>2
  <2>5. QED
    BY <2>3, <2>4
<1>8. QED
  BY <1>2, <1>3, <1>7 DEF EndsWithThen

(* A message that arrived without an answer will be read again.            *)
LEMMA RereadEnds ==
  ASSUME Typed, NEW kind \in Kinds, SendFails(kind), EndsWith(mem[kind].checks, mem[kind].todo)
  PROVE  EndsWithThen(mem[kind].checks, mem[kind].todo)
<1>1. mem[kind].todo \in Seq(MessageType) /\ mem[kind].todo # <<>>
  BY DEF SendFails, Typed, TypeOK, MemoryType
<1>2. PICK queue : queue = mem[kind].todo
  OBVIOUS
<1>3. 1 \in DOMAIN queue /\ Head(queue) = queue[1]
  BY <1>1, <1>2
<1>4. \A c \in Checks : ~Names(queue[1], c) => told'[c] = told[c]
  BY <1>2, <1>3 DEF SendFails, Reads, Names, owner
<1>5. QED
  BY <1>2, <1>3, <1>4 DEF EndsWith, EndsWithThen

LEMMA StillEnds ==
  ASSUME NEW table, NEW queue, UNCHANGED told
  PROVE  EndsWith(table, queue) => EndsWithThen(table, queue)
  BY DEF EndsWith, EndsWithThen

LEMMA StepUnderstood ==
  ASSUME NoGates, Typed, Understood, [Next]_vars
  PROVE  Understood'
<1> DEFINE Goal == /\ AtRest' => EndsWithThen(state'.checks, state'.pending)
                   /\ \A k \in Kinds : pc'[k] = "loaded" =>
                        EndsWithThen(state'.checks, state'.pending)
                   /\ \A k \in Kinds : pc'[k] \in Ended =>
                        EndsWithThen(mem'[k].checks, mem'[k].todo)
<1> SUFFICES ASSUME kills' = 0, overflow' = "no" PROVE Goal
  BY DEF Understood, EndsWith, EndsWithThen
<1>1. kills = 0 /\ \A k \in Kinds : ~Kill(k)
  BY KillsOnce
<1>2. overflow = "no"
  <2>1. ASSUME NEW kind \in Kinds, Evaluate(kind) PROVE overflow = "no"
    BY <2>1, VerdictQueue
  <2>2. ASSUME NEW kind \in Kinds, Save(kind) PROVE overflow = "no"
    BY <2>2, SaveFields
  <2>3. QED
    BY <2>1, <2>2 DEF Next, RunStep, Changes, Happens, TelegramFlips, Tick, Begin, Send,
                      SendFails, AllSent, Kill, vars
<1>3. /\ AtRest => EndsWith(state.checks, state.pending)
      /\ \A k \in Kinds : pc[k] = "loaded" => EndsWith(state.checks, state.pending)
      /\ \A k \in Kinds : pc[k] \in Ended => EndsWith(mem[k].checks, mem[k].todo)
  BY <1>1, <1>2 DEF Understood
<1>4. CASE (\E c \in Checks : Changes(c)) \/ Happens \/ TelegramFlips \/ UNCHANGED vars
  <2>1. UNCHANGED <<state, pc, mem, told>>
    BY <1>4, WorldFields DEF owner
  <2>2. QED
    BY <1>3, <2>1, StillEnds DEF AtRest
<1>5. CASE Tick
  <2>1. /\ AtRest /\ pc' = pc /\ told' = told
        /\ state'.pending = state.pending
        /\ \A c \in Checks : state'.checks[c] = Older(state.checks[c])
    BY <1>5 DEF Tick, AtRest, Typed, TypeOK, owner
  <2>2. \A c \in Checks : state'.checks[c].alerted = state.checks[c].alerted
    BY <2>1, OlderFields DEF Typed, TypeOK, TableType
  <2>3. EndsWithThen(state'.checks, state'.pending)
    BY <1>3, <2>1, <2>2 DEF EndsWith, EndsWithThen
  <2>4. QED
    BY <2>1, <2>3 DEF AtRest, Ended
<1>6. ASSUME NEW kind \in Kinds, Begin(kind) PROVE Goal
  <2>1. /\ AtRest /\ UNCHANGED <<state, told>> /\ \A k \in Kinds : pc'[k] \in {"idle", "loaded"}
    BY <1>6 DEF Begin, LockIsFree, AtRest, owner, Typed, TypeOK
  <2>2. EndsWithThen(state'.checks, state'.pending)
    BY <1>3, <2>1, StillEnds
  <2>3. QED
    BY <2>1, <2>2 DEF Ended
<1>7. ASSUME NEW kind \in Kinds, Evaluate(kind) PROVE Goal
  <2>1. /\ UNCHANGED <<state, told>>
        /\ pc[kind] = "loaded" /\ pc' = [pc EXCEPT ![kind] = "sending"]
    BY <1>7, EvaluateFields DEF owner
  <2>2. EndsWith(mem[kind].checks, mem[kind].kept)
    BY <1>3, <1>7, <2>1, VerdictQueue
  <2>3. EndsWith(mem'[kind].checks, mem'[kind].todo)
    BY <1>7, <2>2, VerdictEnds
  <2>4. EndsWithThen(mem'[kind].checks, mem'[kind].todo)
    BY <2>1, <2>3, StillEnds
  <2>5. pc'[kind] = "sending" /\ \A k \in Kinds : k # kind => pc'[k] = "idle"
    BY <2>1, OthersIdle DEF Typed, TypeOK
  <2>6. QED
    BY <2>4, <2>5 DEF AtRest, Ended
<1>8. ASSUME NEW kind \in Kinds, Send(kind) \/ SendFails(kind) \/ AllSent(kind) PROVE Goal
  <2>1. pc[kind] = "sending" /\ pc'[kind] \in Ended /\ \A k \in Kinds : k # kind => pc'[k] = "idle"
    <3>1. pc[kind] = "sending" /\ (pc' = pc \/ pc' = [pc EXCEPT ![kind] = "unsaved"])
      BY <1>8 DEF Send, SendFails, AllSent
    <3>2. QED
      BY <3>1, OthersIdle DEF Typed, TypeOK, Ended
  <2>2. EndsWith(mem[kind].checks, mem[kind].todo)
    BY <1>3, <2>1 DEF Ended
  <2>3. EndsWithThen(mem'[kind].checks, mem'[kind].todo)
    <3>1. CASE Send(kind)
      BY <2>2, <3>1, ReadEnds
    <3>2. CASE SendFails(kind)
      <4>1. mem' = mem
        BY <3>2 DEF SendFails
      <4>2. QED
        BY <2>2, <3>2, <4>1, RereadEnds
    <3>3. CASE AllSent(kind)
      BY <2>2, <3>3, StillEnds DEF AllSent, owner
    <3>4. QED
      BY <1>8, <3>1, <3>2, <3>3
  <2>4. QED
    BY <2>1, <2>3 DEF AtRest, Ended
<1>9. ASSUME NEW kind \in Kinds, Save(kind) PROVE Goal
  <2>1. /\ pc[kind] = "unsaved" /\ pc' = [pc EXCEPT ![kind] = "idle"] /\ told' = told
        /\ state'.checks = mem[kind].checks /\ state'.pending = mem[kind].todo
    BY <1>2, <1>9, SaveFields DEF owner
  <2>2. \A k \in Kinds : pc'[k] = "idle"
    BY <2>1, OthersIdle DEF Typed, TypeOK
  <2>3. EndsWithThen(state'.checks, state'.pending)
    BY <1>3, <2>1, StillEnds DEF Ended
  <2>4. QED
    BY <2>2, <2>3 DEF Ended
<1>10. QED
  BY <1>1, <1>4, <1>5, <1>6, <1>7, <1>8, <1>9 DEF Next, RunStep

LEMMA InitRight == Init => NotAhead /\ AllSaid /\ Understood
<1> SUFFICES ASSUME Init PROVE NotAhead /\ AllSaid /\ Understood
  OBVIOUS
<1>1. /\ \A c \in Checks : state.checks[c] = Fresh /\ told[c] = "nothing" /\ streak[c] = 0
      /\ state.seen = 0 /\ heard = 0 /\ state.pending = <<>>
      /\ \A k \in Kinds : pc[k] = "idle"
  BY DEF Init
<1>2. NotAhead
  BY <1>1, FreshTyped DEF NotAhead
<1>3. AllSaid
  BY <1>1, FreshTyped DEF AllSaid, Said, Ended
<1>4. Understood
  BY <1>1, FreshTyped DEF Understood, EndsWith, Ended
<1>5. QED
  BY <1>2, <1>3, <1>4

-----------------------------------------------------------------------------
(* Type correctness: counters stay within their thresholds, and the queue  *)
(* in state.json within its limit, through every interleaving of the two   *)
(* timers and every killed run (Monitor.notify, main).                     *)
THEOREM WatchTypeCorrect == Spec => []TypeOK
<1>1. Typed => TypeOK
  BY DEF Typed
<1>2. QED
  BY <1>1, InitTyped, StepTyped, PTL DEF Spec

(* While no run is killed, an alert is about a check that failed in the    *)
(* last Need[c] runs that reported it, for every threshold and however     *)
(* checks hide each other (Monitor.apply, vpn_watch.py 8).                 *)
THEOREM AlertsAreEarned == Spec => AlertIsEarned
<1>1. Init => Typed /\ NotAhead
  BY InitTyped, InitRight
<1>2. Typed /\ NotAhead /\ [Next]_vars => (Typed /\ NotAhead)'
  BY StepTyped, StepNotAhead
<1>3. Typed /\ NotAhead /\ [Next]_vars
        => [\A k \in Kinds : kills = 0 /\ pc[k] = "loaded" /\ pc'[k] = "sending" =>
              \A c \in Alerts(k, mem[k].checks) : streak'[c] >= Need[c]]_vars
  BY EarnedStep
<1>4. QED
  BY <1>1, <1>2, <1>3, PTL DEF Spec, AlertIsEarned

(* What state.json holds for said has been said or waits in the queue,     *)
(* whatever is killed and however checks hide each other: a run saves once,*)
(* at its end (Monitor.apply, notify, main).                               *)
THEOREM NothingSaidIsLost == Spec => []SaidOrWaiting
<1>1. Init => Typed /\ AllSaid
  BY InitTyped, InitRight
<1>2. Typed /\ AllSaid /\ [Next]_vars => (Typed /\ AllSaid)'
  BY StepTyped, StepSaid
<1>3. AllSaid => SaidOrWaiting
  BY DEF AllSaid, Said, SaidOrWaiting
<1>4. QED
  BY <1>1, <1>2, <1>3, PTL DEF Spec

(* And if no check hides another and no run is killed, an empty queue means*)
(* that the owner read last what the monitor believes: a message that is   *)
(* sent twice is read again before the ones after it (Monitor.notify).     *)
THEOREM MemoryStaysRight ==
  ASSUME NoGates
  PROVE  Spec => []MemoryIsRight
<1>1. Init => Typed /\ Understood
  BY InitTyped, InitRight
<1>2. Typed /\ Understood /\ [Next]_vars => (Typed /\ Understood)'
  BY StepTyped, StepUnderstood
<1>3. Typed /\ Understood => LastWord
  BY DEF Understood, EndsWith, LastWord, Agrees
<1>4. Spec => []LastWord
  BY <1>1, <1>2, <1>3, PTL DEF Spec
<1>5. LastWord /\ SaidOrWaiting => MemoryIsRight
  BY DEF MemoryIsRight
<1>6. QED
  BY <1>4, <1>5, NothingSaidIsLost, PTL
=============================================================================
