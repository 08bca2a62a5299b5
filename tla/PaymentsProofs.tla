---------------------------- MODULE PaymentsProofs ----------------------------
(***************************************************************************)
(* A charge renews a package at most once and the books hold nothing that  *)
(* was not charged, for any number of payments, threads, edits, lost       *)
(* answers, restarts and failing steps.                                    *)
(*                                                                         *)
(* The argument follows a payment.  The update that tells of it is posted, *)
(* queued and handled only after the charge; what a session is about to    *)
(* write agrees with the charge, because the amount was compared when the  *)
(* plan was read; and a charge is in the books exactly when it has renewed *)
(* a package, so the unique index stops the second transaction.            *)
(***************************************************************************)
EXTENDS Payments, SequenceTheorems, TLAPS

(* An update of a payment exists only after its charge.                    *)
Earned(task) == \A p \in Pays : task = <<"paid", p>> => p \in Charged

Bought(a) == a.stage # "none" =>
               a.user \in Users /\ a.plan \in Plans /\ a.amount \in Prices

PaymentsReal == \A p \in Pays : Bought(pay[p])

UpdatesEarned ==
  /\ \A upd \in posted : Earned(upd)
  /\ \A i \in 1 .. Len(queue) : Earned(queue[i])
  /\ \A w \in Workers : work[w].pc # "idle" => Earned(work[w].task)

SessionsAgree ==
  \A w \in Workers, p \in Pays :
    /\ Renewing(w, p) => work[w].amount = pay[p].amount
    /\ work[w].pc = "committed" /\ work[w].task = <<"paid", p>> => p \in Sold

Unsold == \A p \in Pays : p \notin Sold => renewals[p] = 0

Inv ==
  /\ TypeOK /\ PaymentsReal /\ UpdatesEarned /\ SessionsAgree
  /\ BooksBalance /\ Unsold /\ AnnouncedIsSold

(***************************************************************************)
(* Helpers.                                                                *)
(***************************************************************************)

LEMMA NoWorkTyped == NoWork \in WorkType
  BY SalesAssumption DEF NoWork, WorkType, UserRow

LEMMA IsUpdate == \A k \in Kinds, p \in Pays : <<k, p>> \in Updates
  BY DEF Updates

LEMMA KindsDiffer == \A p, q : <<"checkout", p>> # <<"paid", q>>
  OBVIOUS

(* A queue with a task added or taken has its other tasks unchanged.       *)
LEMMA Queued ==
  ASSUME NEW q \in Seq(Updates), NEW upd \in Updates, Earned(upd),
         \A i \in 1 .. Len(q) : Earned(q[i])
  PROVE  /\ Append(q, upd) \in Seq(Updates)
         /\ \A i \in 1 .. Len(Append(q, upd)) : Earned(Append(q, upd)[i])
<1>1. /\ Append(q, upd) \in Seq(Updates) /\ Len(Append(q, upd)) = Len(q) + 1
      /\ \A i \in 1 .. Len(q) : Append(q, upd)[i] = q[i]
      /\ Append(q, upd)[Len(q) + 1] = upd
  BY AppendProperties
<1>2. ASSUME NEW i \in 1 .. Len(Append(q, upd)) PROVE Earned(Append(q, upd)[i])
  <2>1. i \in 1 .. Len(q) \/ i = Len(q) + 1
    BY <1>1
  <2>2. QED
    BY <1>1, <2>1
<1>3. QED
  BY <1>1, <1>2

LEMMA Taken ==
  ASSUME NEW q \in Seq(Updates), q # <<>>, \A i \in 1 .. Len(q) : Earned(q[i])
  PROVE  /\ Head(q) \in Updates /\ Earned(Head(q)) /\ Tail(q) \in Seq(Updates)
         /\ \A i \in 1 .. Len(Tail(q)) : Earned(Tail(q)[i])
<1>1. /\ Head(q) \in Updates /\ Tail(q) \in Seq(Updates) /\ Len(Tail(q)) = Len(q) - 1
      /\ \A i \in 1 .. Len(Tail(q)) : Tail(q)[i] = q[i + 1]
  BY HeadTailProperties
<1>2. Len(q) \in Nat /\ Len(q) > 0 /\ Head(q) = q[1]
  OBVIOUS
<1>3. Earned(Head(q))
  BY <1>2
<1>4. ASSUME NEW i \in 1 .. Len(Tail(q)) PROVE Earned(Tail(q)[i])
  <2>1. i + 1 \in 1 .. Len(q) /\ Tail(q)[i] = q[i + 1]
    BY <1>1, <1>2
  <2>2. QED
    BY <2>1
<1>5. QED
  BY <1>1, <1>3, <1>4

LEMMA InitInv == Init => Inv
<1> SUFFICES ASSUME Init PROVE Inv
  OBVIOUS
<1>1. TypeOK
  <2>1. plans \in [Plans -> PlanRows]
    BY SalesAssumption DEF Init, PlanRows
  <2>2. users \in [Users -> UserRow]
    BY SalesAssumption DEF Init, UserRow
  <2>3. pay \in [Pays -> PayType]
    BY DEF Init, PayType, NoPay
  <2>4. work \in [Workers -> WorkType]
    BY NoWorkTyped DEF Init
  <2>5. edits \in 0 .. MaxEdits /\ lost \in 0 .. MaxLost /\ faults \in 0 .. MaxFaults
    BY SalesAssumption DEF Init
  <2>6. QED
    BY <2>1, <2>2, <2>3, <2>4, <2>5 DEF Init, TypeOK
<1>2. Sold = {}
  BY DEF Init, Sold
<1>3. PaymentsReal
  BY DEF Init, PaymentsReal, Bought, NoPay
<1>4. UpdatesEarned
  <2>1. posted = {} /\ Len(queue) = 0
    BY DEF Init
  <2>2. \A w \in Workers : work[w].pc = "idle"
    BY DEF Init, NoWork
  <2>3. QED
    BY <2>1, <2>2 DEF UpdatesEarned
<1>5. SessionsAgree
  BY DEF Init, SessionsAgree, Renewing, NoWork
<1>6. BooksBalance /\ Unsold /\ AnnouncedIsSold
  BY <1>2 DEF Init, BooksBalance, Unsold, AnnouncedIsSold
<1>7. QED
  BY <1>1, <1>3, <1>4, <1>5, <1>6 DEF Inv

(***************************************************************************)
(* What a step leaves alone keeps its part of the invariant.               *)
(***************************************************************************)

(* The parts that speak of payments and database only.                     *)
LEMMA RecordsKept ==
  ASSUME Inv, UNCHANGED <<pay, book, renewals>>
  PROVE  /\ PaymentsReal' /\ BooksBalance' /\ Unsold' /\ Sold' = Sold /\ Charged' = Charged
         /\ \A task : Earned(task) => Earned(task)'
<1>1. PaymentsReal'
  BY DEF Inv, PaymentsReal, Bought
<1>2. BooksBalance'
  BY DEF Inv, BooksBalance
<1>3. Sold' = Sold /\ Charged' = Charged
  BY DEF Sold, Charged
<1>4. Unsold'
  BY <1>3 DEF Inv, Unsold
<1>5. ASSUME NEW task, Earned(task) PROVE Earned(task)'
  BY <1>3, <1>5 DEF Earned
<1>6. QED
  BY <1>1, <1>2, <1>3, <1>4, <1>5

(* A thread that ends its task holds nothing.                              *)
LEMMA ThreadDone ==
  ASSUME Inv, NEW w \in Workers, Done(w),
         UNCHANGED <<database, pay, posted, seen, queue, renewals>>,
         told' \in [Pays -> {"nothing", "failed", "renewed"}],
         \A p \in Pays : told'[p] = "renewed" => p \in Sold,
         edits' \in 0 .. MaxEdits, lost' \in 0 .. MaxLost, faults' \in 0 .. MaxFaults
  PROVE  Inv'
<1>1. work' \in [Workers -> WorkType]
  BY NoWorkTyped DEF Inv, TypeOK, Done
<1>2. /\ work'[w].pc = "idle"
      /\ \A v \in Workers : v # w => work'[v] = work[v]
  BY DEF Inv, TypeOK, Done, NoWork
<1>3. TypeOK'
  BY <1>1 DEF Inv, TypeOK, database
<1>4. /\ PaymentsReal' /\ BooksBalance' /\ Unsold' /\ Sold' = Sold
      /\ \A task : Earned(task) => Earned(task)'
  BY RecordsKept DEF database
<1>5. UpdatesEarned'
  BY <1>2, <1>4 DEF Inv, UpdatesEarned
<1>6. SessionsAgree'
  BY <1>2, <1>4 DEF Inv, SessionsAgree, Renewing
<1>7. AnnouncedIsSold'
  BY <1>4 DEF AnnouncedIsSold
<1>8. QED
  BY <1>3, <1>4, <1>5, <1>6, <1>7 DEF Inv

(* A payment that moves on, before it is charged or with the charge.       *)
LEMMA PaymentMoves ==
  ASSUME Inv, NEW p \in Pays, NEW row \in PayType,
         p \notin Charged, Bought(row), pay' = [pay EXCEPT ![p] = row],
         UNCHANGED <<book, renewals>>
  PROVE  /\ pay' \in [Pays -> PayType] /\ PaymentsReal' /\ BooksBalance' /\ Unsold'
         /\ Sold' = Sold /\ (row.stage = "charged" => p \in Charged')
         /\ \A q \in Charged : pay'[q] = pay[q] /\ q \in Charged'
         /\ \A task : Earned(task) => Earned(task)'
<1>1. pay' \in [Pays -> PayType]
  BY DEF Inv, TypeOK
<1>2. pay'[p] = row /\ \A q \in Pays : q # p => pay'[q] = pay[q]
  BY DEF Inv, TypeOK
<1>3. PaymentsReal'
  BY <1>2 DEF Inv, PaymentsReal, Bought
<1>4. /\ \A q \in Charged : pay'[q] = pay[q] /\ q \in Charged'
      /\ row.stage = "charged" => p \in Charged'
  BY <1>2 DEF Charged
<1>5. BooksBalance'
  <2> SUFFICES ASSUME NEW r \in book
               PROVE  /\ pay'[r.charge] = [stage |-> "charged", user |-> r.user,
                                           plan |-> r.plan, amount |-> r.amount]
                      /\ renewals'[r.charge] = 1
    BY DEF BooksBalance
  <2>1. /\ pay[r.charge] = [stage |-> "charged", user |-> r.user,
                            plan |-> r.plan, amount |-> r.amount]
        /\ renewals[r.charge] = 1 /\ r.charge \in Pays
    BY DEF Inv, BooksBalance, TypeOK, BookRow
  <2>2. r.charge \in Charged
    BY <2>1 DEF Charged
  <2>3. QED
    BY <2>1, <2>2, <1>4
<1>6. Sold' = Sold /\ Unsold'
  BY DEF Inv, Unsold, Sold
<1>7. ASSUME NEW task, Earned(task) PROVE Earned(task)'
  BY <1>4, <1>7 DEF Earned
<1>8. QED
  BY <1>1, <1>3, <1>4, <1>5, <1>6, <1>7

(* What a thread is about to write is not touched by it.                   *)
LEMMA SessionsKept ==
  ASSUME Inv, UNCHANGED <<work, book>>, Sold' = Sold,
         \A q \in Charged : pay'[q] = pay[q]
  PROVE  SessionsAgree'
<1> SUFFICES ASSUME NEW w \in Workers, NEW p \in Pays
             PROVE  /\ Renewing(w, p) => work[w].amount = pay'[p].amount
                    /\ work[w].pc = "committed" /\ work[w].task = <<"paid", p>> => p \in Sold
  BY DEF SessionsAgree, Renewing
<1>1. ASSUME Renewing(w, p) PROVE work[w].amount = pay'[p].amount
  <2>1. p \in Charged
    BY <1>1 DEF Inv, UpdatesEarned, Earned, Renewing
  <2>2. QED
    BY <1>1, <2>1 DEF Inv, SessionsAgree
<1>2. QED
  BY <1>1 DEF Inv, SessionsAgree

(***************************************************************************)
(* The buyer and Telegram.                                                 *)
(***************************************************************************)

(* A payment that moves while the panel does nothing; what is posted with  *)
(* it is no news of a charge.                                              *)
LEMMA BuyerStep ==
  ASSUME Inv, NEW p \in Pays, NEW row \in PayType, p \notin Charged, Bought(row),
         pay' = [pay EXCEPT ![p] = row],
         posted' \in {posted, posted \cup {<<"checkout", p>>}},
         UNCHANGED <<database, panel, told, renewals, bounds>>
  PROVE  Inv'
<1>1. UNCHANGED <<plans, users, book, seen, queue, work, told, renewals, edits, lost, faults>>
  BY DEF database, panel, bounds
<1>2. /\ pay' \in [Pays -> PayType] /\ PaymentsReal' /\ BooksBalance' /\ Unsold'
      /\ Sold' = Sold /\ \A q \in Charged : pay'[q] = pay[q]
      /\ \A task : Earned(task) => Earned(task)'
  BY <1>1, PaymentMoves
<1>3. posted' \subseteq Updates
  BY IsUpdate DEF Inv, TypeOK, Kinds
<1>4. TypeOK'
  BY <1>1, <1>2, <1>3 DEF Inv, TypeOK
<1>5. UpdatesEarned'
  <2>1. \A upd \in posted' : Earned(upd)
    BY KindsDiffer DEF Inv, UpdatesEarned, Earned
  <2>2. QED
    BY <1>1, <1>2, <2>1 DEF Inv, UpdatesEarned
<1>6. SessionsAgree'
  BY <1>1, <1>2, SessionsKept
<1>7. AnnouncedIsSold'
  BY <1>1, <1>2 DEF Inv, AnnouncedIsSold
<1>8. QED
  BY <1>2, <1>4, <1>5, <1>6, <1>7 DEF Inv

LEMMA InvoiceInv ==
  ASSUME Inv, NEW p \in Pays, NEW u \in Users, NEW pl \in Plans, Invoice(p, u, pl)
  PROVE  Inv'
<1> DEFINE row == [stage |-> "invoiced", user |-> u, plan |-> pl, amount |-> plans[pl].price]
<1>1. plans[pl].price \in Prices
  BY DEF Inv, TypeOK, PlanRows
<1>2. row \in PayType /\ Bought(row)
  BY <1>1 DEF PayType, Bought
<1>3. p \notin Charged
  BY DEF Invoice, Charged
<1>4. pay' = [pay EXCEPT ![p] = row] /\ posted' = posted
  BY DEF Invoice
<1>5. QED
  BY <1>2, <1>3, <1>4, BuyerStep DEF Invoice

(* A payment at a new stage is of the same buyer, plan and amount.         *)
LEMMA NewStage ==
  ASSUME Inv, NEW p \in Pays, NEW stage \in {"asked", "charged", "refused"},
         pay[p].stage # "none", pay[p].stage # "charged"
  PROVE  \E row \in PayType :
           /\ [pay EXCEPT ![p].stage = stage] = [pay EXCEPT ![p] = row]
           /\ Bought(row) /\ row.stage = stage /\ p \notin Charged
<1> DEFINE row == [pay[p] EXCEPT !.stage = stage]
<1>1. pay[p] \in PayType /\ Bought(pay[p])
  BY DEF Inv, TypeOK, PaymentsReal
<1>2. row \in PayType /\ Bought(row) /\ row.stage = stage
  BY <1>1 DEF PayType, Bought
<1>3. [pay EXCEPT ![p].stage = stage] = [pay EXCEPT ![p] = row]
  BY DEF Inv, TypeOK
<1>4. p \notin Charged
  BY DEF Charged
<1>5. QED
  BY <1>2, <1>3, <1>4

LEMMA AskInv ==
  ASSUME Inv, NEW p \in Pays, Ask(p) \/ Declined(p)
  PROVE  Inv'
<1>1. PICK stage \in {"asked", "charged", "refused"} :
        /\ pay' = [pay EXCEPT ![p].stage = stage]
        /\ pay[p].stage # "none" /\ pay[p].stage # "charged"
  BY DEF Ask, Declined
<1>2. PICK row \in PayType : /\ pay' = [pay EXCEPT ![p] = row]
                             /\ Bought(row) /\ p \notin Charged
  BY <1>1, NewStage
<1>3. /\ posted' \in {posted, posted \cup {<<"checkout", p>>}}
      /\ UNCHANGED <<database, panel, told, renewals, bounds>>
  BY DEF Ask, Declined
<1>4. QED
  BY <1>2, <1>3, BuyerStep

(***************************************************************************)
(* The panel takes updates.                                                *)
(***************************************************************************)

LEMMA AnsweredTyped ==
  ASSUME Inv, NEW upd, Answered(upd)
  PROVE  posted' \subseteq posted /\ lost' \in 0 .. MaxLost
  BY SalesAssumption DEF Inv, TypeOK, Answered

(* Steps of the panel's memory: records, buyers and threads stay.          *)
LEMMA MemoryStep ==
  ASSUME Inv, UNCHANGED <<database, pay, work, told, renewals>>,
         posted' \subseteq posted, seen' \subseteq Updates, queue' \in Seq(Updates),
         \A i \in 1 .. Len(queue') : Earned(queue'[i]),
         edits' \in 0 .. MaxEdits, lost' \in 0 .. MaxLost, faults' \in 0 .. MaxFaults
  PROVE  Inv'
<1>1. /\ PaymentsReal' /\ BooksBalance' /\ Unsold' /\ Sold' = Sold
      /\ \A task : Earned(task) => Earned(task)'
  BY RecordsKept DEF database
<1>2. TypeOK'
  BY DEF Inv, TypeOK, database
<1>3. UpdatesEarned'
  BY <1>1 DEF Inv, UpdatesEarned
<1>4. SessionsAgree'
  BY <1>1, SessionsKept DEF database
<1>5. AnnouncedIsSold'
  BY <1>1 DEF Inv, AnnouncedIsSold
<1>6. QED
  BY <1>1, <1>2, <1>3, <1>4, <1>5 DEF Inv

LEMMA DeliverInv ==
  ASSUME Inv, NEW upd \in Updates, Deliver(upd)
  PROVE  Inv'
<1>1. posted' \subseteq posted /\ lost' \in 0 .. MaxLost
  BY AnsweredTyped DEF Deliver
<1>2. Earned(upd) /\ queue \in Seq(Updates) /\ \A i \in 1 .. Len(queue) : Earned(queue[i])
  BY DEF Inv, TypeOK, UpdatesEarned, Deliver
<1>3. queue' \in Seq(Updates) /\ \A i \in 1 .. Len(queue') : Earned(queue'[i])
  BY <1>2, Queued DEF Deliver
<1>4. seen' \subseteq Updates /\ edits' \in 0 .. MaxEdits /\ faults' \in 0 .. MaxFaults
  BY DEF Inv, TypeOK, Deliver
<1>5. QED
  BY <1>1, <1>3, <1>4, MemoryStep DEF Deliver

LEMMA MemoryInv ==
  ASSUME Inv, NEW upd \in Updates, SubmitFails(upd) \/ Forget(upd)
  PROVE  Inv'
<1>1. posted' \subseteq posted /\ lost' \in 0 .. MaxLost /\ faults' \in 0 .. MaxFaults
      /\ edits' \in 0 .. MaxEdits /\ seen' \subseteq Updates
  <2>1. CASE SubmitFails(upd)
    BY <2>1, AnsweredTyped, SalesAssumption DEF SubmitFails, Inv, TypeOK, panel
  <2>2. CASE Forget(upd)
    BY <2>2, SalesAssumption DEF Forget, Inv, TypeOK
  <2>3. QED
    BY <2>1, <2>2
<1>2. UNCHANGED <<database, pay, work, told, renewals, queue>>
  BY DEF SubmitFails, Forget, panel
<1>3. queue' \in Seq(Updates) /\ \A i \in 1 .. Len(queue') : Earned(queue'[i])
  BY <1>2 DEF Inv, TypeOK, UpdatesEarned
<1>4. QED
  BY <1>1, <1>2, <1>3, MemoryStep

LEMMA RestartInv == ASSUME Inv, Restart PROVE Inv'
<1>1. /\ PaymentsReal' /\ BooksBalance' /\ Unsold' /\ Sold' = Sold
      /\ \A task : Earned(task) => Earned(task)'
  BY RecordsKept DEF Restart, database
<1>2. \A w \in Workers : work'[w].pc = "idle"
  BY DEF Restart, NoWork
<1>3. TypeOK'
  <2>1. work' \in [Workers -> WorkType]
    BY NoWorkTyped DEF Restart
  <2>2. faults' \in 0 .. MaxFaults
    BY SalesAssumption DEF Restart, Inv, TypeOK
  <2>3. QED
    BY <2>1, <2>2 DEF Restart, Inv, TypeOK, database
<1>4. UpdatesEarned'
  <2>1. Len(queue') = 0
    BY DEF Restart
  <2>2. QED
    BY <1>1, <1>2, <2>1 DEF Restart, Inv, UpdatesEarned
<1>5. SessionsAgree'
  BY <1>2 DEF SessionsAgree, Renewing
<1>6. AnnouncedIsSold'
  BY <1>1 DEF Restart, Inv, AnnouncedIsSold
<1>7. QED
  BY <1>1, <1>3, <1>4, <1>5, <1>6 DEF Inv

(***************************************************************************)
(* A thread of the pool.                                                   *)
(***************************************************************************)

(* A thread that goes on: its type, and what the others hold.              *)
LEMMA ThreadMoves ==
  ASSUME Inv, NEW w \in Workers, NEW row \in WorkType, work' = [work EXCEPT ![w] = row]
  PROVE  /\ work' \in [Workers -> WorkType] /\ work'[w] = row
         /\ \A v \in Workers : v # w => work'[v] = work[v]
  BY DEF Inv, TypeOK

LEMMA Started ==
  ASSUME NEW upd \in Updates
  PROVE  LET row == [NoWork EXCEPT !.pc = "start", !.task = upd]
         IN row \in WorkType /\ row.pc = "start" /\ row.task = upd
BY SalesAssumption DEF NoWork, WorkType, UserRow

LEMMA TakeInv == ASSUME Inv, NEW w \in Workers, Take(w) PROVE Inv'
<1> DEFINE row == [NoWork EXCEPT !.pc = "start", !.task = Head(queue)]
<1>1. /\ Head(queue) \in Updates /\ Earned(Head(queue)) /\ queue' \in Seq(Updates)
      /\ \A i \in 1 .. Len(queue') : Earned(queue'[i])
  <2>1. queue \in Seq(Updates) /\ queue # <<>> /\ \A i \in 1 .. Len(queue) : Earned(queue[i])
    BY DEF Inv, TypeOK, UpdatesEarned, Take
  <2>2. queue' = Tail(queue)
    BY DEF Take
  <2>3. QED
    BY <2>1, <2>2, Taken
<1>2. row \in WorkType /\ row.pc = "start" /\ row.task = Head(queue)
  BY <1>1, Started
<1>3. work' = [work EXCEPT ![w] = row]
  BY DEF Take
<1>4. /\ work' \in [Workers -> WorkType] /\ work'[w].pc = "start" /\ Earned(work'[w].task)
      /\ \A v \in Workers : v # w => work'[v] = work[v]
  BY <1>1, <1>2, <1>3, ThreadMoves
<1>5. /\ PaymentsReal' /\ BooksBalance' /\ Unsold' /\ Sold' = Sold
      /\ \A task : Earned(task) => Earned(task)'
  BY RecordsKept DEF Take, database
<1>6. TypeOK'
  BY <1>1, <1>4 DEF Take, Inv, TypeOK, database, bounds
<1>7. UpdatesEarned'
  BY <1>1, <1>4, <1>5 DEF Take, Inv, UpdatesEarned
<1>8. SessionsAgree'
  BY <1>4, <1>5 DEF Take, Inv, SessionsAgree, Renewing
<1>9. AnnouncedIsSold'
  BY <1>5 DEF Take, Inv, AnnouncedIsSold
<1>10. QED
  BY <1>5, <1>6, <1>7, <1>8, <1>9 DEF Inv

LEMMA CheckoutInv ==
  ASSUME Inv, NEW w \in Workers, NEW p \in Pays, Checkout(w, p)
  PROVE  Inv'
<1>1. CASE pay[p].stage # "asked"
  <2>1. UNCHANGED <<pay, posted>>
    BY <1>1 DEF Checkout
  <2>2. UNCHANGED <<database, seen, queue, told, renewals, edits, lost, faults>> /\ Done(w)
    BY DEF Checkout, bounds
  <2>3. QED
    BY <2>1, <2>2, ThreadDone DEF Inv, TypeOK, AnnouncedIsSold
<1>2. CASE pay[p].stage = "asked"
  <2>1. PICK stage \in {"asked", "charged", "refused"} :
          /\ pay' = [pay EXCEPT ![p].stage = stage]
          /\ (posted' = posted \/ (stage = "charged" /\ posted' = posted \cup {<<"paid", p>>}))
    BY <1>2 DEF Checkout
  <2>2. PICK row \in PayType : /\ pay' = [pay EXCEPT ![p] = row]
                               /\ Bought(row) /\ row.stage = stage /\ p \notin Charged
    BY <1>2, <2>1, NewStage
  <2>3. UNCHANGED <<plans, users, book, seen, queue, told, renewals, edits, lost, faults>>
    BY DEF Checkout, database, bounds
  <2>4. /\ pay' \in [Pays -> PayType] /\ PaymentsReal' /\ BooksBalance' /\ Unsold'
        /\ Sold' = Sold /\ (stage = "charged" => p \in Charged')
        /\ \A q \in Charged : pay'[q] = pay[q]
        /\ \A task : Earned(task) => Earned(task)'
    BY <2>2, <2>3, PaymentMoves
  <2>5. /\ work' \in [Workers -> WorkType] /\ work'[w].pc = "idle"
        /\ \A v \in Workers : v # w => work'[v] = work[v]
    BY NoWorkTyped, ThreadMoves DEF Checkout, Done, NoWork
  <2>6. posted' \subseteq Updates
    BY <2>1, IsUpdate DEF Inv, TypeOK, Kinds
  <2>7. TypeOK'
    BY <2>3, <2>4, <2>5, <2>6 DEF Inv, TypeOK
  <2>8. UpdatesEarned'
    <3>1. ASSUME NEW upd \in posted' PROVE Earned(upd)'
      BY <2>1, <2>4 DEF Inv, UpdatesEarned, Earned
    <3>2. QED
      BY <2>3, <2>4, <2>5, <3>1 DEF Inv, UpdatesEarned
  <2>9. SessionsAgree'
    <3> SUFFICES ASSUME NEW v \in Workers, NEW q \in Pays, v # w
                 PROVE  /\ Renewing(v, q) => work[v].amount = pay'[q].amount
                        /\ work[v].pc = "committed" /\ work[v].task = <<"paid", q>> => q \in Sold
      BY <2>4, <2>5 DEF SessionsAgree, Renewing
    <3>1. Renewing(v, q) => q \in Charged
      BY DEF Inv, UpdatesEarned, Earned, Renewing
    <3>2. QED
      BY <2>4, <3>1 DEF Inv, SessionsAgree
  <2>10. AnnouncedIsSold'
    BY <2>3, <2>4 DEF Inv, AnnouncedIsSold
  <2>11. QED
    BY <2>4, <2>7, <2>8, <2>9, <2>10 DEF Inv
<1>3. QED
  BY <1>1, <1>2

(* The steps that end a task without a new row in the books.               *)
LEMMA EndInv ==
  ASSUME Inv, NEW w \in Workers, NEW p \in Pays,
         \/ Ignore(w, p) \/ Mismatch(w, p) \/ AlreadySold(w, p)
         \/ Duplicate(w, p) \/ Announce(w, p) \/ TaskFails(w)
  PROVE  Inv'
<1>1. UNCHANGED <<database, pay, posted, seen, queue, renewals>> /\ Done(w)
  BY DEF Ignore, Mismatch, AlreadySold, Duplicate, Announce, TaskFails
<1>2. edits' \in 0 .. MaxEdits /\ lost' \in 0 .. MaxLost /\ faults' \in 0 .. MaxFaults
  BY SalesAssumption
     DEF Ignore, Mismatch, AlreadySold, Duplicate, Announce, TaskFails, Inv, TypeOK, bounds
<1>3. \/ told' = told
      \/ told' = [told EXCEPT ![p] = "failed"]
      \/ told' = [told EXCEPT ![p] = "renewed"] /\ p \in Sold
  BY DEF Ignore, Mismatch, AlreadySold, Duplicate, Announce, TaskFails, Inv, SessionsAgree
<1>4. told' \in [Pays -> {"nothing", "failed", "renewed"}]
  BY <1>3 DEF Inv, TypeOK
<1>5. \A q \in Pays : told'[q] = "renewed" => q \in Sold
  BY <1>3 DEF Inv, TypeOK, AnnouncedIsSold
<1>6. QED
  BY <1>1, <1>2, <1>4, <1>5, ThreadDone

LEMMA PrepareInv ==
  ASSUME Inv, NEW w \in Workers, NEW p \in Pays, Prepare(w, p)
  PROVE  Inv'
<1>1. work[w].pc = "start" /\ work[w].task = <<"paid", p>> /\ Earned(work[w].task)
  BY DEF Prepare, Starts, Inv, UpdatesEarned
<1>2. p \in Charged /\ Bought(pay[p]) /\ pay[p].stage # "none"
  BY <1>1 DEF Earned, Charged, Inv, PaymentsReal
<1>3. plans[pay[p].plan] \in PlanRows /\ users[pay[p].user] \in UserRow
  BY <1>2 DEF Bought, Inv, TypeOK
<1>4. PICK limit \in Limits, amount \in Prices, old \in UserRow :
        /\ limit = plans[pay[p].plan].limit /\ amount = plans[pay[p].plan].price
        /\ old = users[pay[p].user]
  BY <1>3 DEF PlanRows
<1>5. amount = pay[p].amount
  BY <1>4 DEF Prepare, MatchesPlan
<1>6. work[w] \in WorkType
  BY DEF Inv, TypeOK
<1> DEFINE row == [work[w] EXCEPT !.pc = "renewing", !.limit = limit,
                                  !.amount = amount, !.old = old]
<1>7. row \in WorkType /\ row.pc = "renewing" /\ row.task = work[w].task /\ row.amount = amount
  BY <1>6 DEF WorkType
<1>8. work' = [work EXCEPT ![w] = row]
  BY <1>4 DEF Prepare, Inv, TypeOK
<1>9. /\ work' \in [Workers -> WorkType] /\ work'[w] = row
      /\ \A v \in Workers : v # w => work'[v] = work[v]
  BY <1>7, <1>8, ThreadMoves
<1>10. /\ PaymentsReal' /\ BooksBalance' /\ Unsold' /\ Sold' = Sold
       /\ \A task : Earned(task) => Earned(task)'
  BY RecordsKept DEF Prepare, database
<1>11. TypeOK'
  BY <1>9 DEF Prepare, Inv, TypeOK, database, bounds
<1>12. UpdatesEarned'
  BY <1>1, <1>7, <1>9, <1>10 DEF Prepare, Inv, UpdatesEarned
<1>13. SessionsAgree'
  <2> SUFFICES ASSUME NEW v \in Workers, NEW q \in Pays
               PROVE  /\ Renewing(v, q)' => work'[v].amount = pay[q].amount
                      /\ work'[v].pc = "committed" /\ work'[v].task = <<"paid", q>> => q \in Sold'
    <3>1. pay' = pay
      BY DEF Prepare
    <3>2. QED
      BY <3>1 DEF SessionsAgree
  <2>1. CASE v = w
    BY <2>1, <1>1, <1>5, <1>7, <1>9 DEF Renewing
  <2>2. CASE v # w
    BY <2>2, <1>9, <1>10 DEF Inv, SessionsAgree, Renewing
  <2>3. QED
    BY <2>1, <2>2
<1>14. AnnouncedIsSold'
  BY <1>10 DEF Prepare, Inv, AnnouncedIsSold
<1>15. QED
  BY <1>10, <1>11, <1>12, <1>13, <1>14 DEF Inv

LEMMA CommittedTyped ==
  ASSUME NEW r \in WorkType
  PROVE  LET row == [r EXCEPT !.pc = "committed"]
         IN row \in WorkType /\ row.pc = "committed" /\ row.task = r.task
BY DEF WorkType

(* What Commit writes: one new row of the books, one renewal.              *)
LEMMA CommitWrites ==
  ASSUME Inv, NEW w \in Workers, NEW p \in Pays, Commit(w, p)
  PROVE  \E new \in BookRow :
           /\ book' = book \cup {new} /\ new.charge = p /\ p \notin Sold /\ p \in Charged
           /\ pay[p] = [stage |-> "charged", user |-> new.user,
                        plan |-> new.plan, amount |-> new.amount]
           /\ renewals' = [renewals EXCEPT ![p] = 1] /\ renewals[p] = 0
           /\ users' \in [Users -> UserRow]
<1>1. Renewing(w, p) /\ p \notin Sold /\ work[w] \in WorkType /\ Earned(work[w].task)
  BY DEF Commit, NotInIndex, Inv, TypeOK, UpdatesEarned, Renewing
<1>2. p \in Charged /\ Bought(pay[p]) /\ pay[p] \in PayType /\ pay[p].stage = "charged"
  BY <1>1 DEF Renewing, Earned, Charged, Inv, PaymentsReal, TypeOK
<1>3. work[w].amount = pay[p].amount /\ work[w].limit \in Limits /\ work[w].old \in UserRow
  BY <1>1 DEF Inv, SessionsAgree, WorkType
<1>4. pay[p].user \in Users /\ pay[p].plan \in Plans /\ pay[p].amount \in Prices
  BY <1>2 DEF Bought
<1> DEFINE new == [charge |-> p, user |-> pay[p].user, plan |-> pay[p].plan,
                   limit |-> work[w].limit, amount |-> work[w].amount]
<1>5. new \in BookRow
  BY <1>3, <1>4 DEF BookRow
<1>6. book' = book \cup {new}
  BY DEF Commit
<1>7. pay[p] = [stage |-> "charged", user |-> new.user, plan |-> new.plan,
                amount |-> new.amount]
  BY <1>2, <1>3 DEF PayType
<1>8. renewals[p] = 0 /\ renewals' = [renewals EXCEPT ![p] = 1]
  <2>1. renewals[p] = 0
    BY <1>1 DEF Inv, Unsold
  <2>2. renewals' = [renewals EXCEPT ![p] = renewals[p] + 1] /\ renewals[p] + 1 = 1
    BY <2>1 DEF Commit
  <2>3. QED
    BY <2>1, <2>2
<1>9. users' \in [Users -> UserRow]
  <2>1. users[pay[p].user] \in UserRow
    BY <1>4 DEF Inv, TypeOK
  <2>2. PICK wr : wr = Written(work[w].old, [plan |-> pay[p].plan, limit |-> work[w].limit],
                               users[pay[p].user])
    OBVIOUS
  <2>3. wr \in UserRow
    BY <1>3, <1>4, <2>1, <2>2 DEF Written, UserRow
  <2>4. users' = [users EXCEPT ![pay[p].user] = wr]
    BY <2>2 DEF Commit
  <2>5. QED
    BY <2>3, <2>4 DEF Inv, TypeOK
<1>10. QED
  BY <1>1, <1>2, <1>5, <1>6, <1>7, <1>8, <1>9

LEMMA CommitInv ==
  ASSUME Inv, NEW w \in Workers, NEW p \in Pays, Commit(w, p)
  PROVE  Inv'
<1>1. PICK new \in BookRow :
        /\ book' = book \cup {new} /\ new.charge = p /\ p \notin Sold /\ p \in Charged
        /\ pay[p] = [stage |-> "charged", user |-> new.user,
                     plan |-> new.plan, amount |-> new.amount]
        /\ renewals' = [renewals EXCEPT ![p] = 1] /\ renewals[p] = 0
        /\ users' \in [Users -> UserRow]
  BY CommitWrites
<1>2. UNCHANGED <<plans, pay, posted, seen, queue, told, edits, lost, faults>>
  BY DEF Commit, bounds
<1>3. Sold' = Sold \cup {p} /\ Charged' = Charged
  BY <1>1, <1>2 DEF Sold, Charged
<1>4. /\ work[w] \in WorkType /\ work[w].task = <<"paid", p>> /\ Earned(work[w].task)
  BY DEF Commit, Renewing, Inv, TypeOK, UpdatesEarned
<1> DEFINE row == [work[w] EXCEPT !.pc = "committed"]
<1>5. row \in WorkType /\ row.pc = "committed" /\ row.task = <<"paid", p>>
  BY <1>4, CommittedTyped
<1>6. work' = [work EXCEPT ![w] = row]
  BY DEF Commit
<1>7. /\ work' \in [Workers -> WorkType] /\ work'[w] = row
      /\ \A v \in Workers : v # w => work'[v] = work[v]
  BY <1>5, <1>6, ThreadMoves
<1>8. TypeOK'
  BY <1>1, <1>2, <1>7 DEF Inv, TypeOK
<1>9. PaymentsReal'
  BY <1>2 DEF Inv, PaymentsReal, Bought
<1>10. UpdatesEarned'
  <2>1. \A task : Earned(task) => Earned(task)'
    BY <1>3 DEF Earned
  <2>2. QED
    BY <1>2, <1>4, <1>5, <1>7, <2>1 DEF Inv, UpdatesEarned
<1>11. SessionsAgree'
  <2> SUFFICES ASSUME NEW v \in Workers, NEW q \in Pays
               PROVE  /\ Renewing(v, q)' => work'[v].amount = pay[q].amount
                      /\ work'[v].pc = "committed" /\ work'[v].task = <<"paid", q>> => q \in Sold'
    BY <1>2 DEF SessionsAgree
  <2>1. CASE v = w
    BY <2>1, <1>3, <1>5, <1>7 DEF Renewing
  <2>2. CASE v # w
    BY <2>2, <1>3, <1>7 DEF Inv, SessionsAgree, Renewing
  <2>3. QED
    BY <2>1, <2>2
<1>12. BooksBalance'
  <2> SUFFICES ASSUME NEW r \in book'
               PROVE  /\ pay[r.charge] = [stage |-> "charged", user |-> r.user,
                                          plan |-> r.plan, amount |-> r.amount]
                      /\ renewals'[r.charge] = 1
    BY <1>2 DEF BooksBalance
  <2>1. CASE r = new
    BY <2>1, <1>1 DEF Inv, TypeOK
  <2>2. CASE r \in book
    <3>1. r.charge \in Sold /\ r.charge \in Pays
      BY <2>2 DEF Sold, Inv, TypeOK, BookRow
    <3>2. renewals'[r.charge] = renewals[r.charge]
      BY <1>1, <3>1 DEF Inv, TypeOK
    <3>3. QED
      BY <2>2, <3>2 DEF Inv, BooksBalance
  <2>3. QED
    BY <1>1, <2>1, <2>2
<1>13. Unsold'
  BY <1>1, <1>3 DEF Inv, Unsold, TypeOK
<1>14. AnnouncedIsSold'
  BY <1>2, <1>3 DEF Inv, AnnouncedIsSold
<1>15. QED
  BY <1>8, <1>9, <1>10, <1>11, <1>12, <1>13, <1>14 DEF Inv

(***************************************************************************)
(* The administrator.                                                      *)
(***************************************************************************)

LEMMA EditsInv ==
  ASSUME Inv, Edits, plans' \in [Plans -> PlanRows], users' \in [Users -> UserRow]
  PROVE  Inv'
<1>1. UNCHANGED <<book, pay, posted, seen, queue, work, told, renewals, lost, faults>>
  BY DEF Edits, panel
<1>2. /\ PaymentsReal' /\ BooksBalance' /\ Unsold' /\ Sold' = Sold
      /\ \A task : Earned(task) => Earned(task)'
  BY <1>1, RecordsKept
<1>3. TypeOK'
  BY <1>1, SalesAssumption DEF Edits, Inv, TypeOK
<1>4. UpdatesEarned'
  BY <1>1, <1>2 DEF Inv, UpdatesEarned
<1>5. SessionsAgree'
  BY <1>1, <1>2, SessionsKept
<1>6. AnnouncedIsSold'
  BY <1>1, <1>2 DEF Inv, AnnouncedIsSold
<1>7. QED
  BY <1>2, <1>3, <1>4, <1>5, <1>6 DEF Inv

LEMMA EditPlanInv ==
  ASSUME Inv, NEW pl \in Plans, NEW row \in PlanRows, EditPlan(pl, row)
  PROVE  Inv'
<1>1. plans' \in [Plans -> PlanRows]
  BY DEF EditPlan, Inv, TypeOK
<1>2. ASSUME NEW u \in Users PROVE [users[u] EXCEPT !.limit = row.limit] \in UserRow
  BY DEF Inv, TypeOK, UserRow, PlanRows
<1>3. users' \in [Users -> UserRow]
  BY <1>2 DEF EditPlan, Inv, TypeOK
<1>4. QED
  BY <1>1, <1>3, EditsInv DEF EditPlan

LEMMA SwitchPlanInv ==
  ASSUME Inv, NEW pl \in Plans, SwitchPlan(pl)
  PROVE  Inv'
<1>1. [plans[pl] EXCEPT !.enable = ~plans[pl].enable] \in PlanRows
  BY DEF Inv, TypeOK, PlanRows
<1>2. plans' = [plans EXCEPT ![pl] = [plans[pl] EXCEPT !.enable = ~plans[pl].enable]]
  BY DEF SwitchPlan
<1>3. plans' \in [Plans -> PlanRows]
  BY <1>1, <1>2 DEF Inv, TypeOK
<1>4. users' \in [Users -> UserRow]
  BY DEF SwitchPlan, Inv, TypeOK
<1>5. QED
  BY <1>3, <1>4, EditsInv DEF SwitchPlan

LEMMA ChoosePlanInv ==
  ASSUME Inv, NEW u \in Users, NEW pl \in Plans, ChoosePlan(u, pl)
  PROVE  Inv'
<1> DEFINE limit == IF plans[pl].enable THEN plans[pl].limit ELSE users[u].limit
<1>1. limit \in Limits /\ users[u] \in UserRow
  BY DEF Inv, TypeOK, PlanRows, UserRow
<1>2. PICK row : row = [users[u] EXCEPT !.plan = pl, !.limit = limit]
  OBVIOUS
<1>3. row \in UserRow
  BY <1>1, <1>2 DEF UserRow
<1>4. users' = [users EXCEPT ![u] = row]
  BY <1>2 DEF ChoosePlan, Inv, TypeOK, UserRow
<1>5. users' \in [Users -> UserRow] /\ plans' \in [Plans -> PlanRows]
  BY <1>3, <1>4 DEF ChoosePlan, Inv, TypeOK
<1>6. QED
  BY <1>5, EditsInv DEF ChoosePlan

(***************************************************************************)
(* The invariant, and what follows from it.                                *)
(***************************************************************************)

LEMMA TaskInv ==
  ASSUME Inv, NEW w \in Workers, NEW p \in Pays, Task(w, p)
  PROVE  Inv'
BY CheckoutInv, EndInv, PrepareInv, CommitInv DEF Task

LEMMA NextInv == Inv /\ [Next]_vars => Inv'
<1> SUFFICES ASSUME Inv, [Next]_vars PROVE Inv'
  OBVIOUS
<1>1. CASE UNCHANGED vars
  <2>1. UNCHANGED <<database, pay, work, told, renewals, posted, seen, queue, edits, lost, faults>>
    BY <1>1 DEF vars, panel, bounds
  <2>2. QED
    BY <2>1, MemoryStep DEF Inv, TypeOK, UpdatesEarned
<1>2. ASSUME NEW p \in Pays, NEW u \in Users, NEW pl \in Plans, Invoice(p, u, pl) PROVE Inv'
  BY <1>2, InvoiceInv
<1>3. ASSUME NEW p \in Pays, Ask(p) \/ Declined(p) PROVE Inv'
  BY <1>3, AskInv
<1>4. ASSUME NEW p \in Pays, NEW w \in Workers, Task(w, p) PROVE Inv'
  BY <1>4, TaskInv
<1>5. ASSUME NEW upd \in Updates, Deliver(upd) PROVE Inv'
  BY <1>5, DeliverInv
<1>6. ASSUME NEW upd \in Updates, SubmitFails(upd) \/ Forget(upd) PROVE Inv'
  BY <1>6, MemoryInv
<1>7. ASSUME NEW w \in Workers, Take(w) PROVE Inv'
  BY <1>7, TakeInv
<1>8. ASSUME NEW w \in Workers, TaskFails(w) PROVE Inv'
  <2>1. UNCHANGED <<database, pay, posted, seen, queue, told, renewals>> /\ Done(w)
    BY <1>8 DEF TaskFails
  <2>2. edits' \in 0 .. MaxEdits /\ lost' \in 0 .. MaxLost /\ faults' \in 0 .. MaxFaults
    BY <1>8, SalesAssumption DEF TaskFails, Inv, TypeOK
  <2>3. QED
    BY <2>1, <2>2, ThreadDone DEF Inv, TypeOK, AnnouncedIsSold
<1>9. CASE Restart
  BY <1>9, RestartInv
<1>10. ASSUME NEW pl \in Plans, SwitchPlan(pl) PROVE Inv'
  BY <1>10, SwitchPlanInv
<1>11. ASSUME NEW pl \in Plans, NEW row \in PlanRows, EditPlan(pl, row) PROVE Inv'
  BY <1>11, EditPlanInv
<1>12. ASSUME NEW u \in Users, NEW pl \in Plans, ChoosePlan(u, pl) PROVE Inv'
  BY <1>12, ChoosePlanInv
<1>13. QED
  BY <1>1, <1>2, <1>3, <1>4, <1>5, <1>6, <1>7, <1>8, <1>9, <1>10, <1>11, <1>12 DEF Next

LEMMA InvHolds == Spec => []Inv
BY InitInv, NextInv, PTL DEF Spec

(* Every variable has its type: an invoice only ever names a buyer, a plan *)
(* and a price there is, and no session writes anything else.              *)
THEOREM PaymentsTypeCorrect == Spec => []TypeOK
<1>1. Inv => TypeOK
  BY DEF Inv
<1>2. QED
  BY <1>1, InvHolds, PTL

(* The books hold what was charged: the right buyer, plan and amount, and  *)
(* one renewal for each row (successful_payment, renew_user_package).      *)
THEOREM TheBooksBalance == Spec => []BooksBalance
<1>1. Inv => BooksBalance
  BY DEF Inv
<1>2. QED
  BY <1>1, InvHolds, PTL

(* Nobody is told of a renewal that is not in the database: the notice     *)
(* follows the commit.                                                     *)
THEOREM NoFalseNews == Spec => []AnnouncedIsSold
<1>1. Inv => AnnouncedIsSold
  BY DEF Inv
<1>2. QED
  BY <1>1, InvHolds, PTL

(***************************************************************************)
(* The refinement: a charge is Checkout's, a renewal is Commit's, and no   *)
(* other step changes either.                                              *)
(***************************************************************************)

LEMMA SellingInit == Init => Selling!Init
BY DEF Init, Selling!Init, Charged, NoPay

(* A payment that moves without being charged leaves the charges.          *)
LEMMA ChargesKept ==
  ASSUME Inv, NEW p \in Pays, NEW row, p \notin Charged, row.stage # "charged",
         pay' = [pay EXCEPT ![p] = row]
  PROVE  Charged' = Charged
<1>1. /\ pay'[p] = row /\ \A q \in Pays : q # p => pay'[q] = pay[q]
      /\ pay[p].stage # "charged"
  BY DEF Inv, TypeOK, Charged
<1>2. QED
  BY <1>1 DEF Charged

LEMMA SellingBuyer ==
  ASSUME Inv, NEW p \in Pays,
         (\E u \in Users, pl \in Plans : Invoice(p, u, pl)) \/ Ask(p) \/ Declined(p)
  PROVE  UNCHANGED <<Charged, renewals>>
<1>1. CASE \E u \in Users, pl \in Plans : Invoice(p, u, pl)
  <2>1. PICK u \in Users, pl \in Plans : Invoice(p, u, pl)
    BY <1>1
  <2>2. PICK row : row = [stage |-> "invoiced", user |-> u, plan |-> pl,
                          amount |-> plans[pl].price]
    OBVIOUS
  <2>3. pay' = [pay EXCEPT ![p] = row] /\ p \notin Charged /\ row.stage # "charged"
        /\ renewals' = renewals
    BY <2>1, <2>2 DEF Invoice, Charged
  <2>4. QED
    BY <2>3, ChargesKept
<1>2. CASE Ask(p) \/ Declined(p)
  <2>1. PICK stage \in {"asked", "charged", "refused"} :
          /\ pay' = [pay EXCEPT ![p].stage = stage] /\ stage # "charged"
          /\ pay[p].stage # "none" /\ pay[p].stage # "charged" /\ renewals' = renewals
    BY <1>2 DEF Ask, Declined
  <2>2. PICK row \in PayType : /\ pay' = [pay EXCEPT ![p] = row]
                               /\ row.stage = stage /\ p \notin Charged
    BY <2>1, NewStage
  <2>3. QED
    BY <2>1, <2>2, ChargesKept
<1>3. QED
  BY <1>1, <1>2

LEMMA SellingCheckout ==
  ASSUME Inv, NEW w \in Workers, NEW p \in Pays, Checkout(w, p)
  PROVE  Selling!Charge(p) \/ UNCHANGED <<Charged, renewals>>
<1>1. renewals' = renewals
  BY DEF Checkout
<1>2. CASE pay[p].stage # "asked"
  BY <1>1, <1>2 DEF Checkout, Charged
<1>3. CASE pay[p].stage = "asked"
  <2>1. PICK stage \in {"asked", "charged", "refused"} :
          pay' = [pay EXCEPT ![p].stage = stage]
    BY <1>3 DEF Checkout
  <2>2. PICK row \in PayType : /\ pay' = [pay EXCEPT ![p] = row]
                               /\ row.stage = stage /\ p \notin Charged
    BY <1>3, <2>1, NewStage
  <2>3. CASE stage = "charged"
    <3>1. pay'[p] = row /\ \A q \in Pays : q # p => pay'[q] = pay[q]
      BY <2>2 DEF Inv, TypeOK
    <3>2. Charged' = Charged \cup {p}
      BY <2>2, <2>3, <3>1 DEF Charged
    <3>3. QED
      BY <1>1, <2>2, <3>2 DEF Selling!Charge
  <2>4. CASE stage # "charged"
    BY <1>1, <2>2, <2>4, ChargesKept
  <2>5. QED
    BY <2>3, <2>4
<1>4. QED
  BY <1>2, <1>3

LEMMA SellingCommit ==
  ASSUME Inv, NEW w \in Workers, NEW p \in Pays, Commit(w, p)
  PROVE  Selling!Renew(p)
<1>1. /\ p \in Charged /\ renewals[p] = 0 /\ renewals' = [renewals EXCEPT ![p] = 1]
  BY CommitWrites
<1>2. Charged' = Charged
  BY DEF Commit, Charged
<1>3. QED
  BY <1>1, <1>2 DEF Selling!Renew

LEMMA SellingNext == Inv /\ [Next]_vars => [Selling!Next]_<<Charged, renewals>>
<1> SUFFICES ASSUME Inv, [Next]_vars PROVE [Selling!Next]_<<Charged, renewals>>
  OBVIOUS
<1>1. ASSUME UNCHANGED <<pay, renewals>> PROVE UNCHANGED <<Charged, renewals>>
  BY <1>1 DEF Charged
<1>2. ASSUME NEW p \in Pays,
             (\E u \in Users, pl \in Plans : Invoice(p, u, pl)) \/ Ask(p) \/ Declined(p)
      PROVE  UNCHANGED <<Charged, renewals>>
  BY <1>2, SellingBuyer
<1>3. ASSUME NEW p \in Pays, NEW w \in Workers, Task(w, p)
      PROVE  Selling!Next \/ UNCHANGED <<Charged, renewals>>
  <2>1. CASE Checkout(w, p)
    BY <2>1, SellingCheckout DEF Selling!Next
  <2>2. CASE Commit(w, p)
    BY <2>2, SellingCommit DEF Selling!Next
  <2>3. CASE \/ Ignore(w, p) \/ Mismatch(w, p) \/ AlreadySold(w, p) \/ Prepare(w, p)
             \/ Duplicate(w, p) \/ Announce(w, p)
    BY <1>1, <2>3 DEF Ignore, Mismatch, AlreadySold, Prepare, Duplicate, Announce
  <2>4. QED
    BY <1>3, <2>1, <2>2, <2>3 DEF Task
<1>4. ASSUME NEW upd \in Updates, Deliver(upd) \/ SubmitFails(upd) \/ Forget(upd)
      PROVE  UNCHANGED <<Charged, renewals>>
  BY <1>1, <1>4 DEF Deliver, SubmitFails, Forget
<1>5. ASSUME NEW w \in Workers, Take(w) \/ TaskFails(w) PROVE UNCHANGED <<Charged, renewals>>
  BY <1>1, <1>5 DEF Take, TaskFails
<1>6. ASSUME Edits \/ Restart PROVE UNCHANGED <<Charged, renewals>>
  BY <1>1, <1>6 DEF Edits, Restart
<1>7. ASSUME UNCHANGED vars PROVE UNCHANGED <<Charged, renewals>>
  BY <1>1, <1>7 DEF vars
<1>8. ASSUME \/ \E pl \in Plans : SwitchPlan(pl) \/ \E row \in PlanRows : EditPlan(pl, row)
             \/ \E u \in Users, pl \in Plans : ChoosePlan(u, pl)
      PROVE  Edits
  BY <1>8 DEF SwitchPlan, EditPlan, ChoosePlan
<1>9. QED
  BY <1>2, <1>3, <1>4, <1>5, <1>6, <1>7, <1>8 DEF Next

(* Selling through the bot keeps the abstract promise: at most one renewal *)
(* for each charge, and none without one, for any number of deliveries,    *)
(* threads, restarts, failing steps and edits.                             *)
THEOREM ChargesRenewOnce == Spec => RenewedOnce
<1>1. Spec => [][Selling!Next]_<<Charged, renewals>>
  BY InvHolds, SellingNext, PTL DEF Spec
<1>2. Spec => Selling!Init
  BY SellingInit DEF Spec
<1>3. QED
  BY <1>1, <1>2 DEF RenewedOnce, Selling!Spec
=============================================================================
