------------------------------- MODULE Payments -------------------------------
(***************************************************************************)
(* Plans sold through the Telegram bot.                                    *)
(*   tgbot.py     Telegram posts updates until it is answered; the panel   *)
(*                answers at once and hands the update to a thread pool    *)
(*   Usage.py     the invoice, the pre-checkout question, the payment      *)
(*   PlanAdmin    the forms that change plans, and users with them         *)
(*                                                                         *)
(* The database is MariaDB under SQLAlchemy: a transaction reads a         *)
(* snapshot and writes the columns that differ from what it has read.  The *)
(* limits of a plan (traffic, devices) are one value.                      *)
(***************************************************************************)
EXTENDS Naturals, Sequences, FiniteSets

CONSTANTS
  NoPlan, NoUser,
  Plans, Users,
  Pays,            \* charge ids
  Limits, Prices,
  Trial,           \* the limit of a user without a plan
  Offer,           \* [Plans -> [limit : Limits, price : Prices]], at first
  Workers,         \* threads of the pool
  MaxEdits,        \* bound on the administrator's edits
  MaxLost,         \* bound on answers of the panel that do not reach Telegram,
                   \* and on updates forgotten after their time to live
  MaxFaults        \* bound on failing steps and restarts of the panel

ASSUME SalesAssumption ==
  /\ NoPlan \notin Plans /\ NoUser \notin Users
  /\ Trial \in Limits /\ Prices \subseteq Nat \ {0}
  /\ Offer \in [Plans -> [limit : Limits, price : Prices]]
  /\ {MaxEdits, MaxLost, MaxFaults} \subseteq Nat

Kinds   == {"checkout", "paid"}
Updates == Kinds \X Pays

VARIABLES
  plans, users,   \* the rows of commercial_plan and user
  book,           \* commercial_subscription, of the rows with a charge id
  pay,            \* a payment at Telegram: who, for what, how far
  posted,         \* updates Telegram delivers until it is answered
  seen, queue,    \* memory of the panel: _RECENT_UPDATE_IDS, the pool's queue
  work,           \* what each thread of the pool does
  told,           \* what the administrators heard of each payment
  renewals,       \* packages renewed for each charge
  edits, lost, faults

database == <<plans, users, book>>
bounds   == <<edits, lost, faults>>
panel    == <<seen, queue, work>>
vars     == <<database, pay, posted, panel, told, renewals, bounds>>

NoPay  == [stage |-> "none", user |-> NoUser, plan |-> NoPlan, amount |-> 0]
NoWork == [pc |-> "idle", task |-> <<>>, limit |-> Trial, amount |-> 0,
           old |-> [plan |-> NoPlan, limit |-> Trial]]

Init ==
  /\ plans = [pl \in Plans |-> [limit  |-> Offer[pl].limit,
                                price  |-> Offer[pl].price, enable |-> TRUE]]
  /\ users = [u \in Users |-> [plan |-> NoPlan, limit |-> Trial]]
  /\ book = {}
  /\ pay = [p \in Pays |-> NoPay] /\ posted = {}
  /\ seen = {} /\ queue = <<>> /\ work = [w \in Workers |-> NoWork]
  /\ told = [p \in Pays |-> "nothing"] /\ renewals = [p \in Pays |-> 0]
  /\ edits = 0 /\ lost = 0 /\ faults = 0

Charged == {p \in Pays : pay[p].stage = "charged"}
Sold    == {row.charge : row \in book}

-----------------------------------------------------------------------------
(* The buyer and Telegram.                                                 *)

(* An invoice for any plan on sale, or for the buyer's own.                *)
Invoice(p, u, pl) ==
  /\ pay[p].stage = "none"
  /\ plans[pl].enable \/ users[u].plan = pl
  /\ pay' = [pay EXCEPT ![p] = [stage |-> "invoiced", user |-> u, plan |-> pl,
                                amount |-> plans[pl].price]]
  /\ UNCHANGED <<database, posted, panel, told, renewals, bounds>>

Ask(p) ==
  /\ pay[p].stage = "invoiced"
  /\ pay' = [pay EXCEPT ![p].stage = "asked"]
  /\ posted' = posted \cup {<<"checkout", p>>}
  /\ UNCHANGED <<database, panel, told, renewals, bounds>>

(* No answer in time, or the provider declines.                            *)
Declined(p) ==
  /\ pay[p].stage = "asked"
  /\ pay' = [pay EXCEPT ![p].stage = "refused"]
  /\ UNCHANGED <<database, posted, panel, told, renewals, bounds>>

-----------------------------------------------------------------------------
(* TGBotResource.post.                                                     *)

(* The answer 200 reaches Telegram, or it does not.                        *)
Answered(upd) ==
  \/ posted' = posted \ {upd} /\ UNCHANGED lost
  \/ lost < MaxLost /\ lost' = lost + 1 /\ UNCHANGED posted

Deliver(upd) ==
  /\ upd \in posted
  /\ seen' = seen \cup {upd}
  /\ queue' = IF upd \in seen THEN queue ELSE Append(queue, upd)
  /\ Answered(upd)
  /\ UNCHANGED <<database, pay, work, told, renewals, edits, faults>>

(* The pool takes no task: the update is unmarked, and answered all the    *)
(* same.                                                                   *)
SubmitFails(upd) ==
  /\ upd \in posted \ seen
  /\ faults < MaxFaults /\ faults' = faults + 1
  /\ Answered(upd)
  /\ UNCHANGED <<database, pay, panel, told, renewals, edits>>

(* The time to live of an update that Telegram still delivers.             *)
Forget(upd) ==
  /\ upd \in seen \cap posted
  /\ lost < MaxLost /\ lost' = lost + 1
  /\ seen' = seen \ {upd}
  /\ UNCHANGED <<database, pay, posted, queue, work, told, renewals, edits, faults>>

(* The panel restarts; its memory and its open transactions are gone.      *)
Restart ==
  /\ faults < MaxFaults /\ faults' = faults + 1
  /\ seen' = {} /\ queue' = <<>> /\ work' = [w \in Workers |-> NoWork]
  /\ UNCHANGED <<database, pay, posted, told, renewals, edits, lost>>

-----------------------------------------------------------------------------
(* A thread of the pool.                                                   *)

Take(w) ==
  /\ work[w].pc = "idle" /\ queue # <<>>
  /\ work' = [work EXCEPT ![w] = [NoWork EXCEPT !.pc = "start", !.task = Head(queue)]]
  /\ queue' = Tail(queue)
  /\ UNCHANGED <<database, pay, posted, seen, told, renewals, bounds>>

Starts(w, kind, p) == work[w].pc = "start" /\ work[w].task = <<kind, p>>
OnSale(p) == plans[pay[p].plan].enable

(* Careless, for the mutation checks.                                      *)
AnyAmount(p) == TRUE

MatchesPlan(p) == pay[p].amount = plans[pay[p].plan].price

Done(w) == work' = [work EXCEPT ![w] = NoWork]

(* process_pre_checkout_query.  After a yes the buyer is charged.          *)
Checkout(w, p) ==
  /\ Starts(w, "checkout", p)
  /\ Done(w)
  /\ IF pay[p].stage # "asked" THEN UNCHANGED <<pay, posted>>
     ELSE IF OnSale(p) /\ MatchesPlan(p)
     THEN /\ pay' = [pay EXCEPT ![p].stage = "charged"]
          /\ posted' = posted \cup {<<"paid", p>>}
     ELSE /\ pay' = [pay EXCEPT ![p].stage = "refused"]
          /\ UNCHANGED posted
  /\ UNCHANGED <<database, seen, queue, told, renewals, bounds>>

(* successful_payment: the plan is not on sale any more.                   *)
Ignore(w, p) ==
  /\ Starts(w, "paid", p) /\ ~OnSale(p)
  /\ Done(w)
  /\ UNCHANGED <<database, pay, posted, seen, queue, told, renewals, bounds>>

(* Careless, for the mutation checks.                                      *)
MismatchSilently(w, p) ==
  /\ Starts(w, "paid", p) /\ OnSale(p) /\ ~MatchesPlan(p)
  /\ Done(w)
  /\ UNCHANGED <<database, pay, posted, seen, queue, told, renewals, bounds>>

Mismatch(w, p) ==
  /\ Starts(w, "paid", p) /\ OnSale(p) /\ ~MatchesPlan(p)
  /\ told' = [told EXCEPT ![p] = "failed"]
  /\ Done(w)
  /\ UNCHANGED <<database, pay, posted, seen, queue, renewals, bounds>>

AlreadySold(w, p) ==
  /\ Starts(w, "paid", p) /\ OnSale(p) /\ MatchesPlan(p) /\ p \in Sold
  /\ Done(w)
  /\ UNCHANGED <<database, pay, posted, seen, queue, told, renewals, bounds>>

(* Careless, for the mutation checks: told before it is committed.         *)
AnnouncedFirst(w, p) ==
  /\ Starts(w, "paid", p) /\ OnSale(p) /\ MatchesPlan(p) /\ p \notin Sold
  /\ work' = [work EXCEPT ![w].pc = "committed"]
  /\ UNCHANGED <<database, pay, posted, seen, queue, told, renewals, bounds>>

(* renew_user_package, in the session: the plan and the user as read.      *)
Prepare(w, p) ==
  /\ Starts(w, "paid", p) /\ OnSale(p) /\ MatchesPlan(p) /\ p \notin Sold
  /\ work' = [work EXCEPT ![w].pc = "renewing",
                          ![w].limit  = plans[pay[p].plan].limit,
                          ![w].amount = plans[pay[p].plan].price,
                          ![w].old    = users[pay[p].user]]
  /\ UNCHANGED <<database, pay, posted, seen, queue, told, renewals, bounds>>

Renewing(w, p) == work[w].pc = "renewing" /\ work[w].task = <<"paid", p>>

(* Without the unique index, for the mutation checks.                      *)
NoIndex(p) == TRUE

NotInIndex(p) == p \notin Sold

(* Careless, for the mutation checks: the limit is left empty.             *)
WrittenEmpty(old, new, row) == [plan |-> new.plan, limit |-> NoPlan]

(* Only what differs from the row as read is written.                      *)
Written(old, new, row) ==
  [plan  |-> IF new.plan  # old.plan  THEN new.plan  ELSE row.plan,
   limit |-> IF new.limit # old.limit THEN new.limit ELSE row.limit]

Commit(w, p) ==
  LET u   == pay[p].user
      new == [plan |-> pay[p].plan, limit |-> work[w].limit]
  IN /\ Renewing(w, p) /\ NotInIndex(p)
     /\ users' = [users EXCEPT ![u] = Written(work[w].old, new, @)]
     /\ book' = book \cup {[charge |-> p, user |-> u, plan |-> pay[p].plan,
                            limit |-> work[w].limit, amount |-> work[w].amount]}
     /\ renewals' = [renewals EXCEPT ![p] = @ + 1]
     /\ work' = [work EXCEPT ![w].pc = "committed"]
     /\ UNCHANGED <<plans, pay, posted, seen, queue, told, bounds>>

(* IntegrityError: everything of the transaction is rolled back.           *)
Duplicate(w, p) ==
  /\ Renewing(w, p) /\ ~NotInIndex(p)
  /\ Done(w)
  /\ UNCHANGED <<database, pay, posted, seen, queue, told, renewals, bounds>>

(* The users are applied to the servers; buyer and administrators are told.*)
Announce(w, p) ==
  /\ work[w].pc = "committed" /\ work[w].task = <<"paid", p>>
  /\ told' = [told EXCEPT ![p] = "renewed"]
  /\ Done(w)
  /\ UNCHANGED <<database, pay, posted, seen, queue, renewals, bounds>>

(* An exception in any step: it is logged, and that was that.              *)
TaskFails(w) ==
  /\ work[w].pc # "idle"
  /\ faults < MaxFaults /\ faults' = faults + 1
  /\ Done(w)
  /\ UNCHANGED <<database, pay, posted, seen, queue, told, renewals, edits, lost>>

Task(w, p) ==
  \/ Checkout(w, p) \/ Ignore(w, p) \/ Mismatch(w, p) \/ AlreadySold(w, p)
  \/ Prepare(w, p) \/ Commit(w, p) \/ Duplicate(w, p) \/ Announce(w, p)

-----------------------------------------------------------------------------
(* The administrator.                                                      *)

Edits ==
  /\ edits < MaxEdits /\ edits' = edits + 1
  /\ UNCHANGED <<book, pay, posted, panel, told, renewals, lost, faults>>

(* Plan form: a plan on sale pushes its limits to the users who have it.   *)
EditPlan(pl, row) ==
  /\ Edits
  /\ row # plans[pl] /\ plans' = [plans EXCEPT ![pl] = row]
  /\ users' = [u \in Users |-> IF row.enable /\ users[u].plan = pl
                               THEN [users[u] EXCEPT !.limit = row.limit]
                               ELSE users[u]]

(* The list's bulk actions enable_plans and disable_plans.                 *)
SwitchPlan(pl) ==
  /\ Edits
  /\ plans' = [plans EXCEPT ![pl].enable = ~@] /\ UNCHANGED users

(* User form: the limits follow a plan that is on sale.                    *)
ChoosePlan(u, pl) ==
  /\ Edits
  /\ users' = [users EXCEPT ![u].plan = pl,
                            ![u].limit = IF plans[pl].enable THEN plans[pl].limit ELSE @]
  /\ UNCHANGED plans

PlanRows == [limit : Limits, price : Prices, enable : BOOLEAN]

Next ==
  \/ \E p \in Pays :
       \/ \E u \in Users, pl \in Plans : Invoice(p, u, pl)
       \/ Ask(p) \/ Declined(p)
       \/ \E w \in Workers : Task(w, p)
  \/ \E upd \in Updates : Deliver(upd) \/ SubmitFails(upd) \/ Forget(upd)
  \/ \E w \in Workers : Take(w) \/ TaskFails(w)
  \/ Restart
  \/ \E pl \in Plans : SwitchPlan(pl) \/ \E row \in PlanRows : EditPlan(pl, row)
  \/ \E u \in Users, pl \in Plans : ChoosePlan(u, pl)

Spec == Init /\ [][Next]_vars

(* Telegram repeats an update until it is answered, the pool's threads run.*)
Running ==
  /\ \A upd \in Updates : WF_vars(Deliver(upd))
  /\ \A w \in Workers : WF_vars(Take(w)) /\ \A p \in Pays : WF_vars(Task(w, p))

LiveSpec == Spec /\ Running

-----------------------------------------------------------------------------
(* Properties.                                                             *)

UserRow == [plan : Plans \cup {NoPlan}, limit : Limits]
PayType == [stage  : {"none", "invoiced", "asked", "charged", "refused"},
            user   : Users \cup {NoUser}, plan : Plans \cup {NoPlan},
            amount : Prices \cup {0}]
BookRow == [charge : Pays, user : Users, plan : Plans, limit : Limits, amount : Prices]
WorkType == [pc : {"idle", "start", "renewing", "committed"}, task : Updates \cup {<<>>},
             limit : Limits, amount : Prices \cup {0}, old : UserRow]

(* Every variable has its type.                                            *)
TypeOK ==
  /\ plans \in [Plans -> PlanRows] /\ users \in [Users -> UserRow]
  /\ book \subseteq BookRow
  /\ pay \in [Pays -> PayType] /\ posted \subseteq Updates
  /\ seen \subseteq Updates /\ queue \in Seq(Updates)
  /\ work \in [Workers -> WorkType]
  /\ told \in [Pays -> {"nothing", "failed", "renewed"}]
  /\ renewals \in [Pays -> Nat]
  /\ edits \in 0 .. MaxEdits /\ lost \in 0 .. MaxLost /\ faults \in 0 .. MaxFaults

(* A charge renews a package at most once, and only after it was made,     *)
(* however often its update is delivered and however many threads handle   *)
(* it at the same time (successful_payment, the unique index).             *)
Selling == INSTANCE Sales WITH charged <- Charged, renewals <- renewals
RenewedOnce == Selling!Spec

(* Every row of the books is a charge of that buyer for that plan over     *)
(* that amount, whatever is edited while the payment is on its way.        *)
BooksBalance ==
  \A row \in book :
    /\ pay[row.charge] = [stage |-> "charged", user |-> row.user,
                          plan |-> row.plan, amount |-> row.amount]
    /\ renewals[row.charge] = 1

(* Nobody is told of a renewal that the database does not hold, whatever   *)
(* was rolled back or lost with a restart.                                 *)
AnnouncedIsSold ==
  \A p \in Pays : told[p] = "renewed" => p \in Sold

(* A charge is settled: renewed, or reported as failed, unless its plan    *)
(* was taken off sale meanwhile or a step failed.                          *)
PaidIsSettled ==
  \A p \in Pays :
    p \in Charged ~> \/ p \in Sold \/ told[p] = "failed"
                     \/ p \in Charged /\ ~OnSale(p)
                     \/ faults > 0
=============================================================================
