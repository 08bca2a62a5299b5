------------------------------ MODULE Accounts ------------------------------
(***************************************************************************)
(* The users of the panel: how they come into the table (the web trial,    *)
(* the contact a chat shares with the bot, the link /start <uuid>, a trial *)
(* given by an administrator), what administrators and payments change,    *)
(* and the task that every minute takes the traffic counters from xray,    *)
(* charges them and makes xray serve exactly those who are active.         *)
(*                                                                         *)
(* Handlers run in threads of the panel, the task in another process; two  *)
(* runs of it may overlap, as its lock is commented out.  Each query, call *)
(* and commit is a step.  Left out: the messages of the bot, expiry by     *)
(* date and by number of devices (the task finds out about both as it does *)
(* about traffic), the statistics per day, the web page's limit of two     *)
(* requests per hour and address.                                          *)
(***************************************************************************)
EXTENDS Integers, Sequences, FiniteSets, FiniteSetsExt

CONSTANTS
  MaxUsers,       \* bound on the users there ever are
  Book,           \* the numbers of those who may be there from the start
  Chats, PhoneOf, \* Telegram chats, and the number each may share
  Web,            \* numbers typed into the web page or by an administrator
  NoChat,
  MaxThreads,     \* of the panel at work at the same time
  MaxRuns,        \* of the usage task, at the same time
  Limit,          \* usage_limit
  Inbounds,       \* of xray, in the order get_inbound_tags sorts them into
  MaxEvents,      \* bound on requests, actions of administrators, traffic
  MaxFaults       \* bound on restarts, kills, calls that fail, runs that overlap

Ids    == 1 .. MaxUsers
Runs    == 1 .. MaxRuns
Tags    == 1 .. Inbounds
Threads == 1 .. MaxThreads
Phones == {PhoneOf[c] : c \in Chats} \cup Web
Nobody == [is |-> "free", phone |-> CHOOSE p \in Phones : TRUE, chat |-> NoChat,
           used |-> 0, enable |-> FALSE]

ASSUME AccountsAssumption ==
  /\ {MaxUsers, MaxRuns, MaxThreads, Limit, Inbounds, MaxEvents, MaxFaults} \subseteq Nat
  /\ Book \in Seq(Phones) /\ Len(Book) <= MaxUsers
  /\ Phones # {} /\ NoChat \notin Chats

VARIABLES
  user,       \* the table
  work,       \* what a thread of the panel is about to do
  adm,        \* the same of the administrator's action
  xray,       \* the clients each inbound of xray serves
  counter,    \* xray's traffic counters
  file,       \* the clients in the configuration xray starts from
  run,        \* the runs of the task
  flown, forgiven, lost,  \* history: traffic that flowed, was reset, got lost
  missed,     \* history: those about whom the last call missed an inbound
  excuse,     \* history: "overlap", "second"
  events, faults

panel   == <<work, adm>>
server  == <<xray, counter, file, missed>>
history == <<flown, forgiven, lost>>
bounds  == <<events, faults>>
vars    == <<user, panel, server, run, history, excuse, bounds>>

NoWork == [pc |-> "idle", phone |-> Nobody.phone, chat |-> NoChat, user |-> 0]
NoTask == [do |-> "nothing", user |-> 0]
NoRun  == [pc |-> "idle", usage |-> [u \in Ids |-> 0], todo |-> {}, before |-> {},
           users |-> {}, active |-> {}, changed |-> FALSE]

Users     == {u \in Ids : user[u].is = "there"}
Active(u) == u \in Users /\ user[u].enable /\ user[u].used <= Limit

(* all_configs_for_cli is stricter by one: at the limit is over it.        *)
Configured == {u \in Users : Active(u) /\ Limit > user[u].used}

-----------------------------------------------------------------------------
Joined(p) == [is |-> "there", phone |-> p, chat |-> NoChat, used |-> 0, enable |-> TRUE]

Init ==
  /\ \E n \in 0 .. Len(Book) :
       /\ user = [u \in Ids |-> IF u <= n THEN Joined(Book[u]) ELSE Nobody]
       /\ xray = [t \in Tags |-> 1 .. n] /\ file = 1 .. n /\ missed = {}
  /\ work = [t \in Threads |-> NoWork] /\ adm = NoTask
  /\ counter = [u \in Ids |-> 0] /\ run = [r \in Runs |-> NoRun]
  /\ flown = [u \in Ids |-> 0] /\ forgiven = flown /\ lost = flown
  /\ excuse = {} /\ events = 0 /\ faults = 0

Event == events < MaxEvents /\ events' = events + 1

(* A step may go wrong n times.                                            *)
Fault(n) == faults + n <= MaxFaults /\ faults' = faults + n

-----------------------------------------------------------------------------
(* Requests.  A handler first looks up, in one snapshot of the table.      *)

WithPhone(p) == {u \in Users : user[u].phone = p}
WithChat(c)  == {u \in Users : user[u].chat = c}
Newest(S)    == IF S = {} THEN 0 ELSE Max(S)

(* Somebody else is at work on the same number or for the same chat.       *)
Meets(t, p, c) ==
  \E o \in Threads \ {t} : /\ work[o].pc \in {"create", "bind"}
                           /\ work[o].phone = p \/ (c # NoChat /\ work[o].chat = c)

Takes(t) == Event /\ \A o \in 1 .. t : (o = t) <=> (work[o].pc = "idle")

Decides(t, w) ==
  /\ Takes(t)
  /\ work' = [work EXCEPT ![t] = w]
  /\ excuse' = excuse \cup (IF Meets(t, w.phone, w.chat) THEN {"overlap"} ELSE {})
  /\ UNCHANGED <<user, adm, server, run, history, faults>>

(* The page, or "create" in the administrator's chat (who looks among the  *)
(* users of his own branch of administrators; there is one branch here).   *)
Trial(t, p) ==
  /\ WithPhone(p) = {}
  /\ Decides(t, [pc |-> "create", phone |-> p, chat |-> NoChat, user |-> 0])

(* Careless: case C is forgotten, the number of another chat is taken.     *)
ContactOfAnyUser(t, c) ==
  LET u == Newest(WithPhone(PhoneOf[c])) IN
  /\ WithChat(c) = {} /\ u # 0
  /\ Decides(t, [pc |-> "bind", phone |-> PhoneOf[c], chat |-> c, user |-> u])

(* _handle_phone_lookup: cases G, and A, E, F.                             *)
ContactOfNobody(t, c) ==
  /\ WithChat(c) = {} /\ WithPhone(PhoneOf[c]) = {}
  /\ Decides(t, [pc |-> "create", phone |-> PhoneOf[c], chat |-> c, user |-> 0])

ContactOfUser(t, c) ==
  LET u == Newest(WithPhone(PhoneOf[c])) IN
  /\ WithChat(c) = {} /\ u # 0 /\ user[u].chat = NoChat
  /\ Decides(t, [pc |-> "bind", phone |-> PhoneOf[c], chat |-> c, user |-> u])

(* /start <uuid> binds whatever user the link names and nobody has bound;  *)
(* that the chat has a user already is not looked at.                      *)
Link(t, c, u) ==
  /\ u \in Users /\ user[u].chat = NoChat
  /\ Takes(t)
  /\ work' = [work EXCEPT ![t] = [pc |-> "bind", phone |-> user[u].phone, chat |-> c, user |-> u]]
  /\ excuse' = excuse \cup (IF Meets(t, user[u].phone, c) THEN {"overlap"} ELSE {})
                      \cup (IF WithChat(c) # {} THEN {"second"} ELSE {})
  /\ UNCHANGED <<user, adm, server, run, history, faults>>

(* The insert.  The second look for the chat reads the snapshot of the     *)
(* first and finds nothing new.                                            *)
Create(t) ==
  /\ work[t].pc = "create"
  /\ \E u \in Ids :
       /\ user[u].is = "free" /\ \A v \in Ids : v < u => user[v].is # "free"
       /\ user' = [user EXCEPT ![u] = [Joined(work[t].phone) EXCEPT !.chat = work[t].chat]]
  /\ work' = [work EXCEPT ![t] = [NoWork EXCEPT !.pc = "apply"]]
  /\ UNCHANGED <<adm, server, run, history, excuse, bounds>>

QuickApply(t) ==
  /\ work[t].pc = "apply"
  /\ file' = Configured
  /\ work' = [work EXCEPT ![t] = NoWork]
  /\ UNCHANGED <<user, adm, xray, missed, counter, run, history, excuse, bounds>>

(* The update of the row, as it was checked when it was read; of a row     *)
(* that is gone it fails.                                                  *)
Bind(t) ==
  /\ work[t].pc = "bind"
  /\ LET u == work[t].user IN
       user' = IF u \in Users THEN [user EXCEPT ![u].chat = work[t].chat] ELSE user
  /\ work' = [work EXCEPT ![t] = NoWork]
  /\ UNCHANGED <<adm, server, run, history, excuse, bounds>>

-----------------------------------------------------------------------------
(* Administrators and payments.                                            *)

(* add_client for S, remove_client for T: inbound after inbound, and what  *)
(* goes wrong at one of them is swallowed.                                 *)
Serve(S, T) ==
  \E misses \in [S \cup T -> SUBSET Tags] :
    LET Reached(t) == {u \in S \cup T : t \notin misses[u]}
        hurt       == {u \in S \cup T : misses[u] # {}} IN
      /\ Fault(Cardinality(hurt))
      /\ xray' = [t \in Tags |-> (xray[t] \cup (S \cap Reached(t))) \ (T \cap Reached(t))]
      /\ missed' = (missed \ (S \cup T)) \cup hurt

Edit(u, row, do) ==
  /\ adm = NoTask /\ u \in Users /\ Event
  /\ user' = [user EXCEPT ![u] = row]
  /\ forgiven' = [forgiven EXCEPT ![u] = @ + user[u].used - row.used]
  /\ adm' = [do |-> do, user |-> u]
  /\ UNCHANGED <<work, server, run, flown, lost, excuse, faults>>

(* Switched by the page, which tells xray, or by the administrator's bot,  *)
(* which leaves that to the task.                                          *)
Switch(u) == \E do \in {"push", "file"} : Edit(u, [user[u] EXCEPT !.enable = ~@], do)

(* Usage reset by the page; a package renewed there, by the bot or by a    *)
(* payment.                                                                *)
ResetUsage(u) == Edit(u, [user[u] EXCEPT !.used = 0], "push")
Renew(u) == \E do \in {"push", "file"} : Edit(u, [user[u] EXCEPT !.used = 0, !.enable = TRUE], do)

(* action_delete disables, applies, removes the client, deletes the row.   *)
Delete(u) == Edit(u, [user[u] EXCEPT !.enable = FALSE], "delete")

Does(do) == adm.do = do

Push ==
  /\ Does("push") \/ Does("delete")
  /\ LET u == adm.user IN IF Active(u) THEN Serve({u}, {}) ELSE Serve({}, {u})
  /\ file' = Configured
  /\ adm' = IF Does("delete") THEN [adm EXCEPT !.do = "remove"] ELSE NoTask
  /\ UNCHANGED <<user, work, counter, run, history, excuse, events>>

PushFile ==
  /\ Does("file")
  /\ file' = Configured /\ adm' = NoTask
  /\ UNCHANGED <<user, work, xray, missed, counter, run, history, excuse, bounds>>

Remove ==
  /\ Does("remove")
  /\ Serve({}, {adm.user})
  /\ adm' = [adm EXCEPT !.do = "drop"]
  /\ UNCHANGED <<user, work, counter, file, run, history, excuse, events>>

Drop ==
  /\ Does("drop")
  /\ user' = [user EXCEPT ![adm.user] = [Nobody EXCEPT !.is = "gone"]]
  /\ adm' = NoTask
  /\ UNCHANGED <<work, server, run, history, excuse, bounds>>

(* The panel restarts: its threads stop where they are.                    *)
PanelRestart ==
  /\ <<work, adm>> # <<[t \in Threads |-> NoWork], NoTask>> /\ Fault(1)
  /\ work' = [t \in Threads |-> NoWork] /\ adm' = NoTask
  /\ UNCHANGED <<user, server, run, history, excuse, events>>

-----------------------------------------------------------------------------
(* xray serves whom it was told to, a client without a user as well; what  *)
(* one does at all the inbounds is in one counter.                         *)

Served(u) == {t \in Tags : u \in xray[t]}

Flow(u, n) ==
  /\ Served(u) # {} /\ Event
  /\ counter' = [counter EXCEPT ![u] = @ + n]
  /\ flown'   = [flown EXCEPT ![u] = @ + n]
  /\ UNCHANGED <<user, panel, xray, missed, file, run, forgiven, lost, excuse, faults>>

XrayRestart ==
  /\ Fault(1) /\ <<xray, counter>> # <<[t \in Tags |-> file], [u \in Ids |-> 0]>>
  /\ xray' = [t \in Tags |-> file] /\ missed' = {} /\ counter' = [u \in Ids |-> 0]
  /\ lost' = [u \in Ids |-> lost[u] + counter[u]]
  /\ UNCHANGED <<user, panel, file, run, flown, forgiven, excuse, events>>

-----------------------------------------------------------------------------
(* update_local_usage.                                                     *)

At(r, pc) == run[r].pc = pc

ReadCounters(r) ==
  /\ At(r, "idle") /\ \A q \in Runs : q < r => ~At(q, "idle")   \* names do not matter
  /\ Fault(r - 1)                 \* the one before has taken over a minute
  /\ run' = [run EXCEPT ![r].pc = "read", ![r].usage = counter,
                        ![r].todo = {u \in Ids : counter[u] > 0}]
  /\ counter' = [u \in Ids |-> 0]
  /\ UNCHANGED <<user, panel, xray, missed, file, history, excuse, events>>

(* get_enabled_users_terminal takes the list of the first inbound that     *)
(* answers; one without clients answers {}, which does not count.          *)
Listed(T) ==
  UNION {xray[t] : t \in {t \in T : \A s \in T : xray[s] # {} => t <= s}}

ReadEnabled(r) ==
  /\ At(r, "read")
  /\ \E silent \in SUBSET Tags :
       /\ Fault(IF silent = {} THEN 0 ELSE 1)
       /\ run' = [run EXCEPT ![r].pc = "charging", ![r].before = Listed(Tags \ silent)]
  /\ UNCHANGED <<user, panel, server, history, excuse, events>>

(* _reset_priodic_usage, of one user whose package starts over today.      *)
PeriodicReset(r, u) ==
  /\ At(r, "charging") /\ run[r].todo = {v \in Ids : run[r].usage[v] > 0}
  /\ u \in Users /\ user[u].used > 0 /\ Event
  /\ user' = [user EXCEPT ![u].used = 0]
  /\ forgiven' = [forgiven EXCEPT ![u] = @ + user[u].used]
  /\ IF ~Active(u) /\ user[u].enable
     THEN Serve({u}, {}) /\ run' = [run EXCEPT ![r].changed = TRUE]
     ELSE UNCHANGED <<xray, missed, run, faults>>
  /\ UNCHANGED <<panel, counter, file, flown, lost, excuse>>

(* Careless: only who is still active is charged.                          *)
ChargeTheActive(r, u) ==
  /\ At(r, "charging") /\ u \in run[r].todo
  /\ user' = IF Active(u) THEN [user EXCEPT ![u].used = @ + run[r].usage[u]] ELSE user
  /\ run' = [run EXCEPT ![r].todo = @ \ {u}]
  /\ UNCHANGED <<panel, server, history, excuse, bounds>>

(* add_usage_json adds and commits user by user.                           *)
Charge(r, u) ==
  /\ At(r, "charging") /\ u \in run[r].todo
  /\ user' = IF u \in Users THEN [user EXCEPT ![u].used = @ + run[r].usage[u]] ELSE user
  /\ run' = [run EXCEPT ![r].todo = @ \ {u}]
  /\ UNCHANGED <<panel, server, history, excuse, bounds>>

LoadUsers(r) ==
  /\ At(r, "charging") /\ run[r].todo = {}
  /\ run' = [run EXCEPT ![r].pc = "loaded", ![r].users = Users,
                        ![r].active = {u \in Users : Active(u)}]
  /\ UNCHANGED <<user, panel, server, history, excuse, bounds>>

(* Careless: only users with traffic in this run are looked at.            *)
ToRemoveSeen(m) == {u \in (m.users \ m.active) \cap m.before : m.usage[u] > 0}

ToAdd(m)    == m.active \ m.before
ToRemove(m) == (m.users \ m.active) \cap m.before

Compare(r) ==
  /\ At(r, "loaded")
  /\ Serve(ToAdd(run[r]), ToRemove(run[r]))
  /\ run' = [run EXCEPT ![r].pc = "compared",
                        ![r].changed = @ \/ ToAdd(run[r]) \cup ToRemove(run[r]) # {}]
  /\ UNCHANGED <<user, panel, counter, file, history, excuse, events>>

(* Zombies are looked for when the number of users is not that of clients  *)
(* with traffic.                                                           *)
Zombies(m) ==
  IF Cardinality(m.users) = Cardinality({u \in Ids : m.usage[u] > 0}) THEN {}
  ELSE (m.before \ m.users) \ Users

Sweep(r) ==
  /\ At(r, "compared")
  /\ LET z == Zombies(run[r]) IN
       /\ Serve({}, z)
       /\ file' = IF run[r].changed \/ z # {} THEN Configured ELSE file
  /\ run' = [run EXCEPT ![r] = NoRun]
  /\ UNCHANGED <<user, panel, counter, history, excuse, events>>

(* A run dies: what it has not charged is lost.                            *)
KillRun(r) ==
  /\ ~At(r, "idle") /\ Fault(1)
  /\ lost' = [u \in Ids |-> lost[u] + IF u \in run[r].todo THEN run[r].usage[u] ELSE 0]
  /\ run' = [run EXCEPT ![r] = NoRun]
  /\ UNCHANGED <<user, panel, server, flown, forgiven, excuse, events>>

RunStep(r) ==
  \/ ReadCounters(r) \/ ReadEnabled(r) \/ (\E u \in Ids : Charge(r, u))
  \/ LoadUsers(r) \/ Compare(r) \/ Sweep(r)

Next ==
  \/ \E t \in Threads :
       \/ \E p \in Web : Trial(t, p)
       \/ \E c \in Chats : \/ ContactOfNobody(t, c) \/ ContactOfUser(t, c)
                           \/ \E u \in Ids : Link(t, c, u)
       \/ Create(t) \/ QuickApply(t) \/ Bind(t)
  \/ \E u \in Ids : \/ Switch(u) \/ ResetUsage(u) \/ Renew(u) \/ Delete(u)
                    \/ (\E n \in 1 .. Limit + 1 : Flow(u, n))
  \/ Push \/ PushFile \/ Remove \/ Drop \/ PanelRestart \/ XrayRestart
  \/ \E r \in Runs : RunStep(r) \/ KillRun(r) \/ \E u \in Ids : PeriodicReset(r, u)

Spec == Init /\ [][Next]_vars

(* Celery starts a run every minute, and what is started goes on.          *)
Live == /\ Spec
        /\ \A r \in Runs : WF_vars(RunStep(r))
        /\ WF_vars(Push) /\ WF_vars(PushFile) /\ WF_vars(Remove) /\ WF_vars(Drop)

-----------------------------------------------------------------------------
(* Properties.                                                             *)

Most == (Limit + 1) * MaxEvents
RowType == [is : {"free", "there", "gone"}, phone : Phones, chat : Chats \cup {NoChat},
            used : 0 .. Most, enable : BOOLEAN]

(* Nothing is charged, forgiven or lost beyond what can have flowed.       *)
TypeOK ==
  /\ user \in [Ids -> RowType]
  /\ xray \in [Tags -> SUBSET Ids] /\ file \subseteq Ids /\ missed \subseteq Ids
  /\ counter \in [Ids -> 0 .. Most]
  /\ \A u \in Ids : {forgiven[u], lost[u]} \subseteq 0 .. Most + MaxFaults
  /\ work \in [Threads -> [pc : {"idle", "create", "apply", "bind"}, phone : Phones,
                           chat : Chats \cup {NoChat}, user : Ids \cup {0}]]
  /\ adm \in [do : {"nothing", "push", "file", "delete", "remove", "drop"}, user : Ids \cup {0}]

(* A number has one account and so has a chat, as long as no two requests  *)
(* overlapped for it and no chat opened the link of a second account.      *)
OneAccount ==
  /\ "overlap" \notin excuse => \A p \in Phones : Cardinality(WithPhone(p)) <= 1
  /\ excuse = {} => \A c \in Chats : Cardinality(WithChat(c)) <= 1

(* An account stays with the chat that had it first.                       *)
KeepsChat ==
  [][\A u \in Users : user[u].chat # NoChat /\ u \in Users' /\ "overlap" \notin excuse
       => user'[u].chat = user[u].chat]_vars

(* Numbers, chats and accounts stay together, in whatever order they are   *)
(* looked up, created, bound, edited and deleted.                          *)
AccountsStayApart == [](TypeOK /\ OneAccount) /\ KeepsChat

(* All the traffic of a user is in his current_usage, was forgiven by a    *)
(* reset, is on its way, or was lost with a run or with xray; nothing is   *)
(* charged twice, also when two runs read and charge at the same time.     *)
Share(u)    == [r \in Runs |-> IF u \in run[r].todo THEN run[r].usage[u] ELSE 0]
OnItsWay(u) == counter[u] + SumFunction(Share(u))

TrafficIsCharged ==
  \A u \in Users : flown[u] = user[u].used + forgiven[u] + lost[u] + OnItsWay(u)

(* xray ends up serving who is active and nobody else, whatever was lost,  *)
(* killed or restarted: at the inbound whose list the task compares with   *)
(* in any case, at every inbound unless the last call about the user       *)
(* missed one (the task never looks at the others).  A client whose user   *)
(* was deleted goes as well, once it is idle and if there is any user left *)
(* (the test before the search for zombies, usage.py 165).                 *)
IsServed(u)  == u \in Listed(Tags) /\ (u \notin missed => Served(u) = Tags)
NotServed(u) == u \notin Listed(Tags) /\ (u \notin missed => Served(u) = {})

XrayFollows ==
  \A u \in Ids :
    /\ <>[]Active(u) => <>[]IsServed(u)
    /\ <>[](u \in Users /\ ~Active(u)) => <>[]NotServed(u)
    /\ <>[](u \notin Users /\ counter[u] = 0 /\ Users # {}) => <>[]NotServed(u)
=============================================================================
