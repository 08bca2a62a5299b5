---------------------------- MODULE AccountsProofs ----------------------------
(***************************************************************************)
(* Proofs about Accounts, for any tables, chats, limits and bounds.  The   *)
(* first part is about sums, for the traffic that is on its way with the   *)
(* runs of the usage task; the second about the types of the state; the    *)
(* third keeps the books of the traffic: whatever flowed is charged,       *)
(* forgiven, on its way or lost; the fourth follows numbers, chats and     *)
(* accounts through requests that look first and write later.              *)
(***************************************************************************)
EXTENDS Accounts, FiniteSetTheorems, WellFoundedInduction, TLAPS

-----------------------------------------------------------------------------
(* Sums over finite sets.                                                  *)

(* Of sets that are parts of a finite one, some have no other below them.  *)
LEMMA SmallestSubset ==
  ASSUME NEW S, IsFiniteSet(S), NEW B, B \subseteq SUBSET S, B # {}
  PROVE  \E T \in B : \A U \in B : U \subseteq T => U = T
<1>1. IsWellFoundedOn(StrictSubsetOrdering(S), FiniteSubsetsOf(S))
  BY FS_StrictSubsetOrderingWellFounded
<1>2. FiniteSubsetsOf(S) = SUBSET S
  BY FS_FiniteSubsetsOfFinite
<1>3. PICK T \in B : \A U \in B : ~(<<U, T>> \in StrictSubsetOrdering(S))
  <2>1. IsWellFoundedOn(StrictSubsetOrdering(S), SUBSET S)
    BY <1>1, <1>2
  <2>2. QED
    BY <2>1, WFMin
<1>4. QED
  BY <1>3 DEF StrictSubsetOrdering

(* A table of the sums of f over all subsets of S.                         *)
First(s) == CHOOSE x \in s : TRUE
IsTable(g, f, S) ==
  g = [s \in SUBSET S |-> IF s = {} THEN 0 ELSE f[First(s)] + g[s \ {First(s)}]]
Table(f, S) == CHOOSE g : IsTable(g, f, S)

LEMMA SumIsInTable ==
  ASSUME NEW f, NEW S
  PROVE  SumFunctionOnSet(f, S) = Table(f, S)[S]
BY DEF SumFunctionOnSet, FoldFunctionOnSet, MapThenFoldSet, Table, First, IsTable

LEMMA FirstIn == \A s : s # {} => First(s) \in s
  BY DEF First

(* Two tables agree where both say something.                              *)
LEMMA TablesAgree ==
  ASSUME NEW f, NEW S, IsFiniteSet(S), NEW T, T \subseteq S,
         NEW g, NEW h, IsTable(g, f, S), IsTable(h, f, T)
  PROVE  \A s \in SUBSET T : g[s] = h[s]
<1>. DEFINE B == {s \in SUBSET T : g[s] # h[s]}
<1>. SUFFICES ASSUME B # {} PROVE FALSE
  OBVIOUS
<1>1. PICK s \in B : \A u \in B : u \subseteq s => u = s
  <2>1. B \subseteq SUBSET S  OBVIOUS
  <2>. HIDE DEF B
  <2>. QED  BY <2>1, SmallestSubset
<1>2. s # {}
  <2>1. g[{}] = 0 /\ h[{}] = 0
    BY DEF IsTable
  <2>. QED  BY <2>1
<1>. DEFINE x == First(s)
<1>3. x \in s
  BY <1>2, FirstIn
<1>4. g[s \ {x}] = h[s \ {x}]
  BY <1>1, <1>3
<1>5. g[s] = f[x] + g[s \ {x}]
  BY <1>2 DEF IsTable
<1>6. h[s] = f[x] + h[s \ {x}]
  BY <1>2 DEF IsTable
<1>. QED  BY <1>4, <1>5, <1>6

LEMMA TableExists ==
  ASSUME NEW f, NEW S, IsFiniteSet(S)
  PROVE  IsTable(Table(f, S), f, S)
<1>. DEFINE B == {T \in SUBSET S : ~\E g : IsTable(g, f, T)}
<1>1. SUFFICES B = {}
  <2>1. \E g : IsTable(g, f, S)
    BY <1>1
  <2>. QED  BY <2>1 DEF Table
<1>. SUFFICES ASSUME B # {} PROVE FALSE
  OBVIOUS
<1>2. PICK T \in B : \A U \in B : U \subseteq T => U = T
  <2>1. B \subseteq SUBSET S  OBVIOUS
  <2>. HIDE DEF B
  <2>. QED  BY <2>1, SmallestSubset
<1>3. \A U \in SUBSET T : U # T => IsTable(Table(f, U), f, U)
  <2>. SUFFICES ASSUME NEW U \in SUBSET T, U # T PROVE IsTable(Table(f, U), f, U)
    OBVIOUS
  <2>1. \E g : IsTable(g, f, U)
    BY <1>2
  <2>. QED  BY <2>1 DEF Table
<1>4. \A U \in SUBSET T : \A s \in SUBSET U :
        U # T => Table(f, U)[s] = Table(f, s)[s]
  <2>. SUFFICES ASSUME NEW U \in SUBSET T, NEW s \in SUBSET U, U # T
               PROVE  Table(f, U)[s] = Table(f, s)[s]
    OBVIOUS
  <2>1. IsTable(Table(f, U), f, U) /\ IsTable(Table(f, s), f, s)
    <3>1. s \in SUBSET T /\ s # T  OBVIOUS
    <3>. QED  BY <1>3, <3>1
  <2>2. IsFiniteSet(U)
    BY FS_Subset
  <2>3. \A r \in SUBSET s : Table(f, U)[r] = Table(f, s)[r]
    BY <2>1, <2>2, TablesAgree
  <2>. QED  BY <2>3
<1>. DEFINE h == [s \in SUBSET T |-> IF s = {} THEN 0
                   ELSE f[First(s)] + Table(f, s \ {First(s)})[s \ {First(s)}]]
<1>5. \A s \in SUBSET T : s # T => h[s] = Table(f, s)[s]
  <2>. SUFFICES ASSUME NEW s \in SUBSET T, s # T PROVE h[s] = Table(f, s)[s]
    OBVIOUS
  <2>1. IsTable(Table(f, s), f, s)
    BY <1>3
  <2>2. Table(f, s)[s] = IF s = {} THEN 0 ELSE f[First(s)] + Table(f, s)[s \ {First(s)}]
    BY <2>1 DEF IsTable
  <2>3. Table(f, s)[s \ {First(s)}] = Table(f, s \ {First(s)})[s \ {First(s)}]
    BY <1>4
  <2>. QED  BY <2>2, <2>3
<1>6. IsTable(h, f, T)
  <2>1. ASSUME NEW s \in SUBSET T, s # {}
        PROVE  h[s \ {First(s)}] = Table(f, s \ {First(s)})[s \ {First(s)}]
    <3>1. First(s) \in s
      BY <2>1, FirstIn
    <3>2. s \ {First(s)} \in SUBSET T /\ s \ {First(s)} # T
      BY <3>1
    <3>. HIDE DEF h
    <3>. QED  BY <3>2, <1>5
  <2>2. ASSUME NEW s \in SUBSET T
        PROVE  h[s] = IF s = {} THEN 0 ELSE f[First(s)] + h[s \ {First(s)}]
    <3>1. h[s] = IF s = {} THEN 0 ELSE f[First(s)] + Table(f, s \ {First(s)})[s \ {First(s)}]
      OBVIOUS
    <3>. HIDE DEF h
    <3>. QED  BY <3>1, <2>1
  <2>3. h = [s \in SUBSET T |-> h[s]]
    OBVIOUS
  <2>. HIDE DEF h
  <2>4. h = [s \in SUBSET T |-> IF s = {} THEN 0 ELSE f[First(s)] + h[s \ {First(s)}]]
    BY <2>2, <2>3, Zenon
  <2>. QED  BY <2>4 DEF IsTable
<1>. HIDE DEF h
<1>. QED  BY <1>2, <1>6

(* Whichever element is taken out of a set, its sum is what is left.       *)
LEMMA SumTable ==
  ASSUME NEW S, IsFiniteSet(S), NEW f \in [S -> Nat]
  PROVE  /\ Table(f, S)[{}] = 0
         /\ \A s \in SUBSET S : Table(f, S)[s] \in Nat
         /\ \A s \in SUBSET S : \A x \in s : Table(f, S)[s] = f[x] + Table(f, S)[s \ {x}]
<1>. DEFINE g == Table(f, S)
<1>0. IsTable(g, f, S)
  BY TableExists
<1>. HIDE DEF g
<1>1. g[{}] = 0
  BY <1>0 DEF IsTable
<1>2. \A s \in SUBSET S : s # {} => g[s] = f[First(s)] + g[s \ {First(s)}]
  BY <1>0 DEF IsTable
<1>3. \A s \in SUBSET S : g[s] \in Nat
  <2>. DEFINE B == {s \in SUBSET S : g[s] \notin Nat}
  <2>. SUFFICES ASSUME B # {} PROVE FALSE
    OBVIOUS
  <2>1. PICK s \in B : \A u \in B : u \subseteq s => u = s
    <3>1. B \subseteq SUBSET S  OBVIOUS
    <3>. HIDE DEF B
    <3>. QED  BY <3>1, SmallestSubset
  <2>2. s # {}
    BY <1>1
  <2>3. First(s) \in s
    BY <2>2, FirstIn
  <2>4. g[s \ {First(s)}] \in Nat
    BY <2>1, <2>3
  <2>5. f[First(s)] \in Nat
    BY <2>3
  <2>. QED  BY <1>2, <2>2, <2>4, <2>5
<1>4. \A s \in SUBSET S : \A x \in s : g[s] = f[x] + g[s \ {x}]
  <2>. DEFINE B == {s \in SUBSET S : \E x \in s : g[s] # f[x] + g[s \ {x}]}
  <2>. SUFFICES ASSUME B # {} PROVE FALSE
    OBVIOUS
  <2>1. PICK s \in B : \A u \in B : u \subseteq s => u = s
    <3>1. B \subseteq SUBSET S  OBVIOUS
    <3>. HIDE DEF B
    <3>. QED  BY <3>1, SmallestSubset
  <2>2. PICK x \in s : g[s] # f[x] + g[s \ {x}]
    BY <2>1
  <2>. DEFINE y == First(s)
  <2>3. y \in s
    BY <2>2, FirstIn
  <2>4. g[s] = f[y] + g[s \ {y}]
    BY <1>2, <2>2
  <2>. HIDE DEF y
  <2>5. x # y
    BY <2>2, <2>4
  <2>6. g[s \ {y}] = f[x] + g[(s \ {y}) \ {x}]
    <3>1. s \ {y} \notin B /\ x \in s \ {y} /\ s \ {y} \in SUBSET S
      BY <2>1, <2>2, <2>3, <2>5
    <3>. QED  BY <3>1
  <2>7. g[s \ {x}] = f[y] + g[(s \ {x}) \ {y}]
    <3>1. s \ {x} \notin B /\ y \in s \ {x} /\ s \ {x} \in SUBSET S
      BY <2>1, <2>2, <2>3, <2>5
    <3>. QED  BY <3>1
  <2>8. (s \ {x}) \ {y} = (s \ {y}) \ {x}
    OBVIOUS
  <2>9. /\ g[s] \in Nat /\ g[s \ {x}] \in Nat /\ g[(s \ {x}) \ {y}] \in Nat
        /\ f[x] \in Nat /\ f[y] \in Nat
    BY <1>3, <2>2, <2>3
  <2>10. g[s] = f[y] + (f[x] + g[(s \ {x}) \ {y}])
    BY <2>4, <2>6, <2>8
  <2>. QED  BY <2>2, <2>7, <2>9, <2>10
<1>. QED  BY <1>1, <1>3, <1>4 DEF g

LEMMA SumSplits ==
  ASSUME NEW S, IsFiniteSet(S), NEW f \in [S -> Nat], NEW s \in SUBSET S, NEW x \in s
  PROVE  Table(f, S)[s] = f[x] + Table(f, S)[s \ {x}]
<1>1. \A t \in SUBSET S : \A y \in t : Table(f, S)[t] = f[y] + Table(f, S)[t \ {y}]
  BY SumTable, Zenon
<1>. QED  BY <1>1

(* Sums of functions that agree on a set are the same.                     *)
LEMMA SumsAgree ==
  ASSUME NEW S, IsFiniteSet(S), NEW f \in [S -> Nat], NEW h \in [S -> Nat],
         NEW T \in SUBSET S, \A x \in T : f[x] = h[x]
  PROVE  Table(f, S)[T] = Table(h, S)[T]
<1>. DEFINE B == {s \in SUBSET T : Table(f, S)[s] # Table(h, S)[s]}
<1>. SUFFICES ASSUME B # {} PROVE FALSE
  OBVIOUS
<1>1. PICK s \in B : \A u \in B : u \subseteq s => u = s
  <2>1. B \subseteq SUBSET S  OBVIOUS
  <2>. HIDE DEF B
  <2>. QED  BY <2>1, SmallestSubset
<1>2. s # {}
  BY SumTable
<1>3. PICK x \in s : TRUE
  BY <1>2
<1>4. s \ {x} \notin B
  BY <1>1, <1>3
<1>5. Table(f, S)[s] = f[x] + Table(f, S)[s \ {x}]
  <2>1. s \in SUBSET S  OBVIOUS
  <2>. QED  BY SumSplits, <1>3, <2>1
<1>6. Table(h, S)[s] = h[x] + Table(h, S)[s \ {x}]
  <2>1. s \in SUBSET S  OBVIOUS
  <2>. QED  BY SumSplits, <1>3, <2>1
<1>. QED  BY <1>3, <1>4, <1>5, <1>6

(* What is proved of sums: of nothing; and when one entry changes.         *)
LEMMA SumOfNothing ==
  ASSUME NEW S, IsFiniteSet(S)
  PROVE  SumFunction([x \in S |-> 0]) = 0
<1>. DEFINE f == [x \in S |-> 0]
<1>. DEFINE B == {s \in SUBSET S : Table(f, S)[s] # 0}
<1>1. SumFunction(f) = Table(f, S)[S]
  BY SumIsInTable DEF SumFunction
<1>2. f \in [S -> Nat]
  OBVIOUS
<1>. SUFFICES ASSUME B # {} PROVE FALSE
  BY <1>1
<1>3. PICK s \in B : \A u \in B : u \subseteq s => u = s
  <2>1. B \subseteq SUBSET S  OBVIOUS
  <2>. HIDE DEF B
  <2>. QED  BY <2>1, SmallestSubset
<1>. HIDE DEF f
<1>4. PICK x \in s : TRUE
  BY SumTable, <1>2, <1>3
<1>5. s \ {x} \notin B
  BY <1>3, <1>4
<1>6. Table(f, S)[s] = f[x] + Table(f, S)[s \ {x}]
  BY SumTable, <1>2, <1>4
<1>7. f[x] = 0
  BY DEF f
<1>. QED  BY <1>3, <1>4, <1>5, <1>6, <1>7

LEMMA SumChanges ==
  ASSUME NEW S, IsFiniteSet(S), NEW f \in [S -> Nat], NEW h \in [S -> Nat],
         NEW r \in S, \A x \in S \ {r} : f[x] = h[x]
  PROVE  /\ SumFunction(f) \in Nat /\ SumFunction(h) \in Nat
         /\ f[r] <= SumFunction(f)
         /\ SumFunction(h) = SumFunction(f) - f[r] + h[r]
<1>1. SumFunction(f) = Table(f, S)[S] /\ SumFunction(h) = Table(h, S)[S]
  BY SumIsInTable DEF SumFunction
<1>2. Table(f, S)[S \ {r}] = Table(h, S)[S \ {r}]
  BY SumsAgree
<1>3. /\ Table(f, S)[S] = f[r] + Table(f, S)[S \ {r}]
      /\ Table(h, S)[S] = h[r] + Table(h, S)[S \ {r}]
  <2>1. S \in SUBSET S  OBVIOUS
  <2>2. Table(f, S)[S] = f[r] + Table(f, S)[S \ {r}]
    BY SumSplits, <2>1
  <2>3. Table(h, S)[S] = h[r] + Table(h, S)[S \ {r}]
    BY SumSplits, <2>1
  <2>. QED  BY <2>2, <2>3
<1>4. Table(f, S)[S] \in Nat /\ Table(h, S)[S] \in Nat /\ Table(f, S)[S \ {r}] \in Nat
  BY SumTable
<1>5. f[r] \in Nat /\ h[r] \in Nat
  OBVIOUS
<1>. QED  BY <1>1, <1>2, <1>3, <1>4, <1>5

-----------------------------------------------------------------------------
(* Types of the whole state; what is in TypeOK with its bound is a number  *)
(* here.                                                                   *)
Rows      == [is : {"free", "there", "gone"}, phone : Phones, chat : Chats \cup {NoChat},
              used : Nat, enable : BOOLEAN]
Works     == [pc : {"idle", "create", "apply", "bind"}, phone : Phones,
              chat : Chats \cup {NoChat}, user : Ids \cup {0}]
Tasks     == {a \in [do : {"nothing", "push", "file", "delete", "remove", "drop"},
                    user : Ids \cup {0}] : a.do # "nothing" => a.user \in Ids}
TaskRuns  == [pc : {"idle", "read", "charging", "loaded", "compared"}, usage : [Ids -> Nat],
              todo : SUBSET Ids, before : SUBSET Ids, users : SUBSET Ids,
              active : SUBSET Ids, changed : BOOLEAN]

PanelTypes  == user \in [Ids -> Rows] /\ work \in [Threads -> Works] /\ adm \in Tasks
ServerTypes == /\ xray \in [Tags -> SUBSET Ids] /\ missed \in SUBSET Ids
               /\ file \in SUBSET Ids /\ counter \in [Ids -> Nat]
RunTypes    == run \in [Runs -> TaskRuns]
PastTypes   == /\ flown \in [Ids -> Nat] /\ forgiven \in [Ids -> Nat] /\ lost \in [Ids -> Nat]
               /\ excuse \in SUBSET {"overlap", "second"} /\ events \in 0 .. MaxEvents
Types       == PanelTypes /\ ServerTypes /\ RunTypes /\ PastTypes

Unserved(u) == \A t \in Tags : u \notin xray[t]

(* A number that is nobody's yet: nothing has come to it, and no list that *)
(* was read before names it.                                               *)
Untouched ==
  \A u \in Ids : user[u].is = "free" =>
    /\ Unserved(u) /\ u \notin file /\ counter[u] = 0 /\ user[u].used = 0
    /\ \A r \in Runs : /\ u \notin run[r].todo /\ u \notin run[r].before
                       /\ u \notin run[r].users /\ u \notin run[r].active

(* Only while it charges has a run something left to charge.               *)
ChargedFirst ==
  \A r \in Runs : run[r].pc \in {"idle", "loaded", "compared"} => run[r].todo = {}

(* The books balance for who is there or may still come; what comes for a  *)
(* user who is gone is nobody's.                                           *)
Balance(u) == user[u].used + forgiven[u] + lost[u] + OnItsWay(u)

Balanced ==
  \A u \in Ids : /\ Balance(u) <= flown[u]
                 /\ user[u].is # "gone" => flown[u] = Balance(u)

Flowed == \A u \in Ids : flown[u] <= (Limit + 1) * events

TrafficInv == Untouched /\ ChargedFirst /\ Balanced /\ Flowed

-----------------------------------------------------------------------------
(* Who is at work for a number or a chat.                                  *)
AtWork(t) == work[t].pc \in {"create", "bind"}
Binds(t)  == work[t].pc = "bind"

(* Who is to be bound has, if he is still there, the number that was read. *)
BindsKnown ==
  \A t \in Threads : Binds(t) =>
    /\ work[t].user \in Ids /\ user[work[t].user].is # "free"
    /\ work[t].user \in Users => user[work[t].user].phone = work[t].phone

(* Without an overlap nobody else is at work for the same number or chat,  *)
(* who is to be created is still missing and who is to be bound is unbound.*)
Alone ==
  "overlap" \notin excuse =>
    /\ \A t, o \in Threads : t # o /\ AtWork(t) /\ AtWork(o) =>
         /\ work[t].phone # work[o].phone
         /\ work[t].chat # NoChat => work[t].chat # work[o].chat
    /\ \A t \in Threads : work[t].pc = "create" => WithPhone(work[t].phone) = {}
    /\ \A t \in Threads : Binds(t) /\ work[t].user \in Users =>
         user[work[t].user].chat = NoChat

(* The chat somebody is at work for has no user yet, nor has a chat two.   *)
NewToChat ==
  excuse = {} =>
    /\ \A t \in Threads : AtWork(t) /\ work[t].chat # NoChat => WithChat(work[t].chat) = {}
    /\ \A u, v \in Users : user[u].chat = user[v].chat /\ user[u].chat # NoChat => u = v

ApartInv == BindsKnown /\ Alone /\ NewToChat

(* A number has one account.                                               *)
OnePerNumber ==
  "overlap" \notin excuse => \A u, v \in Users : user[u].phone = user[v].phone => u = v

-----------------------------------------------------------------------------
LEMMA ConstantTypes ==
  /\ MaxUsers \in Nat /\ MaxRuns \in Nat /\ MaxThreads \in Nat
  /\ Limit \in Nat /\ MaxEvents \in Nat /\ MaxFaults \in Nat
  /\ Book \in Seq(Phones) /\ Len(Book) \in Nat /\ Len(Book) <= MaxUsers
  /\ NoChat \notin Chats
  /\ Nobody \in Rows /\ NoWork \in Works /\ NoTask \in Tasks /\ NoRun \in TaskRuns
<1>1. Nobody.phone \in Phones
  <2>1. Phones # {}  BY AccountsAssumption
  <2>. QED  BY <2>1 DEF Nobody
<1>2. Nobody \in Rows
  BY <1>1 DEF Nobody, Rows
<1>3. NoWork \in Works
  BY <1>1 DEF NoWork, Works
<1>. QED  BY <1>2, <1>3, AccountsAssumption DEF NoTask, Tasks, NoRun, TaskRuns

LEMMA JoinedIsRow ==
  ASSUME NEW p \in Phones, NEW c \in Chats \cup {NoChat}
  PROVE  Joined(p) \in Rows /\ [Joined(p) EXCEPT !.chat = c] \in Rows
BY DEF Joined, Rows

LEMMA InitTypes == Init => Types
<1>. SUFFICES ASSUME Init PROVE Types
  OBVIOUS
<1>. USE ConstantTypes
<1>1. PanelTypes
  <2>1. PICK n \in 0 .. Len(Book) :
          user = [u \in Ids |-> IF u <= n THEN Joined(Book[u]) ELSE Nobody]
    BY DEF Init
  <2>2. \A u \in Ids : u <= n => Joined(Book[u]) \in Rows
    <3>1. \A u \in Ids : u <= n => Book[u] \in Phones
      BY DEF Ids
    <3>. QED  BY <3>1, JoinedIsRow
  <2>3. user \in [Ids -> Rows]
    BY <2>1, <2>2
  <2>. QED  BY <2>3 DEF Init, PanelTypes
<1>2. ServerTypes
  BY DEF Init, ServerTypes, Ids
<1>3. RunTypes
  BY DEF Init, RunTypes
<1>4. PastTypes
  BY DEF Init, PastTypes
<1>. QED  BY <1>1, <1>2, <1>3, <1>4 DEF Types

-----------------------------------------------------------------------------
(* A request only writes down what its thread is about to do; an edit      *)
(* keeps the number and the chat of the user.                              *)
Asks(t) == \/ \E p \in Web : Trial(t, p)
           \/ \E c \in Chats : \/ ContactOfNobody(t, c) \/ ContactOfUser(t, c)
                               \/ \E u \in Ids : Link(t, c, u)
Edits(u) == Switch(u) \/ ResetUsage(u) \/ Renew(u) \/ Delete(u)

LEMMA LeastNatural ==
  ASSUME NEW S, S \subseteq Nat, S # {}
  PROVE  \E x \in S : \A y \in S : x <= y
<1>1. IsWellFoundedOn(OpToRel(<, Nat), Nat)
  BY NatLessThanWellFounded, Zenon
<1>2. PICK x \in S : \A y \in S : ~(<<y, x>> \in OpToRel(<, Nat))
  BY <1>1, WFMin, Zenon
<1>3. ASSUME NEW y \in S, y < x PROVE FALSE
  <2>1. <<y, x>> \in OpToRel(<, Nat)
    BY <1>3 DEF OpToRel
  <2>. QED  BY <2>1, <1>2
<1>. QED  BY <1>3

LEMMA NewestIsOne ==
  ASSUME NEW S \in SUBSET Ids, Newest(S) # 0
  PROVE  Newest(S) \in S
<1>. USE ConstantTypes
<1>. DEFINE D == {d \in Nat : MaxUsers - d \in S}
<1>1. PICK x \in S : TRUE
  BY DEF Newest
<1>2. \A y \in S : MaxUsers - y \in D
  BY DEF Ids
<1>3. PICK d \in D : \A e \in D : d <= e
  BY <1>1, <1>2, LeastNatural
<1>4. MaxUsers - d \in S /\ \A y \in S : MaxUsers - d >= y
  <2>1. \A y \in S : y \in Nat /\ y <= MaxUsers
    BY DEF Ids
  <2>2. \A y \in S : d <= MaxUsers - y
    BY <1>2, <1>3
  <2>. QED  BY <2>1, <2>2, <1>3
<1>. QED  BY <1>1, <1>4 DEF Newest, Max

(* What is decided: something that was read, in one look at the table.     *)
Decided(t, w) ==
  /\ w \in Works /\ work[t].pc = "idle"
  /\ w.pc \in {"create", "bind"}
  /\ w.pc = "create" => WithPhone(w.phone) = {}
  /\ w.pc = "bind" => /\ w.user \in Users /\ user[w.user].chat = NoChat
                      /\ user[w.user].phone = w.phone
  /\ work' = [work EXCEPT ![t] = w]
  /\ excuse \in SUBSET excuse' /\ excuse' \in SUBSET {"overlap", "second"}
  /\ "overlap" \notin excuse' => ~Meets(t, w.phone, w.chat)
  /\ excuse' = {} /\ w.chat # NoChat => WithChat(w.chat) = {}
  /\ Event
  /\ UNCHANGED <<user, adm, server, run, history, faults>>

LEMMA DecidesShape ==
  ASSUME Types, NEW t \in Threads, NEW w \in Works, Decides(t, w),
         w.pc \in {"create", "bind"},
         w.pc = "create" => WithPhone(w.phone) = {},
         w.pc = "bind" => /\ w.user \in Users /\ user[w.user].chat = NoChat
                          /\ user[w.user].phone = w.phone,
         w.chat # NoChat => WithChat(w.chat) = {}
  PROVE  Decided(t, w)
<1>1. work[t].pc = "idle"
  BY ConstantTypes DEF Decides, Takes, Threads
<1>2. excuse \in SUBSET excuse' /\ excuse' \in SUBSET {"overlap", "second"}
  BY DEF Decides, Types, PastTypes
<1>. QED  BY <1>1, <1>2 DEF Decides, Takes, Decided

LEMMA AsksShape ==
  ASSUME Types, NEW t \in Threads, Asks(t)
  PROVE  \E w : Decided(t, w)
<1>1. CASE \E p \in Web : Trial(t, p)
  <2>1. PICK p \in Web : Trial(t, p)
    BY <1>1
  <2>. DEFINE w == [pc |-> "create", phone |-> p, chat |-> NoChat, user |-> 0]
  <2>2. w \in Works
    BY DEF Works, Phones
  <2>3. Decided(t, w)
    BY <2>1, <2>2, DecidesShape DEF Trial
  <2>. QED  BY <2>3
<1>2. CASE \E c \in Chats : ContactOfNobody(t, c)
  <2>1. PICK c \in Chats : ContactOfNobody(t, c)
    BY <1>2
  <2>. DEFINE w == [pc |-> "create", phone |-> PhoneOf[c], chat |-> c, user |-> 0]
  <2>2. w \in Works
    BY DEF Works, Phones
  <2>3. Decided(t, w)
    BY <2>1, <2>2, DecidesShape DEF ContactOfNobody
  <2>. QED  BY <2>3
<1>3. CASE \E c \in Chats : ContactOfUser(t, c)
  <2>1. PICK c \in Chats : ContactOfUser(t, c)
    BY <1>3
  <2>. DEFINE v == Newest(WithPhone(PhoneOf[c]))
              w == [pc |-> "bind", phone |-> PhoneOf[c], chat |-> c, user |-> v]
  <2>2. v \in WithPhone(PhoneOf[c])
    <3>1. WithPhone(PhoneOf[c]) \in SUBSET Ids
      BY DEF WithPhone, Users
    <3>. QED  BY <2>1, <3>1, NewestIsOne DEF ContactOfUser
  <2>3. v \in Users /\ v \in Ids /\ user[v].phone = PhoneOf[c]
    BY <2>2 DEF WithPhone, Users
  <2>4. WithChat(c) = {} /\ user[v].chat = NoChat /\ Decides(t, w)
    BY <2>1 DEF ContactOfUser
  <2>. HIDE DEF v
  <2>5. w \in Works
    BY <2>3 DEF Works, Phones
  <2>6. Decided(t, w)
    BY <2>3, <2>4, <2>5, DecidesShape
  <2>. QED  BY <2>6
<1>4. CASE \E c \in Chats : \E u \in Ids : Link(t, c, u)
  <2>1. PICK c \in Chats, u \in Ids : Link(t, c, u)
    BY <1>4
  <2>. DEFINE w == [pc |-> "bind", phone |-> user[u].phone, chat |-> c, user |-> u]
  <2>2. u \in Users /\ user[u].chat = NoChat /\ Takes(t)
    BY <2>1 DEF Link
  <2>3. w \in Works
    <3>1. user[u].phone \in Phones
      BY DEF Types, PanelTypes, Rows
    <3>. QED  BY <3>1 DEF Works
  <2>4. work[t].pc = "idle"
    BY <2>2, ConstantTypes DEF Takes, Threads
  <2>5. excuse' = excuse \cup (IF Meets(t, user[u].phone, c) THEN {"overlap"} ELSE {})
                         \cup (IF WithChat(c) # {} THEN {"second"} ELSE {})
    BY <2>1 DEF Link
  <2>6. excuse \in SUBSET excuse' /\ excuse' \in SUBSET {"overlap", "second"}
    BY <2>5 DEF Types, PastTypes
  <2>7. /\ work' = [work EXCEPT ![t] = w]
        /\ UNCHANGED <<user, adm, server, run, history, faults>>
    BY <2>1 DEF Link
  <2>8. Decided(t, w)
    BY <2>2, <2>3, <2>4, <2>5, <2>6, <2>7 DEF Decided, Takes
  <2>. QED  BY <2>8
<1>. QED  BY <1>1, <1>2, <1>3, <1>4 DEF Asks

Edited(u, row) ==
  /\ u \in Users /\ Event
  /\ row \in Rows /\ row.is = "there" /\ row.phone = user[u].phone /\ row.chat = user[u].chat
  /\ row.used <= user[u].used
  /\ user' = [user EXCEPT ![u] = row]
  /\ forgiven' = [forgiven EXCEPT ![u] = @ + user[u].used - row.used]
  /\ adm' \in Tasks
  /\ UNCHANGED <<work, server, run, flown, lost, excuse, faults>>

LEMMA EditsShape ==
  ASSUME Types, NEW u \in Ids, Edits(u)
  PROVE  \E row : Edited(u, row)
<1>1. u \in Users
  BY DEF Edits, Switch, ResetUsage, Renew, Delete, Edit
<1>2. user[u] \in Rows /\ user[u].is = "there"
  BY <1>1 DEF Types, PanelTypes, Users
<1>3. ASSUME NEW row \in Rows, row.is = "there", row.phone = user[u].phone,
             row.chat = user[u].chat, row.used <= user[u].used,
             NEW do \in {"push", "file", "delete"}, Edit(u, row, do)
      PROVE  Edited(u, row)
  BY <1>1, <1>3 DEF Edit, Edited, Tasks
<1>4. /\ [user[u] EXCEPT !.enable = ~@] \in Rows
      /\ [user[u] EXCEPT !.used = 0] \in Rows
      /\ [user[u] EXCEPT !.used = 0, !.enable = TRUE] \in Rows
      /\ [user[u] EXCEPT !.enable = FALSE] \in Rows
      /\ user[u].used \in Nat
  BY <1>2 DEF Rows
<1>5. CASE Switch(u)
  <2>1. PICK do \in {"push", "file"} : Edit(u, [user[u] EXCEPT !.enable = ~@], do)
    BY <1>5 DEF Switch
  <2>2. Edited(u, [user[u] EXCEPT !.enable = ~@])
    BY <1>2, <1>3, <1>4, <2>1 DEF Rows
  <2>. QED  BY <2>2
<1>6. CASE ResetUsage(u)
  <2>1. Edited(u, [user[u] EXCEPT !.used = 0])
    BY <1>2, <1>3, <1>4, <1>6 DEF ResetUsage, Rows
  <2>. QED  BY <2>1
<1>7. CASE Renew(u)
  <2>1. PICK do \in {"push", "file"} : Edit(u, [user[u] EXCEPT !.used = 0, !.enable = TRUE], do)
    BY <1>7 DEF Renew
  <2>. DEFINE row == [user[u] EXCEPT !.used = 0, !.enable = TRUE]
  <2>2. row.is = user[u].is /\ row.phone = user[u].phone /\ row.chat = user[u].chat /\ row.used = 0
    BY <1>2 DEF Rows
  <2>3. row \in Rows /\ Edit(u, row, do)
    BY <1>4, <2>1
  <2>. HIDE DEF row
  <2>4. Edited(u, row)
    BY <1>2, <1>3, <1>4, <2>1, <2>2, <2>3
  <2>. QED  BY <2>4
<1>8. CASE Delete(u)
  <2>1. Edited(u, [user[u] EXCEPT !.enable = FALSE])
    BY <1>2, <1>3, <1>4, <1>8 DEF Delete, Rows
  <2>. QED  BY <2>1
<1>. QED  BY <1>5, <1>6, <1>7, <1>8 DEF Edits

-----------------------------------------------------------------------------
(* Every step is one of these.                                             *)
LEMMA StepCases ==
  ASSUME Next
  PROVE  \/ \E t \in Threads : Asks(t) \/ Create(t) \/ QuickApply(t) \/ Bind(t)
         \/ \E u \in Ids : Edits(u) \/ \E n \in 1 .. Limit + 1 : Flow(u, n)
         \/ Push \/ PushFile \/ Remove \/ Drop \/ PanelRestart \/ XrayRestart
         \/ \E r \in Runs : \/ ReadCounters(r) \/ ReadEnabled(r) \/ LoadUsers(r)
                            \/ Compare(r) \/ Sweep(r) \/ KillRun(r)
                            \/ \E u \in Ids : Charge(r, u) \/ PeriodicReset(r, u)
BY Zenon DEF Next, Asks, Edits, RunStep

LEMMA ServeTypes ==
  ASSUME NEW S \in SUBSET Ids, NEW T \in SUBSET Ids, xray \in [Tags -> SUBSET Ids],
         missed \in SUBSET Ids, Serve(S, T)
  PROVE  xray' \in [Tags -> SUBSET Ids] /\ missed' \in SUBSET Ids
<1>1. PICK misses \in [S \cup T -> SUBSET Tags] :
        /\ xray' = [t \in Tags |-> (xray[t] \cup (S \cap {u \in S \cup T : t \notin misses[u]}))
                                     \ (T \cap {u \in S \cup T : t \notin misses[u]})]
        /\ missed' = (missed \ (S \cup T)) \cup {u \in S \cup T : misses[u] # {}}
  BY DEF Serve
<1>2. xray' \in [Tags -> SUBSET Ids]
  BY <1>1
<1>3. missed' \in SUBSET Ids
  BY <1>1
<1>. QED  BY <1>2, <1>3

(* Only those who are added come to be served.                             *)
LEMMA ServeOnlyAdds ==
  ASSUME NEW S, NEW T, Serve(S, T), NEW u, u \notin S, Unserved(u)
  PROVE  Unserved(u)'
<1>1. PICK misses \in [S \cup T -> SUBSET Tags] :
        xray' = [t \in Tags |-> (xray[t] \cup (S \cap {v \in S \cup T : t \notin misses[v]}))
                                  \ (T \cap {v \in S \cup T : t \notin misses[v]})]
  BY DEF Serve
<1>. QED  BY <1>1 DEF Unserved

LEMMA AdminTypes ==
  ASSUME Types, Push \/ PushFile \/ Remove \/ Drop \/ PanelRestart
  PROVE  Types'
<1>. USE ConstantTypes DEF Types, panel, server, history, bounds
<1>0. Configured \in SUBSET Ids
  BY DEF Configured, Users
<1>1. CASE Push
  <2>1. xray' \in [Tags -> SUBSET Ids] /\ missed' \in SUBSET Ids
    <3>1. adm.user \in Ids
      BY <1>1 DEF Push, Does, PanelTypes, Tasks
    <3>2. Serve({adm.user}, {}) \/ Serve({}, {adm.user})
      <4>1. CASE Active(adm.user)
        BY <1>1, <4>1 DEF Push
      <4>2. CASE ~Active(adm.user)
        BY <1>1, <4>2 DEF Push
      <4>. QED  BY <4>1, <4>2, Zenon
    <3>3. {adm.user} \in SUBSET Ids /\ {} \in SUBSET Ids
      BY <3>1
    <3>4. xray \in [Tags -> SUBSET Ids] /\ missed \in SUBSET Ids
      BY DEF ServerTypes
    <3>. QED  BY <3>2, <3>3, <3>4, ServeTypes, Zenon
  <2>2. adm' \in Tasks
    <3>1. NoTask \in Tasks /\ (adm' = NoTask \/ adm' = [adm EXCEPT !.do = "remove"])
      BY <1>1, Zenon DEF Push
    <3>2. adm.user \in Ids /\ adm \in Tasks
      BY <1>1 DEF Push, Does, PanelTypes, Tasks
    <3>. QED  BY <3>1, <3>2 DEF Tasks
  <2>. QED
    BY <1>0, <1>1, <2>1, <2>2 DEF Push, PanelTypes, ServerTypes, RunTypes, PastTypes
<1>2. CASE PushFile
  BY <1>0, <1>2 DEF PushFile, PanelTypes, ServerTypes, RunTypes, PastTypes
<1>3. CASE Remove
  <2>1. xray' \in [Tags -> SUBSET Ids] /\ missed' \in SUBSET Ids
    <3>1. adm.user \in Ids
      BY <1>3 DEF Remove, Does, PanelTypes, Tasks
    <3>. QED  BY <1>3, <3>1, ServeTypes DEF Remove, ServerTypes
  <2>2. adm' \in Tasks
    <3>1. adm.user \in Ids /\ adm \in Tasks /\ adm' = [adm EXCEPT !.do = "drop"]
      BY <1>3 DEF Remove, Does, PanelTypes, Tasks
    <3>. QED  BY <3>1 DEF Tasks
  <2>. QED
    BY <1>3, <2>1, <2>2 DEF Remove, PanelTypes, ServerTypes, RunTypes, PastTypes
<1>4. CASE Drop
  <2>1. [Nobody EXCEPT !.is = "gone"] \in Rows
    BY DEF Rows
  <2>. QED
    BY <1>4, <2>1 DEF Drop, PanelTypes, ServerTypes, RunTypes, PastTypes
<1>5. CASE PanelRestart
  BY <1>5 DEF PanelRestart, PanelTypes, ServerTypes, RunTypes, PastTypes
<1>. QED  BY <1>1, <1>2, <1>3, <1>4, <1>5

LEMMA PanelStepTypes ==
  ASSUME Types, NEW t \in Threads, Asks(t) \/ Create(t) \/ QuickApply(t) \/ Bind(t)
  PROVE  Types'
<1>. USE ConstantTypes DEF Types, panel, server, history, bounds
<1>1. CASE Asks(t)
  <2>1. PICK w : Decided(t, w)
    BY <1>1, AsksShape
  <2>2. work' \in [Threads -> Works]
    BY <2>1 DEF Decided, PanelTypes
  <2>. QED
    BY <2>1, <2>2 DEF Decided, Event, PanelTypes, ServerTypes, RunTypes, PastTypes
<1>2. CASE Create(t)
  <2>1. work[t].phone \in Phones /\ work[t].chat \in Chats \cup {NoChat}
    BY DEF PanelTypes, Works
  <2>2. user' \in [Ids -> Rows]
    BY <1>2, <2>1, JoinedIsRow DEF Create, PanelTypes
  <2>3. [NoWork EXCEPT !.pc = "apply"] \in Works
    BY DEF Works
  <2>. QED
    BY <1>2, <2>2, <2>3 DEF Create, PanelTypes, ServerTypes, RunTypes, PastTypes
<1>3. CASE QuickApply(t)
  BY <1>3 DEF QuickApply, Configured, Users, PanelTypes, ServerTypes, RunTypes, PastTypes
<1>4. CASE Bind(t)
  <2>1. work[t].chat \in Chats \cup {NoChat}
    BY DEF PanelTypes, Works
  <2>2. user' \in [Ids -> Rows]
    <3>. DEFINE u == work[t].user
    <3>1. CASE u \in Users
      <4>1. [user[u] EXCEPT !.chat = work[t].chat] \in Rows
        BY <2>1, <3>1 DEF PanelTypes, Users, Rows
      <4>. QED  BY <1>4, <3>1, <4>1 DEF Bind, PanelTypes, Users
    <3>2. CASE u \notin Users
      BY <1>4, <3>2 DEF Bind, PanelTypes
    <3>. QED  BY <3>1, <3>2
  <2>. QED
    BY <1>4, <2>2 DEF Bind, PanelTypes, ServerTypes, RunTypes, PastTypes
<1>. QED  BY <1>1, <1>2, <1>3, <1>4

LEMMA TrafficTypes ==
  ASSUME Types, \/ \E u \in Ids : Edits(u) \/ \E n \in 1 .. Limit + 1 : Flow(u, n)
                \/ XrayRestart
  PROVE  Types'
<1>. USE ConstantTypes DEF Types, panel, server, history, bounds
<1>1. ASSUME NEW u \in Ids, Edits(u) PROVE Types'
  <2>1. PICK row : Edited(u, row)
    BY <1>1, EditsShape
  <2>2. user' \in [Ids -> Rows]
    BY <2>1 DEF Edited, PanelTypes
  <2>3. forgiven' \in [Ids -> Nat]
    <3>1. user[u].used \in Nat /\ row.used \in Nat /\ row.used <= user[u].used
      BY <2>1 DEF Edited, PanelTypes, Rows
    <3>2. forgiven[u] + user[u].used - row.used \in Nat
      BY <3>1 DEF PastTypes
    <3>. QED  BY <2>1, <3>2 DEF Edited, PastTypes
  <2>. QED
    BY <2>1, <2>2, <2>3 DEF Edited, Event, PanelTypes, ServerTypes, RunTypes, PastTypes
<1>2. ASSUME NEW u \in Ids, NEW n \in 1 .. Limit + 1, Flow(u, n) PROVE Types'
  BY <1>2 DEF Flow, Event, PanelTypes, ServerTypes, RunTypes, PastTypes
<1>3. CASE XrayRestart
  BY <1>3 DEF XrayRestart, PanelTypes, ServerTypes, RunTypes, PastTypes
<1>. QED  BY <1>1, <1>2, <1>3

LEMMA RunStepTypes ==
  ASSUME Types, NEW r \in Runs,
         \/ ReadCounters(r) \/ ReadEnabled(r) \/ LoadUsers(r)
         \/ Compare(r) \/ Sweep(r) \/ KillRun(r)
  PROVE  Types'
<1>. USE ConstantTypes DEF Types, panel, server, history, bounds
<1>0. run[r] \in TaskRuns
  BY DEF RunTypes
<1>1. CASE ReadCounters(r)
  <2>1. [run[r] EXCEPT !.pc = "read", !.usage = counter,
                      !.todo = {u \in Ids : counter[u] > 0}] \in TaskRuns
    BY <1>0 DEF TaskRuns, ServerTypes
  <2>2. run' \in [Runs -> TaskRuns]
    BY <1>1, <2>1, Zenon DEF ReadCounters, RunTypes
  <2>. QED
    BY <1>1, <2>2 DEF ReadCounters, PanelTypes, ServerTypes, RunTypes, PastTypes
<1>2. CASE ReadEnabled(r)
  <2>1. PICK silent \in SUBSET Tags :
          run' = [run EXCEPT ![r].pc = "charging", ![r].before = Listed(Tags \ silent)]
    BY <1>2 DEF ReadEnabled
  <2>2. run' \in [Runs -> TaskRuns]
    <3>1. Listed(Tags \ silent) \in SUBSET Ids
      BY DEF Listed, ServerTypes
    <3>2. [run[r] EXCEPT !.pc = "charging", !.before = Listed(Tags \ silent)] \in TaskRuns
      BY <1>0, <3>1 DEF TaskRuns
    <3>. QED  BY <2>1, <3>2, Zenon DEF RunTypes
  <2>. QED
    BY <1>2, <2>2 DEF ReadEnabled, PanelTypes, ServerTypes, RunTypes, PastTypes
<1>3. CASE LoadUsers(r)
  <2>1. [run[r] EXCEPT !.pc = "loaded", !.users = Users,
                      !.active = {u \in Users : Active(u)}] \in TaskRuns
    BY <1>0 DEF TaskRuns, Users
  <2>2. run' \in [Runs -> TaskRuns]
    BY <1>3, <2>1, Zenon DEF LoadUsers, RunTypes
  <2>. QED
    BY <1>3, <2>2 DEF LoadUsers, PanelTypes, ServerTypes, RunTypes, PastTypes
<1>4. CASE Compare(r)
  <2>1. [run[r] EXCEPT !.pc = "compared",
                      !.changed = @ \/ ToAdd(run[r]) \cup ToRemove(run[r]) # {}] \in TaskRuns
    BY <1>0, Zenon DEF TaskRuns
  <2>2. run' \in [Runs -> TaskRuns]
    BY <1>4, <2>1, Zenon DEF Compare, RunTypes
  <2>3. xray' \in [Tags -> SUBSET Ids] /\ missed' \in SUBSET Ids
    <3>1. ToAdd(run[r]) \in SUBSET Ids /\ ToRemove(run[r]) \in SUBSET Ids
      BY <1>0 DEF ToAdd, ToRemove, TaskRuns
    <3>. QED  BY <1>4, <3>1, ServeTypes DEF Compare, ServerTypes
  <2>. QED
    BY <1>4, <2>2, <2>3 DEF Compare, PanelTypes, ServerTypes, RunTypes, PastTypes
<1>5. CASE Sweep(r)
  <2>1. run' \in [Runs -> TaskRuns]
    BY <1>5 DEF Sweep, RunTypes
  <2>2. xray' \in [Tags -> SUBSET Ids] /\ missed' \in SUBSET Ids
    <3>1. Zombies(run[r]) \in SUBSET Ids
      BY <1>0 DEF Zombies, TaskRuns
    <3>. QED  BY <1>5, <3>1, ServeTypes DEF Sweep, ServerTypes
  <2>3. file' \in SUBSET Ids
    BY <1>5 DEF Sweep, ServerTypes, Configured, Users
  <2>. QED
    BY <1>5, <2>1, <2>2, <2>3 DEF Sweep, PanelTypes, ServerTypes, RunTypes, PastTypes
<1>6. CASE KillRun(r)
  <2>1. \A u \in Ids : run[r].usage[u] \in Nat
    BY <1>0 DEF TaskRuns
  <2>. QED
    BY <1>6, <2>1 DEF KillRun, PanelTypes, ServerTypes, RunTypes, PastTypes
<1>. QED  BY <1>1, <1>2, <1>3, <1>4, <1>5, <1>6

LEMMA ChargeTypes ==
  ASSUME Types, NEW r \in Runs, NEW u \in Ids, Charge(r, u) \/ PeriodicReset(r, u)
  PROVE  Types'
<1>. USE ConstantTypes DEF Types, panel, server, history, bounds
<1>0. run[r] \in TaskRuns /\ user[u] \in Rows
  BY DEF RunTypes, PanelTypes
<1>1. CASE Charge(r, u)
  <2>1. [run[r] EXCEPT !.todo = @ \ {u}] \in TaskRuns
    BY <1>0, Zenon DEF TaskRuns
  <2>2. run' \in [Runs -> TaskRuns]
    BY <1>1, <2>1, Zenon DEF Charge, RunTypes
  <2>3. [user[u] EXCEPT !.used = @ + run[r].usage[u]] \in Rows
    <3>1. run[r].usage[u] \in Nat
      BY <1>0 DEF TaskRuns
    <3>2. user[u].used + run[r].usage[u] \in Nat
      BY <1>0, <3>1 DEF Rows
    <3>. QED  BY <1>0, <3>2, Zenon DEF Rows
  <2>4. user' \in [Ids -> Rows]
    BY <1>1, <2>3 DEF Charge, PanelTypes
  <2>. QED
    BY <1>1, <2>2, <2>4 DEF Charge, PanelTypes, ServerTypes, RunTypes, PastTypes
<1>2. CASE PeriodicReset(r, u)
  <2>1. [run[r] EXCEPT !.changed = TRUE] \in TaskRuns
    BY <1>0, Zenon DEF TaskRuns
  <2>2. /\ run' \in [Runs -> TaskRuns]
        /\ xray' \in [Tags -> SUBSET Ids] /\ missed' \in SUBSET Ids
    <3>1. run' \in {run, [run EXCEPT ![r].changed = TRUE]}
      BY <1>2, Zenon DEF PeriodicReset
    <3>2. UNCHANGED <<xray, missed>> \/ Serve({u}, {})
      BY <1>2, Zenon DEF PeriodicReset
    <3>. QED  BY <2>1, <3>1, <3>2, ServeTypes DEF RunTypes, ServerTypes
  <2>3. [user[u] EXCEPT !.used = 0] \in Rows /\ user[u].used \in Nat
    BY <1>0 DEF Rows
  <2>4. user' \in [Ids -> Rows] /\ forgiven' \in [Ids -> Nat]
    BY <1>2, <2>3 DEF PeriodicReset, PanelTypes, PastTypes
  <2>5. events' \in 0 .. MaxEvents
    BY <1>2 DEF PeriodicReset, Event, PastTypes
  <2>6. UNCHANGED <<panel, counter, file, flown, lost, excuse>>
    BY <1>2, Zenon DEF PeriodicReset
  <2>. QED
    BY <2>2, <2>4, <2>5, <2>6 DEF PanelTypes, ServerTypes, RunTypes, PastTypes
<1>. QED  BY <1>1, <1>2

LEMMA TypesStep ==
  ASSUME Types, [Next]_vars
  PROVE  Types'
<1>1. CASE Next
  BY <1>1, StepCases, PanelStepTypes, AdminTypes, TrafficTypes, RunStepTypes, ChargeTypes, Zenon
<1>2. CASE UNCHANGED vars
  BY <1>2 DEF vars, panel, server, history, bounds,
             Types, PanelTypes, ServerTypes, RunTypes, PastTypes
<1>. QED  BY <1>1, <1>2

-----------------------------------------------------------------------------
(* What is on its way, when the runs keep what they have read, and when    *)
(* one of them takes or charges something.                                 *)
LEMMA RunsFinite == IsFiniteSet(Runs)
  BY ConstantTypes, FS_Interval DEF Runs

LEMMA ShareType ==
  ASSUME Types, NEW u \in Ids
  PROVE  /\ Share(u) \in [Runs -> Nat]
         /\ \A r \in Runs : Share(u)[r] = IF u \in run[r].todo THEN run[r].usage[u] ELSE 0
BY DEF Types, RunTypes, TaskRuns, Share

(* The terms of the balances are numbers, before and after a step.         *)
Terms ==
  \A u \in Ids :
    /\ Share(u) \in [Runs -> Nat] /\ SumFunction(Share(u)) \in Nat
    /\ user[u].used \in Nat /\ forgiven[u] \in Nat /\ lost[u] \in Nat
    /\ flown[u] \in Nat /\ counter[u] \in Nat
    /\ Balance(u) = user[u].used + forgiven[u] + lost[u] + (counter[u] + SumFunction(Share(u)))

LEMMA TermsAreNumbers == Types => Terms
<1>. SUFFICES ASSUME Types, NEW u \in Ids
             PROVE  /\ Share(u) \in [Runs -> Nat] /\ SumFunction(Share(u)) \in Nat
                    /\ user[u].used \in Nat /\ forgiven[u] \in Nat /\ lost[u] \in Nat
                    /\ flown[u] \in Nat /\ counter[u] \in Nat
                    /\ Balance(u) = user[u].used + forgiven[u] + lost[u]
                                      + (counter[u] + SumFunction(Share(u)))
  BY DEF Terms
<1>1. Share(u) \in [Runs -> Nat]
  BY ShareType
<1>2. SumFunction(Share(u)) \in Nat
  BY <1>1, RunsFinite, SumTable, SumIsInTable DEF SumFunction
<1>. QED  BY <1>1, <1>2 DEF Types, PanelTypes, Rows, PastTypes, ServerTypes, Balance, OnItsWay

LEMMA TermsStayNumbers == Types' => Terms'
  BY TermsAreNumbers, PTL

LEMMA ShareKept ==
  ASSUME Types, NEW u \in Ids,
         \A r \in Runs : run'[r].todo = run[r].todo /\ run'[r].usage = run[r].usage
  PROVE  SumFunction(Share(u))' = SumFunction(Share(u))
<1>1. Share(u)' = Share(u)
  BY DEF Share
<1>. QED  BY <1>1

LEMMA ShareMoves ==
  ASSUME Types, Types', NEW u \in Ids, NEW r \in Runs,
         \A q \in Runs \ {r} : run'[q] = run[q]
  PROVE  /\ SumFunction(Share(u)) \in Nat /\ SumFunction(Share(u))' \in Nat
         /\ SumFunction(Share(u))' = SumFunction(Share(u)) - Share(u)[r] + Share(u)'[r]
<1>1. Share(u) \in [Runs -> Nat] /\ Share(u)' \in [Runs -> Nat]
  BY TermsAreNumbers, TermsStayNumbers DEF Terms
<1>2. \A q \in Runs \ {r} : Share(u)[q] = Share(u)'[q]
  BY DEF Share
<1>. QED  BY <1>1, <1>2, RunsFinite, SumChanges

BooksOf(u) == Balance(u) <= flown[u] /\ (user[u].is # "gone" => flown[u] = Balance(u))

(* Nothing but numbers that are not part of a balance change.              *)
LEMMA BalanceKept ==
  ASSUME Types, Types', Balanced,
         \A u \in Ids : /\ user'[u].used = user[u].used
                        /\ user'[u].is # "gone" => user[u].is # "gone",
         UNCHANGED <<forgiven, lost, flown, counter>>,
         \A r \in Runs : run'[r].todo = run[r].todo /\ run'[r].usage = run[r].usage
  PROVE  Balanced'
<1>. SUFFICES ASSUME NEW u \in Ids PROVE BooksOf(u)'
  BY DEF Balanced, BooksOf
<1>1. SumFunction(Share(u))' = SumFunction(Share(u))
  BY ShareKept
<1>2. Balance(u)' = Balance(u)
  BY <1>1 DEF Balance, OnItsWay
<1>. QED  BY <1>2 DEF Balanced, BooksOf

(* One user's traffic goes from one place to another, or is new.           *)
LEMMA BalanceMoves ==
  ASSUME Types, Types', Balanced, NEW v \in Ids,
         \A u \in Ids : /\ u # v => user'[u].used = user[u].used
                        /\ user'[u].is # "gone" => user[u].is # "gone",
         \A u \in Ids \ {v} : /\ forgiven'[u] = forgiven[u] /\ lost'[u] = lost[u]
                              /\ flown'[u] = flown[u] /\ counter'[u] = counter[u],
         UNCHANGED run,
         user'[v].used + forgiven'[v] + lost'[v] + counter'[v] - flown'[v]
           = user[v].used + forgiven[v] + lost[v] + counter[v] - flown[v]
  PROVE  Balanced'
<1>. SUFFICES ASSUME NEW u \in Ids PROVE BooksOf(u)'
  BY DEF Balanced, BooksOf
<1>1. SumFunction(Share(u))' = SumFunction(Share(u))
  BY ShareKept
<1>2. BooksOf(u)
  BY DEF Balanced, BooksOf
<1>3. CASE u = v
  <2>1. Terms /\ Terms'
    BY TermsAreNumbers, TermsStayNumbers
  <2>. DEFINE s == SumFunction(Share(u))
  <2>2. /\ user[u].used \in Nat /\ forgiven[u] \in Nat /\ lost[u] \in Nat /\ s \in Nat
        /\ flown[u] \in Nat /\ counter[u] \in Nat
        /\ Balance(u) = user[u].used + forgiven[u] + lost[u] + (counter[u] + s)
    BY <2>1 DEF Terms
  <2>3. /\ user'[u].used \in Nat /\ forgiven'[u] \in Nat /\ lost'[u] \in Nat
        /\ flown'[u] \in Nat /\ counter'[u] \in Nat
        /\ Balance(u)' = user'[u].used + forgiven'[u] + lost'[u] + (counter'[u] + s)
    BY <1>1, <2>1 DEF Terms
  <2>. HIDE DEF s
  <2>4. user'[u].used + forgiven'[u] + lost'[u] + counter'[u] - flown'[u]
          = user[u].used + forgiven[u] + lost[u] + counter[u] - flown[u]
    BY <1>3
  <2>5. Balance(u)' - flown'[u] = Balance(u) - flown[u]
    BY <2>2, <2>3, <2>4, SMTT(30)
  <2>6. user'[u].is # "gone" => user[u].is # "gone"
    OBVIOUS
  <2>7. Balance(u)' \in Nat /\ Balance(u) \in Nat
    BY <2>2, <2>3
  <2>8. /\ Balance(u) <= flown[u] => Balance(u)' <= flown'[u]
        /\ flown[u] = Balance(u) => flown'[u] = Balance(u)'
    <3>. DEFINE b == Balance(u)  b1 == Balance(u)'  f == flown[u]  f1 == flown'[u]
    <3>1. b \in Nat /\ b1 \in Nat /\ f \in Nat /\ f1 \in Nat /\ b1 - f1 = b - f
      BY <2>2, <2>3, <2>5, <2>7
    <3>. HIDE DEF b, b1, f, f1
    <3>2. (b <= f => b1 <= f1) /\ (f = b => f1 = b1)
      BY <3>1
    <3>. QED  BY <3>2 DEF b, b1, f, f1
  <2>. QED  BY <1>2, <2>6, <2>8, Zenon DEF BooksOf
<1>4. CASE u # v
  <2>1. Balance(u)' = Balance(u)
    BY <1>1, <1>4 DEF Balance, OnItsWay
  <2>. QED  BY <1>2, <1>4, <2>1 DEF BooksOf
<1>. QED  BY <1>3, <1>4

(* A run takes, charges or loses what is its share.                        *)
LEMMA BalanceShared ==
  ASSUME Types, Types', Balanced, NEW r \in Runs,
         \A q \in Runs \ {r} : run'[q] = run[q],
         UNCHANGED <<forgiven, flown>>,
         \A u \in Ids : user'[u].is = user[u].is,
         \A u \in Ids :
           \/ user'[u].used + lost'[u] + counter'[u] + Share(u)'[r]
                = user[u].used + lost[u] + counter[u] + Share(u)[r]
           \/ /\ user[u].is = "gone"
              /\ user'[u].used + lost'[u] + counter'[u] + Share(u)'[r]
                   <= user[u].used + lost[u] + counter[u] + Share(u)[r]
  PROVE  Balanced'
<1>. SUFFICES ASSUME NEW u \in Ids PROVE BooksOf(u)'
  BY DEF Balanced, BooksOf
<1>1. SumFunction(Share(u))' = SumFunction(Share(u)) - Share(u)[r] + Share(u)'[r]
  BY ShareMoves
<1>2. BooksOf(u)
  BY DEF Balanced, BooksOf
<1>. DEFINE s == SumFunction(Share(u))  s1 == SumFunction(Share(u))'
            p == Share(u)[r]  p1 == Share(u)'[r]
<1>0. Terms /\ Terms'
  BY TermsAreNumbers, TermsStayNumbers
<1>3. p \in Nat /\ p1 \in Nat
  BY <1>0 DEF Terms
<1>4. /\ user[u].used \in Nat /\ forgiven[u] \in Nat /\ lost[u] \in Nat /\ s \in Nat
      /\ flown[u] \in Nat /\ counter[u] \in Nat
      /\ Balance(u) = user[u].used + forgiven[u] + lost[u] + (counter[u] + s)
  BY <1>0 DEF Terms
<1>5. /\ user'[u].used \in Nat /\ forgiven'[u] \in Nat /\ lost'[u] \in Nat /\ s1 \in Nat
      /\ flown'[u] \in Nat /\ counter'[u] \in Nat
      /\ Balance(u)' = user'[u].used + forgiven'[u] + lost'[u] + (counter'[u] + s1)
  BY <1>0 DEF Terms
<1>9. s1 = s - p + p1
  BY <1>1
<1>10. \/ user'[u].used + lost'[u] + counter'[u] + p1 = user[u].used + lost[u] + counter[u] + p
       \/ /\ user[u].is = "gone"
          /\ user'[u].used + lost'[u] + counter'[u] + p1
               <= user[u].used + lost[u] + counter[u] + p
  OBVIOUS
<1>. HIDE DEF s, s1, p, p1
<1>6. forgiven'[u] = forgiven[u] /\ flown'[u] = flown[u] /\ user'[u].is = user[u].is
  OBVIOUS
<1>7. CASE user'[u].used + lost'[u] + counter'[u] + p1
             = user[u].used + lost[u] + counter[u] + p
  <2>1. Balance(u)' = Balance(u)
    <3>. DEFINE a == user[u].used + lost[u] + counter[u]
                a1 == user'[u].used + lost'[u] + counter'[u]
    <3>1. a \in Nat /\ a1 \in Nat /\ a1 + p1 = a + p
      BY <1>4, <1>5, <1>7
    <3>2. Balance(u) = a + forgiven[u] + s
      BY <1>4
    <3>3. Balance(u)' = a1 + forgiven[u] + s1
      BY <1>5, <1>6
    <3>. HIDE DEF a, a1
    <3>. QED  BY <1>3, <1>4, <1>5, <1>9, <3>1, <3>2, <3>3
  <2>. QED  BY <1>2, <1>6, <2>1 DEF BooksOf
<1>8. CASE /\ user[u].is = "gone"
           /\ user'[u].used + lost'[u] + counter'[u] + p1
                <= user[u].used + lost[u] + counter[u] + p
  <2>1. Balance(u)' <= Balance(u)
    BY <1>9, <1>3, <1>4, <1>5, <1>6, <1>8
  <2>2. Balance(u) \in Nat /\ Balance(u)' \in Nat
    BY <1>4, <1>5
  <2>. QED  BY <1>2, <1>4, <1>6, <1>8, <2>1, <2>2 DEF BooksOf
<1>. QED  BY <1>7, <1>8, <1>10

-----------------------------------------------------------------------------
(* Untouched is kept: what is given to xray, written into its file or read *)
(* into a run is about users who are there, or was there before.           *)
Clean(u) ==
  /\ Unserved(u) /\ u \notin file /\ counter[u] = 0 /\ user[u].used = 0
  /\ \A r \in Runs : /\ u \notin run[r].todo /\ u \notin run[r].before
                     /\ u \notin run[r].users /\ u \notin run[r].active

LEMMA ServerKeepsClean ==
  ASSUME Types, Untouched,
         \A u \in Ids : user'[u].is = "free" => user[u].is = "free" /\ user'[u].used = user[u].used,
         UNCHANGED <<counter, run>>,
         \A u \in Ids : Unserved(u) => Unserved(u)' \/ u \in file \/ user[u].is # "free",
         \A u \in Ids : u \in file' => u \in file \/ user[u].is # "free"
  PROVE  Untouched'
<1>. SUFFICES ASSUME NEW u \in Ids, user'[u].is = "free" PROVE Clean(u)'
  BY DEF Untouched, Clean
<1>1. Clean(u) /\ user[u].is = "free"
  BY DEF Untouched, Clean
<1>. QED  BY <1>1 DEF Clean

LEMMA RunKeepsClean ==
  ASSUME Types, Untouched, NEW r \in Runs,
         \A u \in Ids : /\ user'[u].is = user[u].is
                        /\ user[u].is = "free" => user'[u].used = user[u].used
                                               /\ counter'[u] = counter[u],
         \A q \in Runs \ {r} : run'[q] = run[q],
         \A u \in Ids : user[u].is = "free" /\ Clean(u) =>
           /\ Unserved(u)' /\ u \notin file'
           /\ u \notin run'[r].todo /\ u \notin run'[r].before
           /\ u \notin run'[r].users /\ u \notin run'[r].active
  PROVE  Untouched'
<1>. SUFFICES ASSUME NEW u \in Ids, user'[u].is = "free" PROVE Clean(u)'
  BY DEF Untouched, Clean
<1>1. Clean(u) /\ user[u].is = "free"
  BY DEF Untouched, Clean
<1>. QED  BY <1>1 DEF Clean

LEMMA PanelTrafficInv ==
  ASSUME Types, Types', TrafficInv, NEW t \in Threads,
         Asks(t) \/ Create(t) \/ QuickApply(t) \/ Bind(t)
  PROVE  TrafficInv'
<1>. USE DEF panel, server, history, bounds
<1>1. UNCHANGED <<xray, counter, run, flown, forgiven, lost>> /\ events' \in {events, events + 1}
  <2>1. CASE Asks(t)
    <3>1. PICK w : Decided(t, w)
      BY <2>1, AsksShape
    <3>. QED  BY <3>1 DEF Decided, Event
  <2>. QED  BY <2>1 DEF Create, QuickApply, Bind
<1>2. \A u \in Ids : /\ \/ user'[u].used = user[u].used
                        \/ user[u].is = "free" /\ user'[u].used = 0
                     /\ user'[u].is = "free" => user[u].is = "free" /\ user'[u].used = user[u].used
                     /\ user'[u].is # "gone" => user[u].is # "gone"
  <2>1. CASE Asks(t)
    <3>1. PICK w : Decided(t, w)
      BY <2>1, AsksShape
    <3>. QED  BY <3>1 DEF Decided
  <2>2. CASE Create(t)
    <3>1. PICK v \in Ids : user[v].is = "free" /\
            user' = [user EXCEPT ![v] = [Joined(work[t].phone) EXCEPT !.chat = work[t].chat]]
      BY <2>2 DEF Create
    <3>. QED  BY <3>1 DEF Joined, Types, PanelTypes
  <2>3. CASE QuickApply(t)
    BY <2>3 DEF QuickApply
  <2>4. CASE Bind(t)
    <3>. DEFINE v == work[t].user
    <3>1. CASE v \in Users
      <4>1. /\ [user[v] EXCEPT !.chat = work[t].chat].used = user[v].used
            /\ [user[v] EXCEPT !.chat = work[t].chat].is = user[v].is
        BY <3>1 DEF Users, Types, PanelTypes, Rows
      <4>. QED  BY <2>4, <3>1, <4>1 DEF Bind, Users, Types, PanelTypes
    <3>2. CASE v \notin Users
      BY <2>4, <3>2 DEF Bind
    <3>. QED  BY <3>1, <3>2
  <2>. QED  BY <2>1, <2>2, <2>3, <2>4
<1>3. \A u \in Ids : user[u].is = "free" => user[u].used = 0
  BY DEF TrafficInv, Untouched
<1>4. \A u \in Ids : u \in file' => u \in file \/ user[u].is # "free"
  <2>1. CASE Asks(t)
    <3>1. PICK w : Decided(t, w)
      BY <2>1, AsksShape
    <3>. QED  BY <3>1 DEF Decided
  <2>. QED  BY <2>1 DEF Create, QuickApply, Bind, Configured, Users
<1>5. Untouched'
  BY <1>1, <1>2, <1>4, ServerKeepsClean DEF TrafficInv, Unserved
<1>6. ChargedFirst'
  BY <1>1 DEF TrafficInv, ChargedFirst
<1>7. Balanced'
  BY <1>1, <1>2, <1>3, BalanceKept DEF TrafficInv
<1>8. Flowed'
  <2>0. flown \in [Ids -> Nat] /\ events \in Nat
    BY DEF Types, PastTypes
  <2>1. (Limit + 1) * events <= (Limit + 1) * events'
    <3>1. (Limit + 1) * (events + 1) = (Limit + 1) * events + (Limit + 1)
      BY <2>0, ConstantTypes
    <3>2. (Limit + 1) * events \in Nat
      BY <2>0, ConstantTypes
    <3>. QED  BY <1>1, <3>1, <3>2, ConstantTypes
  <2>2. flown \in [Ids -> Nat] /\ (Limit + 1) * events \in Nat /\ (Limit + 1) * events' \in Nat
    <3>1. \A e \in Nat : (Limit + 1) * e \in Nat
      BY ConstantTypes
    <3>2. events' \in Nat
      BY <1>1, <2>0
    <3>. QED  BY <2>0, <3>1, <3>2
  <2>. HIDE DEF panel
  <2>. QED  BY <1>1, <2>1, <2>2 DEF TrafficInv, Flowed
<1>. QED  BY <1>5, <1>6, <1>7, <1>8 DEF TrafficInv

LEMMA AdminTrafficInv ==
  ASSUME Types, Types', TrafficInv, Push \/ PushFile \/ Remove \/ Drop \/ PanelRestart
  PROVE  TrafficInv'
<1>. USE DEF panel, server, history, bounds
<1>1. UNCHANGED <<counter, run, flown, forgiven, lost, events>>
  BY DEF Push, PushFile, Remove, Drop, PanelRestart
<1>2. \A u \in Ids : Unserved(u) => Unserved(u)' \/ user[u].is # "free"
  <2>. SUFFICES ASSUME NEW u \in Ids, Unserved(u), user[u].is = "free" PROVE Unserved(u)'
    OBVIOUS
  <2>1. CASE Push
    <3>1. CASE Active(adm.user)
      <4>1. Serve({adm.user}, {}) /\ u # adm.user
        BY <2>1, <3>1 DEF Push, Active, Users
      <4>. QED  BY <4>1, ServeOnlyAdds
    <3>2. CASE ~Active(adm.user)
      <4>1. Serve({}, {adm.user})
        BY <2>1, <3>2 DEF Push
      <4>. QED  BY <4>1, ServeOnlyAdds
    <3>. QED  BY <3>1, <3>2
  <2>2. CASE Remove
    BY <2>2, ServeOnlyAdds DEF Remove
  <2>3. CASE PushFile \/ Drop \/ PanelRestart
    BY <2>3 DEF PushFile, Drop, PanelRestart, Unserved
  <2>. QED  BY <2>1, <2>2, <2>3
<1>3. \A u \in Ids : u \in file' => u \in file \/ user[u].is # "free"
  BY DEF Push, PushFile, Remove, Drop, PanelRestart, Configured, Users
<1>4. ChargedFirst' /\ Flowed'
  BY <1>1 DEF TrafficInv, ChargedFirst, Flowed
<1>5. CASE Drop
  <2>1. user' = [user EXCEPT ![adm.user] = [Nobody EXCEPT !.is = "gone"]]
    BY <1>5 DEF Drop
  <2>2. \A u \in Ids : user'[u] = IF u = adm.user THEN [Nobody EXCEPT !.is = "gone"] ELSE user[u]
    BY <2>1 DEF Types, PanelTypes
  <2>3. [Nobody EXCEPT !.is = "gone"].is = "gone" /\ [Nobody EXCEPT !.is = "gone"].used = 0
    BY DEF Nobody
  <2>4. Untouched'
    BY <1>1, <1>2, <1>3, <2>2, <2>3, ServerKeepsClean DEF TrafficInv
  <2>5. Balanced'
    <3>. SUFFICES ASSUME NEW u \in Ids PROVE BooksOf(u)'
      BY DEF Balanced, BooksOf
    <3>1. BooksOf(u)
      BY DEF TrafficInv, Balanced, BooksOf
    <3>2. SumFunction(Share(u))' = SumFunction(Share(u))
      BY <1>1, ShareKept
    <3>3. CASE u # adm.user
      BY <1>1, <2>2, <3>1, <3>2, <3>3 DEF BooksOf, Balance, OnItsWay
    <3>4. CASE u = adm.user
      <4>1. user'[u].used = 0 /\ user'[u].is = "gone"
        BY <2>2, <2>3, <3>4
      <4>2. Terms /\ Terms'
        BY TermsAreNumbers, TermsStayNumbers
      <4>. DEFINE s == SumFunction(Share(u))
      <4>3. /\ user[u].used \in Nat /\ forgiven[u] \in Nat /\ lost[u] \in Nat /\ s \in Nat
            /\ counter[u] \in Nat /\ flown[u] \in Nat
            /\ Balance(u) = user[u].used + forgiven[u] + lost[u] + (counter[u] + s)
        BY <4>2 DEF Terms
      <4>4. Balance(u)' = 0 + forgiven[u] + lost[u] + (counter[u] + s)
        BY <1>1, <3>2, <4>1, <4>2 DEF Terms
      <4>. HIDE DEF s
      <4>5. Balance(u)' <= Balance(u) /\ Balance(u)' \in Nat /\ Balance(u) \in Nat
        BY <4>3, <4>4
      <4>6. Balance(u)' <= flown[u]
        BY <3>1, <4>3, <4>5 DEF BooksOf
      <4>. QED  BY <1>1, <4>1, <4>6 DEF BooksOf
    <3>. QED  BY <3>3, <3>4
  <2>. QED  BY <1>4, <2>4, <2>5 DEF TrafficInv
<1>6. CASE Push \/ PushFile \/ Remove \/ PanelRestart
  <2>1. UNCHANGED user
    BY <1>6 DEF Push, PushFile, Remove, PanelRestart
  <2>2. Untouched'
    BY <1>1, <1>2, <1>3, <2>1, ServerKeepsClean DEF TrafficInv
  <2>3. Balanced'
    BY <1>1, <2>1, BalanceKept DEF TrafficInv
  <2>. QED  BY <1>4, <2>2, <2>3 DEF TrafficInv
<1>. QED  BY <1>5, <1>6

LEMMA FlowInv ==
  ASSUME Types, Types', TrafficInv,
         \/ \E u \in Ids : Edits(u) \/ \E n \in 1 .. Limit + 1 : Flow(u, n)
         \/ XrayRestart
  PROVE  TrafficInv'
<1>. USE DEF panel, server, history, bounds
<1>1. ASSUME NEW u \in Ids, Edits(u) PROVE TrafficInv'
  <2>1. PICK row : Edited(u, row)
    BY <1>1, EditsShape
  <2>2. /\ user[u].is = "there" /\ user[u].used \in Nat /\ row.used \in Nat
        /\ row.used <= user[u].used /\ row.is = "there"
    BY <2>1 DEF Edited, Users, Types, PanelTypes, Rows
  <2>3. \A v \in Ids : user'[v] = IF v = u THEN row ELSE user[v]
    BY <2>1 DEF Edited, Types, PanelTypes
  <2>4. /\ UNCHANGED <<xray, file, counter, run, flown, lost>>
        /\ events \in Nat /\ events' = events + 1
    BY <2>1 DEF Edited, Event, Types, PastTypes
  <2>5. \A v \in Ids : forgiven'[v] = IF v = u THEN forgiven[u] + user[u].used - row.used
                                      ELSE forgiven[v]
    BY <2>1 DEF Edited, Types, PastTypes
  <2>6. Untouched'
    BY <2>2, <2>3, <2>4, ServerKeepsClean DEF TrafficInv, Unserved
  <2>7. Balanced'
    <3>1. forgiven[u] \in Nat /\ lost[u] \in Nat /\ counter[u] \in Nat /\ flown[u] \in Nat
      BY DEF Types, PastTypes, ServerTypes
    <3>2. row.used + (forgiven[u] + user[u].used - row.used) = user[u].used + forgiven[u]
      BY <2>2, <3>1
    <3>3. user'[u].used + forgiven'[u] + lost'[u] + counter'[u] - flown'[u]
            = user[u].used + forgiven[u] + lost[u] + counter[u] - flown[u]
      BY <2>3, <2>4, <2>5, <3>2
    <3>. QED  BY <2>2, <2>3, <2>4, <2>5, <3>3, BalanceMoves DEF TrafficInv
  <2>8. ChargedFirst'
    BY <2>4 DEF TrafficInv, ChargedFirst
  <2>9. Flowed'
    <3>1. (Limit + 1) * (events + 1) = (Limit + 1) * events + (Limit + 1)
      BY <2>4, ConstantTypes
    <3>2. flown \in [Ids -> Nat] /\ (Limit + 1) * events \in Nat
      BY <2>4, ConstantTypes DEF Types, PastTypes
    <3>. QED  BY <2>4, <3>1, <3>2, ConstantTypes DEF TrafficInv, Flowed
  <2>. QED  BY <2>6, <2>7, <2>8, <2>9 DEF TrafficInv
<1>2. ASSUME NEW u \in Ids, NEW n \in 1 .. Limit + 1, Flow(u, n) PROVE TrafficInv'
  <2>1. /\ ~Unserved(u) /\ UNCHANGED <<user, xray, file, run, forgiven, lost>>
        /\ events \in Nat /\ events' = events + 1 /\ n \in Nat /\ n <= Limit + 1
    BY <1>2, ConstantTypes DEF Flow, Served, Unserved, Event, Types, PastTypes
  <2>2. \A v \in Ids : /\ counter'[v] = IF v = u THEN counter[u] + n ELSE counter[v]
                       /\ flown'[v] = IF v = u THEN flown[u] + n ELSE flown[v]
    BY <1>2 DEF Flow, Types, ServerTypes, PastTypes
  <2>3. Untouched'
    BY <2>1, <2>2 DEF TrafficInv, Untouched, Unserved
  <2>4. Balanced'
    <3>1. /\ forgiven[u] \in Nat /\ lost[u] \in Nat /\ counter[u] \in Nat /\ flown[u] \in Nat
          /\ user[u].used \in Nat
      BY DEF Types, PastTypes, ServerTypes, PanelTypes, Rows
    <3>2. (counter[u] + n) - (flown[u] + n) = counter[u] - flown[u]
      BY <2>1, <3>1
    <3>3. user'[u].used + forgiven'[u] + lost'[u] + counter'[u] - flown'[u]
            = user[u].used + forgiven[u] + lost[u] + counter[u] - flown[u]
      BY <2>1, <2>2, <3>1, <3>2
    <3>. QED  BY <2>1, <2>2, <3>3, BalanceMoves DEF TrafficInv
  <2>5. ChargedFirst'
    BY <2>1 DEF TrafficInv, ChargedFirst
  <2>6. Flowed'
    <3>1. (Limit + 1) * (events + 1) = (Limit + 1) * events + (Limit + 1)
      BY <2>1, ConstantTypes
    <3>2. flown \in [Ids -> Nat] /\ (Limit + 1) * events \in Nat
      BY <2>1, ConstantTypes DEF Types, PastTypes
    <3>. SUFFICES ASSUME NEW v \in Ids PROVE flown'[v] <= (Limit + 1) * events'
      BY DEF Flowed
    <3>3. flown[v] <= (Limit + 1) * events /\ flown[v] \in Nat
      BY <3>2 DEF TrafficInv, Flowed
    <3>4. flown'[v] = flown[v] \/ flown'[v] = flown[v] + n
      BY <2>2
    <3>. QED  BY <2>1, <3>1, <3>2, <3>3, <3>4, ConstantTypes
  <2>. QED  BY <2>3, <2>4, <2>5, <2>6 DEF TrafficInv
<1>3. CASE XrayRestart
  <2>1. /\ UNCHANGED <<user, file, run, flown, forgiven, events>>
        /\ \A u \in Ids : u \notin file => Unserved(u)'
        /\ \A u \in Ids : counter'[u] = 0 /\ lost'[u] = lost[u] + counter[u]
    BY <1>3 DEF XrayRestart, Unserved
  <2>2. Untouched'
    BY <2>1 DEF TrafficInv, Untouched
  <2>3. Balanced'
    <3>. SUFFICES ASSUME NEW u \in Ids PROVE BooksOf(u)'
      BY DEF Balanced, BooksOf
    <3>1. BooksOf(u)
      BY DEF TrafficInv, Balanced, BooksOf
    <3>2. SumFunction(Share(u))' = SumFunction(Share(u))
      BY <2>1, ShareKept
    <3>3. Terms /\ Terms'
      BY TermsAreNumbers, TermsStayNumbers
    <3>. DEFINE s == SumFunction(Share(u))
    <3>4. /\ user[u].used \in Nat /\ forgiven[u] \in Nat /\ lost[u] \in Nat /\ s \in Nat
          /\ counter[u] \in Nat
          /\ Balance(u) = user[u].used + forgiven[u] + lost[u] + (counter[u] + s)
      BY <3>3 DEF Terms
    <3>5. Balance(u)' = user[u].used + forgiven[u] + (lost[u] + counter[u]) + (0 + s)
      BY <2>1, <3>2, <3>3 DEF Terms
    <3>. HIDE DEF s
    <3>6. Balance(u)' = Balance(u)
      BY <3>4, <3>5
    <3>. QED  BY <2>1, <3>1, <3>6 DEF BooksOf
  <2>4. ChargedFirst' /\ Flowed'
    BY <2>1 DEF TrafficInv, ChargedFirst, Flowed
  <2>. QED  BY <2>2, <2>3, <2>4 DEF TrafficInv
<1>. QED  BY <1>1, <1>2, <1>3

LEMMA TaskTrafficInv ==
  ASSUME Types, Types', TrafficInv, NEW r \in Runs,
         \/ ReadEnabled(r) \/ LoadUsers(r) \/ Compare(r) \/ Sweep(r)
  PROVE  TrafficInv'
<1>. USE DEF panel, server, history, bounds
<1>0. run \in [Runs -> TaskRuns] /\ run[r] \in TaskRuns
  BY DEF Types, RunTypes
<1>1. UNCHANGED <<user, counter, flown, forgiven, lost, events>>
  BY DEF ReadEnabled, LoadUsers, Compare, Sweep
<1>2. \A q \in Runs \ {r} : run'[q] = run[q]
  BY <1>0, Zenon DEF ReadEnabled, LoadUsers, Compare, Sweep
<1>3. \A u \in Ids : u \in file' => u \in file \/ user[u].is # "free"
  BY DEF ReadEnabled, LoadUsers, Compare, Sweep, Configured, Users
<1>4. \A u \in Ids : user[u].is = "free" /\ Clean(u) =>
        /\ Unserved(u)'
        /\ u \notin run'[r].todo /\ u \notin run'[r].before
        /\ u \notin run'[r].users /\ u \notin run'[r].active
  <2>. SUFFICES ASSUME NEW u \in Ids, user[u].is = "free", Clean(u)
               PROVE  /\ Unserved(u)'
                      /\ u \notin run'[r].todo /\ u \notin run'[r].before
                      /\ u \notin run'[r].users /\ u \notin run'[r].active
    OBVIOUS
  <2>0. /\ Unserved(u) /\ u \notin run[r].todo /\ u \notin run[r].before
        /\ u \notin run[r].users /\ u \notin run[r].active
    BY DEF Clean
  <2>1. CASE ReadEnabled(r)
    <3>1. PICK silent \in SUBSET Tags :
            run' = [run EXCEPT ![r].pc = "charging", ![r].before = Listed(Tags \ silent)]
      BY <2>1 DEF ReadEnabled
    <3>2. u \notin Listed(Tags \ silent)
      BY <2>0 DEF Listed, Unserved
    <3>3. Unserved(u)'
      BY <2>0, <2>1 DEF ReadEnabled, Unserved
    <3>. QED  BY <1>0, <2>0, <3>1, <3>2, <3>3 DEF TaskRuns
  <2>2. CASE LoadUsers(r)
    BY <1>0, <2>0, <2>2 DEF LoadUsers, TaskRuns, Users, Unserved
  <2>3. CASE Compare(r)
    <3>1. Unserved(u)'
      BY <2>0, <2>3, ServeOnlyAdds DEF Compare, ToAdd
    <3>2. /\ run'[r].todo = run[r].todo /\ run'[r].before = run[r].before
          /\ run'[r].users = run[r].users /\ run'[r].active = run[r].active
      BY <1>0, <2>3, Zenon DEF Compare, TaskRuns
    <3>. QED  BY <2>0, <3>1, <3>2
  <2>4. CASE Sweep(r)
    <3>1. Unserved(u)'
      BY <2>0, <2>4, ServeOnlyAdds DEF Sweep
    <3>2. run'[r] = NoRun
      BY <1>0, <2>4, Zenon DEF Sweep
    <3>. QED  BY <3>1, <3>2 DEF NoRun
  <2>. QED  BY <2>1, <2>2, <2>3, <2>4
<1>5. Untouched'
  <2>1. \A u \in Ids : user[u].is = "free" /\ Clean(u) => u \notin file'
    BY <1>3 DEF Clean
  <2>. HIDE DEF Clean
  <2>. QED  BY <1>1, <1>2, <1>4, <2>1, RunKeepsClean DEF TrafficInv
<1>6. /\ run'[r].todo = run[r].todo
      /\ run'[r].usage = run[r].usage \/ run[r].todo = {}
      /\ run'[r].pc \in {"idle", "loaded", "compared"} => run[r].todo = {}
  <2>1. CASE ReadEnabled(r)
    <3>1. PICK silent \in SUBSET Tags :
            run' = [run EXCEPT ![r].pc = "charging", ![r].before = Listed(Tags \ silent)]
      BY <2>1 DEF ReadEnabled
    <3>. QED  BY <1>0, <3>1 DEF TaskRuns
  <2>2. CASE LoadUsers(r)
    BY <1>0, <2>2 DEF LoadUsers, TaskRuns, At
  <2>3. CASE Compare(r)
    <3>1. /\ run'[r].todo = run[r].todo /\ run'[r].usage = run[r].usage
      BY <1>0, <2>3, Zenon DEF Compare, TaskRuns
    <3>. QED  BY <2>3, <3>1 DEF TrafficInv, ChargedFirst, Compare, At
  <2>4. CASE Sweep(r)
    <3>1. run'[r] = NoRun
      BY <1>0, <2>4, Zenon DEF Sweep
    <3>2. run[r].todo = {}
      BY <2>4 DEF TrafficInv, ChargedFirst, Sweep, At
    <3>3. NoRun.todo = {}
      BY DEF NoRun
    <3>. QED  BY <3>1, <3>2, <3>3
  <2>. QED  BY <2>1, <2>2, <2>3, <2>4
<1>7. ChargedFirst'
  BY <1>2, <1>6 DEF TrafficInv, ChargedFirst
<1>8. Flowed'
  BY <1>1 DEF TrafficInv, Flowed
<1>9. Balanced'
  <2>1. \A u \in Ids : Share(u)'[r] = Share(u)[r]
    BY <1>6 DEF Share
  <2>. QED  BY <1>1, <1>2, <2>1, BalanceShared DEF TrafficInv
<1>. QED  BY <1>5, <1>7, <1>8, <1>9 DEF TrafficInv

LEMMA ReadTrafficInv ==
  ASSUME Types, Types', TrafficInv, NEW r \in Runs, ReadCounters(r)
  PROVE  TrafficInv'
<1>. USE DEF panel, server, history, bounds
<1>0. /\ run \in [Runs -> TaskRuns] /\ run[r] \in TaskRuns /\ counter \in [Ids -> Nat]
  BY DEF Types, RunTypes, ServerTypes
<1>1. UNCHANGED <<user, xray, file, flown, forgiven, lost, events>>
  BY DEF ReadCounters
<1>2. \A q \in Runs \ {r} : run'[q] = run[q]
  BY <1>0, Zenon DEF ReadCounters
<1>3. /\ run'[r].pc = "read" /\ run'[r].usage = counter
      /\ run'[r].todo = {u \in Ids : counter[u] > 0}
      /\ run'[r].before = run[r].before /\ run'[r].users = run[r].users
      /\ run'[r].active = run[r].active
  BY <1>0 DEF ReadCounters, TaskRuns
<1>4. run[r].todo = {}
  BY DEF ReadCounters, At, TrafficInv, ChargedFirst
<1>5. \A u \in Ids : counter'[u] = 0
  BY DEF ReadCounters
<1>6. Untouched'
  <2>1. \A u \in Ids : Clean(u) =>
          /\ Unserved(u)' /\ u \notin file' /\ counter'[u] = counter[u]
          /\ u \notin run'[r].todo /\ u \notin run'[r].before
          /\ u \notin run'[r].users /\ u \notin run'[r].active
    BY <1>0, <1>1, <1>3, <1>5 DEF Clean, Unserved
  <2>2. \A u \in Ids : user[u].is = "free" => Clean(u)
    BY DEF TrafficInv, Untouched, Clean
  <2>. HIDE DEF Clean
  <2>. QED  BY <1>1, <1>2, <2>1, <2>2, RunKeepsClean DEF TrafficInv
<1>7. ChargedFirst'
  BY <1>2, <1>3 DEF TrafficInv, ChargedFirst
<1>8. Flowed'
  BY <1>1 DEF TrafficInv, Flowed
<1>9. Balanced'
  <2>1. ASSUME NEW u \in Ids PROVE counter'[u] + Share(u)'[r] = counter[u] + Share(u)[r]
    <3>1. counter[u] \in Nat
      BY <1>0
    <3>2. Share(u)[r] = 0
      BY <1>4 DEF Share
    <3>3. Share(u)'[r] = counter[u]
      BY <1>3, <3>1 DEF Share
    <3>. QED  BY <1>5, <3>1, <3>2, <3>3
  <2>2. ASSUME NEW u \in Ids
        PROVE  user'[u].used + lost'[u] + counter'[u] + Share(u)'[r]
                 = user[u].used + lost[u] + counter[u] + Share(u)[r]
    <3>1. /\ user[u].used \in Nat /\ lost[u] \in Nat /\ counter[u] \in Nat /\ counter'[u] \in Nat
          /\ Share(u)[r] \in Nat /\ Share(u)'[r] \in Nat
      BY <1>0, <1>5, TermsAreNumbers, TermsStayNumbers DEF Terms
    <3>. QED  BY <1>1, <2>1, <3>1
  <2>. QED  BY <1>1, <1>2, <2>2, BalanceShared DEF TrafficInv
<1>. QED  BY <1>6, <1>7, <1>8, <1>9 DEF TrafficInv

LEMMA KillTrafficInv ==
  ASSUME Types, Types', TrafficInv, NEW r \in Runs, KillRun(r)
  PROVE  TrafficInv'
<1>. USE DEF panel, server, history, bounds
<1>0. run \in [Runs -> TaskRuns]
  BY DEF Types, RunTypes
<1>1. UNCHANGED <<user, xray, counter, file, flown, forgiven, events>>
  BY DEF KillRun
<1>2. \A q \in Runs \ {r} : run'[q] = run[q]
  BY <1>0, Zenon DEF KillRun
<1>3. run'[r] = NoRun
  BY <1>0, Zenon DEF KillRun
<1>4. Untouched'
  BY <1>1, <1>2, <1>3, RunKeepsClean DEF TrafficInv, Clean, Unserved, NoRun
<1>5. ChargedFirst'
  BY <1>2, <1>3 DEF TrafficInv, ChargedFirst, NoRun
<1>6. Flowed'
  BY <1>1 DEF TrafficInv, Flowed
<1>7. Balanced'
  <2>1. ASSUME NEW u \in Ids
        PROVE  user'[u].used + lost'[u] + counter'[u] + Share(u)'[r]
                 = user[u].used + lost[u] + counter[u] + Share(u)[r]
    <3>1. Share(u)'[r] = 0
      BY <1>3 DEF Share, NoRun
    <3>2. lost'[u] = lost[u] + Share(u)[r]
      BY DEF KillRun, Share
    <3>3. /\ user[u].used \in Nat /\ lost[u] \in Nat /\ counter[u] \in Nat /\ Share(u)[r] \in Nat
      BY TermsAreNumbers DEF Terms
    <3>. QED  BY <1>1, <3>1, <3>2, <3>3
  <2>. QED  BY <1>1, <1>2, <2>1, BalanceShared DEF TrafficInv
<1>. QED  BY <1>4, <1>5, <1>6, <1>7 DEF TrafficInv

LEMMA ChargeTrafficInv ==
  ASSUME Types, Types', TrafficInv, NEW r \in Runs, NEW v \in Ids, Charge(r, v)
  PROVE  TrafficInv'
<1>. USE DEF panel, server, history, bounds
<1>0. run \in [Runs -> TaskRuns] /\ run[r] \in TaskRuns /\ user \in [Ids -> Rows]
  BY DEF Types, RunTypes, PanelTypes
<1>1. UNCHANGED <<xray, counter, file, flown, forgiven, lost, events>>
  BY DEF Charge
<1>2. \A q \in Runs \ {r} : run'[q] = run[q]
  BY <1>0, Zenon DEF Charge
<1>3. /\ run'[r].pc = "charging" /\ run'[r].usage = run[r].usage
      /\ run'[r].todo = run[r].todo \ {v}
      /\ run'[r].before = run[r].before /\ run'[r].users = run[r].users
      /\ run'[r].active = run[r].active
  BY <1>0, Zenon DEF Charge, TaskRuns, At
<1>4. v \in run[r].todo
  BY DEF Charge
<1>5. user[v].is # "free"
  BY <1>4 DEF TrafficInv, Untouched
<1>6. /\ \A u \in Ids : user'[u].is = user[u].is
      /\ \A u \in Ids : u # v => user'[u].used = user[u].used
      /\ v \in Users => user'[v].used = user[v].used + run[r].usage[v]
      /\ v \notin Users => user'[v].used = user[v].used
  <2>1. CASE v \in Users
    <3>1. user' = [user EXCEPT ![v].used = @ + run[r].usage[v]]
      BY <2>1 DEF Charge
    <3>. QED  BY <1>0, <2>1, <3>1 DEF Rows
  <2>2. CASE v \notin Users
    BY <2>2 DEF Charge
  <2>. QED  BY <2>1, <2>2
<1>7. Untouched'
  <2>1. \A u \in Ids :
          user[u].is = "free" => user'[u].used = user[u].used /\ counter'[u] = counter[u]
    BY <1>1, <1>5, <1>6
  <2>2. \A u \in Ids : user[u].is = "free" /\ Clean(u) =>
          /\ Unserved(u)' /\ u \notin file'
          /\ u \notin run'[r].todo /\ u \notin run'[r].before
          /\ u \notin run'[r].users /\ u \notin run'[r].active
    BY <1>1, <1>3 DEF Clean, Unserved
  <2>. QED  BY <1>2, <1>6, <2>1, <2>2, RunKeepsClean DEF TrafficInv
<1>8. ChargedFirst'
  BY <1>2, <1>3 DEF TrafficInv, ChargedFirst
<1>9. Flowed'
  BY <1>1 DEF TrafficInv, Flowed
<1>10. Balanced'
  <2>1. ASSUME NEW u \in Ids
        PROVE  \/ user'[u].used + lost'[u] + counter'[u] + Share(u)'[r]
                    = user[u].used + lost[u] + counter[u] + Share(u)[r]
               \/ /\ user[u].is = "gone"
                  /\ user'[u].used + lost'[u] + counter'[u] + Share(u)'[r]
                       <= user[u].used + lost[u] + counter[u] + Share(u)[r]
    <3>1. /\ user[u].used \in Nat /\ lost[u] \in Nat /\ counter[u] \in Nat /\ Share(u)[r] \in Nat
          /\ user'[u].used \in Nat /\ Share(u)'[r] \in Nat
      BY TermsAreNumbers, TermsStayNumbers DEF Terms
    <3>2. CASE u # v
      <4>1. Share(u)'[r] = Share(u)[r]
        BY <1>3, <3>2 DEF Share
      <4>2. user'[u].used = user[u].used
        BY <1>6, <3>2
      <4>. QED  BY <1>1, <4>1, <4>2
    <3>3. CASE u = v
      <4>1. Share(u)'[r] = 0 /\ Share(u)[r] = run[r].usage[v]
        BY <1>3, <1>4, <3>3 DEF Share
      <4>2. CASE v \in Users
        <5>1. user'[u].used = user[u].used + Share(u)[r]
          BY <1>6, <3>3, <4>1, <4>2
        <5>. QED  BY <1>1, <3>1, <4>1, <5>1
      <4>3. CASE v \notin Users
        <5>1. user'[u].used = user[u].used
          BY <1>6, <3>3, <4>3
        <5>2. user[u].is = "gone"
          BY <1>0, <1>5, <3>3, <4>3 DEF Users, Rows
        <5>. QED  BY <1>1, <3>1, <4>1, <5>1, <5>2
      <4>. QED  BY <4>2, <4>3
    <3>. QED  BY <3>2, <3>3
  <2>. QED  BY <1>1, <1>2, <1>6, <2>1, BalanceShared DEF TrafficInv
<1>. QED  BY <1>7, <1>8, <1>9, <1>10 DEF TrafficInv

LEMMA PeriodicTrafficInv ==
  ASSUME Types, Types', TrafficInv, NEW r \in Runs, NEW v \in Ids, PeriodicReset(r, v)
  PROVE  TrafficInv'
<1>. USE DEF panel, server, history, bounds
<1>0. /\ run \in [Runs -> TaskRuns] /\ run[r] \in TaskRuns /\ user \in [Ids -> Rows]
      /\ forgiven \in [Ids -> Nat] /\ events \in Nat
  BY DEF Types, RunTypes, PanelTypes, PastTypes
<1>1. /\ UNCHANGED <<counter, file, flown, lost>> /\ events' = events + 1
      /\ v \in Users
      /\ UNCHANGED <<xray, missed>> \/ Serve({v}, {})
      /\ run' \in {run, [run EXCEPT ![r].changed = TRUE]}
      /\ user' = [user EXCEPT ![v].used = 0]
      /\ forgiven' = [forgiven EXCEPT ![v] = @ + user[v].used]
  BY Zenon DEF PeriodicReset, Event
<1>2. /\ \A q \in Runs \ {r} : run'[q] = run[q]
      /\ run'[r].usage = run[r].usage /\ run'[r].todo = run[r].todo /\ run'[r].pc = run[r].pc
      /\ run'[r].before = run[r].before /\ run'[r].users = run[r].users
      /\ run'[r].active = run[r].active
  <2>1. CASE run' = run
    BY <2>1
  <2>2. CASE run' = [run EXCEPT ![r].changed = TRUE]
    BY <1>0, <2>2, Zenon DEF TaskRuns
  <2>. QED  BY <1>1, <2>1, <2>2
<1>3. /\ \A u \in Ids : user'[u].is = user[u].is
      /\ \A u \in Ids : u # v => user'[u].used = user[u].used /\ forgiven'[u] = forgiven[u]
      /\ user'[v].used = 0 /\ forgiven'[v] = forgiven[v] + user[v].used
      /\ user[v].is = "there" /\ user[v].used \in Nat
  BY <1>0, <1>1 DEF Rows, Users
<1>4. Untouched'
  <2>1. \A u \in Ids :
          user[u].is = "free" => user'[u].used = user[u].used /\ counter'[u] = counter[u]
    BY <1>1, <1>3
  <2>2. \A u \in Ids : user[u].is = "free" /\ Clean(u) =>
          /\ Unserved(u)' /\ u \notin file'
          /\ u \notin run'[r].todo /\ u \notin run'[r].before
          /\ u \notin run'[r].users /\ u \notin run'[r].active
    <3>1. \A u \in Ids : user[u].is = "free" /\ Unserved(u) => Unserved(u)'
      <4>1. CASE UNCHANGED <<xray, missed>>
        BY <4>1 DEF Unserved
      <4>2. CASE Serve({v}, {})
        BY <1>3, <4>2, ServeOnlyAdds
      <4>. QED  BY <1>1, <4>1, <4>2
    <3>. QED  BY <1>1, <1>2, <3>1 DEF Clean
  <2>. QED  BY <1>2, <1>3, <2>1, <2>2, RunKeepsClean DEF TrafficInv
<1>5. ChargedFirst'
  BY <1>2 DEF TrafficInv, ChargedFirst
<1>6. Flowed'
  <2>1. (Limit + 1) * (events + 1) = (Limit + 1) * events + (Limit + 1)
    BY <1>0, ConstantTypes
  <2>2. flown \in [Ids -> Nat] /\ (Limit + 1) * events \in Nat
    BY <1>0, ConstantTypes DEF Types, PastTypes
  <2>. QED  BY <1>1, <2>1, <2>2, ConstantTypes DEF TrafficInv, Flowed
<1>7. Balanced'
  <2>. SUFFICES ASSUME NEW u \in Ids PROVE BooksOf(u)'
    BY DEF Balanced, BooksOf
  <2>1. BooksOf(u)
    BY DEF TrafficInv, Balanced, BooksOf
  <2>2. \A q \in Runs : run'[q].todo = run[q].todo /\ run'[q].usage = run[q].usage
    BY <1>2
  <2>3. SumFunction(Share(u))' = SumFunction(Share(u))
    BY <2>2, ShareKept
  <2>4. Terms /\ Terms'
    BY TermsAreNumbers, TermsStayNumbers
  <2>. DEFINE s == SumFunction(Share(u))
  <2>5. /\ user[u].used \in Nat /\ forgiven[u] \in Nat /\ lost[u] \in Nat /\ s \in Nat
        /\ counter[u] \in Nat
        /\ Balance(u) = user[u].used + forgiven[u] + lost[u] + (counter[u] + s)
    BY <2>4 DEF Terms
  <2>6. Balance(u)' = user'[u].used + forgiven'[u] + lost[u] + (counter[u] + s)
    BY <1>1, <2>3, <2>4 DEF Terms
  <2>. HIDE DEF s
  <2>7. user'[u].used + forgiven'[u] = user[u].used + forgiven[u]
    BY <1>3, <2>5
  <2>8. Balance(u)' = Balance(u)
    BY <2>5, <2>6, <2>7
  <2>. QED  BY <1>1, <1>3, <2>1, <2>8 DEF BooksOf
<1>. QED  BY <1>4, <1>5, <1>6, <1>7 DEF TrafficInv

LEMMA TrafficInvStep ==
  ASSUME Types, Types', TrafficInv, [Next]_vars
  PROVE  TrafficInv'
<1>1. CASE Next
  BY <1>1, StepCases, PanelTrafficInv, AdminTrafficInv, FlowInv, TaskTrafficInv, ReadTrafficInv,
     KillTrafficInv, ChargeTrafficInv, PeriodicTrafficInv, Zenon
<1>2. CASE UNCHANGED vars
  <2>. USE <1>2 DEF vars, panel, server, history, bounds, TrafficInv
  <2>1. Untouched' /\ ChargedFirst' /\ Flowed'
    BY DEF Untouched, Unserved, ChargedFirst, Flowed
  <2>2. Balanced'
    BY BalanceKept
  <2>. QED  BY <2>1, <2>2
<1>. QED  BY <1>1, <1>2

LEMMA TrafficInvInit == Init => TrafficInv
<1>. SUFFICES ASSUME Init PROVE TrafficInv
  OBVIOUS
<1>0. Types
  BY InitTypes
<1>1. \A u \in Ids : user[u].used = 0
  BY DEF Init, Joined, Nobody
<1>2. Untouched
  <2>1. PICK n \in 0 .. Len(Book) :
          /\ user = [u \in Ids |-> IF u <= n THEN Joined(Book[u]) ELSE Nobody]
          /\ xray = [t \in Tags |-> 1 .. n] /\ file = 1 .. n
    BY DEF Init
  <2>2. \A u \in Ids : user[u].is = "free" => Unserved(u) /\ u \notin file
    BY <2>1, ConstantTypes DEF Ids, Joined, Unserved
  <2>3. counter = [u \in Ids |-> 0] /\ run = [r \in Runs |-> NoRun]
    BY DEF Init
  <2>. QED  BY <1>1, <2>2, <2>3 DEF Untouched, NoRun
<1>3. ChargedFirst
  BY DEF Init, ChargedFirst, NoRun
<1>4. Flowed
  <2>1. (Limit + 1) * events = 0
    BY ConstantTypes DEF Init
  <2>. QED  BY <2>1 DEF Init, Flowed
<1>5. Balanced
  <2>. SUFFICES ASSUME NEW u \in Ids PROVE BooksOf(u)
    BY DEF Balanced, BooksOf
  <2>1. Share(u) = [r \in Runs |-> 0]
    BY DEF Init, Share, NoRun
  <2>2. SumFunction(Share(u)) = 0
    BY <2>1, RunsFinite, SumOfNothing
  <2>3. forgiven[u] = 0 /\ lost[u] = 0 /\ counter[u] = 0 /\ flown[u] = 0
    BY DEF Init
  <2>4. Balance(u) = 0
    BY <1>1, <2>2, <2>3 DEF Balance, OnItsWay
  <2>. QED  BY <2>3, <2>4 DEF BooksOf
<1>. QED  BY <1>2, <1>3, <1>4, <1>5 DEF TrafficInv

-----------------------------------------------------------------------------
(* Numbers, chats and accounts.                                            *)
SameChats ==
  \A u \in Users : user[u].chat # NoChat /\ u \in Users' /\ "overlap" \notin excuse
    => user'[u].chat = user[u].chat

(* Steps that bring nobody in and bind nobody.                             *)
LEMMA TableKept ==
  ASSUME Types, Types', ApartInv,
         UNCHANGED excuse,
         \A t \in Threads : work'[t] = work[t] \/ ~AtWork(t)',
         \A u \in Ids : /\ user'[u].is = "there" => /\ user[u].is = "there"
                                                    /\ user'[u].phone = user[u].phone
                                                    /\ user'[u].chat = user[u].chat
                        /\ user'[u].is = "free" => user[u].is = "free"
  PROVE  ApartInv' /\ SameChats /\ (OnePerNumber => OnePerNumber')
<1>1. \A u \in Users' :
        u \in Users /\ user'[u].phone = user[u].phone /\ user'[u].chat = user[u].chat
  BY DEF Users
<1>2. \A t \in Threads : AtWork(t)' => work'[t] = work[t] /\ AtWork(t)
  BY DEF AtWork
<1>3. \A t \in Threads : Binds(t)' => work'[t] = work[t] /\ Binds(t)
  BY DEF AtWork, Binds
<1>4. BindsKnown'
  BY <1>1, <1>3 DEF ApartInv, BindsKnown, Binds
<1>5. Alone'
  <2>. SUFFICES ASSUME "overlap" \notin excuse PROVE Alone'
    BY DEF Alone
  <2>1. \A t, o \in Threads : t # o /\ AtWork(t)' /\ AtWork(o)' =>
          /\ work'[t].phone # work'[o].phone
          /\ work'[t].chat # NoChat => work'[t].chat # work'[o].chat
    BY <1>2 DEF ApartInv, Alone
  <2>2. \A t \in Threads : work'[t].pc = "create" =>
          \A u \in Users' : user'[u].phone # work'[t].phone
    <3>1. \A t \in Threads : work'[t].pc = "create" =>
            work'[t] = work[t] /\ WithPhone(work[t].phone) = {}
      BY <1>2 DEF ApartInv, Alone, AtWork
    <3>. QED  BY <1>1, <3>1 DEF WithPhone
  <2>3. \A t \in Threads :
          Binds(t)' /\ work'[t].user \in Users' => user'[work'[t].user].chat = NoChat
    BY <1>1, <1>3 DEF ApartInv, Alone
  <2>. QED  BY <2>1, <2>2, <2>3 DEF Alone, WithPhone
<1>6. NewToChat'
  <2>. SUFFICES ASSUME excuse = {} PROVE NewToChat'
    BY DEF NewToChat
  <2>1. \A t \in Threads : AtWork(t)' /\ work'[t].chat # NoChat => WithChat(work[t].chat) = {}
    BY <1>2 DEF ApartInv, NewToChat
  <2>2. \A t \in Threads : AtWork(t)' /\ work'[t].chat # NoChat =>
          \A u \in Users' : user'[u].chat # work'[t].chat
    BY <1>1, <1>2, <2>1 DEF WithChat
  <2>3. \A u, v \in Users' : user'[u].chat = user'[v].chat /\ user'[u].chat # NoChat => u = v
    BY <1>1 DEF ApartInv, NewToChat
  <2>. QED  BY <2>2, <2>3 DEF NewToChat, WithChat
<1>7. SameChats
  BY <1>1 DEF SameChats
<1>8. OnePerNumber => OnePerNumber'
  BY <1>1 DEF OnePerNumber
<1>. QED  BY <1>4, <1>5, <1>6, <1>7, <1>8 DEF ApartInv

LEMMA AskedApart ==
  ASSUME Types, Types', ApartInv, NEW t \in Threads, NEW w, Decided(t, w)
  PROVE  ApartInv' /\ SameChats /\ (OnePerNumber => OnePerNumber')
<1>1. /\ UNCHANGED user /\ excuse \in SUBSET excuse'
      /\ work'[t] = w /\ \A o \in Threads \ {t} : work'[o] = work[o]
  BY DEF Decided, Types, PanelTypes
<1>2. /\ w.pc = "create" => WithPhone(w.phone) = {}
      /\ w.pc = "bind" => /\ w.user \in Users /\ user[w.user].chat = NoChat
                          /\ user[w.user].phone = w.phone
      /\ excuse' = {} /\ w.chat # NoChat => WithChat(w.chat) = {}
  BY DEF Decided
<1>3. "overlap" \notin excuse' => \A o \in Threads \ {t} : AtWork(o) =>
        work[o].phone # w.phone /\ (w.chat # NoChat => work[o].chat # w.chat)
  BY DEF Decided, Meets, AtWork
<1>4. BindsKnown'
  BY <1>1, <1>2 DEF ApartInv, BindsKnown, Binds, Users
<1>5. Alone'
  <2>. SUFFICES ASSUME "overlap" \notin excuse' PROVE Alone'
    BY DEF Alone
  <2>0. "overlap" \notin excuse
    BY <1>1
  <2>1. \A p, o \in Threads : p # o /\ AtWork(p)' /\ AtWork(o)' =>
          /\ work'[p].phone # work'[o].phone
          /\ work'[p].chat # NoChat => work'[p].chat # work'[o].chat
    <3>. SUFFICES ASSUME NEW p \in Threads, NEW o \in Threads, p # o, AtWork(p)', AtWork(o)'
                 PROVE  /\ work'[p].phone # work'[o].phone
                        /\ work'[p].chat # NoChat => work'[p].chat # work'[o].chat
      OBVIOUS
    <3>1. CASE p # t /\ o # t
      BY <1>1, <2>0, <3>1 DEF ApartInv, Alone, AtWork
    <3>2. CASE p = t
      BY <1>1, <1>3, <3>2 DEF AtWork
    <3>3. CASE o = t
      BY <1>1, <1>3, <3>3 DEF AtWork
    <3>. QED  BY <3>1, <3>2, <3>3
  <2>2. \A o \in Threads : work'[o].pc = "create" => WithPhone(work'[o].phone) = {}
    BY <1>1, <1>2, <2>0 DEF ApartInv, Alone
  <2>3. \A o \in Threads :
          Binds(o)' /\ work'[o].user \in Users => user[work'[o].user].chat = NoChat
    BY <1>1, <1>2, <2>0 DEF ApartInv, Alone, Binds
  <2>. QED  BY <1>1, <2>1, <2>2, <2>3 DEF Alone, WithPhone, Users
<1>6. NewToChat'
  <2>. SUFFICES ASSUME excuse' = {} PROVE NewToChat'
    BY DEF NewToChat
  <2>1. excuse = {}
    BY <1>1
  <2>2. \A o \in Threads : AtWork(o)' /\ work'[o].chat # NoChat => WithChat(work'[o].chat) = {}
    BY <1>1, <1>2, <2>1 DEF ApartInv, NewToChat, AtWork
  <2>. QED  BY <1>1, <2>1, <2>2 DEF ApartInv, NewToChat, WithChat, Users
<1>7. SameChats
  BY <1>1 DEF SameChats
<1>8. OnePerNumber => OnePerNumber'
  BY <1>1 DEF OnePerNumber, Users
<1>. QED  BY <1>4, <1>5, <1>6, <1>7, <1>8 DEF ApartInv

LEMMA CreatedApart ==
  ASSUME Types, Types', ApartInv, NEW t \in Threads, Create(t)
  PROVE  ApartInv' /\ SameChats /\ (OnePerNumber => OnePerNumber')
<1>1. PICK v \in Ids :
        /\ user[v].is = "free"
        /\ user' = [user EXCEPT ![v] = [Joined(work[t].phone) EXCEPT !.chat = work[t].chat]]
  BY DEF Create
<1>2. /\ user'[v].is = "there" /\ user'[v].phone = work[t].phone /\ user'[v].chat = work[t].chat
      /\ \A u \in Ids \ {v} : user'[u] = user[u]
  BY <1>1 DEF Joined, Types, PanelTypes
<1>3. /\ UNCHANGED excuse /\ work[t].pc = "create" /\ work'[t].pc = "apply"
      /\ \A o \in Threads \ {t} : work'[o] = work[o]
  BY DEF Create, Types, PanelTypes, NoWork
<1>4. v \notin Users /\ v \in Ids /\ Users' = Users \cup {v}
  BY <1>1, <1>2 DEF Users
<1>5. AtWork(t) /\ \A o \in Threads : AtWork(o)' => o # t /\ AtWork(o) /\ work'[o] = work[o]
  BY <1>3 DEF AtWork
<1>6. \A o \in Threads : Binds(o)' => o # t /\ Binds(o) /\ AtWork(o) /\ work'[o] = work[o]
  BY <1>3 DEF AtWork, Binds
<1>7. \A u \in Users : u # v /\ user'[u] = user[u]
  BY <1>2, <1>4 DEF Users
<1>8. \A o \in Threads : Binds(o)' => work[o].user \in Ids /\ work[o].user # v
  BY <1>1, <1>6 DEF ApartInv, BindsKnown
<1>9. BindsKnown'
  <2>1. \A o \in Threads : Binds(o)' => user'[work[o].user] = user[work[o].user]
    BY <1>2, <1>8
  <2>2. \A o \in Threads : Binds(o)' /\ work[o].user \in Users' => work[o].user \in Users
    BY <1>4, <1>8
  <2>. QED  BY <1>6, <2>1, <2>2 DEF ApartInv, BindsKnown
<1>10. Alone'
  <2>. SUFFICES ASSUME "overlap" \notin excuse PROVE Alone'
    BY <1>3 DEF Alone
  <2>1. \A p, o \in Threads : p # o /\ AtWork(p)' /\ AtWork(o)' =>
          /\ work'[p].phone # work'[o].phone
          /\ work'[p].chat # NoChat => work'[p].chat # work'[o].chat
    BY <1>5 DEF ApartInv, Alone
  <2>2. \A o \in Threads : work'[o].pc = "create" =>
          \A u \in Users' : user'[u].phone # work'[o].phone
    <3>. SUFFICES ASSUME NEW o \in Threads, work'[o].pc = "create", NEW u \in Users'
                 PROVE  user'[u].phone # work'[o].phone
      OBVIOUS
    <3>1. o # t /\ AtWork(o) /\ work'[o] = work[o]
      BY <1>5 DEF AtWork
    <3>2. work[o].phone # work[t].phone
      BY <1>5, <3>1 DEF ApartInv, Alone
    <3>3. WithPhone(work[o].phone) = {}
      BY <3>1 DEF ApartInv, Alone
    <3>4. CASE u = v
      BY <1>2, <3>1, <3>2, <3>4
    <3>5. CASE u \in Users
      BY <1>7, <3>1, <3>3, <3>5 DEF WithPhone
    <3>. QED  BY <1>4, <3>4, <3>5
  <2>3. \A o \in Threads :
          Binds(o)' /\ work'[o].user \in Users' => user'[work'[o].user].chat = NoChat
    BY <1>4, <1>6, <1>7, <1>8 DEF ApartInv, Alone
  <2>. QED  BY <2>1, <2>2, <2>3 DEF Alone, WithPhone
<1>11. NewToChat'
  <2>. SUFFICES ASSUME excuse = {} PROVE NewToChat'
    BY <1>3 DEF NewToChat
  <2>1. \A u \in Users : work[t].chat # NoChat => user[u].chat # work[t].chat
    BY <1>5 DEF ApartInv, NewToChat, WithChat
  <2>2. \A o \in Threads : AtWork(o)' /\ work'[o].chat # NoChat =>
          \A u \in Users' : user'[u].chat # work'[o].chat
    <3>. SUFFICES ASSUME NEW o \in Threads, AtWork(o)', work'[o].chat # NoChat, NEW u \in Users'
                 PROVE  user'[u].chat # work'[o].chat
      OBVIOUS
    <3>1. o # t /\ AtWork(o) /\ work'[o] = work[o]
      BY <1>5
    <3>2. work[o].chat # work[t].chat
      BY <1>5, <3>1 DEF ApartInv, Alone
    <3>3. WithChat(work[o].chat) = {}
      BY <3>1 DEF ApartInv, NewToChat
    <3>4. CASE u = v
      BY <1>2, <3>1, <3>2, <3>4
    <3>5. CASE u \in Users
      BY <1>7, <3>1, <3>3, <3>5 DEF WithChat
    <3>. QED  BY <1>4, <3>4, <3>5
  <2>3. \A u, q \in Users' : user'[u].chat = user'[q].chat /\ user'[u].chat # NoChat => u = q
    BY <1>2, <1>4, <1>7, <2>1 DEF ApartInv, NewToChat
  <2>. QED  BY <2>2, <2>3 DEF NewToChat, WithChat
<1>12. SameChats
  BY <1>7 DEF SameChats
<1>13. OnePerNumber => OnePerNumber'
  <2>. SUFFICES ASSUME OnePerNumber, "overlap" \notin excuse PROVE OnePerNumber'
    BY <1>3 DEF OnePerNumber
  <2>1. \A u \in Users : user[u].phone # work[t].phone
    BY <1>3 DEF ApartInv, Alone, WithPhone
  <2>. QED  BY <1>2, <1>4, <1>7, <2>1 DEF OnePerNumber
<1>. QED  BY <1>9, <1>10, <1>11, <1>12, <1>13 DEF ApartInv

LEMMA BoundApart ==
  ASSUME Types, Types', ApartInv, NEW t \in Threads, Bind(t)
  PROVE  ApartInv' /\ SameChats /\ (OnePerNumber => OnePerNumber')
<1>. DEFINE v == work[t].user
<1>1. /\ UNCHANGED excuse /\ work[t].pc = "bind" /\ work'[t].pc = "idle"
      /\ \A o \in Threads \ {t} : work'[o] = work[o]
  BY DEF Bind, Types, PanelTypes, NoWork
<1>2. CASE v \notin Users
  <2>1. UNCHANGED user
    BY <1>2 DEF Bind
  <2>2. \A o \in Threads : work'[o] = work[o] \/ ~AtWork(o)'
    BY <1>1 DEF AtWork
  <2>. QED  BY <1>1, <2>1, <2>2, TableKept
<1>3. CASE v \in Users
  <2>1. user' = [user EXCEPT ![v].chat = work[t].chat]
    BY <1>3 DEF Bind
  <2>2. /\ user'[v].is = "there" /\ user'[v].phone = user[v].phone /\ user'[v].chat = work[t].chat
        /\ \A u \in Ids \ {v} : user'[u] = user[u]
        /\ v \in Ids /\ user[v].is = "there"
    BY <1>3, <2>1 DEF Types, PanelTypes, Rows, Users
  <2>. HIDE DEF v
  <2>3. Users' = Users
    BY <2>2 DEF Users
  <2>4. \A u \in Ids : /\ user'[u].is = user[u].is /\ user'[u].phone = user[u].phone
                       /\ u # v => user'[u].chat = user[u].chat
    BY <2>2
  <2>5. AtWork(t) /\ \A o \in Threads : AtWork(o)' => o # t /\ AtWork(o) /\ work'[o] = work[o]
    BY <1>1 DEF AtWork
  <2>6. \A o \in Threads : Binds(o)' => o # t /\ Binds(o) /\ AtWork(o) /\ work'[o] = work[o]
    BY <1>1 DEF AtWork, Binds
  <2>7. user[v].phone = work[t].phone
    BY <1>1, <1>3 DEF ApartInv, BindsKnown, Binds, v
  <2>8. BindsKnown'
    BY <2>3, <2>4, <2>6 DEF ApartInv, BindsKnown
  <2>9. \A u \in Users : u \in Ids
    BY DEF Users
  <2>10. Alone'
    <3>. SUFFICES ASSUME "overlap" \notin excuse PROVE Alone'
      BY <1>1 DEF Alone
    <3>1. \A p, o \in Threads : p # o /\ AtWork(p)' /\ AtWork(o)' =>
            /\ work'[p].phone # work'[o].phone
            /\ work'[p].chat # NoChat => work'[p].chat # work'[o].chat
      BY <2>5 DEF ApartInv, Alone
    <3>2. \A o \in Threads : work'[o].pc = "create" =>
            \A u \in Users' : user'[u].phone # work'[o].phone
      <4>1. \A o \in Threads : work'[o].pc = "create" => work'[o] = work[o]
        BY <2>5 DEF AtWork
      <4>2. \A o \in Threads : work'[o].pc = "create" => WithPhone(work[o].phone) = {}
        BY <4>1 DEF ApartInv, Alone
      <4>. QED  BY <2>3, <2>4, <2>9, <4>1, <4>2 DEF WithPhone
    <3>3. \A o \in Threads :
            Binds(o)' /\ work'[o].user \in Users' => user'[work'[o].user].chat = NoChat
      <4>. SUFFICES ASSUME NEW o \in Threads, Binds(o)', work'[o].user \in Users'
                   PROVE  user'[work'[o].user].chat = NoChat
        OBVIOUS
      <4>1. o # t /\ Binds(o) /\ AtWork(o) /\ work'[o] = work[o]
        BY <2>6
      <4>2. work[o].user \in Users /\ work[o].user \in Ids
        BY <2>3, <2>9, <4>1
      <4>3. user[work[o].user].phone = work[o].phone
        BY <4>1, <4>2 DEF ApartInv, BindsKnown
      <4>4. work[o].phone # work[t].phone
        BY <2>5, <4>1 DEF ApartInv, Alone
      <4>5. work[o].user # v
        BY <2>7, <4>3, <4>4
      <4>6. user[work[o].user].chat = NoChat
        BY <4>1, <4>2 DEF ApartInv, Alone
      <4>. QED  BY <2>4, <4>1, <4>2, <4>5, <4>6
    <3>. QED  BY <3>1, <3>2, <3>3 DEF Alone, WithPhone
  <2>11. NewToChat'
    <3>. SUFFICES ASSUME excuse = {} PROVE NewToChat'
      BY <1>1 DEF NewToChat
    <3>1. \A u \in Users : work[t].chat # NoChat => user[u].chat # work[t].chat
      BY <2>5 DEF ApartInv, NewToChat, WithChat
    <3>2. \A o \in Threads : AtWork(o)' /\ work'[o].chat # NoChat =>
            \A u \in Users' : user'[u].chat # work'[o].chat
      <4>. SUFFICES ASSUME NEW o \in Threads, AtWork(o)', work'[o].chat # NoChat, NEW u \in Users'
                   PROVE  user'[u].chat # work'[o].chat
        OBVIOUS
      <4>1. o # t /\ AtWork(o) /\ work'[o] = work[o] /\ u \in Users /\ u \in Ids
        BY <2>3, <2>5, <2>9
      <4>2. work[o].chat # work[t].chat
        BY <2>5, <4>1 DEF ApartInv, Alone
      <4>3. WithChat(work[o].chat) = {}
        BY <4>1 DEF ApartInv, NewToChat
      <4>4. user[u].chat # work[o].chat
        BY <4>1, <4>3 DEF WithChat
      <4>. QED  BY <2>2, <2>4, <4>1, <4>2, <4>4
    <3>3. \A u, q \in Users : user'[u].chat = user'[q].chat /\ user'[u].chat # NoChat => u = q
      BY <2>2, <2>4, <2>9, <3>1 DEF ApartInv, NewToChat
    <3>. QED  BY <2>3, <3>2, <3>3 DEF NewToChat, WithChat
  <2>12. SameChats
    <3>. SUFFICES ASSUME "overlap" \notin excuse PROVE SameChats
      BY DEF SameChats
    <3>1. user[v].chat = NoChat
      BY <1>1, <1>3 DEF ApartInv, Alone, Binds, v
    <3>. QED  BY <2>4, <2>9, <3>1 DEF SameChats
  <2>13. OnePerNumber => OnePerNumber'
    BY <1>1, <2>3, <2>4, <2>9 DEF OnePerNumber
  <2>. QED  BY <2>8, <2>10, <2>11, <2>12, <2>13 DEF ApartInv
<1>. QED  BY <1>2, <1>3

LEMMA OthersApart ==
  ASSUME Types, Types', ApartInv, [Next]_vars,
         ~\E t \in Threads : Asks(t) \/ Create(t) \/ Bind(t)
  PROVE  ApartInv' /\ SameChats /\ (OnePerNumber => OnePerNumber')
<1>. USE DEF panel, server, history, bounds
<1>1. user \in [Ids -> Rows] /\ run \in [Runs -> TaskRuns]
  BY DEF Types, PanelTypes, RunTypes
<1>. DEFINE Same(u) == /\ user'[u].is = user[u].is /\ user'[u].phone = user[u].phone
                       /\ user'[u].chat = user[u].chat
<1>2. ASSUME NEW t \in Threads, QuickApply(t)
      PROVE  ApartInv' /\ SameChats /\ (OnePerNumber => OnePerNumber')
  <2>1. \A o \in Threads : work'[o] = work[o] \/ ~AtWork(o)'
    BY <1>2 DEF QuickApply, AtWork, NoWork, Types, PanelTypes
  <2>. QED  BY <1>2, <2>1, TableKept DEF QuickApply
<1>3. CASE PanelRestart
  <2>1. \A o \in Threads : ~AtWork(o)'
    BY <1>3 DEF PanelRestart, AtWork, NoWork
  <2>. QED  BY <1>3, <2>1, TableKept DEF PanelRestart
<1>4. CASE Drop
  <2>1. user' = [user EXCEPT ![adm.user] = [Nobody EXCEPT !.is = "gone"]]
    BY <1>4 DEF Drop
  <2>2. [Nobody EXCEPT !.is = "gone"].is = "gone"
    BY DEF Nobody
  <2>3. \A u \in Ids : user'[u].is = "gone" \/ user'[u] = user[u]
    BY <1>1, <2>1, <2>2
  <2>. QED  BY <1>4, <2>3, TableKept DEF Drop
<1>5. ASSUME NEW u \in Ids, Edits(u)
      PROVE  ApartInv' /\ SameChats /\ (OnePerNumber => OnePerNumber')
  <2>1. PICK row : Edited(u, row)
    BY <1>5, EditsShape
  <2>2. \A v \in Ids : Same(v)
    BY <1>1, <2>1 DEF Edited, Users
  <2>. QED  BY <2>1, <2>2, TableKept DEF Edited
<1>6. ASSUME NEW r \in Runs, NEW u \in Ids, Charge(r, u) \/ PeriodicReset(r, u)
      PROVE  ApartInv' /\ SameChats /\ (OnePerNumber => OnePerNumber')
  <2>1. \/ UNCHANGED user
        \/ user' = [user EXCEPT ![u].used = @ + run[r].usage[u]]
        \/ user' = [user EXCEPT ![u].used = 0]
    BY <1>6, Zenon DEF Charge, PeriodicReset
  <2>2. \A v \in Ids : Same(v)
    <3>1. CASE UNCHANGED user
      BY <3>1
    <3>2. CASE user' = [user EXCEPT ![u].used = @ + run[r].usage[u]]
      BY <1>1, <3>2 DEF Rows
    <3>3. CASE user' = [user EXCEPT ![u].used = 0]
      BY <1>1, <3>3 DEF Rows
    <3>. QED  BY <2>1, <3>1, <3>2, <3>3
  <2>3. UNCHANGED <<work, excuse>>
    BY <1>6 DEF Charge, PeriodicReset
  <2>. QED  BY <2>2, <2>3, TableKept
<1>7. CASE UNCHANGED <<user, work, excuse>>
  BY <1>7, TableKept
<1>8. CASE Next
  <2>1. ASSUME Push \/ PushFile \/ Remove \/ XrayRestart PROVE UNCHANGED <<user, work, excuse>>
    BY <2>1 DEF Push, PushFile, Remove, XrayRestart
  <2>2. ASSUME NEW u \in Ids, NEW n \in 1 .. Limit + 1, Flow(u, n)
        PROVE  UNCHANGED <<user, work, excuse>>
    BY <2>2 DEF Flow
  <2>3. ASSUME NEW r \in Runs, \/ ReadCounters(r) \/ ReadEnabled(r) \/ LoadUsers(r)
                               \/ Compare(r) \/ Sweep(r) \/ KillRun(r)
        PROVE  UNCHANGED <<user, work, excuse>>
    BY <2>3 DEF ReadCounters, ReadEnabled, LoadUsers, Compare, Sweep, KillRun
  <2>. QED
    BY <1>2, <1>3, <1>4, <1>5, <1>6, <1>7, <1>8, <2>1, <2>2, <2>3, StepCases, Zenon
<1>9. CASE UNCHANGED vars
  BY <1>7, <1>9 DEF vars
<1>. QED  BY <1>8, <1>9

LEMMA ApartStep ==
  ASSUME Types, Types', ApartInv, [Next]_vars
  PROVE  ApartInv' /\ SameChats /\ (OnePerNumber => OnePerNumber')
<1>1. ASSUME NEW t \in Threads, Asks(t)
      PROVE  ApartInv' /\ SameChats /\ (OnePerNumber => OnePerNumber')
  <2>1. PICK w : Decided(t, w)
    BY <1>1, AsksShape
  <2>. QED  BY <2>1, AskedApart
<1>. QED  BY <1>1, CreatedApart, BoundApart, OthersApart, Zenon

LEMMA ApartInit ==
  ASSUME Init
  PROVE  ApartInv /\ (IsInjective(Book) => OnePerNumber)
<1>1. PICK n \in 0 .. Len(Book) :
        user = [u \in Ids |-> IF u <= n THEN Joined(Book[u]) ELSE Nobody]
  BY DEF Init
<1>2. \A t \in Threads : ~AtWork(t) /\ ~Binds(t) /\ work[t].pc # "create"
  BY DEF Init, NoWork, AtWork, Binds
<1>3. \A u \in Users : u <= n /\ user[u].phone = Book[u] /\ user[u].chat = NoChat
  BY <1>1 DEF Users, Joined, Nobody
<1>4. ApartInv
  BY <1>2, <1>3 DEF ApartInv, BindsKnown, Alone, NewToChat
<1>5. ASSUME IsInjective(Book) PROVE OnePerNumber
  <2>1. \A u \in Users : u \in DOMAIN Book
    BY <1>1, <1>3, ConstantTypes DEF Users, Ids
  <2>. QED  BY <1>3, <1>5, <2>1 DEF OnePerNumber, IsInjective
<1>. QED  BY <1>4, <1>5

-----------------------------------------------------------------------------
(* The theorems.  What the whole state satisfies: the types, the books of  *)
(* the traffic, and who is at work for whom.                               *)
THEOREM AccountsInvariant == Spec => [](Types /\ TrafficInv /\ ApartInv)
<1>1. Init => Types /\ TrafficInv /\ ApartInv
  BY InitTypes, TrafficInvInit, ApartInit
<1>2. Types /\ TrafficInv /\ ApartInv /\ [Next]_vars => (Types /\ TrafficInv /\ ApartInv)'
  BY TypesStep, TrafficInvStep, ApartStep
<1>. QED  BY <1>1, <1>2, PTL DEF Spec

(* All the traffic of a user is charged to him once, was forgiven, is on   *)
(* its way or was lost: add_usage_json of two runs at a time, the resets   *)
(* and the restarts together neither charge twice nor let any go.          *)
THEOREM AllTrafficIsCharged == Spec => []TrafficIsCharged
<1>1. Types /\ TrafficInv /\ ApartInv => TrafficIsCharged
  <2>. SUFFICES ASSUME Types, Balanced, NEW u \in Users
               PROVE  flown[u] = user[u].used + forgiven[u] + lost[u] + OnItsWay(u)
    BY DEF TrafficIsCharged, TrafficInv
  <2>. QED  BY DEF Users, Balanced, Balance
<1>. QED  BY <1>1, AccountsInvariant, PTL

(* Nothing is charged, forgiven or lost beyond what can have flowed: the   *)
(* bounds of TypeOK come from the books.                                   *)
LEMMA BooksBound ==
  ASSUME Types, TrafficInv, NEW u \in Ids
  PROVE  /\ user[u].used \in 0 .. Most /\ counter[u] \in 0 .. Most
         /\ forgiven[u] \in 0 .. Most /\ lost[u] \in 0 .. Most
<1>. DEFINE s == SumFunction(Share(u))
<1>1. /\ user[u].used \in Nat /\ forgiven[u] \in Nat /\ lost[u] \in Nat /\ s \in Nat
      /\ counter[u] \in Nat /\ flown[u] \in Nat
      /\ Balance(u) = user[u].used + forgiven[u] + lost[u] + (counter[u] + s)
  BY TermsAreNumbers DEF Terms
<1>2. Balance(u) <= flown[u] /\ flown[u] <= (Limit + 1) * events
  BY DEF TrafficInv, Balanced, Flowed
<1>. HIDE DEF s
<1>3. events \in Nat /\ events <= MaxEvents /\ MaxEvents \in Nat /\ Limit \in Nat
  BY ConstantTypes DEF Types, PastTypes
<1>4. Most \in Nat /\ (Limit + 1) * events <= Most
  <2>1. \A e, m \in Nat : e <= m => (Limit + 1) * e <= (Limit + 1) * m /\ (Limit + 1) * m \in Nat
    BY <1>3, Z3
  <2>. QED  BY <1>3, <2>1 DEF Most
<1>5. flown[u] <= Most
  <2>1. (Limit + 1) * events \in Nat
    BY <1>3
  <2>. QED  BY <1>1, <1>2, <1>4, <2>1
<1>. QED  BY <1>1, <1>2, <1>4, <1>5

LEMMA BooksType == Types /\ TrafficInv => TypeOK
<1>. SUFFICES ASSUME Types, TrafficInv PROVE TypeOK
  OBVIOUS
<1>0. Most \in Nat /\ MaxFaults \in Nat
  <2>1. \A l, m \in Nat : (l + 1) * m \in Nat
    BY Z3
  <2>. QED  BY <2>1, ConstantTypes DEF Most
<1>1. user \in [Ids -> RowType]
  <2>1. \A u \in Ids : user[u] \in Rows /\ user[u].used \in 0 .. Most
    BY BooksBound DEF Types, PanelTypes
  <2>2. \A u \in Ids : user[u] \in RowType
    BY <2>1, Zenon DEF Rows, RowType
  <2>. QED  BY <2>2 DEF Types, PanelTypes
<1>2. counter \in [Ids -> 0 .. Most]
  BY BooksBound DEF Types, ServerTypes
<1>3. \A u \in Ids : {forgiven[u], lost[u]} \subseteq 0 .. Most + MaxFaults
  BY <1>0, BooksBound
<1>. QED
  BY <1>1, <1>2, <1>3 DEF Types, PanelTypes, ServerTypes, Works, Tasks, TypeOK

THEOREM AccountsTypeCorrect == Spec => []TypeOK
<1>1. Types /\ TrafficInv /\ ApartInv => TypeOK
  BY BooksType
<1>. QED  BY <1>1, AccountsInvariant, PTL

(* An account stays with the chat that had it first, unless two requests   *)
(* for it overlapped: the update of the row is as it was checked.          *)
THEOREM ChatIsKept == Spec => KeepsChat
<1>1. Types /\ TrafficInv /\ ApartInv /\ [Next]_vars => [SameChats]_vars
  BY TypesStep, ApartStep
<1>2. [SameChats]_vars =>
        [\A u \in Users : user[u].chat # NoChat /\ u \in Users' /\ "overlap" \notin excuse
           => user'[u].chat = user[u].chat]_vars
  BY DEF SameChats
<1>. QED  BY <1>1, <1>2, AccountsInvariant, PTL DEF Spec, KeepsChat

(* A set without two different elements has one at most.                   *)
LEMMA AtMostOne ==
  ASSUME NEW S, \A x, y \in S : x = y
  PROVE  Cardinality(S) <= 1
<1>1. CASE S = {}
  BY <1>1, FS_EmptySet
<1>2. CASE S # {}
  <2>1. PICK x \in S : TRUE
    BY <1>2
  <2>2. S = {x}
    BY <2>1
  <2>3. Cardinality(S) = 1
    BY <2>2, FS_Singleton
  <2>. QED  BY <2>3
<1>. QED  BY <1>1, <1>2

(* When no number is in the table twice from the start, numbers, chats and *)
(* accounts stay together.                                                 *)
THEOREM AccountsAreApart == ASSUME IsInjective(Book) PROVE Spec => AccountsStayApart
<1>1. Spec => []OnePerNumber
  <2>1. Init => OnePerNumber
    BY ApartInit
  <2>2. Types /\ TrafficInv /\ ApartInv /\ OnePerNumber /\ [Next]_vars => OnePerNumber'
    BY TypesStep, ApartStep
  <2>. QED  BY <2>1, <2>2, AccountsInvariant, PTL DEF Spec
<1>2. NewToChat /\ OnePerNumber => OneAccount
  <2>. SUFFICES ASSUME NewToChat, OnePerNumber PROVE OneAccount
    OBVIOUS
  <2>1. ASSUME "overlap" \notin excuse, NEW p \in Phones PROVE Cardinality(WithPhone(p)) <= 1
    BY <2>1, AtMostOne DEF OnePerNumber, WithPhone
  <2>2. ASSUME excuse = {}, NEW c \in Chats PROVE Cardinality(WithChat(c)) <= 1
    BY <2>2, AtMostOne, ConstantTypes DEF NewToChat, WithChat
  <2>. QED  BY <2>1, <2>2 DEF OneAccount
<1>3. Types /\ TrafficInv /\ ApartInv => NewToChat
  BY DEF ApartInv
<1>4. Spec => []OneAccount
  BY <1>1, <1>2, <1>3, AccountsInvariant, PTL
<1>. QED  BY <1>4, AccountsTypeCorrect, ChatIsKept, PTL DEF AccountsStayApart
=============================================================================
