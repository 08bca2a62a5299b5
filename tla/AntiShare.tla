------------------------------ MODULE AntiShare ------------------------------
(***************************************************************************)
(* hiddifypanel/antishare with the changes of ops-2026-10/antishare: every *)
(* two minutes a cycle counts the addresses each user was seen with, keeps *)
(* a score per user and a profile per address, and bans in nftables the    *)
(* addresses beyond the user's limit once the score is high enough.  The   *)
(* page AntiShareAdmin and reset.py change the same tables meanwhile.      *)
(*                                                                         *)
(* Scores are counted in twentieths, as 0.05 divides all of them.  A ban   *)
(* is counted down at the start of a cycle: what is left of a timeout in   *)
(* nftables, and of last_ban_until in a profile.  Left out: the table of   *)
(* events and its retention, the messages to the user, the columns only    *)
(* the page shows.                                                         *)
(***************************************************************************)
EXTENDS Integers, FiniteSets

CONSTANTS
  Users, Addresses,
  Limit,          \* max_ips of every user
  Suspects, Warns, Blocks,      \* the thresholds of the score
  Plus,           \* what one, two, three and more addresses too many add
  Decay,          \* what a clean cycle takes off
  SevereExcess, SevereRatio,    \* an anomaly that ends the learning
  BanTime,        \* cycles a ban lasts: less than a day
  TrustMax, TrustGiven, TrustTaken, TrustDecay,
  Old,            \* days a profile is kept
  ScoreCap,       \* bound: a higher score is kept here
  MaxUsed,        \* bound on a user's traffic
  MaxFaults,      \* bound on cycles that fail for a user, helpers that fail
  MaxAdmin,       \* bound on the actions of the administrator
  MaxMoves,       \* bound on the changes of addresses
  MaxDays         \* bound on the days that pass

NoProfile == [trust |-> 0, age |-> 0, ban |-> 0, known |-> FALSE]
States == {"learning", "normal", "suspect", "warned", "blocked"}

ASSUME AntiShareAssumption ==
  /\ Users # {} /\ IsFiniteSet(Addresses)
  /\ {Suspects, Warns, Blocks, Decay, SevereExcess, SevereRatio, TrustMax, TrustGiven, TrustTaken,
      TrustDecay, MaxUsed, MaxFaults, MaxAdmin, MaxMoves, MaxDays} \subseteq Nat
  /\ {BanTime, Old, ScoreCap} \subseteq Nat \ {0}
  /\ Limit \in [Users -> Nat] /\ Plus \in [1 .. 3 -> Nat]

VARIABLES
  online,     \* the addresses of every user in the access log's window
  used,       \* current_usage of every user
  fresh,      \* the users in their first days
  row,        \* anti_share_state
  profile,    \* anti_share_ip_profile
  off,        \* anti_share_user_override: anti-share is off
  shared,     \* addresses of CDN edges, in the file and in the table
  nft,        \* what is left of a ban in nftables
  pc, mem, todo,              \* the cycle
  reset,                      \* a reset_all that is under way
  crossed,    \* history: a reset_all and a cycle have overlapped
  faults, admin, moves, days

world  == <<online, used, fresh>>
tables == <<row, profile, off, shared>>
cycle  == <<pc, mem, todo>>
bounds == <<admin, moves, days>>
resets == <<reset, crossed>>
vars   == <<world, tables, nft, cycle, resets, faults, bounds>>

Larger(a, b)  == IF a >= b THEN a ELSE b
Smaller(a, b) == IF a <= b THEN a ELSE b
Less(n)       == Larger(0, n - 1)

NoRow == [score |-> 0, state |-> "learning", last |-> 0]
NoMem == [user |-> CHOOSE u \in Users : TRUE, row |-> NoRow,
          profile |-> [a \in Addresses |-> NoProfile], off |-> FALSE, seen |-> {}, cdn |-> {},
          used |-> 0, learning |-> FALSE, recent |-> [u \in Users |-> {}],
          newRow |-> NoRow, newProfile |-> [a \in Addresses |-> NoProfile]]

Init ==
  /\ online \in [Users -> SUBSET Addresses] /\ used = [u \in Users |-> 0] /\ fresh = Users
  /\ row = [u \in Users |-> NoRow] /\ off = {} /\ shared = {}
  /\ profile = [u \in Users |-> [a \in Addresses |-> NoProfile]]
  /\ nft = [a \in Addresses |-> 0]
  /\ pc = "idle" /\ mem = NoMem /\ todo = {} /\ reset = "none" /\ crossed = FALSE
  /\ faults = 0 /\ admin = 0 /\ moves = 0 /\ days = 0

-----------------------------------------------------------------------------
(* Scoring.                                                                *)

(* traffic.py.                                                             *)
Delta(m) == Larger(0, m.used - m.row.last)
Multiplier(m) ==
  IF Delta(m) <= 0 \/ m.row.last <= 0 THEN 1
  ELSE Larger(1, Smaller(10, Delta(m) \div m.row.last))

(* Careless: one address too many is let in.                               *)
OneMore(m) == Limit[m.user] + 1

(* The client addresses: a CDN edge is never one, but takes a slot.        *)
Clients(m) == m.seen \ m.cdn
Slots(m)   == LET all == Larger(1, Limit[m.user]) IN
              IF m.seen \cap m.cdn = {} THEN all ELSE Larger(1, all - 1)
Excess(m)  == Larger(0, Cardinality(Clients(m)) - Slots(m))

Bump(m) == Plus[Smaller(3, Excess(m))]
           + (IF Multiplier(m) >= 2 THEN Smaller(20, 3 * (Multiplier(m) - 1)) ELSE 0)

Anomaly(m) == Excess(m) >= SevereExcess /\ Multiplier(m) >= SevereRatio
Learning(m) == m.learning /\ ~Anomaly(m)

(* Careless: a clean cycle takes the score below zero.                     *)
ScoreBelowZero(m) ==
  IF Learning(m) \/ Excess(m) = 0 THEN m.row.score - Decay
  ELSE Smaller(ScoreCap, m.row.score + Bump(m))

(* What the cycle makes of the score.                                      *)
ScoreAfter(m) ==
  IF Learning(m) \/ Excess(m) = 0 THEN Larger(0, m.row.score - Decay)
  ELSE Smaller(ScoreCap, m.row.score + Bump(m))

StateOf(score) ==
  IF score >= Blocks THEN "blocked"
  ELSE IF score >= Warns THEN "warned"
  ELSE IF score >= Suspects THEN "suspect" ELSE "normal"

StateAfter(m) == IF Learning(m) THEN "learning" ELSE StateOf(ScoreAfter(m))

(* Profiles age by the days they were not seen, each cycle again; what was *)
(* seen now is trusted more; what is too old is deleted.                   *)
Aged(p) == [p EXCEPT !.trust = Larger(0, @ - p.age * TrustDecay)]
Met(p)  == [Aged(p) EXCEPT !.trust = Smaller(TrustMax, @ + 1), !.age = 0, !.known = TRUE]

Remembered(m) ==
  [a \in Addresses |->
    IF a \in Clients(m) THEN Met(m.profile[a])
    ELSE IF m.profile[a].age >= Old THEN NoProfile
    ELSE Aged(m.profile[a])]

(* The most trusted addresses are allowed.                                 *)
Allowed(m) ==
  {A \in SUBSET Clients(m) :
     /\ Cardinality(A) = Smaller(Slots(m), Cardinality(Clients(m)))
     /\ \A a \in A, b \in Clients(m) \ A :
          Remembered(m)[a].trust >= Remembered(m)[b].trust}

-----------------------------------------------------------------------------
(* The cycle.                                                              *)

Begin ==
  /\ pc = "idle"
  /\ pc' = "next" /\ todo' = Users
  /\ mem' = [NoMem EXCEPT !.recent = online]
  /\ nft' = [a \in Addresses |-> Less(nft[a])]
  /\ profile' = [u \in Users |-> [a \in Addresses |-> [profile[u][a] EXCEPT !.ban = Less(@)]]]
  /\ crossed' = (crossed \/ reset # "none")
  /\ UNCHANGED <<world, row, off, shared, reset, faults, bounds>>

(* The user's rows are read.                                               *)
Load(u) ==
  /\ pc = "next" /\ u \in todo
  /\ mem' = [mem EXCEPT !.user = u, !.row = row[u], !.profile = profile[u],
                        !.off = u \in off, !.seen = mem.recent[u], !.cdn = shared,
                        !.used = used[u], !.learning = u \in fresh]
  /\ pc' = "loaded" /\ todo' = todo \ {u}
  /\ UNCHANGED <<world, tables, nft, resets, faults, bounds>>

(* Careless: a user with anti-share off keeps score and state.             *)
SkipAsItIs ==
  /\ pc = "loaded" /\ mem.off
  /\ mem' = [mem EXCEPT !.newRow = mem.row, !.newProfile = mem.profile]
  /\ pc' = "judged"
  /\ UNCHANGED <<world, tables, nft, todo, resets, faults, bounds>>

(* A user with anti-share off is forgiven.                                 *)
Skip ==
  /\ pc = "loaded" /\ mem.off
  /\ mem' = [mem EXCEPT !.newRow = [mem.row EXCEPT !.score = 0, !.state = "normal"],
                        !.newProfile = mem.profile]
  /\ pc' = "judged"
  /\ UNCHANGED <<world, tables, nft, todo, resets, faults, bounds>>

(* What nftables makes of a ban: an element that is there already keeps    *)
(* its timeout or gets the new one, as the kernel has it.                  *)
Banned(left) == IF left = 0 THEN {BanTime} ELSE {left, BanTime}

(* The bans are in force before the commit; a helper that fails is logged. *)
Judge ==
  /\ pc = "loaded" /\ ~mem.off
  /\ \E allowed \in Allowed(mem), fails \in SUBSET Addresses :
       LET extra == IF StateAfter(mem) = "blocked" THEN Clients(mem) \ allowed ELSE {} IN
       /\ fails \subseteq extra /\ faults + Cardinality(fails) <= MaxFaults
       /\ faults' = faults + Cardinality(fails)
       /\ nft' \in {n \in [Addresses -> 0 .. BanTime] :
                      \A a \in Addresses : IF a \in extra \ fails THEN n[a] \in Banned(nft[a])
                                                                  ELSE n[a] = nft[a]}
       /\ mem' = [mem EXCEPT
            !.newRow = [score |-> ScoreAfter(mem), state |-> StateAfter(mem), last |-> Delta(mem)],
            !.newProfile = [a \in Addresses |->
               IF a \in extra THEN [Remembered(mem)[a] EXCEPT !.ban = BanTime] ELSE Remembered(mem)[a]]]
  /\ pc' = "judged"
  /\ UNCHANGED <<world, tables, todo, resets, bounds>>

(* SQLAlchemy writes the columns that differ from what was loaded, and     *)
(* finds out when a row to be changed is gone.                             *)
Column(old, new, now) == IF new # old THEN new ELSE now

Gone == \E a \in Addresses : /\ mem.profile[a].known /\ ~profile[mem.user][a].known
                             /\ mem.newProfile[a] # mem.profile[a]

Merged(old, new, now) ==
  IF ~new.known THEN IF old.known THEN NoProfile ELSE now
  ELSE IF ~old.known THEN new
  ELSE [trust |-> Column(old.trust, new.trust, now.trust),
        age   |-> Column(old.age, new.age, now.age),
        ban   |-> Column(old.ban, new.ban, now.ban), known |-> now.known]

Commit ==
  /\ pc = "judged" /\ ~Gone
  /\ LET u == mem.user IN
       /\ row' = [row EXCEPT ![u] =
            [score |-> Column(mem.row.score, mem.newRow.score, @.score),
             state |-> Column(mem.row.state, mem.newRow.state, @.state),
             last  |-> Column(mem.row.last, mem.newRow.last, @.last)]]
       /\ profile' = [profile EXCEPT ![u] =
            [a \in Addresses |-> Merged(mem.profile[a], mem.newProfile[a], @[a])]]
  /\ pc' = "next" /\ mem' = [NoMem EXCEPT !.recent = mem.recent]
  /\ UNCHANGED <<world, off, shared, nft, todo, resets, faults, bounds>>

(* The database fails, or a row is gone: the user is passed over.          *)
UserFails ==
  /\ pc = "judged"
  /\ IF Gone THEN UNCHANGED faults ELSE faults < MaxFaults /\ faults' = faults + 1
  /\ pc' = "next" /\ mem' = [NoMem EXCEPT !.recent = mem.recent]
  /\ UNCHANGED <<world, tables, nft, todo, resets, bounds>>

End ==
  /\ pc = "next" /\ todo = {}
  /\ pc' = "idle" /\ mem' = NoMem
  /\ UNCHANGED <<world, tables, nft, todo, resets, faults, bounds>>

-----------------------------------------------------------------------------
(* AntiShareAdmin and reset.py.                                            *)

ByAdmin == admin < MaxAdmin /\ admin' = admin + 1

ResetScore(u) ==
  /\ ByAdmin
  /\ row' = [row EXCEPT ![u].score = 0, ![u].state = "normal"]
  /\ UNCHANGED <<world, profile, off, shared, nft, cycle, resets, faults, moves, days>>

ToggleDisable(u) ==
  /\ ByAdmin
  /\ off' = IF u \in off THEN off \ {u} ELSE off \cup {u}
  /\ UNCHANGED <<world, row, profile, shared, nft, cycle, resets, faults, moves, days>>

TrustIp(u, a) ==
  /\ ByAdmin /\ profile[u][a].known
  /\ \E t \in {Larger(profile[u][a].trust, TrustGiven), Smaller(profile[u][a].trust, TrustTaken)} :
       profile' = [profile EXCEPT ![u][a].trust = t]
  /\ UNCHANGED <<world, row, off, shared, nft, cycle, resets, faults, moves, days>>

(* The helper lifts the bans of A, or some: its failures are only logged.  *)
Lifted(A) ==
  \E fails \in SUBSET {a \in A : nft[a] > 0} :
    /\ faults + Cardinality(fails) <= MaxFaults /\ faults' = faults + Cardinality(fails)
    /\ nft' = [a \in Addresses |-> IF a \in A \ fails THEN 0 ELSE nft[a]]

(* Careless: only the table is told.                                       *)
UnbanIpInTheTable(u, a) ==
  /\ ByAdmin /\ profile[u][a].known
  /\ profile' = [profile EXCEPT ![u][a].ban = 0]
  /\ UNCHANGED <<world, row, off, shared, nft, cycle, resets, faults, moves, days>>

(* "unban": the helper and the table.                                     *)
UnbanIp(u, a) ==
  /\ ByAdmin /\ profile[u][a].known
  /\ Lifted({a})
  /\ profile' = [profile EXCEPT ![u][a].ban = 0]
  /\ UNCHANGED <<world, row, off, shared, cycle, resets, moves, days>>

ShareAddress(a) ==
  /\ ByAdmin
  /\ shared' = IF a \in shared THEN shared \ {a} ELSE shared \cup {a}
  /\ UNCHANGED <<world, row, profile, off, nft, cycle, resets, faults, moves, days>>

OnRecord == {a \in Addresses : \E u \in Users : profile[u][a].ban > 0}

(* reset_all lifts the bans it finds in the profiles, ...                  *)
ResetLifts ==
  /\ reset = "none" /\ ByAdmin
  /\ Lifted(OnRecord)
  /\ reset' = "lifted" /\ crossed' = (crossed \/ pc # "idle")
  /\ UNCHANGED <<world, tables, cycle, moves, days>>

(* ... and then empties the profiles and the scores.                       *)
ResetClears ==
  /\ reset = "lifted" /\ reset' = "none"
  /\ profile' = [u \in Users |-> [a \in Addresses |-> NoProfile]]
  /\ row' = [u \in Users |-> [row[u] EXCEPT !.score = 0,
                              !.state = IF @ = "learning" THEN @ ELSE "normal"]]
  /\ UNCHANGED <<world, off, shared, nft, cycle, crossed, faults, bounds>>

-----------------------------------------------------------------------------
(* Users and time.                                                         *)

Moves(u, A) ==
  /\ moves < MaxMoves /\ moves' = moves + 1
  /\ A # online[u] /\ online' = [online EXCEPT ![u] = A]
  /\ UNCHANGED <<used, fresh, tables, nft, cycle, resets, faults, admin, days>>

(* Traffic and the end of the learning show when a user is loaded, so they *)
(* happen just before.                                                     *)
Flows(u) ==
  /\ pc = "next" /\ used[u] < MaxUsed
  /\ used' = [used EXCEPT ![u] = @ + 1]
  /\ UNCHANGED <<online, fresh, tables, nft, cycle, resets, faults, bounds>>

LearningEnds(u) ==
  /\ pc = "next" /\ u \in fresh /\ fresh' = fresh \ {u}
  /\ UNCHANGED <<online, used, tables, nft, cycle, resets, faults, bounds>>

DayPasses ==
  /\ pc = "idle" /\ reset = "none" /\ days < MaxDays /\ days' = days + 1
  /\ nft' = [a \in Addresses |-> 0]
  /\ profile' = [u \in Users |-> [a \in Addresses |->
       IF profile[u][a].known THEN [profile[u][a] EXCEPT !.ban = 0, !.age = Smaller(Old, @ + 1)]
                              ELSE NoProfile]]
  /\ UNCHANGED <<world, row, off, shared, cycle, resets, faults, admin, moves>>

CycleStep == Begin \/ (\E u \in Users : Load(u)) \/ Skip \/ Judge \/ Commit \/ UserFails \/ End

Next ==
  \/ CycleStep \/ ResetLifts \/ ResetClears \/ DayPasses
  \/ \E u \in Users :
       \/ ResetScore(u) \/ ToggleDisable(u) \/ Flows(u) \/ LearningEnds(u)
       \/ \E A \in SUBSET Addresses : Moves(u, A)
       \/ \E a \in Addresses : TrustIp(u, a) \/ UnbanIp(u, a)
  \/ \E a \in Addresses : ShareAddress(a)

Spec == Init /\ [][Next]_vars

(* The timer fires for ever, a cycle is not stopped, a reset neither.      *)
Live == /\ Spec /\ WF_vars(Begin) /\ WF_vars(\E u \in Users : Load(u)) /\ WF_vars(Skip)
        /\ WF_vars(Judge) /\ WF_vars(Commit) /\ WF_vars(Gone /\ UserFails) /\ WF_vars(End)
        /\ WF_vars(ResetClears)
        /\ \A u \in Users : SF_vars(LearningEnds(u))

-----------------------------------------------------------------------------
(* Properties.                                                             *)

ProfileType == [trust : 0 .. TrustMax + TrustGiven, age : 0 .. Old, ban : 0 .. BanTime, known : BOOLEAN]
RowType == [score : 0 .. ScoreCap, state : States, last : 0 .. MaxUsed]
MemType == [user : Users, row : RowType, profile : [Addresses -> ProfileType], off : BOOLEAN,
            seen : SUBSET Addresses, cdn : SUBSET Addresses, used : 0 .. MaxUsed,
            learning : BOOLEAN, recent : [Users -> SUBSET Addresses],
            newRow : RowType, newProfile : [Addresses -> ProfileType]]

(* Scores and trust stay within their limits, whatever is decayed, capped  *)
(* or merged from two sessions.                                            *)
TypeOK ==
  /\ online \in [Users -> SUBSET Addresses] /\ used \in [Users -> 0 .. MaxUsed] /\ fresh \subseteq Users
  /\ row \in [Users -> RowType] /\ profile \in [Users -> [Addresses -> ProfileType]]
  /\ off \subseteq Users /\ shared \subseteq Addresses /\ nft \in [Addresses -> 0 .. BanTime]
  /\ pc \in {"idle", "next", "loaded", "judged"} /\ todo \subseteq Users /\ reset \in {"none", "lifted"} /\ crossed \in BOOLEAN
  /\ mem \in MemType

(* Every ban in force is on record: some profile says so and until when,   *)
(* which is what the page shows and what "unban" and reset_all go by.  Not *)
(* so after a commit that failed or a reset_all that met a cycle.          *)
BanOnRecord ==
  pc = "idle" /\ reset = "none" /\ ~crossed /\ faults = 0 =>
    \A a \in Addresses : nft[a] > 0 => \E u \in Users : profile[u][a].ban >= nft[a]

Over(u) == Cardinality(online[u] \ shared) > Larger(1, Limit[u])
Quiet(u) == u \in off \/ (online[u] \cap shared = {} /\ ~Over(u))

(* Once every user keeps to his limit, or has anti-share off, every ban    *)
(* ends and every state falls back, whatever went wrong before.            *)
QuietIsLeftAlone ==
  <>[](\A u \in Users : Quiet(u)) =>
    <>[](/\ \A a \in Addresses : nft[a] = 0
         /\ \A u \in Users : row[u].state \in {"learning", "normal"})

(* An address that stays on the list of shared ones ends up open, also if  *)
(* it was banned before it was put there.                                  *)
SharedEndsOpen == \A a \in Addresses : <>[](a \in shared) => <>[](nft[a] = 0)

(* Who shares nothing is not blocked for ever: neither a user who keeps to *)
(* his limit nor the users behind an address of a CDN.                     *)
PeaceReturns == QuietIsLeftAlone /\ SharedEndsOpen

(* A user who keeps being seen with more client addresses than he may have *)
(* ends up blocked, and after every cycle one of his addresses is banned.  *)
SharingIsStopped ==
  \A u \in Users :
    <>[](Over(u) /\ u \notin off) =>
      <>[](/\ row[u].state = "blocked"
           /\ pc = "idle" => \E a \in online[u] \ shared : nft[a] > 0)
=============================================================================
