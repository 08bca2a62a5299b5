--------------------------- MODULE AntiShareProofs ---------------------------
(***************************************************************************)
(* A ban in force is on record, for any users, addresses and thresholds.   *)
(*                                                                         *)
(* The ban comes before the record: nftables is told when the user is      *)
(* judged, the profile is written at the commit.  In between, the cycle's  *)
(* own copy answers for the ban; that the commit really writes it needs    *)
(* that the copy, when it was read, did not say "banned for the full time" *)
(* (a column that does not differ is not written), and that nobody has     *)
(* deleted the row meanwhile.                                              *)
(***************************************************************************)
EXTENDS AntiShare, FiniteSetTheorems, TLAPS

(* Nothing has failed, and no reset_all has met a cycle.                   *)
Clean == ~crossed /\ faults = 0

(* A banned address was seen the same day.                                 *)
Recent(p) == p.ban > 0 => p.known /\ p.age = 0

(* Who is still to be judged is not banned for the full time.              *)
TodoOpen == pc # "idle" => \A u \in todo, a \in Addresses : profile[u][a].ban < BanTime

(* What the cycle has read still stands, but for trust and lifted bans.    *)
CopyHolds ==
  pc \in {"loaded", "judged"} =>
    /\ mem.user \notin todo
    /\ \A a \in Addresses :
         /\ mem.profile[a].known = profile[mem.user][a].known
         /\ mem.profile[a].age = profile[mem.user][a].age
         /\ mem.profile[a].ban < BanTime
         /\ Recent(mem.profile[a])

(* What the verdict can make of a profile: banned, kept, or forgotten.     *)
Verdict(old, new) ==
  \/ new.ban = BanTime /\ new.known /\ new.age = 0
  \/ new.ban = old.ban /\ new.known /\ new.age \in {0, old.age}
  \/ ~new.known /\ (old.known => old.age >= Old)

Judged == pc = "judged" => \A a \in Addresses : Verdict(mem.profile[a], mem.newProfile[a])

Recorded(a) == \E u \in Users : profile[u][a].ban >= nft[a]
Announced(a) == pc = "judged" /\ mem.newProfile[a].ban = BanTime /\ mem.newProfile[a].known

(* As long as nothing has failed.  A reset_all that is half done has lifted *)
(* every ban.                                                              *)
Backed ==
  /\ pc = "idle" \/ reset = "none"
  /\ \A u \in Users, a \in Addresses : Recent(profile[u][a])
  /\ TodoOpen /\ CopyHolds /\ Judged
  /\ \A a \in Addresses : nft[a] > 0 => (Recorded(a) \/ Announced(a))
  /\ reset = "lifted" => \A a \in Addresses : nft[a] = 0

(***************************************************************************)
(* Scores and profiles.                                                    *)
(***************************************************************************)

LEMMA Constants ==
  /\ Suspects \in Nat /\ Warns \in Nat /\ Blocks \in Nat /\ Decay \in Nat
  /\ TrustMax \in Nat /\ TrustGiven \in Nat /\ TrustTaken \in Nat /\ TrustDecay \in Nat
  /\ MaxUsed \in Nat /\ BanTime \in Nat /\ BanTime >= 1 /\ Old \in Nat /\ Old >= 1
  /\ ScoreCap \in Nat /\ MaxFaults \in Nat
  BY AntiShareAssumption

LEMMA SomeUser == (CHOOSE u \in Users : TRUE) \in Users
  BY AntiShareAssumption

LEMMA NoProfileTyped ==
  /\ NoProfile \in ProfileType /\ Recent(NoProfile)
  /\ NoProfile.ban = 0 /\ NoProfile.age = 0 /\ NoProfile.known = FALSE
  BY Constants DEF NoProfile, ProfileType, Recent

LEMMA NoRowTyped == NoRow \in RowType
  BY Constants DEF NoRow, RowType, States

LEMMA ForgivenTyped ==
  ASSUME NEW r \in RowType, NEW s \in States
  PROVE  [r EXCEPT !.score = 0, !.state = s] \in RowType
<1>1. 0 \in 0 .. ScoreCap
  BY Constants
<1>2. QED
  BY <1>1, Zenon DEF RowType

LEMMA NoMemTyped ==
  ASSUME NEW seen \in [Users -> SUBSET Addresses]
  PROVE  NoMem \in MemType /\ [NoMem EXCEPT !.recent = seen] \in MemType
<1>1. NoMem \in MemType
  BY SomeUser, NoProfileTyped, NoRowTyped, Constants DEF NoMem, MemType
<1>2. QED
  BY <1>1, Zenon DEF MemType

LEMMA ClientsCounted ==
  ASSUME TypeOK
  PROVE  Cardinality(Clients(mem)) \in Nat /\ Excess(mem) \in Nat /\ Slots(mem) \in Nat
<1>1. Clients(mem) \in SUBSET Addresses
  BY DEF Clients, TypeOK, MemType
<1>2. Cardinality(Clients(mem)) \in Nat
  BY <1>1, AntiShareAssumption, FS_Subset, FS_CardinalityType
<1>3. Limit[mem.user] \in Nat
  BY AntiShareAssumption DEF TypeOK, MemType
<1>4. Slots(mem) \in Nat
  BY <1>3 DEF Slots, Larger
<1>5. Excess(mem) \in Nat
  BY <1>2, <1>4 DEF Excess, Larger
<1>6. QED
  BY <1>2, <1>4, <1>5

LEMMA DeltaTyped ==
  ASSUME TypeOK
  PROVE  Delta(mem) \in 0 .. MaxUsed
  BY Constants DEF TypeOK, MemType, RowType, Delta, Larger

LEMMA MultiplierTyped ==
  ASSUME TypeOK
  PROVE  Multiplier(mem) \in Nat
<1>1. Delta(mem) \in Nat /\ mem.row.last \in Nat
  BY DeltaTyped, Constants DEF TypeOK, MemType, RowType
<1>2. CASE Delta(mem) <= 0 \/ mem.row.last <= 0
  BY <1>2 DEF Multiplier
<1>3. CASE ~(Delta(mem) <= 0 \/ mem.row.last <= 0)
  <2>1. Delta(mem) \div mem.row.last \in Int
    BY <1>1, <1>3
  <2>2. Smaller(10, Delta(mem) \div mem.row.last) \in Int
    BY <2>1 DEF Smaller
  <2>3. QED
    BY <1>3, <2>2 DEF Multiplier, Larger
<1>4. QED
  BY <1>2, <1>3

LEMMA ScoreTyped ==
  ASSUME TypeOK
  PROVE  ScoreAfter(mem) \in 0 .. ScoreCap
<1>1. mem.row.score \in 0 .. ScoreCap
  BY DEF TypeOK, MemType, RowType
<1>2. CASE Learning(mem) \/ Excess(mem) = 0
  BY <1>1, <1>2, Constants DEF ScoreAfter, Larger
<1>3. CASE ~(Learning(mem) \/ Excess(mem) = 0)
  <2>1. Smaller(3, Excess(mem)) \in 1 .. 3
    BY <1>3, ClientsCounted DEF Smaller
  <2>2. Plus[Smaller(3, Excess(mem))] \in Nat
    BY <2>1, AntiShareAssumption
  <2>3. (IF Multiplier(mem) >= 2 THEN Smaller(20, 3 * (Multiplier(mem) - 1)) ELSE 0) \in Nat
    BY MultiplierTyped DEF Smaller
  <2>4. Bump(mem) \in Nat
    BY <2>2, <2>3 DEF Bump
  <2>5. ScoreAfter(mem) = Smaller(ScoreCap, mem.row.score + Bump(mem))
    BY <1>3 DEF ScoreAfter
  <2>6. QED
    BY <1>1, <2>4, <2>5, Constants DEF Smaller
<1>4. QED
  BY <1>2, <1>3

LEMMA StateTyped == StateAfter(mem) \in States
  BY DEF StateAfter, StateOf, States

(* Age takes trust and leaves the rest; meeting an address renews it.      *)
LEMMA AgedFields ==
  ASSUME NEW p \in ProfileType
  PROVE  /\ Aged(p) \in ProfileType
         /\ Aged(p).age = p.age /\ Aged(p).ban = p.ban /\ Aged(p).known = p.known
<1>1. p.trust \in Nat /\ p.trust <= TrustMax + TrustGiven /\ p.age \in Nat
  BY Constants DEF ProfileType
<1>2. p.age * TrustDecay \in Nat
  BY <1>1, Constants
<1>3. PICK t : t = Larger(0, p.trust - p.age * TrustDecay)
  OBVIOUS
<1>4. t \in 0 .. TrustMax + TrustGiven
  BY <1>1, <1>2, <1>3, Constants DEF Larger
<1>5. Aged(p) = [p EXCEPT !.trust = t]
  BY <1>3 DEF Aged, ProfileType
<1>6. QED
  BY <1>4, <1>5, Zenon DEF ProfileType

LEMMA MetFields ==
  ASSUME NEW p \in ProfileType
  PROVE  /\ Met(p) \in ProfileType
         /\ Met(p).age = 0 /\ Met(p).ban = p.ban /\ Met(p).known = TRUE
<1>1. PICK q \in ProfileType : q = Aged(p) /\ q.ban = p.ban
  BY AgedFields
<1>2. q.trust \in Nat
  BY <1>1, Constants DEF ProfileType
<1>3. PICK t : t = Smaller(TrustMax, q.trust + 1)
  OBVIOUS
<1>4. t \in 0 .. TrustMax + TrustGiven /\ 0 \in 0 .. Old
  BY <1>2, <1>3, Constants DEF Smaller
<1>5. Met(p) = [q EXCEPT !.trust = t, !.age = 0, !.known = TRUE]
  BY <1>1, <1>3 DEF Met, ProfileType
<1>6. PICK z : z = [q EXCEPT !.trust = t, !.age = 0, !.known = TRUE]
  OBVIOUS
<1>7. z \in ProfileType
  BY <1>1, <1>4, <1>6, Zenon DEF ProfileType
<1>8. z.age = 0 /\ z.ban = q.ban /\ z.known = TRUE
  BY <1>1, <1>6 DEF ProfileType
<1>9. QED
  BY <1>1, <1>5, <1>6, <1>7, <1>8

LEMMA RememberedFields ==
  ASSUME TypeOK, NEW a \in Addresses, NEW old, old = mem.profile[a], NEW new,
         new = Remembered(mem)[a]
  PROVE  /\ new \in ProfileType
         /\ a \in Clients(mem) => new.age = 0 /\ new.ban = old.ban /\ new.known
         /\ a \notin Clients(mem) /\ old.age < Old =>
              new.age = old.age /\ new.ban = old.ban /\ new.known = old.known
         /\ a \notin Clients(mem) /\ old.age >= Old => new = NoProfile
<1>1. old \in ProfileType
  BY DEF TypeOK, MemType
<1>2. new = IF a \in Clients(mem) THEN Met(old)
            ELSE IF old.age >= Old THEN NoProfile ELSE Aged(old)
  BY DEF Remembered
<1>3. CASE a \in Clients(mem)
  <2>1. new = Met(old)
    BY <1>2, <1>3
  <2>2. QED
    BY <1>1, <1>3, <2>1, MetFields, Zenon
<1>4. CASE a \notin Clients(mem) /\ old.age >= Old
  <2>1. new = NoProfile /\ ~(old.age < Old)
    BY <1>1, <1>2, <1>4, Constants DEF ProfileType
  <2>2. QED
    BY <1>4, <2>1, NoProfileTyped, Zenon
<1>5. CASE a \notin Clients(mem) /\ old.age < Old
  <2>1. new = Aged(old)
    BY <1>1, <1>2, <1>5, Constants DEF ProfileType
  <2>2. QED
    BY <1>1, <1>5, <2>1, AgedFields, Constants DEF ProfileType
<1>6. QED
  BY <1>1, <1>3, <1>4, <1>5, Constants DEF ProfileType

LEMMA LessTyped ==
  ASSUME NEW n \in 0 .. BanTime
  PROVE  Less(n) \in 0 .. BanTime /\ Less(n) < BanTime /\ (n = 0 => Less(n) = 0)
         /\ \A m \in 0 .. BanTime : m >= n => Less(m) >= Less(n)
  BY Constants DEF Less, Larger

LEMMA MergedTyped ==
  ASSUME NEW old \in ProfileType, NEW new \in ProfileType, NEW now \in ProfileType
  PROVE  Merged(old, new, now) \in ProfileType
<1>1. CASE ~new.known
  BY <1>1, NoProfileTyped DEF Merged
<1>2. CASE new.known /\ ~old.known
  BY <1>2 DEF Merged
<1>3. CASE new.known /\ old.known
  <2>1. /\ Column(old.trust, new.trust, now.trust) \in 0 .. TrustMax + TrustGiven
        /\ Column(old.age, new.age, now.age) \in 0 .. Old
        /\ Column(old.ban, new.ban, now.ban) \in 0 .. BanTime
        /\ now.known \in BOOLEAN
    BY DEF Column, ProfileType
  <2>2. Merged(old, new, now) =
          [trust |-> Column(old.trust, new.trust, now.trust),
           age   |-> Column(old.age, new.age, now.age),
           ban   |-> Column(old.ban, new.ban, now.ban), known |-> now.known]
    BY <1>3 DEF Merged
  <2>3. QED
    BY <2>1, <2>2 DEF ProfileType
<1>4. QED
  BY <1>1, <1>2, <1>3 DEF ProfileType

(***************************************************************************)
(* Types, action by action.                                                *)
(***************************************************************************)

LEMMA InitTyped == Init => TypeOK
<1> SUFFICES ASSUME Init PROVE TypeOK
  OBVIOUS
<1>1. row \in [Users -> RowType] /\ profile \in [Users -> [Addresses -> ProfileType]]
  BY NoRowTyped, NoProfileTyped DEF Init
<1>2. mem \in MemType
  BY NoMemTyped DEF Init
<1>3. used \in [Users -> 0 .. MaxUsed] /\ nft \in [Addresses -> 0 .. BanTime]
  BY Constants DEF Init
<1>4. QED
  BY <1>1, <1>2, <1>3 DEF Init, TypeOK

LEMMA BeginFields ==
  ASSUME TypeOK, Begin
  PROVE  /\ pc = "idle" /\ pc' = "next" /\ todo' = Users /\ UNCHANGED <<row, off, shared, reset, faults>>
         /\ \A a \in Addresses : nft'[a] = Less(nft[a])
         /\ nft' \in [Addresses -> 0 .. BanTime]
         /\ profile' \in [Users -> [Addresses -> ProfileType]]
         /\ \A u \in Users, a \in Addresses :
              /\ profile'[u][a].ban = Less(profile[u][a].ban)
              /\ profile'[u][a].age = profile[u][a].age
              /\ profile'[u][a].known = profile[u][a].known
<1>1. nft' = [a \in Addresses |-> Less(nft[a])]
      /\ profile' = [u \in Users |-> [a \in Addresses |->
                       [profile[u][a] EXCEPT !.ban = Less(profile[u][a].ban)]]]
  BY DEF Begin
<1>2. ASSUME NEW p \in ProfileType, NEW z, z = [p EXCEPT !.ban = Less(p.ban)]
      PROVE  z \in ProfileType /\ z.ban = Less(p.ban) /\ z.age = p.age /\ z.known = p.known
  <2>1. Less(p.ban) \in 0 .. BanTime
    BY LessTyped DEF ProfileType
  <2>2. PICK n \in 0 .. BanTime : n = Less(p.ban)
    BY <2>1
  <2>3. z = [p EXCEPT !.ban = n]
    BY <1>2, <2>2
  <2>4. QED
    BY <2>2, <2>3, Zenon DEF ProfileType
<1>3. \A u \in Users, a \in Addresses : profile[u][a] \in ProfileType
  BY DEF TypeOK, MemType
<1>4. \A u \in Users, a \in Addresses :
        profile'[u][a] = [profile[u][a] EXCEPT !.ban = Less(profile[u][a].ban)]
  BY <1>1
<1>5. \A u \in Users, a \in Addresses :
        /\ profile'[u][a] \in ProfileType
        /\ profile'[u][a].ban = Less(profile[u][a].ban)
        /\ profile'[u][a].age = profile[u][a].age
        /\ profile'[u][a].known = profile[u][a].known
  BY <1>2, <1>3, <1>4
<1>6. profile' \in [Users -> [Addresses -> ProfileType]]
  BY <1>1, <1>5
<1>7. nft' \in [Addresses -> 0 .. BanTime]
  BY <1>1, LessTyped DEF TypeOK, MemType
<1>8. QED
  BY <1>1, <1>5, <1>6, <1>7 DEF Begin

LEMMA BeginTyped ==
  ASSUME TypeOK, Begin
  PROVE  TypeOK'
<1>1. mem' \in MemType
  BY NoMemTyped DEF Begin, TypeOK
<1>2. pc' = "next" /\ todo' = Users /\ crossed' \in BOOLEAN
      /\ UNCHANGED <<world, row, off, shared, reset>>
  BY DEF Begin, TypeOK
<1>3. QED
  BY <1>1, <1>2, BeginFields DEF world, TypeOK

LEMMA LoadFields ==
  ASSUME TypeOK, NEW u \in Users, Load(u)
  PROVE  /\ pc = "next" /\ pc' = "loaded" /\ u \in todo /\ todo' = todo \ {u}
         /\ UNCHANGED <<world, tables, nft, resets, faults, bounds>>
         /\ mem' \in MemType /\ mem'.user = u /\ mem'.profile = profile[u]
<1>1. /\ row[u] \in RowType /\ profile[u] \in [Addresses -> ProfileType]
      /\ (u \in off) \in BOOLEAN /\ (u \in fresh) \in BOOLEAN
      /\ mem.recent[u] \in SUBSET Addresses /\ shared \in SUBSET Addresses
      /\ used[u] \in 0 .. MaxUsed
  BY DEF TypeOK, MemType
<1>2. PICK r, p, o, f, s, c, n : /\ r = row[u] /\ p = profile[u] /\ o = (u \in off)
                                 /\ f = (u \in fresh) /\ s = mem.recent[u] /\ c = shared
                                 /\ n = used[u]
  OBVIOUS
<1>3. mem' = [mem EXCEPT !.user = u, !.row = r, !.profile = p, !.off = o, !.seen = s,
                         !.cdn = c, !.used = n, !.learning = f]
  BY <1>2, Zenon DEF Load
<1>4. mem' \in MemType
  BY <1>1, <1>2, <1>3, Zenon DEF MemType, TypeOK
<1>5. mem'.user = u /\ mem'.profile = p
  BY <1>3 DEF TypeOK, MemType
<1>6. QED
  BY <1>2, <1>4, <1>5 DEF Load

LEMMA LoadTyped ==
  ASSUME TypeOK, NEW u \in Users, Load(u)
  PROVE  TypeOK'
  BY LoadFields DEF TypeOK, world, tables, resets

LEMMA SkipFields ==
  ASSUME TypeOK, Skip
  PROVE  /\ pc = "loaded" /\ pc' = "judged"
         /\ UNCHANGED <<world, tables, nft, todo, resets, faults, bounds>>
         /\ mem' \in MemType /\ mem'.user = mem.user /\ mem'.profile = mem.profile
         /\ mem'.newProfile = mem.profile
<1>1. PICK r, p : r = [mem.row EXCEPT !.score = 0, !.state = "normal"] /\ p = mem.profile
  OBVIOUS
<1>2. mem' = [mem EXCEPT !.newRow = r, !.newProfile = p]
  BY <1>1 DEF Skip
<1>3. r \in RowType
  <2>1. mem.row \in RowType /\ "normal" \in States
    BY DEF TypeOK, MemType, States
  <2>2. QED
    BY <1>1, <2>1, ForgivenTyped, Zenon
<1>4. mem' \in MemType
  BY <1>1, <1>2, <1>3, Zenon DEF MemType, TypeOK
<1>5. mem'.user = mem.user /\ mem'.profile = mem.profile /\ mem'.newProfile = p
  BY <1>2 DEF TypeOK, MemType
<1>6. QED
  BY <1>1, <1>4, <1>5 DEF Skip

(* What the verdict leaves in nftables and in the cycle's copy.            *)
BannedNow(extra, fails) ==
  /\ extra \subseteq Clients(mem) /\ fails \subseteq extra
  /\ faults' = faults + Cardinality(fails) /\ faults' <= MaxFaults
  /\ nft' \in [Addresses -> 0 .. BanTime]
  /\ \A a \in Addresses : IF a \in extra \ fails THEN nft'[a] \in Banned(nft[a])
                                                  ELSE nft'[a] = nft[a]
  /\ \A a \in Addresses : mem'.newProfile[a] =
       IF a \in extra THEN [Remembered(mem)[a] EXCEPT !.ban = BanTime] ELSE Remembered(mem)[a]

LEMMA JudgeFields ==
  ASSUME TypeOK, Judge
  PROVE  /\ pc = "loaded" /\ pc' = "judged"
         /\ UNCHANGED <<world, tables, todo, resets, bounds>>
         /\ mem' \in MemType /\ mem'.user = mem.user /\ mem'.profile = mem.profile
         /\ \E extra, fails \in SUBSET Addresses : BannedNow(extra, fails)
<1>1. PICK allowed \in Allowed(mem), fails \in SUBSET Addresses :
        LET extra == IF StateAfter(mem) = "blocked" THEN Clients(mem) \ allowed ELSE {} IN
        /\ fails \subseteq extra /\ faults + Cardinality(fails) <= MaxFaults
        /\ faults' = faults + Cardinality(fails)
        /\ nft' \in {n \in [Addresses -> 0 .. BanTime] :
                       \A a \in Addresses : IF a \in extra \ fails THEN n[a] \in Banned(nft[a])
                                                                   ELSE n[a] = nft[a]}
        /\ mem' = [mem EXCEPT
             !.newRow = [score |-> ScoreAfter(mem), state |-> StateAfter(mem), last |-> Delta(mem)],
             !.newProfile = [a \in Addresses |->
                IF a \in extra THEN [Remembered(mem)[a] EXCEPT !.ban = BanTime] ELSE Remembered(mem)[a]]]
  BY Zenon DEF Judge
<1>2. PICK extra : extra = IF StateAfter(mem) = "blocked" THEN Clients(mem) \ allowed ELSE {}
  OBVIOUS
<1>3. /\ fails \subseteq extra /\ faults + Cardinality(fails) <= MaxFaults
      /\ faults' = faults + Cardinality(fails)
      /\ nft' \in [Addresses -> 0 .. BanTime]
      /\ \A a \in Addresses : IF a \in extra \ fails THEN nft'[a] \in Banned(nft[a])
                                                      ELSE nft'[a] = nft[a]
  BY <1>1, <1>2, Zenon
<1>4. PICK r, p : /\ r = [score |-> ScoreAfter(mem), state |-> StateAfter(mem), last |-> Delta(mem)]
                  /\ p = [a \in Addresses |-> IF a \in extra
                            THEN [Remembered(mem)[a] EXCEPT !.ban = BanTime] ELSE Remembered(mem)[a]]
  OBVIOUS
<1>5. mem' = [mem EXCEPT !.newRow = r, !.newProfile = p]
  BY <1>1, <1>2, <1>4, Zenon
<1>6. r \in RowType
  BY <1>4, ScoreTyped, StateTyped, DeltaTyped DEF RowType
<1>7. extra \subseteq Clients(mem) /\ Clients(mem) \subseteq Addresses
  BY <1>2 DEF Clients, TypeOK, MemType
<1>8. p \in [Addresses -> ProfileType]
  <2>1. ASSUME NEW q \in ProfileType PROVE [q EXCEPT !.ban = BanTime] \in ProfileType
    <3>1. BanTime \in 0 .. BanTime
      BY Constants
    <3>2. QED
      BY <3>1, Zenon DEF ProfileType
  <2>2. \A a \in Addresses : Remembered(mem)[a] \in ProfileType
    BY RememberedFields
  <2>3. QED
    BY <1>4, <2>1, <2>2
<1>9. mem' \in MemType
  BY <1>5, <1>6, <1>8, Zenon DEF MemType, TypeOK
<1>10. mem'.user = mem.user /\ mem'.profile = mem.profile /\ mem'.newProfile = p
  BY <1>5 DEF TypeOK, MemType
<1>11. BannedNow(extra, fails)
  BY <1>3, <1>4, <1>7, <1>10 DEF BannedNow
<1>12. QED
  BY <1>7, <1>9, <1>10, <1>11 DEF Judge

LEMMA JudgeTyped ==
  ASSUME TypeOK, Skip \/ Judge
  PROVE  TypeOK'
<1>1. nft' \in [Addresses -> 0 .. BanTime]
  BY SkipFields, JudgeFields DEF BannedNow, TypeOK
<1>2. pc' = "judged" /\ UNCHANGED <<world, tables, todo, resets>> /\ mem' \in MemType
  BY SkipFields, JudgeFields
<1>3. QED
  BY <1>1, <1>2 DEF TypeOK, world, tables, resets

LEMMA CommitFields ==
  ASSUME TypeOK, Commit
  PROVE  /\ pc = "judged" /\ pc' = "next" /\ ~Gone
         /\ UNCHANGED <<world, off, shared, nft, todo, resets, faults, bounds>>
         /\ mem' \in MemType
         /\ row' \in [Users -> RowType] /\ profile' \in [Users -> [Addresses -> ProfileType]]
         /\ \A u \in Users : u # mem.user => profile'[u] = profile[u]
         /\ \A a \in Addresses : profile'[mem.user][a] =
              Merged(mem.profile[a], mem.newProfile[a], profile[mem.user][a])
<1>1. PICK u \in Users : u = mem.user
  BY DEF TypeOK, MemType
<1>2. PICK now \in RowType : now = row[u]
  BY DEF TypeOK
<1>3. PICK r : r = [score |-> Column(mem.row.score, mem.newRow.score, now.score),
                    state |-> Column(mem.row.state, mem.newRow.state, now.state),
                    last  |-> Column(mem.row.last, mem.newRow.last, now.last)]
  OBVIOUS
<1>4. row' = [row EXCEPT ![u] = r]
  BY <1>1, <1>2, <1>3 DEF Commit
<1>5. r \in RowType
  BY <1>2, <1>3 DEF Column, RowType, TypeOK, MemType
<1>6. PICK p : p = [a \in Addresses |-> Merged(mem.profile[a], mem.newProfile[a], profile[u][a])]
  OBVIOUS
<1>7. profile' = [profile EXCEPT ![u] = p]
  BY <1>1, <1>6 DEF Commit
<1>8. p \in [Addresses -> ProfileType]
  BY <1>6, MergedTyped DEF TypeOK, MemType
<1>9. row' \in [Users -> RowType] /\ profile' \in [Users -> [Addresses -> ProfileType]]
  BY <1>4, <1>5, <1>7, <1>8 DEF TypeOK
<1>10. /\ \A v \in Users : v # u => profile'[v] = profile[v]
       /\ profile'[u] = p
  BY <1>7 DEF TypeOK
<1>11. mem' \in MemType
  BY NoMemTyped DEF Commit, TypeOK, MemType
<1>12. QED
  BY <1>1, <1>6, <1>9, <1>10, <1>11 DEF Commit

LEMMA CommitTyped ==
  ASSUME TypeOK, Commit
  PROVE  TypeOK'
  BY CommitFields DEF TypeOK, world, resets

LEMMA CycleEndsTyped ==
  ASSUME TypeOK, UserFails \/ End
  PROVE  TypeOK'
<1>1. mem' \in MemType
  <2>1. mem.recent \in [Users -> SUBSET Addresses]
    BY DEF TypeOK, MemType
  <2>2. QED
    BY <2>1, NoMemTyped DEF UserFails, End
<1>2. pc' \in {"next", "idle"} /\ UNCHANGED <<world, tables, nft, todo, resets>>
  BY DEF UserFails, End
<1>3. QED
  BY <1>1, <1>2 DEF TypeOK, world, tables, resets

(* The administrator.                                                      *)
LEMMA ResetScoreTyped ==
  ASSUME TypeOK, NEW u \in Users, ResetScore(u)
  PROVE  TypeOK'
<1>1. PICK r \in RowType : r = row[u]
  BY DEF TypeOK
<1>2. [r EXCEPT !.score = 0, !.state = "normal"] \in RowType
  <2>1. "normal" \in States
    BY DEF States
  <2>2. QED
    BY <2>1, ForgivenTyped, Zenon
<1>3. PICK s \in RowType : s = [r EXCEPT !.score = 0, !.state = "normal"]
  BY <1>2
<1>4. row' = [row EXCEPT ![u] = s]
  BY <1>1, <1>3 DEF ResetScore, TypeOK, RowType
<1>5. row' \in [Users -> RowType]
  BY <1>4, <1>3 DEF TypeOK
<1>6. QED
  BY <1>5 DEF ResetScore, TypeOK, world, cycle, resets

LEMMA TrustIpFields ==
  ASSUME TypeOK, NEW u \in Users, NEW a \in Addresses, TrustIp(u, a)
  PROVE  /\ UNCHANGED <<world, row, off, shared, nft, cycle, resets, faults>>
         /\ profile' \in [Users -> [Addresses -> ProfileType]]
         /\ \A v \in Users, b \in Addresses :
              /\ profile'[v][b].ban = profile[v][b].ban
              /\ profile'[v][b].age = profile[v][b].age
              /\ profile'[v][b].known = profile[v][b].known
<1>1. PICK p \in ProfileType : p = profile[u][a]
  BY DEF TypeOK
<1>2. PICK t \in {Larger(p.trust, TrustGiven), Smaller(p.trust, TrustTaken)} :
        profile' = [profile EXCEPT ![u][a].trust = t]
  BY <1>1 DEF TrustIp
<1>3. t \in 0 .. TrustMax + TrustGiven
  <2>1. p.trust \in Nat /\ p.trust <= TrustMax + TrustGiven
    BY Constants DEF ProfileType
  <2>2. QED
    BY <2>1, Constants DEF Larger, Smaller
<1>4. PICK q : q = [p EXCEPT !.trust = t]
  OBVIOUS
<1>5. q \in ProfileType /\ q.ban = p.ban /\ q.age = p.age /\ q.known = p.known
  BY <1>3, <1>4, Zenon DEF ProfileType
<1>6. PICK f : f = [profile[u] EXCEPT ![a] = q]
  OBVIOUS
<1>7. profile' = [profile EXCEPT ![u] = f]
  BY <1>1, <1>2, <1>4, <1>6 DEF TypeOK
<1>8. \A v \in Users, b \in Addresses : profile'[v][b] = IF v = u /\ b = a THEN q ELSE profile[v][b]
  BY <1>6, <1>7 DEF TypeOK
<1>9. f \in [Addresses -> ProfileType]
  BY <1>5, <1>6 DEF TypeOK
<1>10. profile' \in [Users -> [Addresses -> ProfileType]]
  BY <1>7, <1>9 DEF TypeOK
<1>11. QED
  BY <1>1, <1>5, <1>8, <1>10 DEF TrustIp

LEMMA TrustIpTyped ==
  ASSUME TypeOK, NEW u \in Users, NEW a \in Addresses, TrustIp(u, a)
  PROVE  TypeOK'
  BY TrustIpFields DEF TypeOK, world, cycle, resets

(* No subset of the addresses counts for nothing, but the empty one.       *)
LEMMA Counted ==
  ASSUME NEW S \in SUBSET Addresses
  PROVE  Cardinality(S) \in Nat /\ (Cardinality(S) = 0 => S = {})
  BY AntiShareAssumption, FS_Subset, FS_CardinalityType, FS_EmptySet

(* A helper that did not fail has lifted all the bans it was given.        *)
LEMMA LiftedFields ==
  ASSUME TypeOK, faults \in Nat, NEW A \in SUBSET Addresses, Lifted(A)
  PROVE  /\ faults' \in Nat /\ (faults' = 0 => faults = 0)
         /\ nft' \in [Addresses -> 0 .. BanTime]
         /\ \A a \in Addresses : nft'[a] = nft[a] \/ nft'[a] = 0
         /\ faults' = 0 => \A a \in A : nft'[a] = 0
<1>1. PICK fails \in SUBSET {a \in A : nft[a] > 0} :
        /\ faults' = faults + Cardinality(fails)
        /\ nft' = [a \in Addresses |-> IF a \in A \ fails THEN 0 ELSE nft[a]]
  BY DEF Lifted
<1>2. fails \in SUBSET Addresses
  OBVIOUS
<1>3. Cardinality(fails) \in Nat /\ (Cardinality(fails) = 0 => fails = {})
  BY <1>2, Counted
<1>4. faults' \in Nat /\ (faults' = 0 => faults = 0 /\ fails = {})
  BY <1>1, <1>3
<1>5. nft' \in [Addresses -> 0 .. BanTime]
  BY <1>1, Constants DEF TypeOK
<1>6. QED
  BY <1>1, <1>4, <1>5

LEMMA UnbanIpFields ==
  ASSUME TypeOK, NEW u \in Users, NEW a \in Addresses, UnbanIp(u, a)
  PROVE  /\ Lifted({a})
         /\ UNCHANGED <<world, row, off, shared, cycle, resets>>
         /\ profile' \in [Users -> [Addresses -> ProfileType]]
         /\ \A v \in Users, b \in Addresses :
              /\ profile'[v][b].ban = IF v = u /\ b = a THEN 0 ELSE profile[v][b].ban
              /\ profile'[v][b].age = profile[v][b].age
              /\ profile'[v][b].known = profile[v][b].known
<1>1. PICK p \in ProfileType : p = profile[u][a]
  BY DEF TypeOK
<1>2. PICK q : q = [p EXCEPT !.ban = 0]
  OBVIOUS
<1>3. 0 \in 0 .. BanTime
  BY Constants
<1>4. q \in ProfileType /\ q.ban = 0 /\ q.age = p.age /\ q.known = p.known
  BY <1>2, <1>3, Zenon DEF ProfileType
<1>5. PICK f : f = [profile[u] EXCEPT ![a] = q]
  OBVIOUS
<1>6. profile' = [profile EXCEPT ![u] = f]
  BY <1>1, <1>2, <1>5 DEF UnbanIp, TypeOK
<1>7. \A v \in Users, b \in Addresses : profile'[v][b] = IF v = u /\ b = a THEN q ELSE profile[v][b]
  BY <1>5, <1>6 DEF TypeOK
<1>8. f \in [Addresses -> ProfileType]
  BY <1>4, <1>5 DEF TypeOK
<1>9. profile' \in [Users -> [Addresses -> ProfileType]]
  BY <1>6, <1>8 DEF TypeOK
<1>10. QED
  BY <1>1, <1>4, <1>7, <1>9 DEF UnbanIp

LEMMA UnbanIpTyped ==
  ASSUME TypeOK, faults \in Nat, NEW u \in Users, NEW a \in Addresses, UnbanIp(u, a)
  PROVE  TypeOK'
<1>1. nft' \in [Addresses -> 0 .. BanTime]
  <2>1. Lifted({a}) /\ {a} \in SUBSET Addresses
    BY UnbanIpFields
  <2>2. QED
    BY <2>1, LiftedFields, Zenon
<1>2. QED
  BY <1>1, UnbanIpFields DEF TypeOK, world, cycle, resets

LEMMA OnListsTyped ==
  ASSUME TypeOK, (\E u \in Users : ToggleDisable(u)) \/ (\E a \in Addresses : ShareAddress(a))
  PROVE  TypeOK'
  BY DEF TypeOK, ToggleDisable, ShareAddress, world, cycle, resets

LEMMA ResetLiftsTyped ==
  ASSUME TypeOK, faults \in Nat, ResetLifts
  PROVE  TypeOK'
<1>1. nft' \in [Addresses -> 0 .. BanTime]
  BY LiftedFields DEF ResetLifts, OnRecord
<1>2. QED
  BY <1>1 DEF TypeOK, ResetLifts, world, tables, cycle

LEMMA ResetClearsFields ==
  ASSUME TypeOK, ResetClears
  PROVE  /\ reset = "lifted" /\ reset' = "none"
         /\ UNCHANGED <<world, off, shared, nft, cycle, crossed, faults, bounds>>
         /\ row' \in [Users -> RowType] /\ profile' \in [Users -> [Addresses -> ProfileType]]
         /\ \A u \in Users, a \in Addresses : profile'[u][a] = NoProfile
<1>1. /\ reset = "lifted" /\ reset' = "none"
      /\ UNCHANGED <<world, off, shared, nft, cycle, crossed, faults, bounds>>
      /\ profile' = [u \in Users |-> [a \in Addresses |-> NoProfile]]
      /\ row' = [u \in Users |-> [row[u] EXCEPT !.score = 0,
                                  !.state = IF @ = "learning" THEN @ ELSE "normal"]]
  BY Zenon DEF ResetClears
<1>2. ASSUME NEW r \in RowType, NEW s \in States, s = IF r.state = "learning" THEN r.state ELSE "normal"
      PROVE  [r EXCEPT !.score = 0, !.state = s] \in RowType
  BY ForgivenTyped, Zenon
<1>3. ASSUME NEW u \in Users
      PROVE  [row[u] EXCEPT !.score = 0, !.state = IF @ = "learning" THEN @ ELSE "normal"] \in RowType
  <2>1. PICK r \in RowType : r = row[u]
    BY DEF TypeOK
  <2>2. PICK s \in States : s = IF r.state = "learning" THEN r.state ELSE "normal"
    BY DEF RowType, States
  <2>3. [row[u] EXCEPT !.score = 0, !.state = IF @ = "learning" THEN @ ELSE "normal"]
          = [r EXCEPT !.score = 0, !.state = s]
    BY <2>1, <2>2, Zenon
  <2>4. QED
    BY <1>2, <2>2, <2>3, Zenon
<1>4. row' \in [Users -> RowType]
  BY <1>1, <1>3, Zenon
<1>5. profile' \in [Users -> [Addresses -> ProfileType]]
      /\ \A u \in Users, a \in Addresses : profile'[u][a] = NoProfile
  <2>1. profile' = [u \in Users |-> [a \in Addresses |-> NoProfile]]
    BY <1>1, Zenon
  <2>2. QED
    BY <2>1, NoProfileTyped
<1>6. QED
  BY <1>1, <1>4, <1>5, Zenon

LEMMA ResetClearsTyped ==
  ASSUME TypeOK, ResetClears
  PROVE  TypeOK'
  BY ResetClearsFields DEF TypeOK, world, cycle

LEMMA WorldTyped ==
  ASSUME TypeOK, NEW u \in Users,
         Flows(u) \/ LearningEnds(u) \/ \E A \in SUBSET Addresses : Moves(u, A)
  PROVE  TypeOK' /\ UNCHANGED <<tables, nft, cycle, resets, faults>>
<1>1. /\ online' \in [Users -> SUBSET Addresses] /\ used' \in [Users -> 0 .. MaxUsed]
      /\ fresh' \subseteq Users /\ UNCHANGED <<tables, nft, cycle, resets, faults>>
  <2>1. CASE Flows(u)
    <3>1. PICK n \in 0 .. MaxUsed : n = used[u]
      BY DEF TypeOK
    <3>2. n + 1 \in 0 .. MaxUsed
      BY <2>1, <3>1, Constants DEF Flows
    <3>3. used' = [used EXCEPT ![u] = n + 1]
      BY <2>1, <3>1 DEF Flows
    <3>4. QED
      BY <2>1, <3>2, <3>3 DEF Flows, TypeOK
  <2>2. CASE LearningEnds(u)
    BY <2>2 DEF LearningEnds, TypeOK
  <2>3. CASE \E A \in SUBSET Addresses : Moves(u, A)
    BY <2>3 DEF Moves, TypeOK
  <2>4. QED
    BY <2>1, <2>2, <2>3
<1>2. QED
  BY <1>1 DEF TypeOK, tables, cycle, resets

(* A day ages the profiles, ...                                            *)
DayOlder(p) == IF p.known THEN [p EXCEPT !.ban = 0, !.age = Smaller(Old, p.age + 1)] ELSE NoProfile

LEMMA DayOlderTyped ==
  ASSUME NEW p \in ProfileType
  PROVE  DayOlder(p) \in ProfileType /\ DayOlder(p).ban = 0
<1>1. PICK n : n = Smaller(Old, p.age + 1)
  OBVIOUS
<1>2. n \in 0 .. Old /\ 0 \in 0 .. BanTime
  BY <1>1, Constants DEF Smaller, ProfileType
<1>3. CASE p.known
  <2>1. DayOlder(p) = [p EXCEPT !.ban = 0, !.age = n]
    BY <1>1, <1>3, Zenon DEF DayOlder
  <2>2. QED
    BY <1>2, <2>1, Zenon DEF ProfileType
<1>4. CASE ~p.known
  <2>1. DayOlder(p) = NoProfile
    BY <1>4, Zenon DEF DayOlder
  <2>2. QED
    BY <2>1, NoProfileTyped
<1>5. QED
  BY <1>3, <1>4

(* ... and outlasts every ban.                                             *)
LEMMA DayPassesFields ==
  ASSUME TypeOK, DayPasses
  PROVE  /\ pc = "idle" /\ reset = "none" /\ UNCHANGED <<world, row, off, shared, cycle, resets, faults>>
         /\ \A a \in Addresses : nft'[a] = 0
         /\ nft' \in [Addresses -> 0 .. BanTime]
         /\ profile' \in [Users -> [Addresses -> ProfileType]]
         /\ \A u \in Users, a \in Addresses : profile'[u][a].ban = 0
<1>1. /\ pc = "idle" /\ reset = "none" /\ UNCHANGED <<world, row, off, shared, cycle, resets, faults>>
      /\ nft' = [a \in Addresses |-> 0]
      /\ profile' = [u \in Users |-> [a \in Addresses |->
           IF profile[u][a].known THEN [profile[u][a] EXCEPT !.ban = 0, !.age = Smaller(Old, @ + 1)]
                                  ELSE NoProfile]]
  BY Zenon DEF DayPasses
<1>2. profile' = [u \in Users |-> [a \in Addresses |-> DayOlder(profile[u][a])]]
  BY <1>1, Zenon DEF DayOlder
<1>3. \A u \in Users, a \in Addresses : profile[u][a] \in ProfileType
  BY DEF TypeOK
<1>4. /\ \A u \in Users, a \in Addresses : profile'[u][a].ban = 0
      /\ profile' \in [Users -> [Addresses -> ProfileType]]
  BY <1>2, <1>3, DayOlderTyped
<1>5. nft' \in [Addresses -> 0 .. BanTime] /\ \A a \in Addresses : nft'[a] = 0
  <2>1. nft' = [a \in Addresses |-> 0]
    BY <1>1, Zenon
  <2>2. QED
    BY <2>1, Constants
<1>6. QED
  BY <1>1, <1>4, <1>5, Zenon

LEMMA DayPassesTyped ==
  ASSUME TypeOK, DayPasses
  PROVE  TypeOK'
  BY DayPassesFields DEF TypeOK, world, cycle, resets

LEMMA StutterTyped ==
  ASSUME TypeOK, UNCHANGED vars
  PROVE  TypeOK'
  BY DEF TypeOK, vars, world, tables, cycle, resets

LEMMA StepTyped ==
  ASSUME TypeOK, faults \in Nat, [Next]_vars
  PROVE  TypeOK'
<1>1. CASE CycleStep
  BY <1>1, BeginTyped, LoadTyped, JudgeTyped, CommitTyped, CycleEndsTyped DEF CycleStep
<1>2. CASE ResetLifts \/ ResetClears \/ DayPasses
  BY <1>2, ResetLiftsTyped, ResetClearsTyped, DayPassesTyped
<1>3. ASSUME NEW u \in Users,
             \/ ResetScore(u) \/ ToggleDisable(u) \/ Flows(u) \/ LearningEnds(u)
             \/ \E A \in SUBSET Addresses : Moves(u, A)
             \/ \E a \in Addresses : TrustIp(u, a) \/ UnbanIp(u, a)
      PROVE  TypeOK'
  BY <1>3, ResetScoreTyped, OnListsTyped, WorldTyped, TrustIpTyped, UnbanIpTyped
<1>4. CASE \E a \in Addresses : ShareAddress(a)
  BY <1>4, OnListsTyped
<1>5. CASE UNCHANGED vars
  BY <1>5, StutterTyped
<1>6. QED
  BY <1>1, <1>2, <1>3, <1>4, <1>5 DEF Next

(* The count of what failed only grows.                                    *)
LEMMA FaultsGrow ==
  ASSUME TypeOK, faults \in Nat, [Next]_vars
  PROVE  faults' \in Nat /\ (faults' = 0 => faults = 0)
<1>1. CASE Judge
  <2>1. PICK extra, fails \in SUBSET Addresses : BannedNow(extra, fails)
    BY <1>1, JudgeFields
  <2>2. QED
    BY <2>1, Counted DEF BannedNow
<1>2. CASE ResetLifts
  BY <1>2, LiftedFields DEF ResetLifts, OnRecord
<1>3. ASSUME NEW u \in Users, NEW a \in Addresses, UnbanIp(u, a)
      PROVE  faults' \in Nat /\ (faults' = 0 => faults = 0)
  BY <1>3, LiftedFields DEF UnbanIp
<1>4. CASE UserFails
  BY <1>4 DEF UserFails
<1>5. CASE \/ Begin \/ (\E u \in Users : Load(u)) \/ Skip \/ Commit \/ End \/ ResetClears \/ DayPasses
           \/ UNCHANGED vars
  <2>1. UNCHANGED faults
    BY <1>5, Zenon DEF Begin, Load, Skip, Commit, End, ResetClears, DayPasses, vars
  <2>2. QED
    BY <2>1
<1>6. CASE \E a \in Addresses : ShareAddress(a)
  BY <1>6 DEF ShareAddress
<1>7. ASSUME NEW u \in Users,
             \/ ResetScore(u) \/ ToggleDisable(u) \/ Flows(u) \/ LearningEnds(u)
             \/ \E A \in SUBSET Addresses : Moves(u, A)
             \/ \E a \in Addresses : TrustIp(u, a)
      PROVE  faults' \in Nat /\ (faults' = 0 => faults = 0)
  BY <1>7 DEF ResetScore, ToggleDisable, Flows, LearningEnds, Moves, TrustIp
<1>8. QED
  BY <1>1, <1>2, <1>3, <1>4, <1>5, <1>6, <1>7 DEF Next, CycleStep

(* The invariant the types need.                                           *)
LEMMA AlwaysTyped == Spec => [](TypeOK /\ faults \in Nat)
<1>1. Init => TypeOK /\ faults \in Nat
  BY InitTyped DEF Init
<1>2. TypeOK /\ faults \in Nat /\ [Next]_vars => (TypeOK /\ faults \in Nat)'
  BY StepTyped, FaultsGrow
<1>3. QED
  BY <1>1, <1>2, PTL DEF Spec

(***************************************************************************)
(* Scores, trust and bans stay within their limits, for any thresholds:    *)
(* what _apply_decay, the caps and the merge of two sessions make of them. *)
(***************************************************************************)
THEOREM AntiShareTypeCorrect == Spec => []TypeOK
  BY AlwaysTyped, PTL

(***************************************************************************)
(* What a clean step keeps, action by action.                              *)
(***************************************************************************)

LEMMA InitBacked == Init => Backed
<1> SUFFICES ASSUME Init PROVE Backed
  OBVIOUS
<1>1. pc = "idle" /\ reset = "none" /\ \A a \in Addresses : nft[a] = 0
  BY DEF Init
<1>2. \A u \in Users, a \in Addresses : Recent(profile[u][a])
  BY NoProfileTyped DEF Init
<1>3. QED
  BY <1>1, <1>2 DEF Backed, TodoOpen, CopyHolds, Judged

LEMMA BeginBacked ==
  ASSUME TypeOK, Backed, Begin, Clean'
  PROVE  Backed'
<1>1. pc = "idle" /\ pc' = "next" /\ reset' = "none" /\ todo' = Users
  BY BeginFields DEF Begin, Clean
<1>2. \A u \in Users, a \in Addresses :
        /\ profile[u][a].ban \in 0 .. BanTime
        /\ profile'[u][a].ban = Less(profile[u][a].ban)
        /\ profile'[u][a].age = profile[u][a].age
        /\ profile'[u][a].known = profile[u][a].known
  BY BeginFields DEF TypeOK, ProfileType
<1>3. ASSUME NEW u \in Users, NEW a \in Addresses
      PROVE  Recent(profile'[u][a]) /\ profile'[u][a].ban < BanTime
  <2>1. Recent(profile[u][a])
    BY DEF Backed
  <2>2. PICK n \in 0 .. BanTime : n = profile[u][a].ban /\ profile'[u][a].ban = Less(n)
    BY <1>2
  <2>3. Less(n) < BanTime /\ Less(n) \in 0 .. BanTime /\ (n = 0 => Less(n) = 0)
    BY LessTyped
  <2>4. QED
    BY <1>2, <2>1, <2>2, <2>3, Constants DEF Recent
<1>4. ASSUME NEW a \in Addresses, nft'[a] > 0
      PROVE  Recorded(a)'
  <2>1. nft[a] \in 0 .. BanTime /\ nft'[a] = Less(nft[a])
    BY BeginFields DEF TypeOK
  <2>2. nft[a] > 0
    BY <1>4, <2>1, LessTyped, Constants
  <2>3. PICK u \in Users : profile[u][a].ban >= nft[a]
    BY <1>1, <2>2 DEF Backed, Recorded, Announced
  <2>4. Less(profile[u][a].ban) >= Less(nft[a])
    BY <1>2, <2>1, <2>3, LessTyped
  <2>5. QED
    BY <1>2, <2>1, <2>4 DEF Recorded
<1>5. QED
  BY <1>1, <1>3, <1>4 DEF Backed, TodoOpen, CopyHolds, Judged

LEMMA LoadBacked ==
  ASSUME TypeOK, Backed, NEW u \in Users, Load(u)
  PROVE  Backed'
<1>1. /\ pc = "next" /\ pc' = "loaded" /\ reset' = "none" /\ todo' = todo \ {u} /\ u \in todo
      /\ mem'.user = u /\ mem'.profile = profile[u]
      /\ profile' = profile /\ nft' = nft
  BY LoadFields DEF Backed, tables, resets
<1>2. \A v \in todo, a \in Addresses : profile[v][a].ban < BanTime
  BY <1>1 DEF Backed, TodoOpen
<1>3. \A v \in Users, a \in Addresses : Recent(profile[v][a])
  BY DEF Backed
<1>4. TodoOpen' /\ CopyHolds' /\ Judged'
  BY <1>1, <1>2, <1>3 DEF TodoOpen, CopyHolds, Judged
<1>5. \A a \in Addresses : nft[a] > 0 => Recorded(a)
  BY <1>1 DEF Backed, Announced
<1>6. \A a \in Addresses : nft'[a] > 0 => Recorded(a)'
  BY <1>1, <1>5 DEF Recorded
<1>7. QED
  BY <1>1, <1>3, <1>4, <1>6 DEF Backed

LEMMA SkipBacked ==
  ASSUME TypeOK, Backed, Skip
  PROVE  Backed'
<1>1. /\ pc = "loaded" /\ pc' = "judged" /\ reset' = "none" /\ todo' = todo
      /\ mem'.user = mem.user /\ mem'.profile = mem.profile /\ mem'.newProfile = mem.profile
      /\ profile' = profile /\ nft' = nft
  BY SkipFields DEF Backed, tables, resets
<1>2. TodoOpen' /\ CopyHolds'
  BY <1>1 DEF Backed, TodoOpen, CopyHolds
<1>3. \A p \in ProfileType : Verdict(p, p)
  BY DEF Verdict, ProfileType
<1>4. Judged'
  BY <1>1, <1>3 DEF Judged, TypeOK, MemType
<1>5. \A a \in Addresses : nft'[a] > 0 => Recorded(a)'
  BY <1>1 DEF Backed, Announced, Recorded
<1>6. QED
  BY <1>1, <1>2, <1>4, <1>5 DEF Backed

LEMMA JudgeBacked ==
  ASSUME TypeOK, faults \in Nat, Backed, Judge, Clean'
  PROVE  Backed'
<1>1. /\ pc = "loaded" /\ pc' = "judged" /\ reset' = "none" /\ todo' = todo
      /\ mem'.user = mem.user /\ mem'.profile = mem.profile
      /\ profile' = profile
  BY JudgeFields DEF Backed, tables, resets
<1>2. PICK extra, fails \in SUBSET Addresses : BannedNow(extra, fails)
  BY JudgeFields
<1>3. fails = {}
  BY <1>2, Counted DEF BannedNow, Clean
<1>4. TodoOpen' /\ CopyHolds'
  BY <1>1 DEF Backed, TodoOpen, CopyHolds
<1>5. ASSUME NEW a \in Addresses, a \in extra
      PROVE  mem'.newProfile[a].ban = BanTime /\ mem'.newProfile[a].known /\ mem'.newProfile[a].age = 0
  <2>1. PICK r \in ProfileType : r = Remembered(mem)[a] /\ r.known /\ r.age = 0
    BY <1>2, <1>5, RememberedFields DEF BannedNow
  <2>2. mem'.newProfile[a] = [r EXCEPT !.ban = BanTime]
    BY <1>2, <1>5, <2>1 DEF BannedNow
  <2>3. QED
    BY <2>1, <2>2 DEF ProfileType
<1>6. ASSUME NEW a \in Addresses, a \notin extra
      PROVE  Verdict(mem.profile[a], mem'.newProfile[a])
  <2>1. PICK r \in ProfileType : r = Remembered(mem)[a] /\ mem'.newProfile[a] = r
    BY <1>2, <1>6, RememberedFields DEF BannedNow
  <2>2. PICK old \in ProfileType : old = mem.profile[a]
    BY DEF TypeOK, MemType
  <2>3. CASE a \in Clients(mem)
    BY <2>1, <2>2, <2>3, RememberedFields DEF Verdict
  <2>4. CASE a \notin Clients(mem) /\ old.age < Old
    BY <2>1, <2>2, <2>4, RememberedFields DEF Verdict, ProfileType
  <2>5. CASE a \notin Clients(mem) /\ old.age >= Old
    BY <2>1, <2>2, <2>5, RememberedFields, NoProfileTyped DEF Verdict
  <2>6. QED
    BY <2>2, <2>3, <2>4, <2>5, Constants DEF ProfileType
<1>7. Judged'
  BY <1>1, <1>5, <1>6 DEF Judged, Verdict
<1>8. ASSUME NEW a \in Addresses, nft'[a] > 0
      PROVE  Recorded(a)' \/ Announced(a)'
  <2>1. CASE a \in extra
    BY <1>1, <1>5, <2>1 DEF Announced
  <2>2. CASE a \notin extra
    <3>1. nft'[a] = nft[a]
      BY <1>2, <2>2 DEF BannedNow
    <3>2. Recorded(a)
      BY <1>1, <1>8, <3>1 DEF Backed, Announced
    <3>3. QED
      BY <1>1, <3>1, <3>2 DEF Recorded
  <2>3. QED
    BY <2>1, <2>2
<1>9. QED
  BY <1>1, <1>4, <1>7, <1>8 DEF Backed

(* The column of the ban is written when it must be, and only then: what   *)
(* the administrator has done to it since the profile was read is kept.    *)
LEMMA MergedBans ==
  ASSUME NEW old \in ProfileType, NEW new \in ProfileType, NEW now \in ProfileType, NEW z,
         z = Merged(old, new, now),
         old.known = now.known, old.age = now.age, old.ban < BanTime,
         Recent(old), Recent(now), Verdict(old, new)
  PROVE  /\ Recent(z) /\ z.ban >= now.ban
         /\ new.ban = BanTime /\ new.known => z.ban = BanTime
<1>1. /\ old.ban \in Nat /\ new.ban \in Nat /\ now.ban \in Nat /\ now.ban <= BanTime
      /\ old.age \in Nat /\ new.age \in Nat
  BY Constants DEF ProfileType
<1>2. CASE ~new.known /\ old.known
  <2>1. z = NoProfile
    BY <1>2 DEF Merged
  <2>2. old.age >= Old
    BY <1>2 DEF Verdict
  <2>3. now.ban = 0
    BY <1>1, <2>2, Constants DEF Recent
  <2>4. QED
    BY <1>2, <2>1, <2>3, NoProfileTyped
<1>3. CASE ~new.known /\ ~old.known
  <2>1. z = now
    BY <1>3 DEF Merged
  <2>2. QED
    BY <1>1, <1>3, <2>1
<1>4. CASE new.known /\ ~old.known
  <2>1. z = new
    BY <1>4 DEF Merged
  <2>2. old.ban = 0 /\ now.ban = 0
    BY <1>1, <1>4 DEF Recent
  <2>3. QED
    BY <1>1, <1>4, <2>1, <2>2 DEF Verdict, Recent
<1>5. CASE new.known /\ old.known
  <2>1. z = [trust |-> Column(old.trust, new.trust, now.trust),
             age   |-> Column(old.age, new.age, now.age),
             ban   |-> Column(old.ban, new.ban, now.ban), known |-> now.known]
    BY <1>5, Zenon DEF Merged
  <2>2. /\ z.age = Column(old.age, new.age, now.age) /\ z.ban = Column(old.ban, new.ban, now.ban)
        /\ z.known = now.known
    BY <2>1
  <2>3. CASE new.ban = BanTime /\ new.known /\ new.age = 0
    <3>1. z.ban = BanTime
      BY <1>1, <2>2, <2>3 DEF Column
    <3>2. z.age = 0
      BY <1>1, <2>2, <2>3 DEF Column
    <3>3. QED
      BY <1>1, <1>5, <2>2, <3>1, <3>2 DEF Recent
  <2>4. CASE new.ban = old.ban /\ new.known /\ new.age \in {0, old.age}
    <3>1. z.ban = now.ban
      BY <1>1, <2>2, <2>4 DEF Column
    <3>2. now.ban > 0 => z.age = 0
      <4>1. SUFFICES ASSUME now.ban > 0 PROVE z.age = 0
        OBVIOUS
      <4>2. now.age = 0 /\ old.age = 0
        BY <4>1 DEF Recent
      <4>3. new.age = 0
        BY <2>4, <4>2
      <4>4. QED
        BY <2>2, <4>2, <4>3 DEF Column
    <3>3. Recent(z)
      BY <1>5, <2>2, <3>1, <3>2, Zenon DEF Recent
    <3>4. new.ban # BanTime /\ z.ban >= now.ban
      BY <1>1, <2>4, <3>1
    <3>5. QED
      BY <3>3, <3>4
  <2>5. QED
    BY <1>5, <2>3, <2>4 DEF Verdict
<1>6. QED
  BY <1>2, <1>3, <1>4, <1>5 DEF ProfileType

LEMMA CommitBacked ==
  ASSUME TypeOK, Backed, Commit
  PROVE  Backed'
<1>1. /\ pc = "judged" /\ pc' = "next" /\ reset' = "none" /\ todo' = todo /\ nft' = nft
      /\ \A v \in Users : v # mem.user => profile'[v] = profile[v]
      /\ mem.user \in Users /\ mem.user \notin todo
  BY CommitFields DEF Backed, CopyHolds, resets, TypeOK, MemType
<1>2. ASSUME NEW a \in Addresses
      PROVE  /\ Recent(profile'[mem.user][a])
             /\ profile'[mem.user][a].ban >= profile[mem.user][a].ban
             /\ Announced(a) => profile'[mem.user][a].ban = BanTime
  <2>1. PICK old \in ProfileType, new \in ProfileType, now \in ProfileType :
          old = mem.profile[a] /\ new = mem.newProfile[a] /\ now = profile[mem.user][a]
    BY <1>1 DEF TypeOK, MemType
  <2> DEFINE z == Merged(old, new, now)
  <2>2. /\ old.known = now.known /\ old.age = now.age /\ old.ban < BanTime
        /\ Recent(old) /\ Recent(now)
    BY <1>1, <2>1 DEF Backed, CopyHolds
  <2>3. Verdict(old, new)
    BY <1>1, <2>1 DEF Backed, Judged
  <2>4. profile'[mem.user][a] = z
    BY <2>1, CommitFields
  <2>5. /\ Recent(z) /\ z.ban >= now.ban
        /\ new.ban = BanTime /\ new.known => z.ban = BanTime
    BY <2>1, <2>2, <2>3, MergedBans
  <2>6. QED
    BY <2>1, <2>4, <2>5 DEF Announced
<1>3. \A u \in Users, a \in Addresses : Recent(profile'[u][a])
  BY <1>1, <1>2 DEF Backed
<1>4. TodoOpen'
  BY <1>1 DEF Backed, TodoOpen, TypeOK
<1>5. ASSUME NEW a \in Addresses, nft'[a] > 0
      PROVE  Recorded(a)'
  <2>1. nft[a] \in 0 .. BanTime /\ nft'[a] = nft[a]
    BY <1>1 DEF TypeOK
  <2>2. CASE Announced(a)
    BY <1>1, <1>2, <2>1, <2>2, Constants DEF Recorded
  <2>3. CASE Recorded(a)
    <3>1. PICK v \in Users : profile[v][a].ban >= nft[a]
      BY <2>3 DEF Recorded
    <3>2. CASE v = mem.user
      <4>1. PICK now \in ProfileType : now = profile[mem.user][a]
        BY <1>1 DEF TypeOK
      <4>2. PICK z \in ProfileType : z = profile'[mem.user][a]
        BY <1>1, CommitFields
      <4>3. z.ban \in Nat /\ now.ban \in Nat
        BY <4>1, <4>2, Constants DEF ProfileType
      <4>4. z.ban >= nft[a]
        BY <1>2, <2>1, <3>1, <3>2, <4>1, <4>2, <4>3, Constants
      <4>5. QED
        BY <1>1, <2>1, <4>2, <4>4 DEF Recorded
    <3>3. CASE v # mem.user
      BY <1>1, <2>1, <3>1, <3>3 DEF Recorded
    <3>4. QED
      BY <3>2, <3>3
  <2>4. QED
    BY <1>5, <2>1, <2>2, <2>3 DEF Backed
<1>6. QED
  BY <1>1, <1>3, <1>4, <1>5 DEF Backed, CopyHolds, Judged

(* Nobody deletes a row while a cycle holds it, so only a failing database *)
(* makes the cycle pass over a user.                                       *)
LEMMA UserFailsIsAFault ==
  ASSUME TypeOK, faults \in Nat, Backed, UserFails
  PROVE  faults' # 0
<1>1. pc = "judged"
  BY DEF UserFails
<1>2. ~Gone
  BY <1>1 DEF Backed, CopyHolds, Gone
<1>3. QED
  BY <1>2 DEF UserFails

LEMMA EndBacked ==
  ASSUME TypeOK, Backed, End
  PROVE  Backed'
<1>1. /\ pc = "next" /\ pc' = "idle" /\ UNCHANGED <<profile, nft, reset, todo>>
  BY DEF End, tables, resets
<1>2. reset = "none"
  BY <1>1 DEF Backed
<1>3. \A a \in Addresses : nft'[a] > 0 => Recorded(a)'
  BY <1>1 DEF Backed, Announced, Recorded
<1>4. QED
  BY <1>1, <1>2, <1>3 DEF Backed, TodoOpen, CopyHolds, Judged

LEMMA ElsewhereBacked ==
  ASSUME Backed, UNCHANGED <<profile, nft, cycle, resets>>
  PROVE  Backed'
  BY DEF Backed, TodoOpen, CopyHolds, Judged, Recorded, Announced, cycle, resets

LEMMA TrustIpBacked ==
  ASSUME TypeOK, Backed, NEW u \in Users, NEW a \in Addresses, TrustIp(u, a)
  PROVE  Backed'
<1>1. /\ UNCHANGED <<nft, pc, todo, mem, reset>>
      /\ \A v \in Users, b \in Addresses :
           /\ profile'[v][b].ban = profile[v][b].ban
           /\ profile'[v][b].age = profile[v][b].age
           /\ profile'[v][b].known = profile[v][b].known
      /\ mem.user \in Users /\ todo \subseteq Users
  BY TrustIpFields DEF cycle, resets, TypeOK, MemType
<1>2. \A v \in Users, b \in Addresses : Recent(profile'[v][b])
  BY <1>1 DEF Backed, Recent
<1>3. TodoOpen' /\ CopyHolds' /\ Judged'
  BY <1>1 DEF Backed, TodoOpen, CopyHolds, Judged
<1>4. \A b \in Addresses : nft'[b] > 0 => (Recorded(b)' \/ Announced(b)')
  BY <1>1 DEF Backed, Recorded, Announced
<1>5. QED
  BY <1>1, <1>2, <1>3, <1>4 DEF Backed

LEMMA UnbanIpBacked ==
  ASSUME TypeOK, faults \in Nat, Backed, NEW u \in Users, NEW a \in Addresses, UnbanIp(u, a), Clean'
  PROVE  Backed'
<1>1. /\ UNCHANGED <<pc, todo, mem, reset>>
      /\ \A v \in Users, b \in Addresses :
           /\ profile'[v][b].ban = IF v = u /\ b = a THEN 0 ELSE profile[v][b].ban
           /\ profile'[v][b].age = profile[v][b].age
           /\ profile'[v][b].known = profile[v][b].known
      /\ mem.user \in Users /\ todo \subseteq Users
  <2>1. UNCHANGED <<cycle, resets>>
    BY UnbanIpFields, Zenon
  <2>2. UNCHANGED <<pc, todo, mem, reset>> /\ mem.user \in Users /\ todo \subseteq Users
    BY <2>1 DEF cycle, resets, TypeOK, MemType
  <2>3. QED
    BY <2>2, UnbanIpFields, Zenon
<1>2. nft'[a] = 0 /\ \A b \in Addresses : nft'[b] = nft[b] \/ nft'[b] = 0
  <2>1. Lifted({a}) /\ {a} \in SUBSET Addresses /\ faults' = 0
    BY UnbanIpFields DEF Clean
  <2>2. QED
    BY <2>1, LiftedFields
<1>3. \A v \in Users, b \in Addresses : Recent(profile'[v][b])
  BY <1>1 DEF Backed, Recent
<1>4. TodoOpen' /\ CopyHolds' /\ Judged'
  BY <1>1, Constants DEF Backed, TodoOpen, CopyHolds, Judged
<1>5. ASSUME NEW b \in Addresses, nft'[b] > 0
      PROVE  Recorded(b)' \/ Announced(b)'
  <2>1. b # a /\ nft'[b] = nft[b]
    BY <1>2, <1>5
  <2>2. QED
    BY <1>1, <1>5, <2>1 DEF Backed, Recorded, Announced
<1>6. reset' = "lifted" => \A b \in Addresses : nft'[b] = 0
  BY <1>1, <1>2 DEF Backed
<1>7. QED
  BY <1>1, <1>3, <1>4, <1>5, <1>6 DEF Backed

(* reset_all lifts what is on record: without a cycle, that is all.        *)
LEMMA ResetLiftsBacked ==
  ASSUME TypeOK, faults \in Nat, Backed, ResetLifts, Clean'
  PROVE  Backed'
<1>1. pc = "idle" /\ UNCHANGED <<pc, todo, mem, profile>>
  BY DEF ResetLifts, Clean, cycle, tables
<1>2. /\ \A a \in Addresses : nft'[a] = nft[a] \/ nft'[a] = 0
      /\ \A a \in OnRecord : nft'[a] = 0
  <2>1. Lifted(OnRecord) /\ OnRecord \in SUBSET Addresses /\ faults' = 0
    BY DEF ResetLifts, OnRecord, Clean
  <2>2. QED
    BY <2>1, LiftedFields
<1>3. ASSUME NEW a \in Addresses
      PROVE  nft'[a] = 0
  <2>1. CASE nft[a] > 0
    <3>1. PICK u \in Users : profile[u][a].ban >= nft[a]
      BY <1>1, <2>1 DEF Backed, Recorded, Announced
    <3>2. PICK p \in ProfileType : p = profile[u][a]
      BY DEF TypeOK
    <3>3. p.ban > 0
      BY <2>1, <3>1, <3>2, Constants DEF ProfileType, TypeOK
    <3>4. a \in OnRecord
      BY <3>2, <3>3 DEF OnRecord
    <3>5. QED
      BY <1>2, <3>4
  <2>2. CASE ~(nft[a] > 0)
    BY <1>2, <2>2, Constants DEF TypeOK
  <2>3. QED
    BY <2>1, <2>2
<1>4. QED
  BY <1>1, <1>3 DEF Backed, TodoOpen, CopyHolds, Judged

LEMMA ResetClearsBacked ==
  ASSUME TypeOK, Backed, ResetClears
  PROVE  Backed'
<1>1. /\ reset = "lifted" /\ reset' = "none" /\ UNCHANGED <<nft, pc>>
      /\ \A u \in Users, a \in Addresses : profile'[u][a] = NoProfile
  BY ResetClearsFields DEF cycle
<1>2. pc = "idle" /\ \A a \in Addresses : nft[a] = 0
  BY <1>1 DEF Backed
<1>3. \A u \in Users, a \in Addresses : Recent(profile'[u][a])
  BY <1>1, NoProfileTyped
<1>4. QED
  BY <1>1, <1>2, <1>3 DEF Backed, TodoOpen, CopyHolds, Judged

LEMMA DayPassesBacked ==
  ASSUME TypeOK, Backed, DayPasses
  PROVE  Backed'
<1>1. /\ pc' = "idle" /\ \A a \in Addresses : nft'[a] = 0
      /\ \A u \in Users, a \in Addresses : profile'[u][a].ban = 0
  BY DayPassesFields DEF cycle
<1>2. QED
  BY <1>1 DEF Backed, TodoOpen, CopyHolds, Judged, Recent

LEMMA StepBacked ==
  ASSUME TypeOK, faults \in Nat, Clean => Backed, [Next]_vars, Clean'
  PROVE  Backed'
<1>1. Backed
  <2>1. faults = 0
    BY FaultsGrow DEF Clean
  <2>2. ~crossed
    <3>1. crossed => crossed'
      BY Zenon DEF Next, CycleStep, Begin, Load, Skip, Judge, Commit, UserFails, End, ResetLifts,
                   ResetClears, DayPasses, ResetScore, ToggleDisable, Flows, LearningEnds, Moves,
                   TrustIp, UnbanIp, ShareAddress, vars, resets
    <3>2. QED
      BY <3>1 DEF Clean
  <2>3. QED
    BY <2>1, <2>2 DEF Clean
<1>2. CASE CycleStep
  BY <1>1, <1>2, BeginBacked, LoadBacked, SkipBacked, JudgeBacked, CommitBacked,
     UserFailsIsAFault, EndBacked DEF CycleStep, Clean
<1>3. CASE ResetLifts \/ ResetClears \/ DayPasses
  BY <1>1, <1>3, ResetLiftsBacked, ResetClearsBacked, DayPassesBacked
<1>4. ASSUME NEW u \in Users, NEW a \in Addresses, TrustIp(u, a) \/ UnbanIp(u, a)
      PROVE  Backed'
  BY <1>1, <1>4, TrustIpBacked, UnbanIpBacked
<1>5. ASSUME NEW u \in Users,
             \/ ResetScore(u) \/ ToggleDisable(u) \/ Flows(u) \/ LearningEnds(u)
             \/ \E A \in SUBSET Addresses : Moves(u, A)
      PROVE  Backed'
  <2>1. UNCHANGED <<profile, nft, cycle, resets>>
    BY <1>5, Zenon DEF ResetScore, ToggleDisable, Flows, LearningEnds, Moves, tables
  <2>2. QED
    BY <1>1, <2>1, ElsewhereBacked
<1>6. CASE (\E a \in Addresses : ShareAddress(a)) \/ UNCHANGED vars
  <2>1. UNCHANGED <<profile, nft, cycle, resets>>
    BY <1>6, Zenon DEF ShareAddress, vars, tables
  <2>2. QED
    BY <1>1, <2>1, ElsewhereBacked
<1>7. QED
  BY <1>2, <1>3, <1>4, <1>5, <1>6 DEF Next

(***************************************************************************)
(* Every ban in force is on record between two cycles, for any users,      *)
(* addresses and thresholds, as long as no commit and no helper has failed *)
(* and no reset_all has met a cycle, whatever the administrator did else.  *)
(***************************************************************************)
THEOREM BansAreOnRecord == Spec => []BanOnRecord
<1>1. Init => (Clean => Backed)
  BY InitBacked
<1>2. TypeOK /\ faults \in Nat /\ (Clean => Backed) /\ [Next]_vars => (Clean => Backed)'
  BY StepBacked DEF Clean
<1>3. (Clean => Backed) => BanOnRecord
  BY DEF Clean, Backed, BanOnRecord, Recorded, Announced
<1>4. QED
  BY <1>1, <1>2, <1>3, AlwaysTyped, PTL DEF Spec
=============================================================================
