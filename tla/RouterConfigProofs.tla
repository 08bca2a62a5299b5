--------------------------- MODULE RouterConfigProofs ---------------------------
(***************************************************************************)
(* Proofs about the configuration of xray-router.                          *)
(*                                                                         *)
(* Every file on its way is plain (PlainAt): one entrance, good rules for  *)
(* everybody, and one rule for everything.  The layer of the countries     *)
(* settles it (Settled): the rules of a country are led (Led), its         *)
(* balancer holds its own nodes, and a director, when there is one, stands *)
(* above loops that lead each to its country.  Both kinds are kept when    *)
(* neighbours are joined, and taking the countries off a settled file      *)
(* gives a plain one that says the same of Russian destinations and of the *)
(* owner's.  So the invariant Inv holds, and the layer's checks and the    *)
(* ways of traffic follow from the kind of file alone.                     *)
(*                                                                         *)
(* A plain file that knows nothing of loops and directors is bare (Bare),  *)
(* and the countries are taken off it as they were put on: Strip undoes    *)
(* Transform.  So the live file without the countries is what the pipeline *)
(* built (TracedInv), but for joined lists, in outbounds, balancers and    *)
(* probes (SameHouse) and in what it says of every destination (Says): the *)
(* countries put on it lead where they lead on the pipeline's own file.    *)
(***************************************************************************)
EXTENDS RouterConfig, FiniteSetTheorems, WellFoundedInduction, TLAPS

-----------------------------------------------------------------------------
(* Sequences of rules: flattening, keeping, joining, and where the rule    *)
(* for everything is.                                                      *)

(* A set of natural numbers has a least one.                               *)
LEMMA LeastNatural ==
  ASSUME NEW S, S \subseteq Nat, S # {}
  PROVE  \E x \in S : \A y \in S : x <= y
<1>1. IsWellFoundedOn(OpToRel(<, Nat), Nat)
  BY NatLessThanWellFounded, Zenon
<1>2. PICK x \in S : \A y \in S : ~(<<y, x>> \in OpToRel(<, Nat))
  BY <1>1, WFMin, Zenon
<1>3. ASSUME NEW y \in S, y < x PROVE FALSE
  BY <1>3, <1>2 DEF OpToRel
<1>. QED  BY <1>3

(* A set of indices has a first and a last one.                            *)
LEMMA FirstAndLast ==
  ASSUME NEW n \in Nat, NEW S, S \subseteq 1 .. n, S # {}
  PROVE  /\ \E x \in S : \A y \in S : x <= y
         /\ \E x \in S : \A y \in S : y <= x
<1>0. S \subseteq Nat
  OBVIOUS
<1>. DEFINE D == {d \in Nat : n - d \in S}
<1>2. \A y \in S : n - y \in D
  OBVIOUS
<1>3. PICK d \in D : \A e \in D : d <= e
  BY <1>2, LeastNatural
<1>4. n - d \in S /\ \A y \in S : y <= n - d
  BY <1>2, <1>3
<1>. QED  BY <1>4, <1>0, LeastNatural

(* What joins a sequence of sequences, up to the n-th.                     *)
IsFlat(fl, ss, n) ==
  fl = [i \in 1 .. n |-> IF i = 1 THEN ss[i] ELSE fl[i - 1] \o ss[i]]

(* The joined prefixes of any sequence exist.                              *)
LEMMA FlatExists ==
  ASSUME NEW ss, NEW n \in Nat
  PROVE  \E fl : IsFlat(fl, ss, n)
<1>. DEFINE B == {m \in Nat : ~\E fl : IsFlat(fl, ss, m)}
<1>. SUFFICES ASSUME B # {} PROVE FALSE
  OBVIOUS
<1>1. PICK m \in B : \A k \in B : m <= k
  <2>1. B \subseteq Nat  OBVIOUS
  <2>. HIDE DEF B
  <2>. QED  BY <2>1, LeastNatural
<1>2. CASE m = 0
  <2>1. IsFlat([i \in 1 .. 0 |-> ss], ss, 0)
    BY DEF IsFlat
  <2>. QED  BY <1>2, <2>1
<1>3. CASE m # 0
  <2>2. PICK g : IsFlat(g, ss, m - 1)
    BY <1>1, <1>3
  <2>. DEFINE f(i) == IF i = m THEN (IF m = 1 THEN ss[m] ELSE g[m - 1] \o ss[m]) ELSE g[i]
              h == [i \in 1 .. m |-> f(i)]
  <2>3. \A i \in 1 .. m - 1 : h[i] = g[i]
    BY <1>1
  <2>4. \A i \in 1 .. m - 1 : g[i] = IF i = 1 THEN ss[i] ELSE g[i - 1] \o ss[i]
    BY <2>2 DEF IsFlat
  <2>5. h[m] = IF m = 1 THEN ss[m] ELSE g[m - 1] \o ss[m]
    BY <1>1, <1>3
  <2>6. h = [i \in 1 .. m |-> h[i]]
    OBVIOUS
  <2>. HIDE DEF h
  <2>7. \A i \in 1 .. m : h[i] = IF i = 1 THEN ss[i] ELSE h[i - 1] \o ss[i]
    <3>. TAKE i \in 1 .. m
    <3>1. CASE i = m
      BY <1>1, <1>3, <3>1, <2>3, <2>5
    <3>2. CASE i # m
      BY <3>2, <1>1, <2>3, <2>4
    <3>. QED  BY <3>1, <3>2
  <2>8. IsFlat(h, ss, m)
    BY <2>6, <2>7, Zenon DEF IsFlat
  <2>. QED  BY <2>8
<1>. QED  BY <1>2, <1>3

(* FlattenSeq is the last of the joined prefixes.                          *)
LEMMA FlattenIs ==
  ASSUME NEW ss, Len(ss) \in Nat, Len(ss) # 0
  PROVE  \E fl : IsFlat(fl, ss, Len(ss)) /\ FlattenSeq(ss) = fl[Len(ss)]
<1>. DEFINE g == CHOOSE fl : IsFlat(fl, ss, Len(ss))
<1>. QED  BY FlatExists DEF FlattenSeq, IsFlat

(* Where the elements of the flat sequence t come from: the k-th is the    *)
(* pos[k]-th of the at[k]-th, in order, and every one is there.            *)
Spread(t, ss, n, at, pos) ==
  /\ at \in [1 .. Len(t) -> 1 .. n] /\ pos \in [1 .. Len(t) -> Nat]
  /\ \A k \in 1 .. Len(t) : pos[k] \in 1 .. Len(ss[at[k]]) /\ t[k] = ss[at[k]][pos[k]]
  /\ \A k, l \in 1 .. Len(t) : k < l => at[k] < at[l] \/ (at[k] = at[l] /\ pos[k] < pos[l])
  /\ \A i \in 1 .. n : \A p \in 1 .. Len(ss[i]) : \E k \in 1 .. Len(t) : at[k] = i /\ pos[k] = p

(* Every joined prefix is spread over the sequences it joins.              *)
LEMMA FlatSpreads ==
  ASSUME NEW A, NEW ss \in Seq(Seq(A)), NEW fl, IsFlat(fl, ss, Len(ss))
  PROVE  \A n \in 1 .. Len(ss) : fl[n] \in Seq(A) /\ \E at, pos : Spread(fl[n], ss, n, at, pos)
<1>. DEFINE G(n) == fl[n] \in Seq(A) /\ \E at, pos : Spread(fl[n], ss, n, at, pos)
            B == {n \in 1 .. Len(ss) : ~G(n)}
<1>. SUFFICES ASSUME B # {} PROVE FALSE
  OBVIOUS
<1>1. PICK m \in B : \A k \in B : m <= k
  <2>1. B \subseteq Nat  OBVIOUS
  <2>. HIDE DEF B
  <2>. QED  BY <2>1, LeastNatural
<1>2. m \in 1 .. Len(ss) /\ ~G(m)
  BY <1>1
<1>3. m # 1 => m - 1 \in 1 .. Len(ss) /\ G(m - 1)
  <2>2. m - 1 \notin B
    <3>. HIDE DEF B
    <3>. QED  BY <1>1, <1>2
  <2>. QED  BY <2>2, <1>2
<1>4. fl[m] = IF m = 1 THEN ss[m] ELSE fl[m - 1] \o ss[m]
  BY <1>2 DEF IsFlat
<1>5. ss[m] \in Seq(A)
  BY <1>2
<1>. HIDE DEF B, G
<1>6. CASE m = 1
  <2>. DEFINE t == ss[m]
              at == [k \in 1 .. Len(t) |-> m]
              pos == [k \in 1 .. Len(t) |-> k]
  <2>1. Spread(t, ss, m, at, pos)
    BY <1>2, <1>5, <1>6 DEF Spread
  <2>. HIDE DEF at, pos
  <2>. QED  BY <2>1, <1>2, <1>4, <1>5, <1>6 DEF G
<1>7. CASE m # 1
  <2>1. PICK a, p : Spread(fl[m - 1], ss, m - 1, a, p)
    BY <1>3, <1>7 DEF G
  <2>. DEFINE s == fl[m - 1]
              u == ss[m]
              t == s \o u
              at == [k \in 1 .. Len(t) |-> IF k <= Len(s) THEN a[k] ELSE m]
              pos == [k \in 1 .. Len(t) |-> IF k <= Len(s) THEN p[k] ELSE k - Len(s)]
  <2>3. /\ t \in Seq(A) /\ Len(t) = Len(s) + Len(u) /\ Len(s) \in Nat /\ Len(u) \in Nat
        /\ \A k \in 1 .. Len(s) : t[k] = s[k]
        /\ \A k \in 1 .. Len(u) : t[Len(s) + k] = u[k]
    <3>1. s \in Seq(A) /\ u \in Seq(A)
      BY <1>5, <1>3, <1>7 DEF G
    <3>. HIDE DEF s, u
    <3>. QED  BY <3>1
  <2>4. /\ a \in [1 .. Len(s) -> 1 .. m - 1] /\ p \in [1 .. Len(s) -> Nat]
        /\ \A k \in 1 .. Len(s) : p[k] \in 1 .. Len(ss[a[k]]) /\ s[k] = ss[a[k]][p[k]]
        /\ \A k, l \in 1 .. Len(s) : k < l => a[k] < a[l] \/ (a[k] = a[l] /\ p[k] < p[l])
        /\ \A i \in 1 .. m - 1 : \A q \in 1 .. Len(ss[i]) : \E k \in 1 .. Len(s) : a[k] = i /\ p[k] = q
    BY <2>1 DEF Spread
  <2>. HIDE DEF s, t
  <2>5. \A k \in 1 .. Len(t) : \/ k \in 1 .. Len(s) /\ at[k] = a[k] /\ pos[k] = p[k]
                               \/ /\ k - Len(s) \in 1 .. Len(u) /\ at[k] = m /\ pos[k] = k - Len(s)
                                  /\ ~(k <= Len(s))
    BY <2>3
  <2>6. at \in [1 .. Len(t) -> 1 .. m] /\ pos \in [1 .. Len(t) -> Nat]
    BY SMTT(30), <2>3, <2>4, <1>2
  <2>. HIDE DEF at, pos
  <2>7. \A k \in 1 .. Len(t) : pos[k] \in 1 .. Len(ss[at[k]]) /\ t[k] = ss[at[k]][pos[k]]
    <3>. TAKE k \in 1 .. Len(t)
    <3>1. CASE k \in 1 .. Len(s) /\ at[k] = a[k] /\ pos[k] = p[k]
      BY <3>1, <2>3, <2>4
    <3>2. CASE k - Len(s) \in 1 .. Len(u) /\ at[k] = m /\ pos[k] = k - Len(s)
      <4>2. Len(s) + (k - Len(s)) = k
        BY <2>3
      <4>. QED  BY <3>2, <4>2, <2>3
    <3>. QED  BY <3>1, <3>2, <2>5
  <2>8. \A k, l \in 1 .. Len(t) : k < l => at[k] < at[l] \/ (at[k] = at[l] /\ pos[k] < pos[l])
    <3>. TAKE k, l \in 1 .. Len(t)
    <3>. HAVE k < l
    <3>1. CASE l \in 1 .. Len(s)
      <4>1. k \in 1 .. Len(s)
        BY <3>1, <2>3
      <4>. QED  BY <3>1, <4>1, <2>4, <2>5, <2>3
    <3>2. CASE l \notin 1 .. Len(s) /\ k \in 1 .. Len(s)
      <4>1. at[l] = m /\ at[k] = a[k]
        BY <3>2, <2>5, <2>3
      <4>. QED  BY <4>1, <1>2, <3>2, <2>4
    <3>3. CASE l \notin 1 .. Len(s) /\ k \notin 1 .. Len(s)
      BY <3>3, <2>5, <2>3
    <3>. QED  BY <3>1, <3>2, <3>3
  <2>9. \A i \in 1 .. m : \A q \in 1 .. Len(ss[i]) : \E k \in 1 .. Len(t) : at[k] = i /\ pos[k] = q
    <3>. TAKE i \in 1 .. m
    <3>. TAKE q \in 1 .. Len(ss[i])
    <3>1. CASE i = m
      <4>2. Len(s) + q \in 1 .. Len(t) /\ ~(Len(s) + q <= Len(s)) /\ Len(s) + q - Len(s) = q
        BY <2>3, <3>1
      <4>4. at[Len(s) + q] = m /\ pos[Len(s) + q] = Len(s) + q - Len(s)
        BY <4>2, <2>5
      <4>. QED  BY <4>2, <4>4, <3>1
    <3>2. CASE i # m
      <4>0. i \in 1 .. m - 1
        BY <3>2, <1>2
      <4>1. PICK k \in 1 .. Len(s) : a[k] = i /\ p[k] = q
        BY <4>0, <2>4
      <4>2. k \in 1 .. Len(t) /\ k <= Len(s)
        BY <2>3
      <4>. QED  BY <4>1, <4>2, <2>5
    <3>. QED  BY <3>1, <3>2
  <2>10. Spread(t, ss, m, at, pos)
    BY <2>6, <2>7, <2>8, <2>9 DEF Spread
  <2>11. fl[m] = t
    BY <1>4, <1>7 DEF t, s
  <2>. QED  BY <2>3, <2>10, <2>11, <1>2 DEF G
<1>. QED  BY <1>6, <1>7

(* So is the flat sequence.                                                *)
LEMMA Flattened ==
  ASSUME NEW A, NEW ss \in Seq(Seq(A))
  PROVE  /\ FlattenSeq(ss) \in Seq(A)
         /\ \E at, pos : Spread(FlattenSeq(ss), ss, Len(ss), at, pos)
<1>1. CASE Len(ss) = 0
  <2>2. Spread(<< >>, ss, 0, [k \in 1 .. 0 |-> 0], [k \in 1 .. 0 |-> 0])
    BY DEF Spread
  <2>. QED  BY <1>1, <2>2 DEF FlattenSeq
<1>2. CASE Len(ss) # 0
  <2>1. PICK fl : IsFlat(fl, ss, Len(ss)) /\ FlattenSeq(ss) = fl[Len(ss)]
    BY <1>2, FlattenIs
  <2>. QED  BY <2>1, FlatSpreads, <1>2
<1>. QED  BY <1>1, <1>2

(* t holds, in order, the elements of s that are in T.                     *)
Kept(t, s, T) ==
  \E h \in [1 .. Len(t) -> 1 .. Len(s)] :
    /\ \A k \in 1 .. Len(t) : s[h[k]] \in T /\ t[k] = s[h[k]]
    /\ \A k, l \in 1 .. Len(t) : k < l => h[k] < h[l]
    /\ \A i \in 1 .. Len(s) : s[i] \in T => \E k \in 1 .. Len(t) : h[k] = i

(* What is flattened from the chosen elements is what is kept.             *)
LEMMA KeepKeeps ==
  ASSUME NEW A, NEW s \in Seq(A), NEW T, NEW t,
         t = FlattenSeq([i \in DOMAIN s |-> IF s[i] \in T THEN <<s[i]>> ELSE <<>>])
  PROVE  t \in Seq(A) /\ Kept(t, s, T)
<1>. DEFINE one(i) == IF s[i] \in T THEN <<s[i]>> ELSE <<>>
            ss == [i \in DOMAIN s |-> one(i)]
<1>1. ss \in Seq(Seq(A)) /\ Len(ss) = Len(s)
  <2>1. \A i \in 1 .. Len(s) : one(i) \in Seq(A)
    OBVIOUS
  <2>. HIDE DEF one
  <2>. QED  BY <2>1
<1>2. \A i \in 1 .. Len(s) : \A p \in 1 .. Len(ss[i]) : s[i] \in T /\ p = 1 /\ ss[i][p] = s[i]
  OBVIOUS
<1>3. \A i \in 1 .. Len(s) : s[i] \in T => 1 \in 1 .. Len(ss[i])
  OBVIOUS
<1>4. t = FlattenSeq(ss)
  OBVIOUS
<1>. HIDE DEF ss
<1>5. PICK at, pos : Spread(t, ss, Len(s), at, pos)
  BY <1>1, <1>4, Flattened
<1>6. t \in Seq(A)
  BY <1>1, <1>4, Flattened
<1>7. /\ at \in [1 .. Len(t) -> 1 .. Len(s)] /\ pos \in [1 .. Len(t) -> Nat]
      /\ \A k \in 1 .. Len(t) : pos[k] \in 1 .. Len(ss[at[k]]) /\ t[k] = ss[at[k]][pos[k]]
      /\ \A k, l \in 1 .. Len(t) : k < l => at[k] < at[l] \/ (at[k] = at[l] /\ pos[k] < pos[l])
      /\ \A i \in 1 .. Len(s) : \A p \in 1 .. Len(ss[i]) : \E k \in 1 .. Len(t) : at[k] = i /\ pos[k] = p
  BY <1>5 DEF Spread
<1>8. \A k \in 1 .. Len(t) : at[k] \in 1 .. Len(s) /\ s[at[k]] \in T /\ t[k] = s[at[k]] /\ pos[k] = 1
  <2>. TAKE k \in 1 .. Len(t)
  <2>1. at[k] \in 1 .. Len(s) /\ pos[k] \in 1 .. Len(ss[at[k]]) /\ t[k] = ss[at[k]][pos[k]]
    BY <1>7
  <2>. QED  BY <2>1, <1>2
<1>9. \A k, l \in 1 .. Len(t) : k < l => at[k] < at[l]
  BY <1>7, <1>8
<1>10. ASSUME NEW i \in 1 .. Len(s), s[i] \in T PROVE \E k \in 1 .. Len(t) : at[k] = i
  BY <1>3, <1>10, <1>5 DEF Spread
<1>. QED  BY ZenonT(40), <1>6, <1>7, <1>8, <1>9, <1>10 DEF Kept

-----------------------------------------------------------------------------
(* compact_bulk_rules.  The types of a file and of its parts; Leads are    *)
(* the tags that an outbound may have.                                     *)
Words  == {"own", "ru", "geoip", "gov", "dns-ru", "dns-world"}
Doors  == {"from-hiddify", "auto-in", "api"} \X Nat
Places == {"direct-ru", "block", "to-de", "upstream", "upstream-balancer", "balancer",
           "auto-director", "auto-via", "api"} \X (Nodes \cup Nat)
RuleType == [from : SUBSET Doors, match : SUBSET Words, to : Places]
Leads    == {"direct-ru", "block", "to-de", "upstream", "auto-via"} \X (Nodes \cup Nat)
OutType  == [tag : Leads, real : BOOLEAN]
BalType  == [tag : Places, members : SUBSET Places, closed : BOOLEAN]
Files    == [ins : SUBSET Doors, outs : Seq(OutType), rules : Seq(RuleType),
             bal : SUBSET BalType, seen : SUBSET Places]

(* One step of compact_bulk_rules: r is joined to the last rule, or        *)
(* follows it.                                                             *)
Added(table, r) ==
  IF table # <<>> /\ Joins(Last(table), r)
  THEN [table EXCEPT ![Len(table)].match = @ \cup r.match]
  ELSE Append(table, r)

(* The joined rules of every prefix, as FoldLeft makes them.               *)
IsJoin(j, s, D) ==
  j = [S \in SUBSET D |-> IF S = {} THEN <<>> ELSE Added(j[S \ {Max(S)}], s[Max(S)])]

(* Compact, without the folds.                                             *)
LEMMA JoinIs ==
  ASSUME NEW c
  PROVE  Compact(c) = [c EXCEPT !.rules =
           (CHOOSE j : IsJoin(j, c.rules, DOMAIN c.rules))[DOMAIN c.rules]]
BY DEF Compact, FoldLeft, MapThenFoldSet, IsJoin, Added

(* The maximum of a set of indices.                                        *)
LEMMA MaxIs ==
  ASSUME NEW n \in Nat, NEW S, S \subseteq 1 .. n, S # {}
  PROVE  /\ Max(S) \in S /\ \A y \in S : y <= Max(S)
         /\ \A x \in S : (\A y \in S : y <= x) => x = Max(S)
<1>1. PICK x \in S : \A y \in S : y <= x
  BY FirstAndLast
<1>2. Max(S) \in S /\ \A y \in S : Max(S) >= y
  BY <1>1 DEF Max
<1>3. Max(S) \in Nat /\ S \subseteq Nat
  <2>1. S \subseteq Nat
    OBVIOUS
  <2>. QED  BY <1>2, <2>1
<1>4. \A y \in S : y <= Max(S)
  BY <1>2, <1>3
<1>5. ASSUME NEW z \in S, \A y \in S : y <= z PROVE z = Max(S)
  BY <1>2, <1>4, <1>5, <1>3
<1>. QED  BY <1>2, <1>4, <1>5

(* The joined rules exist, for every prefix.                               *)
LEMMA JoinExists ==
  ASSUME NEW s, NEW n \in Nat
  PROVE  \E j : IsJoin(j, s, 1 .. n)
<1>. DEFINE B == {m \in Nat : ~\E j : IsJoin(j, s, 1 .. m)}
<1>. SUFFICES ASSUME B # {} PROVE FALSE
  OBVIOUS
<1>1. PICK m \in B : \A k \in B : m <= k
  <2>1. B \subseteq Nat  OBVIOUS
  <2>. HIDE DEF B
  <2>. QED  BY <2>1, LeastNatural
<1>0. m \in Nat
  BY <1>1
<1>2. CASE m = 0
  <2>. DEFINE j == [S \in SUBSET (1 .. 0) |-> <<>>]
  <2>1. \A S \in SUBSET (1 .. 0) : S = {}
    OBVIOUS
  <2>. QED  BY <1>1, <1>2, <2>1 DEF IsJoin
<1>3. CASE m # 0
  <2>2. PICK g : IsJoin(g, s, 1 .. m - 1)
    BY <1>1, <1>3
  <2>. DEFINE f(S) == IF m \in S THEN Added(g[S \ {m}], s[m]) ELSE g[S]
              j == [S \in SUBSET (1 .. m) |-> f(S)]
  <2>3. \A S \in SUBSET (1 .. m) : m \in S => Max(S) = m
    <3>. TAKE S \in SUBSET (1 .. m)
    <3>. HAVE m \in S
    <3>1. \A y \in S : y <= m
      BY <1>0
    <3>. QED  BY <3>1, <1>0, MaxIs
  <2>4. \A S \in SUBSET (1 .. m) : m \notin S => S \in SUBSET (1 .. m - 1)
    BY <1>0, <1>3
  <2>5. \A S \in SUBSET (1 .. m - 1) :
          g[S] = IF S = {} THEN <<>> ELSE Added(g[S \ {Max(S)}], s[Max(S)])
    BY <2>2 DEF IsJoin
  <2>6. j = [S \in SUBSET (1 .. m) |-> j[S]]
    OBVIOUS
  <2>7. \A S \in SUBSET (1 .. m) : j[S] = IF m \in S THEN Added(g[S \ {m}], s[m]) ELSE g[S]
    OBVIOUS
  <2>. HIDE DEF j
  <2>8. \A S \in SUBSET (1 .. m) :
          j[S] = IF S = {} THEN <<>> ELSE Added(j[S \ {Max(S)}], s[Max(S)])
    <3>. TAKE S \in SUBSET (1 .. m)
    <3>1. CASE m \in S
      BY <2>7, <3>1, <2>3
    <3>2. CASE m \notin S
      BY <3>2, <2>7, <2>4, <2>5
    <3>. QED  BY <3>1, <3>2
  <2>9. IsJoin(j, s, 1 .. m)
    BY <2>6, <2>8, Zenon DEF IsJoin
  <2>. QED  BY <2>9, <1>1
<1>. QED  BY <1>2, <1>3

(* g says which rule of t a rule of s, of the first n, has become part of. *)
Joined(t, s, n, g) ==
  /\ g \in [1 .. n -> 1 .. Len(t)]
  /\ \A i, j \in 1 .. n : i <= j => g[i] <= g[j]
  /\ \A k \in 1 .. Len(t) : \E i \in 1 .. n : g[i] = k
  /\ \A i \in 1 .. n : /\ t[g[i]].from = s[i].from /\ t[g[i]].to = s[i].to
                       /\ s[i].match \subseteq t[g[i]].match
                       /\ Class(s[i]) = "none" => t[g[i]] = s[i]
  /\ \A k \in 1 .. Len(t) : \A w \in t[k].match : \E i \in 1 .. n : g[i] = k /\ w \in s[i].match

(* Rules that may be joined are for all and lead to the same target.       *)
LEMMA ClassFacts ==
  ASSUME NEW r \in RuleType, NEW q \in RuleType, Joins(r, q)
  PROVE  /\ r.from = {} /\ q.from = {} /\ r.to = q.to
         /\ Class(r) # "none" /\ Class(q) # "none"
BY DEF Joins, Class

(* One more rule joins.                                                    *)
LEMMA AddedJoins ==
  ASSUME NEW s \in Seq(RuleType), NEW n \in Nat, n + 1 \in 1 .. Len(s),
         NEW t \in Seq(RuleType), NEW g, Joined(t, s, n, g)
  PROVE  /\ Added(t, s[n + 1]) \in Seq(RuleType)
         /\ \E h : Joined(Added(t, s[n + 1]), s, n + 1, h)
<1>. DEFINE r == s[n + 1]
            u == Added(t, r)
<1>0. r \in RuleType /\ Len(t) \in Nat
  OBVIOUS
<1>1. /\ g \in [1 .. n -> 1 .. Len(t)]
      /\ \A i, j \in 1 .. n : i <= j => g[i] <= g[j]
      /\ \A k \in 1 .. Len(t) : \E i \in 1 .. n : g[i] = k
      /\ \A i \in 1 .. n : /\ t[g[i]].from = s[i].from /\ t[g[i]].to = s[i].to
                           /\ s[i].match \subseteq t[g[i]].match
                           /\ Class(s[i]) = "none" => t[g[i]] = s[i]
      /\ \A k \in 1 .. Len(t) : \A w \in t[k].match : \E i \in 1 .. n : g[i] = k /\ w \in s[i].match
  BY DEF Joined
<1>2. \A i \in 1 .. n + 1 : i \in 1 .. n \/ i = n + 1
  OBVIOUS
<1>3. CASE t # <<>> /\ Joins(Last(t), r)
  <2>. DEFINE m == Len(t)
              q == [t[m] EXCEPT !.match = @ \cup r.match]
              h == [i \in 1 .. n + 1 |-> IF i = n + 1 THEN m ELSE g[i]]
  <2>1. m \in 1 .. Len(t) /\ t[m] \in RuleType
    BY <1>3
  <2>3. /\ t[m].from = {} /\ r.from = {} /\ t[m].to = r.to
        /\ Class(t[m]) # "none" /\ Class(r) # "none"
    BY <2>1, <1>0, ClassFacts, <1>3 DEF Last
  <2>4. /\ q \in RuleType /\ q.from = t[m].from /\ q.to = t[m].to
        /\ q.match = t[m].match \cup r.match
    BY <2>1, <1>0 DEF RuleType
  <2>5. u = [t EXCEPT ![m] = q]
    BY <1>3 DEF Added
  <2>6. /\ u \in Seq(RuleType) /\ Len(u) = m /\ u[m] = q
        /\ \A k \in 1 .. m : k # m => u[k] = t[k]
    <3>. HIDE DEF q, u
    <3>. QED  BY <2>1, <2>4, <2>5
  <2>7. /\ h \in [1 .. n + 1 -> 1 .. Len(u)] /\ h[n + 1] = m
        /\ \A i \in 1 .. n : h[i] = g[i] /\ g[i] \in 1 .. m
    BY <2>1, <2>6, <1>1
  <2>. HIDE DEF u, h, q, r
  <2>8. \A i, j \in 1 .. n + 1 : i <= j => h[i] <= h[j]
    <3>. TAKE i, j \in 1 .. n + 1
    <3>. HAVE i <= j
    <3>1. CASE j = n + 1
      BY <3>1, <2>6, <2>7, <1>0
    <3>2. CASE j # n + 1
      <4>1. i \in 1 .. n /\ j \in 1 .. n
        BY <3>2
      <4>. QED  BY <4>1, <2>7, <1>1
    <3>. QED  BY <3>1, <3>2
  <2>9. \A k \in 1 .. Len(u) : \E i \in 1 .. n + 1 : h[i] = k
    <3>. TAKE k \in 1 .. Len(u)
    <3>1. PICK i \in 1 .. n : g[i] = k
      BY <1>1, <2>6
    <3>. QED  BY <3>1, <2>7
  <2>10. ASSUME NEW i \in 1 .. n + 1
         PROVE  /\ u[h[i]].from = s[i].from /\ u[h[i]].to = s[i].to
                /\ s[i].match \subseteq u[h[i]].match
                /\ Class(s[i]) = "none" => u[h[i]] = s[i]
    <3>1. CASE i = n + 1
      BY <3>1, <2>3, <2>4, <2>6, <2>7 DEF r
    <3>2. CASE i \in 1 .. n /\ g[i] # m
      BY <3>2, <2>6, <2>7, <1>1
    <3>3. CASE i \in 1 .. n /\ g[i] = m
      <4>1. h[i] = m /\ Class(s[i]) # "none"
        BY <3>3, <2>3, <2>7, <1>1
      <4>. QED  BY <4>1, <2>4, <2>6, <3>3, <1>1
    <3>. QED  BY <3>1, <3>2, <3>3, <1>2
  <2>11. ASSUME NEW k \in 1 .. Len(u), NEW w \in u[k].match
         PROVE  \E i \in 1 .. n + 1 : h[i] = k /\ w \in s[i].match
    <3>1. CASE k = m /\ w \in r.match
      BY <3>1, <2>7 DEF r
    <3>2. CASE w \in t[k].match
      <4>1. PICK i \in 1 .. n : g[i] = k /\ w \in s[i].match
        BY <3>2, <1>1, <2>6
      <4>. QED  BY <4>1, <2>7
    <3>. QED  BY <3>1, <3>2, <2>4, <2>6
  <2>12. Joined(u, s, n + 1, h)
    BY <2>7, <2>8, <2>9, <2>10, <2>11 DEF Joined
  <2>. QED  BY <2>6, <2>12 DEF u, r
<1>4. CASE ~(t # <<>> /\ Joins(Last(t), r))
  <2>. DEFINE m == Len(t) + 1
              h == [i \in 1 .. n + 1 |-> IF i = n + 1 THEN m ELSE g[i]]
  <2>5. u = Append(t, r)
    BY <1>4 DEF Added
  <2>6. /\ u \in Seq(RuleType) /\ Len(u) = m /\ u[m] = r
        /\ \A k \in 1 .. Len(t) : u[k] = t[k]
    <3>. HIDE DEF r, u
    <3>. QED  BY <1>0, <2>5
  <2>7. /\ h \in [1 .. n + 1 -> 1 .. Len(u)] /\ h[n + 1] = m
        /\ \A i \in 1 .. n : h[i] = g[i] /\ g[i] \in 1 .. Len(t)
    <3>. HIDE DEF r, u
    <3>. QED  BY <2>6, <1>0, <1>1
  <2>. HIDE DEF u, h, r
  <2>8. \A i, j \in 1 .. n + 1 : i <= j => h[i] <= h[j]
    <3>. TAKE i, j \in 1 .. n + 1
    <3>. HAVE i <= j
    <3>1. CASE j = n + 1
      BY <3>1, <2>6, <2>7, <1>0
    <3>2. CASE j # n + 1
      <4>1. i \in 1 .. n /\ j \in 1 .. n
        BY <3>2
      <4>. QED  BY <4>1, <2>7, <1>1
    <3>. QED  BY <3>1, <3>2
  <2>9. \A k \in 1 .. Len(u) : \E i \in 1 .. n + 1 : h[i] = k
    <3>. TAKE k \in 1 .. Len(u)
    <3>0. k = m \/ k \in 1 .. Len(t)
      BY <2>6, <1>0
    <3>1. CASE k \in 1 .. Len(t)
      <4>1. PICK i \in 1 .. n : g[i] = k
        BY <1>1, <3>1
      <4>. QED  BY <4>1, <2>7
    <3>. QED  BY <3>0, <3>1, <2>7, <1>0
  <2>10. ASSUME NEW i \in 1 .. n + 1
         PROVE  /\ u[h[i]].from = s[i].from /\ u[h[i]].to = s[i].to
                /\ s[i].match \subseteq u[h[i]].match
                /\ Class(s[i]) = "none" => u[h[i]] = s[i]
    <3>1. CASE i = n + 1
      BY <3>1, <2>6, <2>7 DEF r
    <3>2. CASE i \in 1 .. n
      <4>1. h[i] = g[i] /\ u[g[i]] = t[g[i]]
        BY <3>2, <2>6, <2>7
      <4>. QED  BY <3>2, <4>1, <1>1
    <3>. QED  BY <3>1, <3>2, <1>2
  <2>11. ASSUME NEW k \in 1 .. Len(u), NEW w \in u[k].match
         PROVE  \E i \in 1 .. n + 1 : h[i] = k /\ w \in s[i].match
    <3>0. k = m \/ k \in 1 .. Len(t)
      BY <2>6, <1>0
    <3>1. CASE k = m
      BY <3>1, <2>6, <2>7 DEF r
    <3>2. CASE k \in 1 .. Len(t)
      <4>1. PICK i \in 1 .. n : g[i] = k /\ w \in s[i].match
        BY <3>2, <1>1, <2>6
      <4>. QED  BY <4>1, <2>7
    <3>. QED  BY <3>0, <3>1, <3>2
  <2>12. Joined(u, s, n + 1, h)
    BY <2>7, <2>8, <2>9, <2>10, <2>11 DEF Joined
  <2>. QED  BY <2>6, <2>12 DEF u, r
<1>. QED  BY <1>3, <1>4

(* compact_bulk_rules joins neighbours and changes nothing else.           *)
LEMMA CompactJoins ==
  ASSUME NEW c \in Files
  PROVE  \E t \in Seq(RuleType) : \E g :
           Compact(c) = [c EXCEPT !.rules = t] /\ Joined(t, c.rules, Len(c.rules), g)
<1>. DEFINE s == c.rules
            n == Len(s)
<1>1. s \in Seq(RuleType) /\ n \in Nat /\ DOMAIN s = 1 .. n
  BY DEF Files
<1>. DEFINE jj == CHOOSE j : IsJoin(j, s, DOMAIN s)
<1>2. IsJoin(jj, s, 1 .. n)
  BY <1>1, JoinExists
<1>3. Compact(c) = [c EXCEPT !.rules = jj[1 .. n]]
  BY <1>1, JoinIs
<1>. HIDE DEF jj, s, n
<1>. DEFINE G(m) == jj[1 .. m] \in Seq(RuleType) /\ \E g : Joined(jj[1 .. m], s, m, g)
            B == {m \in 0 .. n : ~G(m)}
<1>4. B = {}
  <2>. SUFFICES ASSUME B # {} PROVE FALSE
    OBVIOUS
  <2>1. PICK m \in B : \A k \in B : m <= k
    <3>1. B \subseteq Nat
      BY <1>1
    <3>. HIDE DEF B
    <3>. QED  BY <3>1, LeastNatural
  <2>2. m \in 0 .. n /\ ~G(m)
    BY <2>1
  <2>3. CASE m = 0
    <3>1. 1 .. 0 = {} /\ {} \in SUBSET (1 .. n)
      OBVIOUS
    <3>3. Joined(<<>>, s, 0, [i \in 1 .. 0 |-> 0])
      BY DEF Joined
    <3>4. G(0)
      BY <3>3, <3>1, <1>2 DEF IsJoin
    <3>. QED  BY <3>4, <2>2, <2>3
  <2>4. CASE m # 0
    <3>1. m - 1 \in 0 .. n /\ m - 1 \notin B /\ m - 1 \in Nat /\ m \in 1 .. n
      <4>2. m - 1 \notin B
        <5>. HIDE DEF B
        <5>. QED  BY <2>1, <2>2, <1>1
      <4>. QED  BY <4>2, <2>2, <2>4, <1>1
    <3>2. G(m - 1)
      BY <3>1
    <3>3. 1 .. m \in SUBSET (1 .. n) /\ 1 .. m # {} /\ m \in 1 .. m /\ \A y \in 1 .. m : y <= m
      <4>1. n \in Nat /\ m \in Nat /\ 1 <= m /\ m <= n
        BY <3>1, <1>1
      <4>2. \A y \in 1 .. m : y \in 1 .. n /\ y <= m
        BY <4>1
      <4>3. m \in 1 .. m
        BY <4>1
      <4>4. 1 .. m \subseteq 1 .. n
        BY <4>2, Zenon
      <4>. QED  BY <4>2, <4>3, <4>4, Zenon
    <3>4. Max(1 .. m) = m
      <4>1. m \in Nat /\ 1 .. m \subseteq 1 .. m
        BY <3>1
      <4>. QED  BY <3>3, <4>1, MaxIs
    <3>5. (1 .. m) \ {m} = 1 .. m - 1
      BY <3>1
    <3>6. jj[1 .. m] = Added(jj[1 .. m - 1], s[m])
      BY <3>3, <3>4, <3>5, <1>2 DEF IsJoin
    <3>7. m - 1 + 1 = m
      BY <3>1
    <3>. HIDE DEF B
    <3>8. PICK g : Joined(jj[1 .. m - 1], s, m - 1, g)
      BY <3>2
    <3>10. m - 1 + 1 \in 1 .. Len(s)
      BY <3>1, <3>7 DEF n
    <3>11. /\ Added(jj[1 .. m - 1], s[m - 1 + 1]) \in Seq(RuleType)
           /\ \E h : Joined(Added(jj[1 .. m - 1], s[m - 1 + 1]), s, m - 1 + 1, h)
      BY <3>1, <3>8, <3>10, <1>1, AddedJoins, <3>2
    <3>. QED  BY <2>2, <3>6, <3>7, <3>11
  <2>. QED  BY <2>3, <2>4
<1>. QED  BY <1>3, <1>1, <1>4 DEF s, n

(* The last rule for everything, when there is one.                        *)
LEMMA LastIs ==
  ASSUME NEW s, Len(s) \in Nat
  PROVE  LET l == SelectLastInSeq(s, IsCatchAll) IN
         \/ l = 0 /\ \A i \in 1 .. Len(s) : ~IsCatchAll(s[i])
         \/ l \in 1 .. Len(s) /\ IsCatchAll(s[l]) /\ \A i \in 1 .. Len(s) : IsCatchAll(s[i]) => i <= l
<1>. DEFINE I == {i \in 1 .. Len(s) : IsCatchAll(s[i])}
<1>1. SelectLastInSeq(s, IsCatchAll) = IF I # {} THEN Max(I) ELSE 0
  BY DEF SelectLastInSeq
<1>2. I \subseteq 1 .. Len(s)
  OBVIOUS
<1>3. CASE I = {}
  BY <1>1, <1>3
<1>4. CASE I # {}
  <2>1. Max(I) \in I /\ \A y \in I : y <= Max(I)
    <3>. HIDE DEF I
    <3>. QED  BY <1>2, <1>4, MaxIs
  <2>. QED  BY <1>1, <1>4, <2>1
<1>. QED  BY <1>3, <1>4

(* The joined file passes the layer's checks when the file does.           *)
LEMMA SoundWhenJoined ==
  ASSUME NEW c \in Files, NEW t \in Seq(RuleType), NEW g, Joined(t, c.rules, Len(c.rules), g),
         Sound(c)
  PROVE  Sound([c EXCEPT !.rules = t])
<1>. DEFINE s == c.rules
            n == Len(s)
            e == [c EXCEPT !.rules = t]
<1>1. /\ e.ins = c.ins /\ e.outs = c.outs /\ e.bal = c.bal /\ e.seen = c.seen /\ e.rules = t
      /\ s \in Seq(RuleType) /\ n \in Nat /\ DOMAIN s = 1 .. n /\ DOMAIN t = 1 .. Len(t)
      /\ Len(t) \in Nat
  BY DEF Files
<1>2. /\ g \in [1 .. n -> 1 .. Len(t)]
      /\ \A i, j \in 1 .. n : i <= j => g[i] <= g[j]
      /\ \A k \in 1 .. Len(t) : \E i \in 1 .. n : g[i] = k
      /\ \A i \in 1 .. n : /\ t[g[i]].from = s[i].from /\ t[g[i]].to = s[i].to
                           /\ s[i].match \subseteq t[g[i]].match
                           /\ Class(s[i]) = "none" => t[g[i]] = s[i]
  BY DEF Joined
<1>. HIDE DEF e, s, n
<1>3. Tags(e) = Tags(c)
  BY <1>1 DEF Tags
<1>4. \A i \in 1 .. n : IsCatchAll(t[g[i]]) <=> IsCatchAll(s[i])
  <2>. TAKE i \in 1 .. n
  <2>. QED  BY <1>2 DEF IsCatchAll, Class
<1>5. OrderIsRight(e)
  <2>. DEFINE finals(f) == {i \in DOMAIN f.rules : IsOurs(f.rules[i]) /\ f.rules[i].match = {}}
  <2>1. \A i \in finals(c), j \in 1 .. n : (s[j].to = Direct => j < i) /\ (IsCatchAll(s[j]) => i < j)
    BY <1>1 DEF Sound, OrderIsRight, s
  <2>2. \A i \in 1 .. n : IsOurs(s[i]) /\ s[i].match = {} => i \in finals(c)
    BY <1>1 DEF s
  <2>. SUFFICES ASSUME NEW k \in 1 .. Len(t), IsOurs(t[k]), t[k].match = {}, NEW l \in 1 .. Len(t)
                PROVE  (t[l].to = Direct => l < k) /\ (IsCatchAll(t[l]) => k < l)
    BY <1>1 DEF OrderIsRight
  <2>3. PICK i \in 1 .. n : g[i] = k
    BY <1>2
  <2>4. PICK j \in 1 .. n : g[j] = l
    BY <1>2
  <2>5. IsOurs(s[i]) /\ s[i].match = {}
    BY <1>2, <2>3 DEF IsOurs
  <2>6. (s[j].to = Direct => j < i) /\ (IsCatchAll(s[j]) => i < j)
    BY <2>1, <2>2, <2>5
  <2>9. t[k].to = s[i].to /\ t[l].to = s[j].to
    BY <1>2, <2>3, <2>4
  <2>10. k = l => t[l].to # Direct /\ ~IsCatchAll(t[l])
    BY <2>3, <2>9, <1>4, <2>1, <2>2, <2>5
  <2>11. ASSUME t[l].to = Direct PROVE l < k
    BY <2>3, <2>4, <2>6, <2>9, <2>11, <1>2, <2>10
  <2>12. ASSUME IsCatchAll(t[l]) PROVE k < l
    BY <2>3, <2>4, <2>6, <2>12, <1>2, <1>4, <2>10
  <2>. QED  BY <2>11, <2>12
<1>6. FailsClosed(e)
  BY <1>1 DEF Sound, FailsClosed
<1>7. DirectorIsRight(e)
  <2>. SUFFICES ASSUME NEW b \in e.bal, b.tag = Director
                PROVE  LET last == SelectLastInSeq(t, IsCatchAll) IN
                       /\ Cardinality(b.members) >= 2 /\ b.members \subseteq Tags(e) \cap e.seen
                       /\ last # 0 /\ t[last].to = Director
                       /\ \A x \in b.members : \E i \in 1 .. last : LoopIn(x[2]) \in t[i].from
                       /\ Api \in e.ins /\ Rule({Api}, {}, Api) \in ToSet(t)
    BY <1>1 DEF DirectorIsRight
  <2>. DEFINE last == SelectLastInSeq(s, IsCatchAll)
              lest == SelectLastInSeq(t, IsCatchAll)
  <2>1. /\ Cardinality(b.members) >= 2 /\ b.members \subseteq Tags(c) \cap c.seen
        /\ last # 0 /\ s[last].to = Director
        /\ \A x \in b.members : \E i \in 1 .. last : LoopIn(x[2]) \in s[i].from
        /\ Api \in c.ins /\ Rule({Api}, {}, Api) \in ToSet(s)
    BY <1>1 DEF Sound, DirectorIsRight, s
  <2>2. last \in 1 .. n /\ IsCatchAll(s[last]) /\ \A i \in 1 .. n : IsCatchAll(s[i]) => i <= last
    BY <1>1, <2>1, LastIs DEF n
  <2>3. \/ lest = 0 /\ \A i \in 1 .. Len(t) : ~IsCatchAll(t[i])
        \/ lest \in 1 .. Len(t) /\ IsCatchAll(t[lest])
           /\ \A i \in 1 .. Len(t) : IsCatchAll(t[i]) => i <= lest
    BY <1>1, LastIs
  <2>. HIDE DEF last, lest
  <2>4. g[last] \in 1 .. Len(t) /\ IsCatchAll(t[g[last]])
    BY <1>2, <1>4, <2>2
  <2>5. lest \in 1 .. Len(t) /\ IsCatchAll(t[lest]) /\ g[last] <= lest
    BY <2>3, <2>4
  <2>6. PICK k \in 1 .. n : g[k] = lest
    BY <1>2, <2>5
  <2>8. g[last] = lest
    BY <1>2, <2>2, <2>4, <2>5, <2>6, <1>4
  <2>9. t[lest].to = Director
    BY <1>2, <2>1, <2>2, <2>8
  <2>10. ASSUME NEW x \in b.members PROVE \E i \in 1 .. lest : LoopIn(x[2]) \in t[i].from
    <3>1. PICK i \in 1 .. last : LoopIn(x[2]) \in s[i].from
      BY <2>1
    <3>3. g[i] <= lest /\ g[i] \in 1 .. Len(t) /\ t[g[i]].from = s[i].from
      BY <1>2, <2>2, <2>8, <1>1
    <3>. QED  BY <3>1, <3>3, <2>5
  <2>11. Rule({Api}, {}, Api) \in ToSet(t)
    <3>1. PICK i \in 1 .. n : s[i] = Rule({Api}, {}, Api)
      BY <2>1, <1>1 DEF ToSet
    <3>2. Class(s[i]) = "none"
      BY <3>1 DEF Class, Rule
    <3>3. t[g[i]] = Rule({Api}, {}, Api) /\ g[i] \in DOMAIN t
      BY <3>1, <3>2, <1>1, <1>2
    <3>. QED  BY <3>3 DEF ToSet
  <2>. QED  BY <1>1, <1>3, <2>1, <2>5, <2>9, <2>10, <2>11 DEF lest
<1>8. RefersToWhatIsThere(e)
  <2>. SUFFICES ASSUME NEW k \in 1 .. Len(t), IsOurs(t[k])
                PROVE  t[k].to \in Tags(e) \cup {b.tag : b \in e.bal}
    BY <1>1 DEF RefersToWhatIsThere, ToSet
  <2>1. PICK i \in 1 .. n : g[i] = k
    BY <1>2
  <2>2. t[k].from = s[i].from /\ t[k].to = s[i].to
    BY <1>2, <2>1
  <2>3. IsOurs(s[i]) /\ s[i] \in ToSet(s)
    BY <1>1, <2>2 DEF IsOurs, ToSet
  <2>. QED  BY <1>1, <1>3, <2>2, <2>3 DEF Sound, RefersToWhatIsThere, s
<1>9. MembersAreMeant(e)
  BY <1>1, <1>3 DEF Sound, MembersAreMeant
<1>. QED  BY <1>5, <1>6, <1>7, <1>8, <1>9 DEF Sound, e

(* A concatenation, by its parts.                                          *)
LEMMA ConcatIs ==
  ASSUME NEW A, NEW s \in Seq(A), NEW t \in Seq(A)
  PROVE  /\ s \o t \in Seq(A) /\ Len(s) \in Nat /\ Len(t) \in Nat /\ Len(s \o t) = Len(s) + Len(t)
         /\ \A i \in 1 .. Len(s) : (s \o t)[i] = s[i]
         /\ \A i \in 1 .. Len(t) : (s \o t)[Len(s) + i] = t[i]
         /\ \A i \in 1 .. Len(s \o t) :
              i \in 1 .. Len(s) \/ (i - Len(s) \in 1 .. Len(t) /\ Len(s) + (i - Len(s)) = i)
         /\ ToSet(s \o t) = ToSet(s) \cup ToSet(t)
<1>1. /\ s \o t \in Seq(A) /\ Len(s) \in Nat /\ Len(t) \in Nat /\ Len(s \o t) = Len(s) + Len(t)
      /\ \A i \in 1 .. Len(s) : (s \o t)[i] = s[i]
      /\ \A i \in 1 .. Len(t) : (s \o t)[Len(s) + i] = t[i]
  OBVIOUS
<1>2. \A i \in 1 .. Len(s \o t) :
        i \in 1 .. Len(s) \/ (i - Len(s) \in 1 .. Len(t) /\ Len(s) + (i - Len(s)) = i)
  BY <1>1
<1>3. DOMAIN s = 1 .. Len(s) /\ DOMAIN t = 1 .. Len(t) /\ DOMAIN (s \o t) = 1 .. Len(s \o t)
  BY <1>1
<1>4. ToSet(s) \cup ToSet(t) \subseteq ToSet(s \o t)
  <2>1. \A i \in 1 .. Len(s) : i \in 1 .. Len(s \o t)
    BY <1>1
  <2>2. \A i \in 1 .. Len(t) : Len(s) + i \in 1 .. Len(s \o t)
    BY <1>1
  <2>. QED  BY <1>1, <1>3, <2>1, <2>2 DEF ToSet
<1>5. ToSet(s \o t) \subseteq ToSet(s) \cup ToSet(t)
  <2>. SUFFICES ASSUME NEW i \in 1 .. Len(s \o t) PROVE (s \o t)[i] \in ToSet(s) \cup ToSet(t)
    BY <1>3 DEF ToSet
  <2>1. CASE i \in 1 .. Len(s)
    BY <2>1, <1>1, <1>3 DEF ToSet
  <2>2. CASE i - Len(s) \in 1 .. Len(t) /\ Len(s) + (i - Len(s)) = i
    BY <2>2, <1>1, <1>3 DEF ToSet
  <2>. QED  BY <2>1, <2>2, <1>2
<1>. QED  BY <1>1, <1>2, <1>4, <1>5

(* A sequence of two.                                                      *)
LEMMA PairIs ==
  ASSUME NEW A, NEW x \in A, NEW y \in A
  PROVE  /\ <<x, y>> \in Seq(A) /\ Len(<<x, y>>) = 2 /\ <<x, y>>[1] = x /\ <<x, y>>[2] = y
         /\ ToSet(<<x, y>>) = {x, y}
<1>1. DOMAIN <<x, y>> = {1, 2}
  OBVIOUS
<1>. QED  BY <1>1 DEF ToSet

(* A sequence of one.                                                      *)
LEMMA OneIs ==
  ASSUME NEW A, NEW x \in A
  PROVE  <<x>> \in Seq(A) /\ Len(<<x>>) = 1 /\ <<x>>[1] = x /\ ToSet(<<x>>) = {x}
<1>1. DOMAIN <<x>> = {1}
  OBVIOUS
<1>. QED  BY <1>1 DEF ToSet

(* The only rule for everything is the l-th, and leads to to.              *)
CatchAllAt(s, l, to) ==
  /\ l \in 1 .. Len(s) /\ s[l] = Rule({}, {}, to)
  /\ \A i \in 1 .. Len(s) : i # l => ~IsCatchAll(s[i])

(* The rules before the l-th.                                              *)
Ahead(s, l) == {s[i] : i \in 1 .. l - 1}

(* What is there before the l-th.                                          *)
LEMMA AheadHas ==
  ASSUME NEW s, NEW l, NEW i \in 1 .. l - 1
  PROVE  s[i] \in Ahead(s, l)
BY DEF Ahead

(* The rule for everything stays the only one when it is kept.             *)
LEMMA CatchAllKept ==
  ASSUME NEW s \in Seq(RuleType), NEW t \in Seq(RuleType), NEW T, Kept(t, s, T),
         NEW l, NEW to, CatchAllAt(s, l, to), s[l] \in T
  PROVE  \E k : /\ CatchAllAt(t, k, to) /\ (l = Len(s) => k = Len(t))
                /\ Ahead(s, l) \cap T \subseteq Ahead(t, k)
<1>1. PICK h \in [1 .. Len(t) -> 1 .. Len(s)] :
        /\ \A k \in 1 .. Len(t) : s[h[k]] \in T /\ t[k] = s[h[k]]
        /\ \A k, m \in 1 .. Len(t) : k < m => h[k] < h[m]
        /\ \A i \in 1 .. Len(s) : s[i] \in T => \E k \in 1 .. Len(t) : h[k] = i
  BY DEF Kept
<1>2. l \in 1 .. Len(s) /\ s[l] = Rule({}, {}, to) /\ \A i \in 1 .. Len(s) : i # l => ~IsCatchAll(s[i])
  BY DEF CatchAllAt
<1>3. PICK k \in 1 .. Len(t) : h[k] = l
  BY <1>1, <1>2
<1>4. t[k] = Rule({}, {}, to)
  BY <1>1, <1>2, <1>3
<1>5. ASSUME NEW i \in 1 .. Len(t), i # k PROVE ~IsCatchAll(t[i])
  <2>1. h[i] # l
    <3>1. i < k \/ k < i
      BY <1>5
    <3>. QED  BY SMTT(30), <3>1, <1>1, <1>3
  <2>. QED  BY <2>1, <1>2, <1>1
<1>6. ASSUME l = Len(s) PROVE k = Len(t)
  BY <1>1, <1>3, <1>6
<1>7. ASSUME NEW i \in 1 .. l - 1, s[i] \in T PROVE s[i] \in Ahead(t, k)
  <2>1. i \in 1 .. Len(s)
    BY <1>2
  <2>2. PICK j \in 1 .. Len(t) : h[j] = i
    BY <1>1, <1>7, <2>1
  <2>3. j # k /\ ~(k < j)
    BY <2>2, <1>1, <1>2, <1>3
  <2>4. j \in 1 .. k - 1 /\ t[j] = s[i]
    BY <2>2, <2>3, <1>1
  <2>. QED  BY <2>4 DEF Ahead
<1>. QED  BY ZenonT(40), <1>4, <1>5, <1>6, <1>7 DEF CatchAllAt, Ahead

(* The rule for everything stays the only one behind new rules.            *)
LEMMA CatchAllAfter ==
  ASSUME NEW s \in Seq(RuleType), NEW p \in Seq(RuleType), NEW l, NEW to, CatchAllAt(s, l, to),
         \A i \in 1 .. Len(p) : ~IsCatchAll(p[i])
  PROVE  /\ CatchAllAt(p \o s, Len(p) + l, to)
         /\ l = Len(s) => Len(p) + l = Len(p \o s)
         /\ Ahead(s, l) \cup ToSet(p) \subseteq Ahead(p \o s, Len(p) + l)
<1>1. /\ Len(p) \in Nat /\ Len(s) \in Nat /\ Len(p \o s) = Len(p) + Len(s)
      /\ \A i \in 1 .. Len(p) : (p \o s)[i] = p[i]
      /\ \A i \in 1 .. Len(s) : (p \o s)[Len(p) + i] = s[i]
  OBVIOUS
<1>2. l \in 1 .. Len(s) /\ s[l] = Rule({}, {}, to) /\ \A i \in 1 .. Len(s) : i # l => ~IsCatchAll(s[i])
  BY DEF CatchAllAt
<1>. DEFINE t == p \o s
<1>. HIDE DEF t
<1>3. ASSUME NEW i \in 1 .. Len(t), i # Len(p) + l PROVE ~IsCatchAll(t[i])
  <2>1. CASE i \in 1 .. Len(p)
    BY <2>1, <1>1 DEF t
  <2>2. CASE i \notin 1 .. Len(p)
    <3>1. i - Len(p) \in 1 .. Len(s) /\ i - Len(p) # l /\ Len(p) + (i - Len(p)) = i
      BY <2>2, <1>1, <1>2, <1>3 DEF t
    <3>. QED  BY <3>1, <1>2, <1>1 DEF t
  <2>. QED  BY <2>1, <2>2
<1>5. CatchAllAt(t, Len(p) + l, to)
  BY <1>2, <1>3, <1>1 DEF CatchAllAt, t
<1>. DEFINE m == Len(p) + l
<1>m. m \in Nat /\ m = Len(p) + l
  BY <1>1, <1>2
<1>. HIDE DEF m
<1>6. ASSUME NEW i \in 1 .. l - 1 PROVE s[i] \in Ahead(t, m)
  <2>1. Len(p) + i \in 1 .. m - 1 /\ i \in 1 .. Len(s)
    BY <1>1, <1>2, <1>m
  <2>. QED  BY <2>1, <1>1, AheadHas DEF t
<1>7. ASSUME NEW i \in 1 .. Len(p) PROVE p[i] \in Ahead(t, m)
  <2>1. i \in 1 .. m - 1
    BY <1>1, <1>2, <1>m
  <2>. QED  BY <1>1, <2>1, AheadHas DEF t
<1>8. DOMAIN p = 1 .. Len(p)
  OBVIOUS
<1>9. Ahead(s, l) \cup ToSet(p) \subseteq Ahead(t, Len(p) + l)
  BY <1>6, <1>7, <1>8, <1>m DEF Ahead, ToSet
<1>. QED  BY <1>1, <1>5, <1>9 DEF t

(* Rules set before the last one, which is for everything.                 *)
LEMMA CatchAllInserted ==
  ASSUME NEW s \in Seq(RuleType), NEW p \in Seq(RuleType), NEW l, NEW to, CatchAllAt(s, l, to),
         \A i \in 1 .. Len(p) : ~IsCatchAll(p[i]),
         NEW m \in 1 .. l
  PROVE  LET t == SubSeq(s, 1, m - 1) \o p \o SubSeq(s, m, Len(s)) IN
           /\ CatchAllAt(t, Len(p) + l, to)
           /\ l = Len(s) => Len(p) + l = Len(t)
           /\ Ahead(s, l) \cup ToSet(p) \subseteq Ahead(t, Len(p) + l)
<1>. DEFINE a == SubSeq(s, 1, m - 1)
            z == SubSeq(s, m, Len(s))
<1>1. l \in 1 .. Len(s) /\ s[l] = Rule({}, {}, to) /\ \A i \in 1 .. Len(s) : i # l => ~IsCatchAll(s[i])
  BY DEF CatchAllAt
<1>2. /\ a \in Seq(RuleType) /\ Len(a) = m - 1 /\ Len(s) \in Nat /\ m \in Nat
      /\ \A i \in 1 .. m - 1 : a[i] = s[i]
  BY <1>1
<1>3. /\ z \in Seq(RuleType) /\ Len(z) = Len(s) - m + 1
      /\ \A i \in 1 .. Len(z) : z[i] = s[i + m - 1]
  BY <1>1
<1>. HIDE DEF a, z
<1>4. CatchAllAt(z, l - m + 1, to)
  <2>1. l - m + 1 \in 1 .. Len(z) /\ z[l - m + 1] = s[l]
    BY SMTT(30), <1>1, <1>2, <1>3
  <2>2. ASSUME NEW i \in 1 .. Len(z), i # l - m + 1 PROVE ~IsCatchAll(z[i])
    BY <1>3, <2>2, <1>1, <1>2
  <2>. QED  BY <2>1, <2>2, <1>1 DEF CatchAllAt
<1>. DEFINE ap == a \o p
<1>5. /\ ap \in Seq(RuleType) /\ Len(ap) = m - 1 + Len(p)
      /\ \A i \in 1 .. m - 1 : ap[i] = a[i]
      /\ \A i \in 1 .. Len(ap) : i \notin 1 .. m - 1 => i - (m - 1) \in 1 .. Len(p) /\ ap[i] = p[i - (m - 1)]
  <2>1. /\ ap \in Seq(RuleType) /\ Len(ap) = m - 1 + Len(p) /\ Len(p) \in Nat
        /\ \A i \in 1 .. m - 1 : ap[i] = a[i]
        /\ \A i \in 1 .. Len(ap) : i \notin 1 .. m - 1 => ap[i] = p[i - (m - 1)]
    <3>1. a \in Seq(RuleType) /\ p \in Seq(RuleType) /\ Len(a) = m - 1
      BY <1>2
    <3>. HIDE DEF a
    <3>. QED  BY SMTT(30), <3>1
  <2>. HIDE DEF ap
  <2>. QED  BY <2>1, <1>2
<1>6. ASSUME NEW i \in 1 .. Len(ap) PROVE ~IsCatchAll(ap[i])
  BY <1>1, <1>2, <1>5
<1>. HIDE DEF ap
<1>7. /\ CatchAllAt(ap \o z, Len(ap) + (l - m + 1), to)
      /\ l - m + 1 = Len(z) => Len(ap) + (l - m + 1) = Len(ap \o z)
      /\ Ahead(z, l - m + 1) \cup ToSet(ap) \subseteq Ahead(ap \o z, Len(ap) + (l - m + 1))
  BY <1>3, <1>4, <1>5, <1>6, CatchAllAfter
<1>8. Len(ap) + (l - m + 1) = Len(p) + l
  BY <1>1, <1>2, <1>5
<1>9. l = Len(s) => l - m + 1 = Len(z)
  BY <1>1, <1>2, <1>3
<1>10. ASSUME NEW i \in 1 .. l - 1 PROVE s[i] \in Ahead(z, l - m + 1) \cup ToSet(ap)
  <2>1. CASE i \in 1 .. m - 1
    <3>1. ap[i] = s[i] /\ i \in DOMAIN ap
      BY <2>1, <1>2, <1>5
    <3>. QED  BY <3>1 DEF ToSet
  <2>2. CASE i \notin 1 .. m - 1
    <3>1. i - m + 1 \in 1 .. Len(z) /\ i - m + 1 \in 1 .. (l - m + 1) - 1 /\ i - m + 1 + m - 1 = i
      BY <2>2, <1>1, <1>2, <1>3
    <3>. QED  BY <3>1, <1>3 DEF Ahead
  <2>. QED  BY <2>1, <2>2
<1>11. ASSUME NEW i \in DOMAIN p PROVE p[i] \in ToSet(ap)
  <2>1. i + (m - 1) \in 1 .. Len(ap) /\ i + (m - 1) \notin 1 .. m - 1 /\ i + (m - 1) - (m - 1) = i
    BY <1>2, <1>5
  <2>2. ap[i + (m - 1)] = p[i] /\ i + (m - 1) \in DOMAIN ap
    BY <2>1, <1>5
  <2>. QED  BY <2>2 DEF ToSet
<1>12. Ahead(s, l) \cup ToSet(p) \subseteq Ahead(ap \o z, Len(ap) + (l - m + 1))
  BY <1>10, <1>11, <1>7 DEF Ahead, ToSet
<1>. QED  BY <1>7, <1>8, <1>9, <1>12 DEF ap, a, z

(* The rule for everything stays the only one when neighbours are joined.  *)
LEMMA CatchAllJoined ==
  ASSUME NEW s \in Seq(RuleType), NEW t \in Seq(RuleType), NEW g, Joined(t, s, Len(s), g),
         NEW l, NEW to, CatchAllAt(s, l, to)
  PROVE  CatchAllAt(t, g[l], to) /\ (l = Len(s) => g[l] = Len(t))
<1>1. /\ g \in [1 .. Len(s) -> 1 .. Len(t)]
      /\ \A i, j \in 1 .. Len(s) : i <= j => g[i] <= g[j]
      /\ \A k \in 1 .. Len(t) : \E i \in 1 .. Len(s) : g[i] = k
      /\ \A i \in 1 .. Len(s) : /\ t[g[i]].from = s[i].from /\ t[g[i]].to = s[i].to
                                /\ s[i].match \subseteq t[g[i]].match
                                /\ Class(s[i]) = "none" => t[g[i]] = s[i]
  BY DEF Joined
<1>2. l \in 1 .. Len(s) /\ s[l] = Rule({}, {}, to) /\ \A i \in 1 .. Len(s) : i # l => ~IsCatchAll(s[i])
  BY DEF CatchAllAt
<1>3. Class(s[l]) = "none"
  BY <1>2 DEF Class, Rule
<1>4. g[l] \in 1 .. Len(t) /\ t[g[l]] = Rule({}, {}, to)
  BY <1>1, <1>2, <1>3
<1>5. ASSUME NEW k \in 1 .. Len(t), k # g[l] PROVE ~IsCatchAll(t[k])
  <2>1. PICK i \in 1 .. Len(s) : g[i] = k
    BY <1>1
  <2>. QED  BY <1>2, <1>5, <2>1, <1>1 DEF IsCatchAll
<1>6. ASSUME l = Len(s) PROVE g[l] = Len(t)
  <2>1. Len(t) \in 1 .. Len(t)
    BY <1>4
  <2>2. PICK i \in 1 .. Len(s) : g[i] = Len(t)
    BY <1>1, <2>1
  <2>. QED  BY <1>4, <2>2, <1>1, <1>2, <1>6
<1>. QED  BY <1>4, <1>5, <1>6 DEF CatchAllAt

-----------------------------------------------------------------------------
(* The plain file, and the layers that rewrite it.                         *)

(* What a file built from b may say: who is for Russian destinations,      *)
(* foreign ones and the owner's own.                                       *)
OwnTo(b) ==
  CASE b.own = "direct_ru" -> Direct [] b.own = "block" -> Block [] OTHER -> Final(b)

Russian == {"ru", "geoip", "dns-ru"}
Froms   == {{}, {Api}} \cup {{In(s)} : s \in Slots} \cup {{LoopIn(s)} : s \in Slots}

Good(b) ==
  {r \in RuleType :
     /\ r.match \cap Russian # {} => r.to = Direct
     /\ r.match = {} \/ "dns-world" \in r.match => r.to # Direct
     /\ "dns-world" \in r.match /\ r.from = {} => Foreign(r.to)
     /\ r.from \in Froms
     /\ "own" \in r.match => IF r.from = {} THEN r.to = OwnTo(b) ELSE Foreign(OwnTo(b))}

(* The rules for every entrance.                                           *)
PlainRules(b) == {r \in Good(b) : r.from = {}}

(* All members are nodes; the nodes that have an outbound.                 *)
Nodal(S)      == S \subseteq {Node(n) : n \in Nodes}
NodesThere(c) == {n \in Nodes : Node(n) \in RealTags(c)}

(* The file has direct and block, and the nodes of b.  Behind the balancer *)
(* of all nodes there is something else than direct to fall back on.       *)
Furnished(c, b) ==
  /\ c \in Files /\ In(0) \in c.ins
  /\ Out(Direct, TRUE) \in ToSet(c.outs) /\ Out(Block, FALSE) \in ToSet(c.outs)
  /\ NodesThere(c) = Real(b)
  /\ \A x \in c.bal : x.tag = Upstream =>
       Nodal(x.members) /\ c.outs # <<>> /\ c.outs[1].tag[1] \in {"upstream", "to-de"}

(* What the assumption says of the constants.                              *)
LEMMA Constants ==
  /\ Nodes = ToSet(Order) /\ Order \in Seq(Nodes) /\ Slots \subseteq Nat \ {0}
  /\ InOrder \in Seq(Slots) /\ Slots = ToSet(InOrder)
BY RouterConfigAssumption DEF Nodes, Slots, ToSet

(* There are finitely many nodes.                                          *)
LEMMA NodesFinite == IsFiniteSet(Nodes)
<1>1. Len(Order) \in Nat /\ DOMAIN Order = 1 .. Len(Order)
  BY Constants
<1>4. Order \in Surjection(1 .. Len(Order), Nodes)
  BY <1>1, Constants DEF Surjection, Nodes, ToSet
<1>. QED  BY <1>4, FS_Surjection, <1>1, FS_Interval

(* Where the last rule leads: the only node, the balancer of all, or a     *)
(* block.                                                                  *)
LEMMA FinalIs ==
  ASSUME NEW d \in Database
  PROVE  /\ Real(d) \subseteq Nodes
         /\ Real(d) = {} => Final(d) = Block
         /\ Real(d) # {} => Final(d) = Upstream \/ \E n \in Real(d) : Final(d) = Node(n)
         /\ \A n, m \in Real(d) : n # m => Final(d) = Upstream
<1>1. Real(d) \subseteq Nodes /\ IsFiniteSet(Real(d))
  BY NodesFinite, FS_Subset DEF Real
<1>2. ASSUME Cardinality(Real(d)) = 1, NEW n \in Real(d), NEW m \in Real(d) PROVE n = m
  <2>1. PICK x : Real(d) = {x}
    BY <1>1, <1>2, FS_Singleton
  <2>. QED  BY <2>1
<1>3. CASE Real(d) = {}
  BY <1>3, FS_EmptySet, <1>1 DEF Final
<1>4. CASE Real(d) # {} /\ Cardinality(Real(d)) = 1
  BY <1>4, <1>1, <1>2 DEF Final
<1>5. CASE Real(d) # {} /\ Cardinality(Real(d)) # 1
  BY <1>1, <1>5 DEF Final
<1>. QED  BY <1>3, <1>4, <1>5

(* The last rule leads neither directly out nor to the director.           *)
LEMMA FinalPlace ==
  ASSUME NEW d \in Database
  PROVE  /\ Final(d) \in Places /\ Final(d) \notin {Direct, Director}
         /\ Real(d) # {} => Foreign(Final(d))
BY FinalIs DEF Places, Block, Upstream, Node, Direct, Director, Foreign, IsNode

(* The targets and the entrances have their types.                         *)
LEMMA PlacesThere ==
  /\ {Direct, Block, ToDe, Upstream, Director, Api} \subseteq Places
  /\ \A n \in Nodes : Node(n) \in Places
  /\ \A s \in Slots : Country(s) \in Places /\ Loop(s) \in Places
  /\ Api \in Doors /\ In(0) \in Doors /\ \A s \in Slots : In(s) \in Doors /\ LoopIn(s) \in Doors
  /\ {} \in Froms
  /\ Leads \subseteq Places /\ {Direct, Block, ToDe} \subseteq Leads
  /\ \A n \in Nodes : Node(n) \in Leads
  /\ \A s \in Slots : Loop(s) \in Leads
BY Constants DEF Places, Leads, Doors, Direct, Block, ToDe, Upstream, Director, Api, Node, Country, Loop,
   In, LoopIn, Froms

(* What the layers write.                                                  *)
LEMMA LayersRules ==
  ASSUME NEW b \in Database
  PROVE  /\ GovRule \in PlainRules(b)
         /\ Rule({}, {"ru"}, Direct) \in PlainRules(b) /\ Rule({}, {"geoip"}, Direct) \in PlainRules(b)
         /\ Rule({}, {"dns-ru"}, Direct) \in PlainRules(b)
         /\ \A to \in Places : Foreign(to) => Rule({}, {"dns-world"}, to) \in PlainRules(b)
         /\ Rule({}, {"own"}, OwnTo(b)) \in PlainRules(b)
         /\ Rule({}, {}, Final(b)) \in PlainRules(b)
<1>1. OwnTo(b) \in Places
  BY FinalPlace, PlacesThere DEF OwnTo
<1>2. ASSUME NEW to \in Places, Foreign(to) PROVE to # Direct
  BY <1>2 DEF Foreign, IsNode, Direct, ToDe, Upstream
<1>. QED  BY <1>1, <1>2, FinalPlace, PlacesThere
     DEF GovRule, Rule, PlainRules, Good, RuleType, Words, Russian

(* A sequence over a set is one over a larger set.                         *)
LEMMA SeqWider ==
  ASSUME NEW A, NEW B, A \subseteq B, NEW s \in Seq(A)
  PROVE  s \in Seq(B)
OBVIOUS

(* Good rules are rules.                                                   *)
LEMMA PlainTyped ==
  ASSUME NEW b
  PROVE  PlainRules(b) \subseteq Good(b) /\ Good(b) \subseteq RuleType
BY DEF PlainRules, Good

(* New rules leave the rest of the file as it was.                         *)
LEMMA FurnishedRules ==
  ASSUME NEW c, NEW b, Furnished(c, b), NEW t \in Seq(RuleType)
  PROVE  /\ Furnished([c EXCEPT !.rules = t], b)
         /\ [c EXCEPT !.rules = t].rules = t /\ [c EXCEPT !.rules = t].ins = c.ins
         /\ [c EXCEPT !.rules = t].bal = c.bal /\ [c EXCEPT !.rules = t].outs = c.outs
         /\ [c EXCEPT !.rules = t].seen = c.seen
<1>. DEFINE e == [c EXCEPT !.rules = t]
<1>2. /\ e \in Files /\ e.rules = t /\ e.ins = c.ins /\ e.bal = c.bal /\ e.outs = c.outs
      /\ e.seen = c.seen
  BY DEF Files, Furnished
<1>. HIDE DEF e
<1>. QED  BY <1>2 DEF e, Furnished, NodesThere, RealTags

(* A file on its way whose only rule for everything is at l; the rules of  *)
(* S come before it.                                                       *)
PlainAt(c, b, l, S) ==
  /\ Furnished(c, b) /\ c.ins = {In(0)} /\ c.rules \in Seq(PlainRules(b))
  /\ \A x \in c.bal : x.tag = Upstream /\ ~x.closed
  /\ CatchAllAt(c.rules, l, Final(b)) /\ (Real(b) # {} => l = Len(c.rules))
  /\ S \subseteq Ahead(c.rules, l)

(* A layer that writes good rules around the last one leaves a plain file. *)
LEMMA PlainRewritten ==
  ASSUME NEW c, NEW b, NEW l, NEW S, PlainAt(c, b, l, S),
         NEW t \in Seq(PlainRules(b)), NEW k, NEW T, CatchAllAt(t, k, Final(b)),
         Real(b) # {} => k = Len(t), T \subseteq Ahead(t, k)
  PROVE  PlainAt([c EXCEPT !.rules = t], b, k, T)
<1>1. t \in Seq(RuleType)
  BY PlainTyped, SeqWider
<1>. QED  BY <1>1, FurnishedRules DEF PlainAt

(* A layer that drops rules keeps the last one.                            *)
LEMMA KeptRules ==
  ASSUME NEW b, NEW s \in Seq(PlainRules(b)), NEW l, NEW to, CatchAllAt(s, l, to),
         NEW T, Rule({}, {}, to) \in T, NEW t \in Seq(PlainRules(b)), Kept(t, s, T)
  PROVE  \E k : /\ CatchAllAt(t, k, to) /\ (l = Len(s) => k = Len(t))
                /\ Ahead(s, l) \cap T \subseteq Ahead(t, k)
BY CatchAllKept, PlainTyped, SeqWider DEF CatchAllAt

(* What is put before the final rule.                                      *)
LEMMA BeforeFinalPuts ==
  ASSUME NEW b \in Database, NEW s \in Seq(PlainRules(b)), NEW l, CatchAllAt(s, l, Final(b)),
         Real(b) # {} => l = Len(s),
         NEW new \in Seq(PlainRules(b)), \A i \in 1 .. Len(new) : ~IsCatchAll(new[i])
  PROVE  /\ BeforeFinal(s, new) \in Seq(PlainRules(b))
         /\ \E k : /\ CatchAllAt(BeforeFinal(s, new), k, Final(b))
                   /\ Real(b) # {} => k = Len(BeforeFinal(s, new)) /\ ToSet(new) \subseteq Ahead(BeforeFinal(s, new), k)
                   /\ Ahead(s, l) \subseteq Ahead(BeforeFinal(s, new), k)
<1>. DEFINE I == {i \in 1 .. Len(s) : IsFinal(s[i])}
            at == SelectInSeq(s, IsFinal)
            i0 == IF at = 0 THEN Len(s) + 1 ELSE at
            t == SubSeq(s, 1, i0 - 1) \o new \o SubSeq(s, i0, Len(s))
<1>0. s \in Seq(RuleType) /\ new \in Seq(RuleType) /\ Len(s) \in Nat
  BY PlainTyped, SeqWider
<1>1. BeforeFinal(s, new) = t
  BY DEF BeforeFinal
<1>2. l \in 1 .. Len(s) /\ s[l] = Rule({}, {}, Final(b)) /\ \A i \in 1 .. Len(s) : i # l => ~IsCatchAll(s[i])
  BY DEF CatchAllAt
<1>4. at = IF I # {} THEN Min(I) ELSE 0
  BY DEF SelectInSeq
<1>5. Real(b) # {} => l \in I
  BY <1>2, FinalPlace DEF IsFinal, IsCatchAll, Rule
<1>6. CASE I # {}
  <2>1. I = {l}
    BY <1>6, <1>2 DEF IsFinal
  <2>3. at = l /\ l # 0
    <3>1. at = Min(I) /\ l # 0
      BY <1>2, <1>4, <1>6, <1>0
    <3>. HIDE DEF at, I
    <3>. QED  BY <3>1, <2>1, <1>2 DEF Min
  <2>. HIDE DEF at, I
  <2>4. t = SubSeq(s, 1, l - 1) \o new \o SubSeq(s, l, Len(s))
    BY <2>3
  <2>. HIDE DEF t
  <2>5. /\ CatchAllAt(t, Len(new) + l, Final(b))
        /\ l = Len(s) => Len(new) + l = Len(t)
        /\ Ahead(s, l) \cup ToSet(new) \subseteq Ahead(t, Len(new) + l)
    <3>1. l \in 1 .. l
      BY <1>2
    <3>2. LET u == SubSeq(s, 1, l - 1) \o new \o SubSeq(s, l, Len(s)) IN
            /\ CatchAllAt(u, Len(new) + l, Final(b))
            /\ l = Len(s) => Len(new) + l = Len(u)
            /\ Ahead(s, l) \cup ToSet(new) \subseteq Ahead(u, Len(new) + l)
      BY <1>0, <3>1, CatchAllInserted
    <3>. QED  BY <2>4, <3>2
  <2>6. t \in Seq(PlainRules(b))
    BY <2>4, <1>2
  <2>. QED  BY <1>1, <2>5, <2>6
<1>7. CASE I = {}
  <2>1. at = 0 /\ Real(b) = {}
    BY <1>4, <1>5, <1>7
  <2>. HIDE DEF at, I
  <2>2. t = s \o new
    <3>1. t = SubSeq(s, 1, Len(s) + 1 - 1) \o new \o SubSeq(s, Len(s) + 1, Len(s))
      BY <2>1
    <3>2. SubSeq(s, 1, Len(s) + 1 - 1) = s /\ SubSeq(s, Len(s) + 1, Len(s)) = <<>>
      BY <1>0
    <3>3. (s \o new) \o <<>> = s \o new
      BY <1>0
    <3>. QED  BY <3>1, <3>2, <3>3
  <2>. HIDE DEF t
  <2>3. /\ t \in Seq(PlainRules(b)) /\ Len(t) = Len(s) + Len(new) /\ Len(new) \in Nat
        /\ \A i \in 1 .. Len(s) : t[i] = s[i]
        /\ \A i \in 1 .. Len(new) : t[Len(s) + i] = new[i]
    BY <2>2
  <2>4. ASSUME NEW i \in 1 .. Len(t), i # l PROVE ~IsCatchAll(t[i])
    <3>1. CASE i \in 1 .. Len(s)
      BY <3>1, <2>3, <2>4, <1>2
    <3>2. CASE i \notin 1 .. Len(s)
      <4>1. i - Len(s) \in 1 .. Len(new) /\ Len(s) + (i - Len(s)) = i
        BY <3>2, <2>3, <1>0
      <4>. QED  BY <4>1, <2>3
    <3>. QED  BY <3>1, <3>2
  <2>6. CatchAllAt(t, l, Final(b))
    BY <1>2, <2>4, <1>0, <2>3 DEF CatchAllAt
  <2>7. Ahead(s, l) \subseteq Ahead(t, l)
    <3>1. \A i \in 1 .. l - 1 : i \in 1 .. Len(s)
      BY <1>0, <1>2
    <3>. QED  BY <3>1, <2>3 DEF Ahead
  <2>. QED  BY <1>1, <2>1, <2>3, <2>6, <2>7
<1>. QED  BY <1>6, <1>7

(* The owner's rule, when there is one; the rules for Russia.              *)
OwnRules(b) == IF b.own = "none" THEN {} ELSE {Rule({}, {"own"}, OwnTo(b))}
RuSet       == {Rule({}, {"ru"}, Direct), Rule({}, {"geoip"}, Direct)}

(* The tag of an outbound.                                                 *)
LEMMA OutTag == \A t, r : Out(t, r).tag = t
  BY Zenon DEF Out

(* The outbounds that the renderer writes.                                 *)
LEMMA RenderOuts ==
  ASSUME NEW d \in Database
  PROVE  LET outs == Render(d).outs IN
         /\ outs \in Seq(OutType) /\ Out(Direct, TRUE) \in ToSet(outs) /\ Out(Block, FALSE) \in ToSet(outs)
         /\ {n \in Nodes : Out(Node(n), TRUE) \in ToSet(outs)} = Real(d)
         /\ Real(d) # {} => outs # <<>> /\ outs[1].tag[1] = "upstream"
         /\ \A o \in ToSet(outs) : o.tag[1] \in {"upstream", "direct-ru", "block"}
<1>. DEFINE T == {n \in Nodes : d.node[n] # "off"}
            built == Keep(Order, LAMBDA n : d.node[n] # "off")
            first == IF Real(d) = {} THEN <<>>
                     ELSE [i \in DOMAIN built |-> Out(Node(built[i]), built[i] \in Real(d))]
            fixed == <<Out(Direct, TRUE), Out(Block, FALSE)>>
            outs == first \o fixed
<1>1. Render(d).outs = outs
  BY DEF Render
<1>2. Order \in Seq(Nodes) /\ Nodes = ToSet(Order)
  BY Constants
<1>4. built \in Seq(Nodes) /\ Kept(built, Order, T)
  BY <1>2, KeepKeeps DEF Keep
<1>5. Real(d) \subseteq T
  BY DEF Real
<1>6. \A n \in Real(d) : \E i \in 1 .. Len(built) : built[i] = n
  <2>. TAKE n \in Real(d)
  <2>1. PICK j \in 1 .. Len(Order) : Order[j] = n
    BY <1>2, <1>5 DEF ToSet
  <2>2. Order[j] \in T
    BY <1>5, <2>1
  <2>. QED  BY ZenonT(40), <2>1, <2>2, <1>4 DEF Kept
<1>. HIDE DEF built
<1>7. /\ first \in Seq(OutType)
      /\ \A i \in 1 .. Len(first) : \E n \in Nodes : first[i] = Out(Node(n), n \in Real(d))
      /\ \A n \in Real(d) : \E i \in 1 .. Len(first) : first[i] = Out(Node(n), n \in Real(d))
  <2>1. CASE Real(d) = {}
    BY <2>1
  <2>2. CASE Real(d) # {}
    <3>1. first = [i \in 1 .. Len(built) |-> Out(Node(built[i]), built[i] \in Real(d))]
      BY <1>4, <2>2
    <3>3. first \in Seq(OutType) /\ Len(first) = Len(built)
      <4>. DEFINE f(i) == Out(Node(built[i]), built[i] \in Real(d))
      <4>. HIDE DEF f
      <4>. HIDE DEF first
      <4>. QED  BY <1>4, <3>1, PlacesThere DEF f, Out, OutType
    <3>. HIDE DEF first
    <3>. QED  BY <3>3, <1>6, <3>1, <1>4
  <2>. QED  BY <2>1, <2>2
<1>8. fixed \in Seq(OutType) /\ Len(fixed) = 2 /\ fixed[1] = Out(Direct, TRUE) /\ fixed[2] = Out(Block, FALSE)
  BY PlacesThere DEF Out, OutType
<1>. HIDE DEF first, fixed
<1>9. /\ outs \in Seq(OutType) /\ Len(outs) = Len(first) + 2 /\ Len(first) \in Nat
      /\ \A i \in 1 .. Len(first) : outs[i] = first[i]
      /\ outs[Len(first) + 1] = fixed[1] /\ outs[Len(first) + 2] = fixed[2]
  <2>0. Len(fixed) = 2
    BY <1>8
  <2>2. /\ outs \in Seq(OutType) /\ Len(outs) = Len(first) + Len(fixed) /\ Len(first) \in Nat
        /\ \A i \in 1 .. Len(first) : outs[i] = first[i]
        /\ \A i \in 1 .. Len(fixed) : outs[Len(first) + i] = fixed[i]
    <3>1. first \in Seq(OutType) /\ fixed \in Seq(OutType)
      BY <1>7, <1>8
    <3>. QED  BY <3>1, ConcatIs
  <2>. HIDE DEF outs
  <2>. QED  BY <2>0, <2>2
<1>. HIDE DEF outs
<1>10. \A i \in DOMAIN outs : i \in 1 .. Len(first) \/ i = Len(first) + 1 \/ i = Len(first) + 2
  BY <1>9
<1>11. \A n \in Nodes : Out(Node(n), TRUE) \in ToSet(outs) <=> n \in Real(d)
  <2>. TAKE n \in Nodes
  <2>1. ASSUME Out(Node(n), TRUE) \in ToSet(outs) PROVE n \in Real(d)
    <3>1. PICK i \in DOMAIN outs : outs[i] = Out(Node(n), TRUE)
      BY <2>1 DEF ToSet
    <3>2. i \in 1 .. Len(first)
      BY <3>1, <1>8, <1>9, <1>10 DEF Out, Node, Direct, Block
    <3>3. PICK m \in Nodes : first[i] = Out(Node(m), m \in Real(d))
      BY <3>2, <1>7
    <3>4. Out(Node(n), TRUE) = Out(Node(m), m \in Real(d))
      BY <3>1, <3>2, <3>3, <1>9
    <3>5. Node(n) = Node(m) /\ (m \in Real(d)) = TRUE
      BY <3>4, Zenon DEF Out
    <3>. QED  BY <3>5 DEF Node
  <2>2. ASSUME n \in Real(d) PROVE Out(Node(n), TRUE) \in ToSet(outs)
    <3>1. PICK i \in 1 .. Len(first) : first[i] = Out(Node(n), n \in Real(d))
      BY <2>2, <1>7
    <3>2. i \in DOMAIN outs /\ outs[i] = Out(Node(n), n \in Real(d))
      BY <3>1, <1>9
    <3>3. (n \in Real(d)) = TRUE
      BY <2>2
    <3>. QED  BY <3>2, <3>3, Zenon DEF ToSet
  <2>. QED  BY <2>1, <2>2
<1>12. Out(Direct, TRUE) \in ToSet(outs) /\ Out(Block, FALSE) \in ToSet(outs)
  <2>1. Len(first) + 1 \in DOMAIN outs /\ Len(first) + 2 \in DOMAIN outs
    BY <1>9
  <2>. QED  BY <2>1, <1>8, <1>9 DEF ToSet
<1>13. ASSUME Real(d) # {} PROVE outs # <<>> /\ outs[1].tag[1] = "upstream"
  <2>1. 1 \in 1 .. Len(first)
    BY <1>7, <1>9, <1>13
  <2>2. PICK n \in Nodes : first[1] = Out(Node(n), n \in Real(d))
    BY <2>1, <1>7
  <2>3. outs[1] = first[1]
    BY <2>1, <1>9
  <2>4. outs[1].tag = Node(n)
    BY <2>2, <2>3, OutTag, Zenon
  <2>. QED  BY <2>1, <2>4, <1>9 DEF Node
<1>14. {n \in Nodes : Out(Node(n), TRUE) \in ToSet(outs)} = Real(d)
  BY <1>11, FinalIs
<1>15. ASSUME NEW o \in ToSet(outs) PROVE o.tag[1] \in {"upstream", "direct-ru", "block"}
  <2>1. PICK i \in DOMAIN outs : outs[i] = o
    BY DEF ToSet
  <2>2. o = Out(Direct, TRUE) \/ o = Out(Block, FALSE) \/ \E n \in Nodes : o = Out(Node(n), n \in Real(d))
    BY <2>1, <1>7, <1>8, <1>9, <1>10
  <2>3. o.tag = Direct \/ o.tag = Block \/ \E n \in Nodes : o.tag = Node(n)
    <3>1. CASE o = Out(Direct, TRUE) \/ o = Out(Block, FALSE)
      BY <3>1, OutTag
    <3>2. CASE \E n \in Nodes : o = Out(Node(n), n \in Real(d))
      BY <3>2, OutTag, Zenon
    <3>. QED  BY <2>2, <3>1, <3>2
  <2>. QED  BY <2>3 DEF Direct, Block, Node
<1>. QED  BY <1>1, <1>9, <1>12, <1>13, <1>14, <1>15

(* A tag is real when the outbound that has it is.                         *)
LEMMA RealTagged ==
  ASSUME NEW c, c.outs \in Seq(OutType), NEW tag
  PROVE  tag \in RealTags(c) <=> Out(tag, TRUE) \in ToSet(c.outs)
<1>1. ToSet(c.outs) \subseteq OutType
  BY DEF ToSet
<1>2. \A o \in OutType : o.real <=> o = Out(o.tag, TRUE)
  BY DEF OutType, Out
<1>3. \A o \in OutType : o = Out(tag, TRUE) => o.tag = tag
  BY DEF OutType, Out
<1>. QED  BY <1>1, <1>2, <1>3 DEF RealTags

(* The rules for Russia are good and not for everything.                   *)
LEMMA RuRulesIs ==
  ASSUME NEW b \in Database
  PROVE  /\ RuRules \in Seq(PlainRules(b)) /\ ToSet(RuRules) = RuSet
         /\ \A i \in 1 .. Len(RuRules) : RuRules[i].match # {} /\ ~IsCatchAll(RuRules[i])
<1>. DEFINE x == Rule({}, {"ru"}, Direct)
            y == Rule({}, {"geoip"}, Direct)
<1>1. x \in PlainRules(b) /\ y \in PlainRules(b) /\ x.match # {} /\ y.match # {}
  BY LayersRules DEF Rule
<1>2. RuRules = <<x, y>> /\ RuSet = {x, y}
  BY DEF RuRules, RuSet
<1>. HIDE DEF x, y
<1>4. \A i \in 1 .. 2 : i = 1 \/ i = 2
  OBVIOUS
<1>. QED  BY <1>1, <1>2, <1>4, PairIs DEF IsCatchAll

(* The renderer writes a plain file with the owner's rule.                 *)
LEMMA RenderPlain ==
  ASSUME NEW d \in Database
  PROVE  \E l : PlainAt(Render(d), d, l, OwnRules(d))
<1>. DEFINE c == Render(d)
            p == Customs(d) \o (IF d.geoip THEN RuRules ELSE <<>>)
            last == Rule({}, {}, Final(d))
            real == IF Final(d) = Upstream THEN {Node(n) : n \in Real(d)} ELSE {}
            bal == IF real = {} THEN {} ELSE {[tag |-> Upstream, members |-> real, closed |-> FALSE]}
<1>1. /\ c.ins = {In(0)} /\ c.rules = p \o <<last>> /\ c.bal = bal /\ c.seen = real
      /\ c = [ins |-> c.ins, outs |-> c.outs, rules |-> c.rules, bal |-> c.bal, seen |-> c.seen]
  BY DEF Render
<1>2. /\ c.outs \in Seq(OutType) /\ Out(Direct, TRUE) \in ToSet(c.outs) /\ Out(Block, FALSE) \in ToSet(c.outs)
      /\ {n \in Nodes : Out(Node(n), TRUE) \in ToSet(c.outs)} = Real(d)
      /\ Real(d) # {} => c.outs # <<>> /\ c.outs[1].tag[1] = "upstream"
  BY RenderOuts
<1>. HIDE DEF c
<1>3. Customs(d) = IF d.own = "none" THEN <<>> ELSE <<Rule({}, {"own"}, OwnTo(d))>>
  BY DEF Database, Policies, Customs, OwnTo
<1>4. /\ Customs(d) \in Seq(PlainRules(d)) /\ ToSet(Customs(d)) = OwnRules(d)
      /\ \A i \in 1 .. Len(Customs(d)) : Customs(d)[i].match # {}
  <2>1. CASE d.own = "none"
    BY <1>3, <2>1 DEF OwnRules, ToSet
  <2>2. CASE d.own # "none"
    <3>. DEFINE r == Rule({}, {"own"}, OwnTo(d))
    <3>1. r \in PlainRules(d) /\ r.match # {} /\ OwnRules(d) = {r}
      BY <2>2, LayersRules DEF Rule, OwnRules
    <3>. HIDE DEF r
    <3>. QED  BY <3>1, <1>3, <2>2 DEF ToSet, r
  <2>. QED  BY <2>1, <2>2
<1>6. /\ p \in Seq(PlainRules(d)) /\ OwnRules(d) \subseteq ToSet(p)
      /\ \A i \in 1 .. Len(p) : ~IsCatchAll(p[i])
  <2>. DEFINE a == Customs(d)
              z == IF d.geoip THEN RuRules ELSE <<>>
  <2>1. z \in Seq(PlainRules(d)) /\ \A i \in 1 .. Len(z) : z[i].match # {}
    BY RuRulesIs DEF IsCatchAll
  <2>2. a \in Seq(PlainRules(d)) /\ ToSet(a) = OwnRules(d) /\ \A i \in 1 .. Len(a) : a[i].match # {}
    BY <1>4
  <2>. HIDE DEF a, z
  <2>3. /\ a \o z \in Seq(PlainRules(d)) /\ Len(a \o z) = Len(a) + Len(z) /\ Len(a) \in Nat /\ Len(z) \in Nat
        /\ \A i \in 1 .. Len(a) : (a \o z)[i] = a[i]
        /\ \A i \in 1 .. Len(z) : (a \o z)[Len(a) + i] = z[i]
    BY <2>1, <2>2
  <2>4. \A i \in 1 .. Len(a \o z) : i \in 1 .. Len(a) \/ (i - Len(a) \in 1 .. Len(z) /\ Len(a) + (i - Len(a)) = i)
    BY <2>3
  <2>5. \A i \in 1 .. Len(a \o z) : (a \o z)[i].match # {}
    BY <2>1, <2>2, <2>3, <2>4
  <2>6. ToSet(a) \subseteq ToSet(a \o z)
    BY <2>2, <2>3 DEF ToSet
  <2>. QED  BY <2>2, <2>3, <2>5, <2>6 DEF a, z, IsCatchAll
<1>. HIDE DEF p, last
<1>7. last \in PlainRules(d)
  BY LayersRules DEF last
<1>8. CatchAllAt(<<last>>, 1, Final(d))
  BY DEF CatchAllAt, last
<1>9. p \in Seq(RuleType) /\ <<last>> \in Seq(RuleType)
  BY <1>6, <1>7, PlainTyped, SeqWider
<1>10. /\ CatchAllAt(p \o <<last>>, Len(p) + 1, Final(d)) /\ Len(p) + 1 = Len(p \o <<last>>)
       /\ ToSet(p) \subseteq Ahead(p \o <<last>>, Len(p) + 1)
  BY <1>6, <1>8, <1>9, CatchAllAfter
<1>11. c.rules \in Seq(PlainRules(d)) /\ c.rules \in Seq(RuleType)
  BY <1>1, <1>6, <1>7, <1>9
<1>12. /\ Final(d) = Upstream => Real(d) # {}
       /\ \A n \in Real(d) : n \in Nodes
  BY FinalIs DEF Block, Upstream
<1>13. c \in Files
  <2>1. real \subseteq Places
    BY <1>12, PlacesThere
  <2>2. bal \subseteq BalType
    <3>. HIDE DEF real
    <3>1. [tag |-> Upstream, members |-> real, closed |-> FALSE] \in BalType
      BY <2>1, PlacesThere DEF BalType
    <3>. QED  BY <3>1
  <2>. HIDE DEF real, bal
  <2>. QED  BY <1>1, <1>2, <1>11, <2>1, <2>2, PlacesThere DEF Files
<1>14. NodesThere(c) = Real(d)
  BY <1>2, RealTagged DEF NodesThere
<1>15. \A x \in c.bal : /\ x.tag = Upstream /\ ~x.closed /\ Nodal(x.members)
                        /\ c.outs # <<>> /\ c.outs[1].tag[1] = "upstream"
  BY <1>1, <1>2, <1>12 DEF Nodal
<1>16. Furnished(c, d)
  BY <1>1, <1>2, <1>13, <1>14, <1>15 DEF Furnished
<1>17. PlainAt(c, d, Len(p) + 1, OwnRules(d))
  BY <1>1, <1>6, <1>10, <1>11, <1>15, <1>16 DEF PlainAt
<1>. QED  BY <1>17 DEF c

(* What each layer keeps of the rules.                                     *)
LEMMA KeepIs ==
  ASSUME NEW A, NEW s \in Seq(A)
  PROVE  /\ Keep(s, LAMBDA r : ~IsBaseRu(r)) \in Seq(A) /\ Kept(Keep(s, LAMBDA r : ~IsBaseRu(r)), s, {r \in A : ~IsBaseRu(r)})
         /\ Keep(s, LAMBDA r : ~IsOldDns(r)) \in Seq(A) /\ Kept(Keep(s, LAMBDA r : ~IsOldDns(r)), s, {r \in A : ~IsOldDns(r)})
         /\ Keep(s, LAMBDA r : ~IsGov(r)) \in Seq(A) /\ Kept(Keep(s, LAMBDA r : ~IsGov(r)), s, {r \in A : ~IsGov(r)})
         /\ Keep(s, LAMBDA r : ~IsGov(r) /\ ~IsDns(r)) \in Seq(A) /\ Kept(Keep(s, LAMBDA r : ~IsGov(r) /\ ~IsDns(r)), s, {r \in A : ~IsGov(r) /\ ~IsDns(r)})
<1>1. \A i \in DOMAIN s : s[i] \in A
  OBVIOUS
<1>2. Keep(s, LAMBDA r : ~IsBaseRu(r)) \in Seq(A) /\ Kept(Keep(s, LAMBDA r : ~IsBaseRu(r)), s, {r \in A : ~IsBaseRu(r)})
  <2>. DEFINE T == {r \in A : ~IsBaseRu(r)}
              t == Keep(s, LAMBDA r : ~IsBaseRu(r))
  <2>1. t = FlattenSeq([i \in DOMAIN s |-> IF s[i] \in T THEN <<s[i]>> ELSE <<>>])
    BY <1>1 DEF Keep
  <2>. HIDE DEF t, T
  <2>. QED  BY <2>1, KeepKeeps DEF t, T
<1>3. Keep(s, LAMBDA r : ~IsOldDns(r)) \in Seq(A) /\ Kept(Keep(s, LAMBDA r : ~IsOldDns(r)), s, {r \in A : ~IsOldDns(r)})
  <2>. DEFINE T == {r \in A : ~IsOldDns(r)}
              t == Keep(s, LAMBDA r : ~IsOldDns(r))
  <2>1. t = FlattenSeq([i \in DOMAIN s |-> IF s[i] \in T THEN <<s[i]>> ELSE <<>>])
    BY <1>1 DEF Keep
  <2>. HIDE DEF t, T
  <2>. QED  BY <2>1, KeepKeeps DEF t, T
<1>4. Keep(s, LAMBDA r : ~IsGov(r)) \in Seq(A) /\ Kept(Keep(s, LAMBDA r : ~IsGov(r)), s, {r \in A : ~IsGov(r)})
  <2>. DEFINE T == {r \in A : ~IsGov(r)}
              t == Keep(s, LAMBDA r : ~IsGov(r))
  <2>1. t = FlattenSeq([i \in DOMAIN s |-> IF s[i] \in T THEN <<s[i]>> ELSE <<>>])
    BY <1>1 DEF Keep
  <2>. HIDE DEF t, T
  <2>. QED  BY <2>1, KeepKeeps DEF t, T
<1>5. Keep(s, LAMBDA r : ~IsGov(r) /\ ~IsDns(r)) \in Seq(A) /\ Kept(Keep(s, LAMBDA r : ~IsGov(r) /\ ~IsDns(r)), s, {r \in A : ~IsGov(r) /\ ~IsDns(r)})
  <2>. DEFINE T == {r \in A : ~IsGov(r) /\ ~IsDns(r)}
              t == Keep(s, LAMBDA r : ~IsGov(r) /\ ~IsDns(r))
  <2>1. t = FlattenSeq([i \in DOMAIN s |-> IF s[i] \in T THEN <<s[i]>> ELSE <<>>])
    BY <1>1 DEF Keep
  <2>. HIDE DEF t, T
  <2>. QED  BY <2>1, KeepKeeps DEF t, T
<1>. QED  BY <1>2, <1>3, <1>4, <1>5

(* The layer for Russia leaves a plain file that has its rules, if there   *)
(* is a real node.                                                         *)
LEMMA BaseRuPlain ==
  ASSUME NEW b \in Database, NEW c, NEW l, PlainAt(c, b, l, OwnRules(b))
  PROVE  \E k : PlainAt(BaseRu(c), b, k, OwnRules(b) \cup IF Real(b) = {} THEN {} ELSE RuSet)
<1>. DEFINE T == {r \in PlainRules(b) : ~IsBaseRu(r)}
            s == c.rules
            t == Keep(s, LAMBDA r : ~IsBaseRu(r))
<1>1. /\ s \in Seq(PlainRules(b)) /\ CatchAllAt(s, l, Final(b)) /\ (Real(b) # {} => l = Len(s))
      /\ OwnRules(b) \subseteq Ahead(s, l) /\ s \in Seq(RuleType)
  BY PlainTyped, SeqWider DEF PlainAt
<1>2. BaseRu(c) = [c EXCEPT !.rules = BeforeFinal(t, RuRules)]
  BY DEF BaseRu
<1>3. t \in Seq(PlainRules(b)) /\ Kept(t, s, T)
  BY <1>1, KeepIs
<1>4. Rule({}, {}, Final(b)) \in T /\ OwnRules(b) \subseteq T
  <2>2. ~IsBaseRu(Rule({}, {}, Final(b))) /\ \A r \in OwnRules(b) : ~IsBaseRu(r)
    BY DEF IsBaseRu, Rule, OwnRules
  <2>. QED  BY <2>2, LayersRules DEF OwnRules
<1>. HIDE DEF t
<1>5. \E k : /\ CatchAllAt(t, k, Final(b)) /\ (l = Len(s) => k = Len(t))
              /\ Ahead(s, l) \cap T \subseteq Ahead(t, k)
  <2>. HIDE DEF T, s
  <2>. QED  BY <1>1, <1>3, KeptRules, <1>4
<1>6. PICK k : /\ CatchAllAt(t, k, Final(b)) /\ (l = Len(s) => k = Len(t))
               /\ Ahead(s, l) \cap T \subseteq Ahead(t, k)
  BY <1>5
<1>7. RuRules \in Seq(PlainRules(b)) /\ (\A i \in 1 .. Len(RuRules) : ~IsCatchAll(RuRules[i])) /\ RuSet \subseteq ToSet(RuRules)
  BY RuRulesIs
<1>8. PICK m : /\ CatchAllAt(BeforeFinal(t, RuRules), m, Final(b))
               /\ Real(b) # {} => m = Len(BeforeFinal(t, RuRules)) /\ ToSet(RuRules) \subseteq Ahead(BeforeFinal(t, RuRules), m)
               /\ Ahead(t, k) \subseteq Ahead(BeforeFinal(t, RuRules), m)
  BY <1>1, <1>3, <1>6, <1>7, BeforeFinalPuts
<1>9. BeforeFinal(t, RuRules) \in Seq(PlainRules(b))
  BY <1>1, <1>3, <1>6, <1>7, BeforeFinalPuts
<1>10. (OwnRules(b) \cup IF Real(b) = {} THEN {} ELSE RuSet) \subseteq Ahead(BeforeFinal(t, RuRules), m)
  BY <1>1, <1>4, <1>6, <1>7, <1>8
<1>. DEFINE z == BeforeFinal(t, RuRules)
            S == OwnRules(b) \cup IF Real(b) = {} THEN {} ELSE RuSet
<1>11. /\ z \in Seq(PlainRules(b)) /\ CatchAllAt(z, m, Final(b)) /\ (Real(b) # {} => m = Len(z))
       /\ S \subseteq Ahead(z, m) /\ BaseRu(c) = [c EXCEPT !.rules = z]
  BY <1>2, <1>8, <1>9, <1>10
<1>. HIDE DEF z, S, s, T
<1>12. PlainAt([c EXCEPT !.rules = z], b, m, S)
  BY <1>11, PlainRewritten
<1>. QED  BY <1>11, <1>12 DEF S

(* A plain file with these rules is one with fewer of them.                *)
LEMMA PlainSame ==
  ASSUME NEW c, NEW b, NEW l, NEW S, PlainAt(c, b, l, S), NEW T \in SUBSET S
  PROVE  PlainAt(c, b, l, T)
BY DEF PlainAt

(* A file of before with a good to-de.                                     *)
LEMMA PreservePlain ==
  ASSUME NEW b \in Database, NEW c, NEW l, NEW S, PlainAt(c, b, l, S), NEW had \in BOOLEAN
  PROVE  PlainAt(Preserve(c, had), b, l, S)
<1>1. CASE ~(had /\ ToDe \notin Tags(c))
  BY <1>1 DEF Preserve
<1>2. CASE had /\ ToDe \notin Tags(c)
  <2>. DEFINE outs == <<Out(ToDe, TRUE)>> \o c.outs
              e == [c EXCEPT !.outs = outs]
  <2>1. Preserve(c, had) = e
    BY <1>2 DEF Preserve
  <2>2. c \in Files /\ Furnished(c, b) /\ c.outs \in Seq(OutType)
    BY DEF PlainAt, Furnished, Files
  <2>4. /\ outs \in Seq(OutType) /\ outs # <<>> /\ outs[1] = Out(ToDe, TRUE)
        /\ ToSet(outs) = {Out(ToDe, TRUE)} \cup ToSet(c.outs)
    <3>. DEFINE x == Out(ToDe, TRUE)
    <3>1. x \in OutType
      BY PlacesThere DEF Out, OutType
    <3>. HIDE DEF x
    <3>. DEFINE o1 == <<x>>
    <3>3. o1 \in Seq(OutType) /\ Len(o1) = 1 /\ o1[1] = x /\ ToSet(o1) = {x}
      BY <3>1, OneIs
    <3>. HIDE DEF o1
    <3>4. /\ o1 \o c.outs \in Seq(OutType) /\ ToSet(o1 \o c.outs) = {x} \cup ToSet(c.outs)
          /\ Len(o1 \o c.outs) = 1 + Len(c.outs) /\ Len(c.outs) \in Nat
          /\ \A i \in 1 .. Len(o1) : (o1 \o c.outs)[i] = o1[i]
      BY <2>2, <3>3, ConcatIs
    <3>5. (o1 \o c.outs)[1] = x /\ o1 \o c.outs # <<>>
      BY <3>3, <3>4
    <3>. QED  BY <3>4, <3>5 DEF o1, x
  <2>. HIDE DEF outs
  <2>5. /\ e \in Files /\ e.rules = c.rules /\ e.ins = c.ins /\ e.bal = c.bal /\ e.outs = outs
    BY <2>2, <2>4 DEF Files
  <2>. HIDE DEF e
  <2>6. NodesThere(e) = NodesThere(c)
    BY <2>4, <2>2, <2>5, RealTagged DEF Out, Node, ToDe, NodesThere
  <2>7. outs[1].tag[1] = "to-de"
    BY <2>4 DEF Out, ToDe
  <2>8. Furnished(e, b)
    BY <2>2, <2>4, <2>5, <2>6, <2>7 DEF Furnished
  <2>. QED  BY <2>1, <2>5, <2>8 DEF PlainAt
<1>. QED  BY <1>1, <1>2

(* Where the layer of DNS sends foreign queries is a node, all nodes or    *)
(* to-de.                                                                  *)
LEMMA UpstreamOfIs ==
  ASSUME NEW c \in Files
  PROVE  UpstreamOf(c) \in Places /\ Foreign(UpstreamOf(c))
<1>. DEFINE T == {o \in OutType : IsNode(o.tag)}
            held == Keep(c.outs, LAMBDA o : IsNode(o.tag))
<1>1. c.outs \in Seq(OutType) /\ \A i \in DOMAIN c.outs : c.outs[i] \in OutType
  BY DEF Files
<1>2. held = FlattenSeq([i \in DOMAIN c.outs |-> IF c.outs[i] \in T THEN <<c.outs[i]>> ELSE <<>>])
  BY <1>1 DEF Keep
<1>3. UpstreamOf(c) = IF c.bal # {} THEN Upstream ELSE IF held # <<>> THEN held[1].tag ELSE ToDe
  BY DEF UpstreamOf
<1>. HIDE DEF held, T
<1>4. held \in Seq(OutType) /\ Kept(held, c.outs, T)
  BY <1>1, <1>2, KeepKeeps
<1>5. ASSUME held # <<>> PROVE held[1] \in OutType /\ IsNode(held[1].tag)
  BY <1>4, <1>5 DEF Kept, T
<1>. QED  BY <1>3, <1>5, PlacesThere DEF Foreign, OutType

(* The rules of DNS are good and not for everything.                       *)
LEMMA DnsRulesIs ==
  ASSUME NEW b \in Database, NEW c \in Files
  PROVE  /\ DnsRules(c) \in Seq(PlainRules(b))
         /\ \A i \in 1 .. Len(DnsRules(c)) : ~IsCatchAll(DnsRules(c)[i])
         /\ ToSet(DnsRules(c)) = {Rule({}, {"dns-ru"}, Direct), Rule({}, {"dns-world"}, UpstreamOf(c))}
<1>. DEFINE x == Rule({}, {"dns-ru"}, Direct)
            y == Rule({}, {"dns-world"}, UpstreamOf(c))
<1>1. x \in PlainRules(b) /\ y \in PlainRules(b) /\ x.match # {} /\ y.match # {}
  BY LayersRules, UpstreamOfIs DEF Rule
<1>2. DnsRules(c) = <<x, y>>
  BY DEF DnsRules
<1>. HIDE DEF x, y
<1>3. /\ <<x, y>> \in Seq(PlainRules(b)) /\ Len(<<x, y>>) = 2 /\ <<x, y>>[1] = x /\ <<x, y>>[2] = y
      /\ ToSet(<<x, y>>) = {x, y}
  BY <1>1, PairIs
<1>4. \A i \in 1 .. 2 : i = 1 \/ i = 2
  OBVIOUS
<1>. QED  BY <1>1, <1>2, <1>3, <1>4 DEF IsCatchAll, x, y

(* The rules of S are not those that the layers drop and write anew.       *)
Lasting(S) == \A r \in S : ~IsOldDns(r) /\ ~IsGov(r) /\ ~IsDns(r)

(* The layer of DNS leaves a plain file.                                   *)
LEMMA SplitDnsPlain ==
  ASSUME NEW b \in Database, NEW c, NEW l, NEW S, PlainAt(c, b, l, S), Lasting(S)
  PROVE  \E k : PlainAt(SplitDns(c), b, k, S)
<1>. DEFINE T == {r \in PlainRules(b) : ~IsOldDns(r)}
            s == c.rules
            t == Keep(s, LAMBDA r : ~IsOldDns(r))
            new == DnsRules(c)
<1>1. /\ s \in Seq(PlainRules(b)) /\ CatchAllAt(s, l, Final(b)) /\ (Real(b) # {} => l = Len(s))
      /\ S \subseteq Ahead(s, l) /\ c \in Files
  BY DEF PlainAt, Furnished
<1>2. SplitDns(c) = [c EXCEPT !.rules = BeforeFinal(t, new)]
  BY DEF SplitDns
<1>3. t \in Seq(PlainRules(b)) /\ Kept(t, s, T)
  BY <1>1, KeepIs
<1>4. Rule({}, {}, Final(b)) \in T
  BY LayersRules DEF IsOldDns, Rule
<1>5. Ahead(s, l) \cap S \subseteq T
  BY <1>1 DEF CatchAllAt, Ahead, Lasting
<1>. HIDE DEF t
<1>6. PICK k : /\ CatchAllAt(t, k, Final(b)) /\ (l = Len(s) => k = Len(t))
               /\ Ahead(s, l) \cap T \subseteq Ahead(t, k)
  <2>. HIDE DEF T, s
  <2>. QED  BY <1>1, <1>3, <1>4, KeptRules
<1>7. new \in Seq(PlainRules(b)) /\ (\A i \in 1 .. Len(new) : ~IsCatchAll(new[i]))
  BY <1>1, DnsRulesIs
<1>. HIDE DEF new
<1>8. BeforeFinal(t, new) \in Seq(PlainRules(b))
  BY <1>1, <1>3, <1>6, <1>7, BeforeFinalPuts
<1>9. PICK m : /\ CatchAllAt(BeforeFinal(t, new), m, Final(b))
               /\ Real(b) # {} => m = Len(BeforeFinal(t, new)) /\ ToSet(new) \subseteq Ahead(BeforeFinal(t, new), m)
               /\ Ahead(t, k) \subseteq Ahead(BeforeFinal(t, new), m)
  BY <1>1, <1>3, <1>6, <1>7, BeforeFinalPuts
<1>. DEFINE z == BeforeFinal(t, new)
<1>10. /\ z \in Seq(PlainRules(b)) /\ CatchAllAt(z, m, Final(b)) /\ (Real(b) # {} => m = Len(z))
       /\ S \subseteq Ahead(z, m) /\ SplitDns(c) = [c EXCEPT !.rules = z]
  BY <1>1, <1>2, <1>5, <1>6, <1>8, <1>9
<1>. HIDE DEF z, T, s
<1>11. PlainAt([c EXCEPT !.rules = z], b, m, S)
  BY <1>10, PlainRewritten
<1>. QED  BY <1>10, <1>11

(* The layer of the blocked destinations leaves a plain file that starts   *)
(* with its rule.                                                          *)
LEMMA GovBlockPlain ==
  ASSUME NEW b \in Database, NEW c, NEW l, NEW S, PlainAt(c, b, l, S), Lasting(S)
  PROVE  \E k : PlainAt(GovBlock(c), b, k, S)
<1>. DEFINE T == {r \in PlainRules(b) : ~IsGov(r)}
            s == c.rules
            t == Keep(s, LAMBDA r : ~IsGov(r))
            z == <<GovRule>> \o t
<1>1. /\ s \in Seq(PlainRules(b)) /\ CatchAllAt(s, l, Final(b)) /\ (Real(b) # {} => l = Len(s))
      /\ S \subseteq Ahead(s, l)
  BY DEF PlainAt
<1>2. GovBlock(c) = [c EXCEPT !.rules = z]
  BY DEF GovBlock
<1>3. t \in Seq(PlainRules(b)) /\ Kept(t, s, T)
  BY <1>1, KeepIs
<1>4. Rule({}, {}, Final(b)) \in T
  BY LayersRules DEF IsGov, Rule
<1>5. Ahead(s, l) \cap S \subseteq T
  BY <1>1 DEF CatchAllAt, Ahead, Lasting
<1>. HIDE DEF t
<1>6. PICK k : /\ CatchAllAt(t, k, Final(b)) /\ (l = Len(s) => k = Len(t))
               /\ Ahead(s, l) \cap T \subseteq Ahead(t, k)
  <2>. HIDE DEF T, s
  <2>. QED  BY <1>1, <1>3, <1>4, KeptRules
<1>. DEFINE p == <<GovRule>>
<1>7. /\ p \in Seq(PlainRules(b)) /\ Len(p) = 1 /\ (\A i \in 1 .. Len(p) : ~IsCatchAll(p[i]))
  <2>1. GovRule \in PlainRules(b) /\ ~IsCatchAll(GovRule)
    BY LayersRules DEF GovRule, Rule, IsCatchAll
  <2>. HIDE DEF GovRule
  <2>. QED  BY <2>1
<1>. HIDE DEF p
<1>9. /\ CatchAllAt(p \o t, Len(p) + k, Final(b))
      /\ k = Len(t) => Len(p) + k = Len(p \o t)
      /\ Ahead(t, k) \cup ToSet(p) \subseteq Ahead(p \o t, Len(p) + k)
  BY <1>6, <1>7, CatchAllAfter, <1>3, PlainTyped, SeqWider
<1>10. p \o t \in Seq(PlainRules(b))
  BY <1>3, <1>7
<1>. DEFINE m == Len(p) + k
<1>11. /\ z \in Seq(PlainRules(b)) /\ CatchAllAt(z, m, Final(b)) /\ (Real(b) # {} => m = Len(z))
       /\ S \subseteq Ahead(z, m)
  BY <1>1, <1>5, <1>6, <1>9, <1>10 DEF p
<1>. HIDE DEF z, m, s, T
<1>12. PlainAt([c EXCEPT !.rules = z], b, m, S)
  BY <1>11, PlainRewritten
<1>. QED  BY <1>2, <1>12

(* The last layer puts the rule for the blocked destinations first.        *)
LEMMA OverridePlain ==
  ASSUME NEW b \in Database, NEW c, NEW l, NEW S, PlainAt(c, b, l, S), Lasting(S)
  PROVE  /\ \E k : PlainAt(Override(c), b, k, S)
         /\ Override(c).rules # <<>> /\ Override(c).rules[1] = GovRule
<1>. DEFINE T == {r \in PlainRules(b) : ~IsGov(r) /\ ~IsDns(r)}
            s == c.rules
            t == Keep(s, LAMBDA r : ~IsGov(r) /\ ~IsDns(r))
            new == DnsRules(c)
            g == <<GovRule>>
            p == g \o new
            z == g \o new \o t
<1>1. /\ s \in Seq(PlainRules(b)) /\ CatchAllAt(s, l, Final(b)) /\ (Real(b) # {} => l = Len(s))
      /\ S \subseteq Ahead(s, l) /\ c \in Files
  BY DEF PlainAt, Furnished
<1>2. Override(c) = [c EXCEPT !.rules = z]
  BY DEF Override
<1>3. t \in Seq(PlainRules(b)) /\ Kept(t, s, T)
  BY <1>1, KeepIs
<1>4. Rule({}, {}, Final(b)) \in T
  BY LayersRules DEF IsGov, IsDns, Rule
<1>5. Ahead(s, l) \cap S \subseteq T
  BY <1>1 DEF CatchAllAt, Ahead, Lasting
<1>. HIDE DEF t
<1>6. PICK k : /\ CatchAllAt(t, k, Final(b)) /\ (l = Len(s) => k = Len(t))
               /\ Ahead(s, l) \cap T \subseteq Ahead(t, k)
  <2>. HIDE DEF T, s
  <2>. QED  BY <1>1, <1>3, <1>4, KeptRules
<1>7. new \in Seq(PlainRules(b)) /\ (\A i \in 1 .. Len(new) : ~IsCatchAll(new[i]))
  BY <1>1, DnsRulesIs
<1>. HIDE DEF new
<1>8. g \in Seq(PlainRules(b)) /\ Len(g) = 1 /\ g[1] = GovRule /\ ~IsCatchAll(GovRule)
  <2>1. GovRule \in PlainRules(b) /\ ~IsCatchAll(GovRule)
    BY LayersRules DEF GovRule, Rule, IsCatchAll
  <2>. HIDE DEF GovRule
  <2>. QED  BY <2>1
<1>. HIDE DEF g
<1>9. /\ p \in Seq(PlainRules(b)) /\ (\A i \in 1 .. Len(p) : ~IsCatchAll(p[i]))
      /\ p[1] = GovRule /\ Len(p) \in Nat /\ 1 \in 1 .. Len(p)
  <2>1. /\ p \in Seq(PlainRules(b)) /\ Len(p) = Len(g) + Len(new) /\ Len(new) \in Nat
        /\ (\A i \in 1 .. Len(g) : p[i] = g[i])
        /\ (\A i \in 1 .. Len(new) : p[Len(g) + i] = new[i])
        /\ \A i \in 1 .. Len(p) :
              i \in 1 .. Len(g) \/ (i - Len(g) \in 1 .. Len(new) /\ Len(g) + (i - Len(g)) = i)
    <3>1. g \in Seq(PlainRules(b)) /\ new \in Seq(PlainRules(b))
      BY <1>7, <1>8
    <3>. QED  BY <3>1, ConcatIs
  <2>2. \A i \in 1 .. Len(g) : i = 1
    BY <1>8
  <2>. HIDE DEF p
  <2>4. ASSUME NEW i \in 1 .. Len(p) PROVE ~IsCatchAll(p[i])
    BY <2>1, <2>2, <1>8, <1>7
  <2>. QED  BY <2>1, <2>4, <1>8
<1>. HIDE DEF p
<1>11. /\ CatchAllAt(p \o t, Len(p) + k, Final(b))
       /\ k = Len(t) => Len(p) + k = Len(p \o t)
       /\ Ahead(t, k) \cup ToSet(p) \subseteq Ahead(p \o t, Len(p) + k)
  BY <1>6, <1>9, CatchAllAfter, <1>3, PlainTyped, SeqWider
<1>12. p \o t \in Seq(PlainRules(b)) /\ (p \o t)[1] = GovRule /\ p \o t # <<>>
  BY <1>3, <1>9, ConcatIs
<1>. DEFINE m == Len(p) + k
<1>14. /\ z \in Seq(PlainRules(b)) /\ CatchAllAt(z, m, Final(b)) /\ (Real(b) # {} => m = Len(z))
       /\ S \subseteq Ahead(z, m) /\ z # <<>> /\ z[1] = GovRule
  BY <1>1, <1>5, <1>6, <1>11, <1>12 DEF p
<1>. HIDE DEF z, m, s, T
<1>15. PlainAt([c EXCEPT !.rules = z], b, m, S) /\ [c EXCEPT !.rules = z].rules = z
  BY <1>14, <1>1, PlainRewritten DEF Files
<1>. QED  BY <1>2, <1>14, <1>15

(* A file on its way passes the checks: it has no countries.               *)
LEMMA PlainSound ==
  ASSUME NEW b \in Database, NEW c, NEW l, NEW S, PlainAt(c, b, l, S)
  PROVE  Sound(c)
<1>1. /\ c.ins = {In(0)} /\ c.rules \in Seq(PlainRules(b))
      /\ \A x \in c.bal : x.tag = Upstream /\ ~x.closed
  BY DEF PlainAt
<1>3. \A i \in DOMAIN c.rules : ~IsOurs(c.rules[i])
  BY <1>1 DEF IsOurs, PlainRules
<1>4. OrderIsRight(c)
  BY <1>3 DEF OrderIsRight
<1>5. FailsClosed(c)
  BY <1>1 DEF FailsClosed
<1>6. DirectorIsRight(c)
  BY <1>1 DEF DirectorIsRight, Upstream, Director
<1>7. RefersToWhatIsThere(c)
  BY <1>3 DEF RefersToWhatIsThere, ToSet
<1>8. MembersAreMeant(c)
  BY <1>1 DEF MembersAreMeant, Upstream
<1>. QED  BY <1>4, <1>5, <1>6, <1>7, <1>8 DEF Sound

(* Where a country leads: a block, its only node, or its balancer.         *)
LEMMA SlotTargetIs ==
  ASSUME NEW c, NEW d \in Database, NEW s \in Slots
  PROVE  LET u == Usable(c, d, s)
             to == SlotTarget(c, d, s)
         IN /\ u \subseteq Nodes /\ to \in Places /\ to \notin {Direct, Director, Upstream, ToDe, Api}
            /\ s \notin d.on \/ u = {} => to = Block
            /\ s \in d.on /\ u # {} =>
                 \/ /\ to = Country(s) /\ Cardinality(u) # 1
                 \/ /\ Cardinality(u) = 1 /\ \E n \in u : u = {n} /\ to = Node(n)
<1>1. Usable(c, d, s) \subseteq Nodes /\ IsFiniteSet(Usable(c, d, s))
  BY NodesFinite, FS_Subset DEF Usable
<1>2. CASE s \notin d.on \/ Usable(c, d, s) = {}
  BY <1>2, <1>1, PlacesThere DEF SlotTarget, Block, Direct, Director, Upstream, ToDe, Api
<1>3. CASE s \in d.on /\ Usable(c, d, s) # {} /\ Cardinality(Usable(c, d, s)) = 1
  <2>1. PICK n : Usable(c, d, s) = {n}
    BY <1>1, <1>3, FS_Singleton
  <2>3. SlotTarget(c, d, s) = Node(n)
    BY <1>3, <2>1 DEF SlotTarget
  <2>. QED  BY <1>1, <1>3, <2>1, <2>3, PlacesThere DEF Node, Direct, Director, Upstream, ToDe, Api
<1>4. CASE s \in d.on /\ Usable(c, d, s) # {} /\ Cardinality(Usable(c, d, s)) # 1
  BY <1>4, <1>1, PlacesThere DEF SlotTarget, Country, Direct, Director, Upstream, ToDe, Api
<1>. QED  BY <1>2, <1>3, <1>4

-----------------------------------------------------------------------------
(* The layer of the countries: taking them off.                            *)

(* A file that the layers have made from b; l is the rule for everything.  *)
Built(c, b, l) ==
  /\ Furnished(c, b) /\ c.rules \in Seq(Good(b))
  /\ \/ CatchAllAt(c.rules, l, Final(b))
     \/ CatchAllAt(c.rules, l, Director) /\ Final(b) = Upstream
  /\ Real(b) # {} => l = Len(c.rules)

(* A rule before the l-th sends w to to, whoever asks.                     *)
Has(s, l, w, to) ==
  \E i \in 1 .. l - 1 : s[i].from = {} /\ w \in s[i].match /\ s[i].to = to

(* Entrances that are not for people.                                      *)
Insiders == {{Api}} \cup {{LoopIn(s)} : s \in Slots}

(* The blocked destinations are blocked before anyone is asked.            *)
Blocks(r)   == r.from = {} /\ "gov" \in r.match /\ r.to = Block
(* Nobody but the insiders is served before the blocked destinations are.  *)
GovFirst(s) ==
  \E i \in 1 .. Len(s) : Blocks(s[i]) /\ \A j \in 1 .. i - 1 : s[j].from \in Insiders

(* A plain file is a built one.                                            *)
LEMMA PlainBuilt ==
  ASSUME NEW b \in Database, NEW c, NEW l, NEW S, PlainAt(c, b, l, S)
  PROVE  Built(c, b, l)
BY PlainTyped, SeqWider DEF PlainAt, Built

(* What is kept, as a set, and the first that is kept.                     *)
LEMMA KeptSet ==
  ASSUME NEW A, NEW s \in Seq(A), NEW t \in Seq(A), NEW T, Kept(t, s, T)
  PROVE  /\ ToSet(t) = ToSet(s) \cap T
         /\ s # <<>> /\ s[1] \in T => t # <<>> /\ t[1] = s[1]
<1>1. PICK h \in [1 .. Len(t) -> 1 .. Len(s)] :
        /\ \A k \in 1 .. Len(t) : s[h[k]] \in T /\ t[k] = s[h[k]]
        /\ \A k, m \in 1 .. Len(t) : k < m => h[k] < h[m]
        /\ \A i \in 1 .. Len(s) : s[i] \in T => \E k \in 1 .. Len(t) : h[k] = i
  BY DEF Kept
<1>2. DOMAIN s = 1 .. Len(s) /\ DOMAIN t = 1 .. Len(t) /\ Len(s) \in Nat /\ Len(t) \in Nat
  OBVIOUS
<1>3. ToSet(t) \subseteq ToSet(s) \cap T
  BY <1>1, <1>2 DEF ToSet
<1>4. ToSet(s) \cap T \subseteq ToSet(t)
  <2>. SUFFICES ASSUME NEW i \in 1 .. Len(s), s[i] \in T PROVE s[i] \in ToSet(t)
    BY <1>2 DEF ToSet
  <2>1. PICK k \in 1 .. Len(t) : h[k] = i
    BY <1>1
  <2>. QED  BY <2>1, <1>2, <1>1 DEF ToSet
<1>5. ASSUME s # <<>>, s[1] \in T PROVE t # <<>> /\ t[1] = s[1]
  <2>2. PICK k \in 1 .. Len(t) : h[k] = 1
    BY <1>1, <1>5
  <2>. QED  BY <1>1, <2>2, <1>2
<1>. QED  BY <1>3, <1>4, <1>5

(* What the layer of the countries takes off: the outbounds.               *)
LEMMA StripOuts ==
  ASSUME NEW c \in Files
  PROVE  /\ Strip(c).outs \in Seq(OutType)
         /\ ToSet(Strip(c).outs) = {o \in ToSet(c.outs) : o.tag[1] # "auto-via"}
         /\ c.outs # <<>> /\ c.outs[1].tag[1] # "auto-via" =>
              Strip(c).outs # <<>> /\ Strip(c).outs[1] = c.outs[1]
<1>. DEFINE T == {o \in OutType : o.tag[1] # "auto-via"}
            t == Keep(c.outs, LAMBDA o : o.tag[1] # "auto-via")
<1>1. c.outs \in Seq(OutType) /\ \A i \in DOMAIN c.outs : c.outs[i] \in OutType
  BY DEF Files
<1>2. t = FlattenSeq([i \in DOMAIN c.outs |-> IF c.outs[i] \in T THEN <<c.outs[i]>> ELSE <<>>])
  BY <1>1 DEF Keep
<1>3. Strip(c).outs = t
  BY DEF Strip
<1>4. ToSet(c.outs) \cap T = {o \in ToSet(c.outs) : o.tag[1] # "auto-via"}
  BY <1>1 DEF ToSet
<1>5. c.outs # <<>> /\ c.outs[1].tag[1] # "auto-via" => c.outs[1] \in T
  BY <1>1
<1>. HIDE DEF t, T
<1>6. t \in Seq(OutType) /\ Kept(t, c.outs, T)
  BY <1>1, <1>2, KeepKeeps
<1>7. /\ ToSet(t) = ToSet(c.outs) \cap T
      /\ c.outs # <<>> /\ c.outs[1] \in T => t # <<>> /\ t[1] = c.outs[1]
  BY <1>1, <1>6, KeptSet
<1>. QED  BY <1>3, <1>4, <1>5, <1>6, <1>7

(* Taking the countries off leaves the file furnished, with one entrance.  *)
LEMMA StripFurnished ==
  ASSUME NEW b \in Database, NEW c, Furnished(c, b), NEW t \in Seq(RuleType),
         Strip(c).rules = t
  PROVE  /\ Furnished(Strip(c), b) /\ Strip(c).ins = {In(0)}
         /\ \A x \in Strip(c).bal : x.tag = Upstream /\ ~x.closed
         /\ \A n \in Nodes : Node(n) \in Tags(Strip(c)) => Node(n) \in Tags(c)
         /\ \A n \in Nodes : Node(n) \in RealTags(Strip(c)) <=> Node(n) \in RealTags(c)
         /\ \A o \in ToSet(Strip(c).outs) : o.tag[1] # "auto-via"
<1>. DEFINE e == Strip(c)
<1>1. c \in Files /\ In(0) \in c.ins /\ c.outs \in Seq(OutType)
  BY DEF Furnished, Files
<1>2. /\ e.outs \in Seq(OutType)
      /\ ToSet(e.outs) = {o \in ToSet(c.outs) : o.tag[1] # "auto-via"}
      /\ c.outs # <<>> /\ c.outs[1].tag[1] # "auto-via" => e.outs # <<>> /\ e.outs[1] = c.outs[1]
  BY <1>1, StripOuts
<1>3. /\ e = [ins |-> e.ins, outs |-> e.outs, rules |-> t, bal |-> e.bal, seen |-> e.seen]
      /\ e.ins = c.ins \cap {In(0)}
      /\ e.bal = {[x EXCEPT !.closed = FALSE] : x \in {y \in c.bal : y.tag = Upstream}}
      /\ e.seen = {p \in c.seen : p[1] # "auto-via"}
  BY DEF Strip
<1>. HIDE DEF e
<1>4. \A x \in e.bal : /\ x \in BalType /\ x.tag = Upstream /\ x.closed = FALSE
                       /\ \E y \in c.bal : y.tag = Upstream /\ y.members = x.members
  <2>. SUFFICES ASSUME NEW y \in c.bal, y.tag = Upstream
       PROVE  LET x == [y EXCEPT !.closed = FALSE] IN
              x \in BalType /\ x.tag = Upstream /\ x.closed = FALSE /\ y.members = x.members
    BY <1>3
  <2>. QED  BY <1>1 DEF BalType, Files
<1>5. e.ins = {In(0)}
  BY <1>1, <1>3
<1>6. e \in Files
  BY <1>1, <1>3, <1>4, <1>2 DEF Files
<1>7. \A n \in Nodes : \A r : Out(Node(n), r) \in ToSet(e.outs) <=> Out(Node(n), r) \in ToSet(c.outs)
  BY OutTag, <1>2 DEF Node
<1>8. \A n \in Nodes : Node(n) \in RealTags(e) <=> Node(n) \in RealTags(c)
  BY <1>1, <1>2, <1>7, RealTagged
<1>9. NodesThere(e) = NodesThere(c)
  BY <1>8 DEF NodesThere
<1>10. \A n \in Nodes : Node(n) \in Tags(e) => Node(n) \in Tags(c)
  BY <1>2 DEF Tags
<1>11. Out(Direct, TRUE) \in ToSet(e.outs) /\ Out(Block, FALSE) \in ToSet(e.outs)
  <2>1. Out(Direct, TRUE).tag[1] # "auto-via" /\ Out(Block, FALSE).tag[1] # "auto-via"
    <3>1. Out(Direct, TRUE).tag = Direct /\ Out(Block, FALSE).tag = Block
      BY OutTag, Zenon
    <3>2. Direct[1] # "auto-via" /\ Block[1] # "auto-via"
      BY DEF Direct, Block
    <3>. QED  BY <3>1, <3>2, Zenon
  <2>. QED  BY <1>2, <2>1 DEF Furnished
<1>12. \A x \in e.bal : /\ Nodal(x.members) /\ e.outs # <<>>
                        /\ e.outs[1].tag[1] \in {"upstream", "to-de"}
  BY <1>2, <1>4 DEF Furnished
<1>13. Furnished(e, b)
  BY <1>5, <1>6, <1>9, <1>11, <1>12 DEF Furnished
<1>. QED  BY <1>2, <1>4, <1>5, <1>8, <1>10, <1>13 DEF e

(* A good rule that is neither a country's nor an insider's is for all.    *)
LEMMA Outsiders ==
  ASSUME NEW b, NEW r \in Good(b)
  PROVE  ~IsOurs(r) /\ ~IsDirectors(r) <=> r.from = {}
<1>2. CASE r.from = {}
  BY <1>2 DEF IsOurs, IsDirectors
<1>3. CASE \E s \in Slots : r.from = {In(s)}
  BY <1>3 DEF IsOurs
<1>4. CASE r.from \in Insiders
  BY <1>4 DEF Insiders, IsDirectors
<1>. QED  BY <1>2, <1>3, <1>4 DEF Froms, Insiders, Good

(* What was sent to the director goes to all nodes again.                  *)
Returned(r) == IF r.to = Director THEN [r EXCEPT !.to = Upstream] ELSE r

(* A rule that is for all stays good when the director is taken off.       *)
LEMMA ReturnedPlain ==
  ASSUME NEW b \in Database, NEW r \in Good(b), r.from = {}
  PROVE  Returned(r) \in PlainRules(b) /\ Returned(r).match = r.match /\ Returned(r).from = {}
<1>2. CASE r.to # Director
  BY <1>2 DEF Returned, PlainRules
<1>3. CASE r.to = Director
  <2>1. Director # Direct /\ ~Foreign(Director) /\ Upstream # Direct
    BY DEF Director, Direct, Foreign, IsNode, ToDe, Upstream
  <2>2. OwnTo(b) # Director
    BY FinalPlace DEF OwnTo, Director, Direct, Block
  <2>. DEFINE q == [r EXCEPT !.to = Upstream]
  <2>4. q \in RuleType /\ q.from = {} /\ q.match = r.match /\ q.to = Upstream
    BY PlacesThere DEF RuleType, Good
  <2>5. Returned(r) = q
    BY <1>3 DEF Returned
  <2>. HIDE DEF q
  <2>6. q \in Good(b)
    BY <2>1, <2>4, PlacesThere, <1>3, <2>2 DEF Good
  <2>. QED  BY <2>4, <2>5, <2>6 DEF PlainRules
<1>. QED  BY <1>2, <1>3

(* What the layer of the countries takes off: the rules.                   *)
LEMMA StripRules ==
  ASSUME NEW b \in Database, NEW c, c.rules \in Seq(Good(b))
  PROVE  \E u \in Seq(Good(b)) :
           /\ Kept(u, c.rules, {r \in Good(b) : r.from = {}})
           /\ Strip(c).rules = [i \in 1 .. Len(u) |-> Returned(u[i])]
<1>. DEFINE T == {r \in Good(b) : ~IsOurs(r) /\ ~IsDirectors(r)}
            s == c.rules
            u == Keep(s, LAMBDA r : ~IsOurs(r) /\ ~IsDirectors(r))
<1>1. \A i \in DOMAIN s : s[i] \in Good(b)
  OBVIOUS
<1>2. u = FlattenSeq([i \in DOMAIN s |-> IF s[i] \in T THEN <<s[i]>> ELSE <<>>])
  BY <1>1 DEF Keep
<1>3. T = {r \in Good(b) : r.from = {}}
  BY Outsiders
<1>4. Strip(c).rules = [i \in DOMAIN u |-> Returned(u[i])]
  BY DEF Strip, Returned
<1>. HIDE DEF u, T
<1>5. u \in Seq(Good(b)) /\ Kept(u, s, T)
  BY <1>2, KeepKeeps
<1>6. DOMAIN u = 1 .. Len(u)
  BY <1>5
<1>. QED  BY <1>3, <1>4, <1>5, <1>6

(* Taking the countries off gives a plain file that says what the file     *)
(* said for all.                                                           *)
LEMMA StripPlain ==
  ASSUME NEW b \in Database, NEW c, NEW l, Built(c, b, l)
  PROVE  \E k : /\ PlainAt(Strip(c), b, k, {})
                /\ \A w, to : to # Director /\ Has(c.rules, l, w, to) => Has(Strip(c).rules, k, w, to)
                /\ GovFirst(c.rules) => Blocks(Strip(c).rules[1])
<1>. DEFINE s == c.rules
            T == {r \in Good(b) : r.from = {}}
<1>1. s \in Seq(Good(b)) /\ Furnished(c, b) /\ s \in Seq(RuleType)
  BY PlainTyped, SeqWider DEF Built
<1>2. PICK u \in Seq(Good(b)) : Kept(u, s, T) /\ Strip(c).rules = [i \in 1 .. Len(u) |-> Returned(u[i])]
  BY <1>1, StripRules
<1>. DEFINE t == [i \in 1 .. Len(u) |-> Returned(u[i])]
<1>3. \A i \in 1 .. Len(u) : u[i] \in T
  BY <1>2 DEF Kept
<1>4. /\ t \in Seq(PlainRules(b)) /\ Len(t) = Len(u) /\ Len(u) \in Nat
      /\ \A i \in 1 .. Len(u) : t[i] = Returned(u[i]) /\ t[i].match = u[i].match /\ t[i].from = {}
  <2>. DEFINE f(i) == Returned(u[i])
  <2>. HIDE DEF f
  <2>2. /\ t = [i \in 1 .. Len(u) |-> f(i)]
        /\ \A i \in 1 .. Len(u) : f(i) \in PlainRules(b) /\ f(i).match = u[i].match /\ f(i).from = {}
    BY <1>3, ReturnedPlain DEF f
  <2>. HIDE DEF t
  <2>3. Len(u) \in Nat
    OBVIOUS
  <2>4. t \in Seq(PlainRules(b)) /\ Len(t) = Len(u) /\ \A i \in 1 .. Len(u) : t[i] = f(i)
    BY <2>2, <2>3
  <2>. QED  BY <2>2, <2>3, <2>4 DEF f
<1>5. Strip(c).rules = t
  BY <1>2
<1>. HIDE DEF t
<1>6. PICK to : CatchAllAt(s, l, to) /\ (to = Final(b) \/ (to = Director /\ Final(b) = Upstream))
  BY DEF Built
<1>7. s[l] \in T
  BY <1>1, <1>6 DEF CatchAllAt, Rule
<1>8. u \in Seq(RuleType) /\ t \in Seq(RuleType)
  BY <1>4, PlainTyped, SeqWider
<1>9. PICK k : /\ CatchAllAt(u, k, to) /\ (l = Len(s) => k = Len(u)) /\ Ahead(s, l) \cap T \subseteq Ahead(u, k)
  <2>. HIDE DEF s, T
  <2>. QED  BY <1>1, <1>2, <1>6, <1>7, <1>8, CatchAllKept
<1>10. CatchAllAt(t, k, Final(b))
  <2>1. k \in 1 .. Len(t) /\ u[k] = Rule({}, {}, to)
    BY <1>4, <1>9 DEF CatchAllAt
  <2>2. Returned(Rule({}, {}, to)) = Rule({}, {}, Final(b))
    <3>1. Rule({}, {}, to).to = to
      BY DEF Rule
    <3>2. CASE to # Director
      BY <3>1, <3>2, <1>6 DEF Returned
    <3>3. CASE to = Director
      <4>1. [Rule({}, {}, to) EXCEPT !.to = Upstream] = Rule({}, {}, Upstream)
        <5>. DEFINE q == Rule({}, {}, to)
        <5>1. q \in RuleType /\ q.from = {} /\ q.match = {}
          BY <2>1, <3>1, <1>8, <1>4 DEF Rule
        <5>. HIDE DEF q
        <5>2. /\ [q EXCEPT !.to = Upstream] \in RuleType /\ [q EXCEPT !.to = Upstream].from = {}
              /\ [q EXCEPT !.to = Upstream].match = {} /\ [q EXCEPT !.to = Upstream].to = Upstream
          BY <5>1, PlacesThere DEF RuleType
        <5>3. \A r \in RuleType : r.from = {} /\ r.match = {} /\ r.to = Upstream => r = Rule({}, {}, Upstream)
          BY DEF RuleType, Rule
        <5>. QED  BY <5>2, <5>3 DEF q
      <4>. QED  BY <3>1, <3>3, <4>1, <1>6, FinalPlace DEF Returned
    <3>. QED  BY <3>2, <3>3
  <2>4. \A i \in 1 .. Len(t) : i # k => ~IsCatchAll(t[i])
    BY <1>9, <1>3, <1>4 DEF CatchAllAt, IsCatchAll
  <2>. QED  BY <2>1, <2>4, <2>2, <1>4 DEF CatchAllAt
<1>11. PlainAt(Strip(c), b, k, {})
  BY <1>1, <1>5, <1>8, StripFurnished, <1>4, <1>9, <1>10 DEF Built, PlainAt
<1>12. ASSUME NEW w, NEW x, x # Director, Has(s, l, w, x) PROVE Has(t, k, w, x)
  <2>1. PICK i \in 1 .. l - 1 : s[i].from = {} /\ w \in s[i].match /\ s[i].to = x
    BY <1>12 DEF Has
  <2>3. s[i] \in T /\ s[i] \in Ahead(s, l)
    BY <2>1, <1>1, AheadHas, <1>6 DEF CatchAllAt
  <2>4. PICK j \in 1 .. k - 1 : u[j] = s[i]
    BY <2>3, <1>9 DEF Ahead
  <2>5. j \in 1 .. Len(u)
    BY <1>9 DEF CatchAllAt
  <2>6. t[j] = u[j]
    BY <2>1, <2>4, <2>5, <1>4, <1>12 DEF Returned
  <2>. QED  BY <2>1, <2>4, <2>6 DEF Has
<1>13. ASSUME GovFirst(s) PROVE Blocks(t[1])
  <2>1. PICK i \in 1 .. Len(s) : Blocks(s[i]) /\ \A j \in 1 .. i - 1 : s[j].from \in Insiders
    BY <1>13 DEF GovFirst
  <2>2. PICK h \in [1 .. Len(u) -> 1 .. Len(s)] :
          /\ \A m \in 1 .. Len(u) : s[h[m]] \in T /\ u[m] = s[h[m]]
          /\ \A m, n \in 1 .. Len(u) : m < n => h[m] < h[n]
          /\ \A j \in 1 .. Len(s) : s[j] \in T => \E m \in 1 .. Len(u) : h[m] = j
    BY <1>2 DEF Kept
  <2>4. PICK m \in 1 .. Len(u) : h[m] = i
    BY <2>2, <2>1, <1>1 DEF Blocks
  <2>5. 1 \in 1 .. Len(u) /\ h[1] \in 1 .. Len(s)
    BY <2>4, <1>4, <2>2
  <2>7. s[h[1]].from = {}
    BY <2>2, <2>5
  <2>8. h[1] = i
    <3>1. CASE h[1] < i
      <4>2. s[h[1]].from \in Insiders
        BY <2>1, <3>1, <2>5
      <4>. QED  BY <4>2, <2>7 DEF Insiders
    <3>. QED  BY <3>1, <2>5, <2>4, <2>2
  <2>9. u[1] = s[i] /\ s[i].to = Block
    BY <2>1, <2>2, <2>5, <2>8 DEF Blocks
  <2>10. t[1] = s[i]
    <3>2. u[1].to # Director
      BY <2>9 DEF Block, Director
    <3>. QED  BY <3>2, <2>9, <2>5, <1>4 DEF Returned
  <2>. QED  BY <2>1, <2>10
<1>. QED  BY <1>5, <1>11, <1>12, <1>13

-----------------------------------------------------------------------------
(* The layer of the countries: their entrances.                            *)

(* The rule of the country s for match.                                    *)
SlotRule(c, d, match, s) == Rule({In(s)}, match, SlotTarget(c, d, s))

(* What may be copied for the countries.                                   *)
Copied(b, match) ==
  match \subseteq Words /\ match \cap Russian = {} /\ ("own" \in match => Foreign(OwnTo(b)))

(* It is good.                                                             *)
LEMMA SlotRuleGood ==
  ASSUME NEW b \in Database, NEW c, NEW d \in Database, NEW match, Copied(b, match), NEW s \in Slots
  PROVE  /\ SlotRule(c, d, match, s) \in Good(b)
         /\ SlotRule(c, d, match, s).from = {In(s)} /\ SlotRule(c, d, match, s).match = match
         /\ SlotRule(c, d, match, s).to = SlotTarget(c, d, s)
<1>. DEFINE r == SlotRule(c, d, match, s)
            to == SlotTarget(c, d, s)
<1>1. to \in Places /\ to # Direct
  BY SlotTargetIs
<1>. HIDE DEF to
<1>2. r = [from |-> {In(s)}, match |-> match, to |-> to]
  BY DEF SlotRule, Rule, to
<1>. HIDE DEF r
<1>3. r.from = {In(s)} /\ r.match = match /\ r.to = to
  BY <1>2
<1>4. {In(s)} \subseteq Doors /\ {In(s)} # {} /\ {In(s)} \in Froms
  BY PlacesThere DEF Froms
<1>5. r \in RuleType
  BY <1>1, <1>2, <1>4 DEF RuleType, Copied
<1>6. r \in Good(b)
  BY <1>1, <1>3, <1>4, <1>5 DEF Good, Copied
<1>. QED  BY <1>3, <1>6 DEF r, to

(* q holds one rule of each country, for match.                            *)
OneEach(q, b, c, d, match) ==
  /\ q \in Seq(Good(b)) /\ Len(q) = Len(InOrder) /\ Len(InOrder) \in Nat
  /\ \A i \in 1 .. Len(q) : \E s \in Slots : q[i] = SlotRule(c, d, match, s)
  /\ \A s \in Slots : \E i \in 1 .. Len(q) : q[i] = SlotRule(c, d, match, s)

(* SlotRules writes one for each country.                                  *)
LEMMA SlotRulesAre ==
  ASSUME NEW b \in Database, NEW c, NEW d \in Database, NEW match, Copied(b, match)
  PROVE  OneEach(SlotRules(c, d, match), b, c, d, match)
<1>. DEFINE f(i) == SlotRule(c, d, match, InOrder[i])
            q == SlotRules(c, d, match)
            n == Len(InOrder)
<1>1. n \in Nat /\ DOMAIN InOrder = 1 .. n /\ (\A i \in 1 .. n : InOrder[i] \in Slots)
      /\ \A s \in Slots : \E i \in 1 .. n : InOrder[i] = s
  BY Constants DEF ToSet
<1>2. q = [i \in 1 .. n |-> f(i)]
  BY <1>1 DEF SlotRules, SlotRule
<1>3. \A i \in 1 .. n : f(i) \in Good(b)
  BY <1>1, SlotRuleGood
<1>4. (\A i \in 1 .. n : \E s \in Slots : f(i) = SlotRule(c, d, match, s))
      /\ \A s \in Slots : \E i \in 1 .. n : f(i) = SlotRule(c, d, match, s)
  BY <1>1
<1>. HIDE DEF f, q, n
<1>5. q \in Seq(Good(b)) /\ Len(q) = n /\ \A i \in 1 .. n : q[i] = f(i)
  BY <1>1, <1>2, <1>3
<1>. QED  BY ZenonT(30), <1>1, <1>4, <1>5 DEF q, n, OneEach

(* A rule, behind its copies for the countries.                            *)
Many(r) == r.match # {} /\ Foreign(r.to)

(* q is the rule r, behind its copies when there are to be any.            *)
Copies(q, b, c, d, r) ==
  /\ q \in Seq(Good(b)) /\ Len(q) \in Nat /\ Len(q) >= 1 /\ q[Len(q)] = r
  /\ \A i \in 1 .. Len(q) : i # Len(q) => Many(r) /\ \E s \in Slots : q[i] = SlotRule(c, d, r.match, s)
  /\ Many(r) => \A s \in Slots : \E i \in 1 .. Len(q) - 1 : q[i] = SlotRule(c, d, r.match, s)
  /\ ~Many(r) => Len(q) = 1

(* WithCopies writes the copies before the rule.                           *)
LEMMA CopiesAre ==
  ASSUME NEW b \in Database, NEW c, NEW d \in Database, NEW r \in PlainRules(b)
  PROVE  Copies(WithCopies(c, d, r), b, c, d, r)
<1>. DEFINE q == WithCopies(c, d, r)
            many == Many(r)
<1>1. r \in Good(b) /\ r \in RuleType /\ r.from = {}
  BY PlainTyped DEF PlainRules
<1>2. CASE ~many
  <2>1. q = <<r>>
    BY <1>1, <1>2 DEF WithCopies, Many
  <2>. HIDE DEF q, many
  <2>. QED  BY <1>1, <1>2, <2>1 DEF q, many, Copies
<1>3. CASE many
  <2>. DEFINE p == SlotRules(c, d, r.match)
              o1 == <<r>>
  <2>1. q = p \o o1
    BY <1>1, <1>3 DEF WithCopies, Many
  <2>2. Copied(b, r.match)
    <3>2. r.to # Direct
      BY <1>3 DEF Many, Foreign, IsNode, Direct, ToDe, Upstream
    <3>3. Foreign(r.to)
      BY <1>3 DEF Many
    <3>. QED  BY <1>1, <3>2, <3>3 DEF Copied, Good, RuleType
  <2>3. /\ p \in Seq(Good(b)) /\ Len(p) \in Nat
        /\ \A i \in 1 .. Len(p) : \E s \in Slots : p[i] = SlotRule(c, d, r.match, s)
        /\ \A s \in Slots : \E i \in 1 .. Len(p) : p[i] = SlotRule(c, d, r.match, s)
    <3>1. OneEach(SlotRules(c, d, r.match), b, c, d, r.match)
      BY <2>2, SlotRulesAre
    <3>. QED  BY <3>1 DEF OneEach
  <2>4. o1 \in Seq(Good(b))
    BY <1>1
  <2>5. Len(o1) = 1 /\ o1[1] = r
    OBVIOUS
  <2>. HIDE DEF q, p, o1, many
  <2>6. /\ q \in Seq(Good(b)) /\ Len(q) = Len(p) + Len(o1)
        /\ \A i \in 1 .. Len(p) : q[i] = p[i]
        /\ \A i \in 1 .. Len(o1) : q[Len(p) + i] = o1[i]
    BY <2>3, <2>1, <2>4, ConcatIs
  <2>7. 1 \in 1 .. Len(o1) /\ Len(q) = Len(p) + 1
    BY <2>5, <2>6
  <2>8. q[Len(q)] = r
    BY <2>5, <2>6, <2>7
  <2>10. \A i \in 1 .. Len(q) : i # Len(q) => \E s \in Slots : q[i] = SlotRule(c, d, r.match, s)
    BY <2>3, <2>6, <2>7
  <2>11. \A s \in Slots : \E i \in 1 .. Len(q) - 1 : q[i] = SlotRule(c, d, r.match, s)
    BY <2>3, <2>6, <2>7
  <2>. QED  BY <1>3, <2>3, <2>6, <2>7, <2>8, <2>10, <2>11 DEF q, many, Copies
<1>. QED  BY <1>2, <1>3

(* The rules before the one for everything, with their copies.             *)
Fore(c, d, s, n) == FlattenSeq([i \in 1 .. n |-> WithCopies(c, d, s[i])])

(* A concatenation of three, by its parts.                                 *)
LEMMA ThreeIs ==
  ASSUME NEW X, NEW u \in Seq(X), NEW v \in Seq(X), NEW z \in Seq(X)
  PROVE  LET t == u \o v \o z IN
         /\ t \in Seq(X) /\ Len(u) \in Nat /\ Len(v) \in Nat /\ Len(z) \in Nat
         /\ Len(t) = Len(u) + Len(v) + Len(z)
         /\ \A i \in 1 .. Len(t) : \/ i \in 1 .. Len(u) /\ t[i] = u[i]
                                   \/ i - Len(u) \in 1 .. Len(v) /\ t[i] = v[i - Len(u)]
                                   \/ i - (Len(u) + Len(v)) \in 1 .. Len(z) /\ t[i] = z[i - (Len(u) + Len(v))]
         /\ \A i \in 1 .. Len(u) : t[i] = u[i]
         /\ \A i \in 1 .. Len(v) : t[Len(u) + i] = v[i]
         /\ \A i \in 1 .. Len(z) : t[Len(u) + Len(v) + i] = z[i]
<1>. DEFINE p == u \o v
            t == p \o z
<1>1. /\ p \in Seq(X) /\ Len(u) \in Nat /\ Len(v) \in Nat /\ Len(p) = Len(u) + Len(v)
      /\ \A i \in 1 .. Len(u) : p[i] = u[i]
      /\ \A i \in 1 .. Len(v) : p[Len(u) + i] = v[i]
      /\ \A i \in 1 .. Len(p) :
           i \in 1 .. Len(u) \/ (i - Len(u) \in 1 .. Len(v) /\ Len(u) + (i - Len(u)) = i)
  BY ConcatIs
<1>. HIDE DEF p
<1>2. /\ t \in Seq(X) /\ Len(z) \in Nat /\ Len(t) = Len(p) + Len(z)
      /\ \A i \in 1 .. Len(p) : t[i] = p[i]
      /\ \A i \in 1 .. Len(z) : t[Len(p) + i] = z[i]
      /\ \A i \in 1 .. Len(t) :
           i \in 1 .. Len(p) \/ (i - Len(p) \in 1 .. Len(z) /\ Len(p) + (i - Len(p)) = i)
  <2>1. p \in Seq(X)
    BY <1>1
  <2>. QED  BY <2>1, ConcatIs
<1>. HIDE DEF t
<1>3. ASSUME NEW i \in 1 .. Len(t)
      PROVE  \/ i \in 1 .. Len(u) /\ t[i] = u[i]
             \/ i - Len(u) \in 1 .. Len(v) /\ t[i] = v[i - Len(u)]
             \/ i - (Len(u) + Len(v)) \in 1 .. Len(z) /\ t[i] = z[i - (Len(u) + Len(v))]
  <2>1. CASE i \in 1 .. Len(p)
    BY <2>1, <1>2, <1>1
  <2>2. CASE i - Len(p) \in 1 .. Len(z) /\ Len(p) + (i - Len(p)) = i
    BY <2>2, <1>2, <1>1
  <2>. QED  BY <2>1, <2>2, <1>2
<1>4. \A i \in 1 .. Len(u) : t[i] = u[i]
  BY <1>1, <1>2
<1>5. \A i \in 1 .. Len(v) : t[Len(u) + i] = v[i]
  BY <1>1, <1>2
<1>6. \A i \in 1 .. Len(z) : t[Len(u) + Len(v) + i] = z[i]
  BY <1>1, <1>2
<1>7. t \in Seq(X) /\ Len(t) = Len(u) + Len(v) + Len(z)
  BY <1>1, <1>2
<1>. QED  BY <1>1, <1>2, <1>3, <1>4, <1>5, <1>6, <1>7 DEF t, p

(* The i-th rule gets copies, the l-th being the one for everything.       *)
Split(s, l, i) == i = l \/ (i < l /\ Many(s[i]))

(* t is made of the first n rules of s: at[k] is the rule that the k-th of *)
(* t stands for, itself and the last, or as the copy of a country.         *)
Unfolds(t, c, d, s, n, l, at) ==
  /\ at \in [1 .. Len(t) -> 1 .. n]
  /\ \A j, k \in 1 .. Len(t) : j < k => at[j] <= at[k] /\ (at[j] = at[k] => t[j].from # {})
  /\ \A k \in 1 .. Len(t) :
       \/ t[k] = s[at[k]]
       \/ Split(s, l, at[k]) /\ \E x \in Slots : t[k] = SlotRule(c, d, s[at[k]].match, x)
  /\ \A i \in 1 .. n : \E k \in 1 .. Len(t) : at[k] = i /\ t[k] = s[i]
  /\ \A i \in 1 .. n, x \in Slots : Split(s, l, i) =>
       \E k \in 1 .. Len(t) : at[k] = i /\ t[k] = SlotRule(c, d, s[i].match, x)

(* The rules before the one for everything, each with its copies, stand    *)
(* for the rules they were made from.                                      *)
LEMMA ForeUnfolds ==
  ASSUME NEW b \in Database, NEW c, NEW d \in Database, NEW s \in Seq(PlainRules(b)), NEW n \in 0 .. Len(s)
  PROVE  Fore(c, d, s, n) \in Seq(Good(b)) /\ \E at : Unfolds(Fore(c, d, s, n), c, d, s, n, n + 1, at)
<1>. DEFINE f(i) == WithCopies(c, d, s[i])
            ss == [i \in 1 .. n |-> f(i)]
            t == Fore(c, d, s, n)
            many(r) == Many(r)
            cp(i, x) == SlotRule(c, d, s[i].match, x)
<1>2. \A i \in 1 .. n :
         /\ f(i) \in Seq(Good(b)) /\ Len(f(i)) \in Nat /\ Len(f(i)) >= 1 /\ f(i)[Len(f(i))] = s[i]
         /\ \A k \in 1 .. Len(f(i)) : k # Len(f(i)) => many(s[i]) /\ \E x \in Slots : f(i)[k] = cp(i, x)
         /\ many(s[i]) => \A x \in Slots : \E k \in 1 .. Len(f(i)) - 1 : f(i)[k] = cp(i, x)
  <2>. TAKE i \in 1 .. n
  <2>1. Copies(WithCopies(c, d, s[i]), b, c, d, s[i])
    BY CopiesAre, PlainTyped DEF PlainRules
  <2>. QED  BY <2>1, Zenon DEF Copies
<1>3. \A i \in 1 .. n : \A x \in Slots : cp(i, x).from = {In(x)}
  BY DEF SlotRule, Rule
<1>4. t = FlattenSeq(ss)
  BY DEF Fore
<1>. HIDE DEF f, t, cp
<1>5. ss \in Seq(Seq(Good(b))) /\ Len(ss) = n /\ \A i \in 1 .. n : ss[i] = f(i)
  BY <1>2
<1>. HIDE DEF ss
<1>6. t \in Seq(Good(b)) /\ \E at, pos : Spread(t, ss, n, at, pos)
  BY <1>4, <1>5, Flattened
<1>7. PICK at, pos : Spread(t, ss, n, at, pos)
  BY <1>6
<1>8. /\ at \in [1 .. Len(t) -> 1 .. n] /\ pos \in [1 .. Len(t) -> Nat] /\ Len(t) \in Nat
      /\ \A k \in 1 .. Len(t) : pos[k] \in 1 .. Len(f(at[k])) /\ t[k] = f(at[k])[pos[k]]
      /\ \A k, l \in 1 .. Len(t) : k < l => at[k] < at[l] \/ (at[k] = at[l] /\ pos[k] < pos[l])
      /\ \A i \in 1 .. n : \A p \in 1 .. Len(f(i)) : \E k \in 1 .. Len(t) : at[k] = i /\ pos[k] = p
  <2>1. /\ at \in [1 .. Len(t) -> 1 .. n] /\ pos \in [1 .. Len(t) -> Nat]
        /\ \A k \in 1 .. Len(t) : pos[k] \in 1 .. Len(ss[at[k]]) /\ t[k] = ss[at[k]][pos[k]]
        /\ \A k, l \in 1 .. Len(t) : k < l => at[k] < at[l] \/ (at[k] = at[l] /\ pos[k] < pos[l])
        /\ \A i \in 1 .. n : \A p \in 1 .. Len(ss[i]) : \E k \in 1 .. Len(t) : at[k] = i /\ pos[k] = p
    BY <1>7 DEF Spread
  <2>2. \A k \in 1 .. Len(t) : at[k] \in 1 .. n /\ ss[at[k]] = f(at[k])
    BY <2>1, <1>5
  <2>. QED  BY <2>1, <2>2, <1>5, <1>6
<1>9. ASSUME NEW k \in 1 .. Len(t)
      PROVE  /\ at[k] \in 1 .. n /\ pos[k] \in 1 .. Len(f(at[k])) /\ Len(f(at[k])) \in Nat
             /\ pos[k] = Len(f(at[k])) => t[k] = s[at[k]]
             /\ pos[k] # Len(f(at[k])) => many(s[at[k]]) /\ \E x \in Slots : t[k] = cp(at[k], x)
  <2>1. at[k] \in 1 .. n /\ pos[k] \in 1 .. Len(f(at[k])) /\ t[k] = f(at[k])[pos[k]]
    BY <1>8
  <2>. HIDE DEF many
  <2>. QED  BY SMTT(30), <2>1, <1>2
<1>10. ASSUME NEW j \in 1 .. Len(t), NEW k \in 1 .. Len(t), j < k
       PROVE  at[j] <= at[k] /\ (at[j] = at[k] => t[j].from # {})
  <2>1. at[j] \in 1 .. n /\ at[k] \in 1 .. n /\ (at[j] < at[k] \/ (at[j] = at[k] /\ pos[j] < pos[k]))
    BY <1>8, <1>10
  <2>2. ASSUME at[j] = at[k] PROVE t[j].from # {}
    <3>2. pos[j] # Len(f(at[j]))
      BY <2>1, <2>2, <1>9
    <3>3. PICK x \in Slots : t[j] = cp(at[j], x)
      BY <3>2, <1>9
    <3>. QED  BY <2>1, <3>3, <1>3
  <2>. QED  BY <2>1, <2>2
<1>11. \A k \in 1 .. Len(t) :
         \/ t[k] = s[at[k]]
         \/ many(s[at[k]]) /\ \E x \in Slots : t[k] = cp(at[k], x)
  BY <1>9
<1>12. ASSUME NEW i \in 1 .. n PROVE \E k \in 1 .. Len(t) : at[k] = i /\ t[k] = s[i]
  <2>1. Len(f(i)) \in 1 .. Len(f(i))
    BY <1>2
  <2>2. PICK k \in 1 .. Len(t) : at[k] = i /\ pos[k] = Len(f(i))
    BY ZenonT(30), <2>1, <1>8
  <2>. QED  BY <2>2, <1>9
<1>13. ASSUME NEW i \in 1 .. n, NEW x \in Slots, many(s[i])
       PROVE  \E k \in 1 .. Len(t) : at[k] = i /\ t[k] = cp(i, x)
  <2>. HIDE DEF many
  <2>1. PICK p \in 1 .. Len(f(i)) - 1 : f(i)[p] = cp(i, x)
    BY <1>2, <1>13
  <2>2. p \in 1 .. Len(f(i))
    BY <1>2, <2>1
  <2>3. PICK k \in 1 .. Len(t) : at[k] = i /\ pos[k] = p
    BY <2>2, <1>8
  <2>. QED  BY <2>1, <2>3, <1>8
<1>14. \A i \in 1 .. n : Split(s, n + 1, i) <=> many(s[i])
  BY DEF Split
<1>15. \A k \in 1 .. Len(t) : at[k] \in 1 .. n
  BY <1>8
<1>16. \A k \in 1 .. Len(t) :
         \/ t[k] = s[at[k]]
         \/ Split(s, n + 1, at[k]) /\ \E x \in Slots : t[k] = SlotRule(c, d, s[at[k]].match, x)
  BY <1>11, <1>14, <1>15, Zenon DEF cp
<1>17. \A i \in 1 .. n, x \in Slots : Split(s, n + 1, i) =>
         \E k \in 1 .. Len(t) : at[k] = i /\ t[k] = SlotRule(c, d, s[i].match, x)
  BY <1>13, <1>14, Zenon DEF cp
<1>18. /\ at \in [1 .. Len(t) -> 1 .. n]
       /\ \A j, k \in 1 .. Len(t) : j < k => at[j] <= at[k] /\ (at[j] = at[k] => t[j].from # {})
       /\ \A i \in 1 .. n : \E k \in 1 .. Len(t) : at[k] = i /\ t[k] = s[i]
  BY <1>8, <1>10, <1>12
<1>19. Unfolds(t, c, d, s, n, n + 1, at)
  BY <1>16, <1>17, <1>18, Zenon DEF Unfolds
<1>. QED  BY <1>6, <1>19 DEF t

(* The rules s, for all, of which the l-th is the one for everything.      *)
PlainRow(s, b, l) ==
  /\ s \in Seq(PlainRules(b)) /\ s \in Seq(Good(b)) /\ Len(s) \in Nat
  /\ l \in 1 .. Len(s) /\ s[l] = Rule({}, {}, Final(b))
  /\ \A i \in 1 .. Len(s) : s[i].from = {} /\ (i # l => s[i].match # {})

(* The rules that Entrances writes, in three parts.                        *)
LEMMA EntrancesParts ==
  ASSUME NEW b \in Database, NEW d \in Database, NEW e, NEW l, PlainAt(e, b, l, {})
  PROVE  /\ Entrances(e, d).rules =
              Fore(e, d, e.rules, l - 1) \o SlotRules(e, d, {}) \o SubSeq(e.rules, l, Len(e.rules))
         /\ PlainRow(e.rules, b, l)
<1>. DEFINE s == e.rules
<1>1. /\ s \in Seq(PlainRules(b)) /\ s \in Seq(RuleType) /\ CatchAllAt(s, l, Final(b)) /\ Len(s) \in Nat
      /\ s \in Seq(Good(b))
  BY PlainTyped, SeqWider DEF PlainAt
<1>2. /\ l \in 1 .. Len(s) /\ s[l] = Rule({}, {}, Final(b)) /\ (\A i \in 1 .. Len(s) : i # l => ~IsCatchAll(s[i]))
      /\ \A i \in 1 .. Len(s) : s[i].from = {}
  BY <1>1 DEF CatchAllAt, PlainRules
<1>3. SelectLastInSeq(s, IsCatchAll) = l
  <2>2. LET m == SelectLastInSeq(s, IsCatchAll) IN
         \/ m = 0 /\ \A i \in 1 .. Len(s) : ~IsCatchAll(s[i])
         \/ m \in 1 .. Len(s) /\ IsCatchAll(s[m]) /\ \A i \in 1 .. Len(s) : IsCatchAll(s[i]) => i <= m
    BY <1>1, LastIs
  <2>. QED  BY <1>2, <2>2 DEF IsCatchAll, Rule
<1>4. Entrances(e, d).rules = Fore(e, d, s, l - 1) \o SlotRules(e, d, {}) \o SubSeq(s, l, Len(s))
  <2>1. Entrances(e, d).rules =
           FlattenSeq([i \in 1 .. l - 1 |-> WithCopies(e, d, s[i])]) \o SlotRules(e, d, {}) \o SubSeq(s, l, Len(s))
    <3>1. e \in Files /\ l # 0
      BY <1>2 DEF PlainAt, Furnished
    <3>. QED  BY <1>3, <3>1 DEF Entrances, Files
  <2>. QED  BY <2>1 DEF Fore
<1>5. \A i \in 1 .. Len(s) : i # l => s[i].match # {}
  BY <1>2 DEF IsCatchAll
<1>6. PlainRow(s, b, l)
  BY <1>1, <1>2, <1>5, Zenon DEF PlainRow
<1>. QED  BY <1>4, <1>6

(* So do all the rules that the layer of the countries writes.             *)
LEMMA EntrancesUnfold ==
  ASSUME NEW b \in Database, NEW d \in Database, NEW e, NEW l, PlainAt(e, b, l, {})
  PROVE  LET t == Entrances(e, d).rules IN
         t \in Seq(Good(b)) /\ \E at : Unfolds(t, e, d, e.rules, Len(e.rules), l, at)
<1>. DEFINE s == e.rules
            u == Fore(e, d, s, l - 1)
            v == SlotRules(e, d, {})
            z == SubSeq(s, l, Len(s))
            t == u \o v \o z
            n == Len(s)
            a == Len(u)
            w == Len(u) + Len(v)
<1>1. /\ Entrances(e, d).rules = t /\ s \in Seq(PlainRules(b)) /\ s \in Seq(Good(b)) /\ n \in Nat
      /\ l \in 1 .. n /\ s[l] = Rule({}, {}, Final(b))
      /\ \A i \in 1 .. n : s[i].from = {} /\ (i # l => s[i].match # {})
  <2>1. Entrances(e, d).rules = t /\ PlainRow(s, b, l)
    BY EntrancesParts
  <2>. QED  BY <2>1, Zenon DEF PlainRow
<1>2. s[l].match = {} /\ s[l].from = {}
  BY <1>1 DEF Rule
<1>3. u \in Seq(Good(b)) /\ \E at : Unfolds(u, e, d, s, l - 1, l, at)
  <2>1. l - 1 \in 0 .. Len(s) /\ (l - 1) + 1 = l
    BY <1>1
  <2>. HIDE DEF s, t, n, w, a
  <2>. HIDE DEF u
  <2>. QED  BY <1>1, <2>1, ForeUnfolds DEF u
<1>4. PICK au : Unfolds(u, e, d, s, l - 1, l, au)
  BY <1>3
<1>5. /\ au \in [1 .. Len(u) -> 1 .. l - 1]
      /\ \A j, k \in 1 .. Len(u) : j < k => au[j] <= au[k] /\ (au[j] = au[k] => u[j].from # {})
      /\ \A k \in 1 .. Len(u) :
           \/ u[k] = s[au[k]]
           \/ Split(s, l, au[k]) /\ \E x \in Slots : u[k] = SlotRule(e, d, s[au[k]].match, x)
      /\ \A i \in 1 .. l - 1 : \E k \in 1 .. Len(u) : au[k] = i /\ u[k] = s[i]
      /\ \A i \in 1 .. l - 1, x \in Slots : Split(s, l, i) =>
           \E k \in 1 .. Len(u) : au[k] = i /\ u[k] = SlotRule(e, d, s[i].match, x)
  BY <1>4, Zenon DEF Unfolds
<1>6. /\ v \in Seq(Good(b)) /\ Len(v) \in Nat
      /\ \A i \in 1 .. Len(v) : \E x \in Slots : v[i] = SlotRule(e, d, {}, x) /\ v[i].from = {In(x)}
      /\ \A x \in Slots : \E i \in 1 .. Len(v) : v[i] = SlotRule(e, d, {}, x)
  <2>1. Copied(b, {})
    BY DEF Copied
  <2>2. OneEach(v, b, e, d, {})
    BY <2>1, SlotRulesAre
  <2>3. \A x \in Slots : SlotRule(e, d, {}, x).from = {In(x)}
    BY <2>1, SlotRuleGood
  <2>. HIDE DEF v
  <2>. QED  BY <2>2, <2>3 DEF OneEach
<1>7. /\ z \in Seq(Good(b)) /\ Len(z) = n - l + 1
      /\ \A i \in 1 .. Len(z) : z[i] = s[i + l - 1] /\ i + l - 1 \in 1 .. n
  <2>1. s \in Seq(Good(b)) /\ l \in 1 .. Len(s)
    BY <1>1
  <2>. HIDE DEF s
  <2>. QED  BY <2>1 DEF n
<1>. HIDE DEF u, v, z, s, n
<1>8. /\ t \in Seq(Good(b)) /\ Len(u) \in Nat /\ Len(v) \in Nat /\ Len(z) \in Nat
      /\ Len(t) = Len(u) + Len(v) + Len(z)
      /\ \A i \in 1 .. Len(t) : \/ i \in 1 .. Len(u) /\ t[i] = u[i]
                                \/ i - Len(u) \in 1 .. Len(v) /\ t[i] = v[i - Len(u)]
                                \/ i - (Len(u) + Len(v)) \in 1 .. Len(z) /\ t[i] = z[i - (Len(u) + Len(v))]
      /\ \A i \in 1 .. Len(u) : t[i] = u[i]
      /\ \A i \in 1 .. Len(v) : t[Len(u) + i] = v[i]
      /\ \A i \in 1 .. Len(z) : t[Len(u) + Len(v) + i] = z[i]
  <2>1. u \in Seq(Good(b)) /\ v \in Seq(Good(b)) /\ z \in Seq(Good(b))
    BY <1>3, <1>6, <1>7
  <2>. QED  BY <2>1, ThreeIs
<1>. DEFINE at == [k \in 1 .. Len(t) |-> IF k <= a THEN au[k] ELSE IF k <= w THEN l ELSE k - w + l - 1]
<1>. HIDE DEF t
<1>9. a \in Nat /\ w \in Nat /\ a <= w /\ w <= Len(t) /\ Len(t) = w + n - l + 1 /\ Len(t) \in Nat
  BY <1>1, <1>7, <1>8
<1>. HIDE DEF w, a
<1>10. /\ \A k \in 1 .. Len(t) : k <= a => at[k] = au[k] /\ t[k] = u[k] /\ k \in 1 .. Len(u)
       /\ \A k \in 1 .. Len(t) : ~(k <= a) /\ k <= w =>
            at[k] = l /\ \E x \in Slots : t[k] = SlotRule(e, d, {}, x) /\ t[k].from = {In(x)}
       /\ \A k \in 1 .. Len(t) : ~(k <= w) => at[k] = k - w + l - 1 /\ t[k] = s[k - w + l - 1]
  <2>2. ASSUME NEW k \in 1 .. Len(t), ~(k <= a), k <= w
        PROVE  at[k] = l /\ \E x \in Slots : t[k] = SlotRule(e, d, {}, x) /\ t[k].from = {In(x)}
    <3>2. PICK j \in 1 .. Len(v) : k = Len(u) + j
      <4>1. k - Len(u) \in 1 .. Len(v) /\ k = Len(u) + (k - Len(u))
        BY <2>2, <1>8, <1>9 DEF a, w
      <4>. QED  BY <4>1
    <3>. QED  BY <1>6, <2>2, <3>2, <1>8
  <2>3. ASSUME NEW k \in 1 .. Len(t), ~(k <= w)
        PROVE  at[k] = k - w + l - 1 /\ t[k] = s[k - w + l - 1]
    <3>2. PICK j \in 1 .. Len(z) : k = w + j
      <4>1. k - w \in 1 .. Len(z) /\ k = w + (k - w)
        <5>. HIDE DEF at
        <5>. QED  BY <2>3, <1>1, <1>7, <1>8, <1>9
      <4>. QED  BY <4>1
    <3>3. t[k] = z[j]
      BY <3>2, <1>8 DEF w
    <3>5. j + l - 1 = k - w + l - 1
      BY <3>2, <1>9, <1>1, <1>8
    <3>. QED  BY <3>3, <3>5, <2>3, <1>9, <1>7
  <2>. QED  BY <2>2, <2>3, <1>8, <1>9 DEF a
<1>11. ASSUME NEW k \in 1 .. Len(t)
       PROVE  /\ at[k] \in 1 .. n
              /\ k <= a => at[k] \in 1 .. l - 1
              /\ ~(k <= a) => l <= at[k]
  <2>1. CASE k <= a
    BY <2>1, <1>1, <1>5, <1>10
  <2>2. CASE ~(k <= a) /\ k <= w
    BY <2>2, <1>1, <1>10
  <2>3. CASE ~(k <= w)
    BY <2>3, <1>1, <1>9, <1>10
  <2>. QED  BY <2>1, <2>2, <2>3
<1>12. at \in [1 .. Len(t) -> 1 .. n]
  <2>1. at = [k \in 1 .. Len(t) |-> at[k]]
    OBVIOUS
  <2>. HIDE DEF at
  <2>. QED  BY <2>1, <1>11
<1>. HIDE DEF at
<1>13. ASSUME NEW j \in 1 .. Len(t), NEW k \in 1 .. Len(t), j < k
       PROVE  at[j] <= at[k] /\ (at[j] = at[k] => t[j].from # {})
  <2>1. CASE k <= a
    BY <2>1, <1>5, <1>10, <1>13, <1>9
  <2>2. CASE j <= a /\ ~(k <= a)
    BY <2>2, <1>1, <1>11
  <2>3. CASE ~(j <= a) /\ j <= w
    <3>2. at[j] = l /\ l <= at[k]
      BY <2>3, <1>10, <1>11, <1>13, <1>9
    <3>. QED  BY <3>2, <2>3, <1>10
  <2>4. CASE ~(j <= w)
    <3>3. j - w + l - 1 < k - w + l - 1
      <4>. HIDE DEF s, n, a, w
      <4>. QED  BY <1>1, <1>9, <1>13
    <3>. QED  BY <3>3, <1>1, <1>9, <2>4, <1>10, <1>13
  <2>. QED  BY <2>1, <2>2, <2>3, <2>4, <1>9
<1>14. ASSUME NEW k \in 1 .. Len(t)
       PROVE  \/ t[k] = s[at[k]]
              \/ Split(s, l, at[k]) /\ \E x \in Slots : t[k] = SlotRule(e, d, s[at[k]].match, x)
  <2>1. CASE k <= a
    <3>1. at[k] = au[k] /\ t[k] = u[k] /\ k \in 1 .. Len(u)
      BY <2>1, <1>10
    <3>. QED  BY <3>1, <1>5, Zenon
  <2>2. CASE ~(k <= a) /\ k <= w
    <3>1. at[k] = l /\ \E x \in Slots : t[k] = SlotRule(e, d, {}, x)
      BY <2>2, <1>10
    <3>2. Split(s, l, at[k]) /\ s[at[k]].match = {}
      BY <3>1, <1>2 DEF Split
    <3>. QED  BY <3>1, <3>2, Zenon
  <2>3. CASE ~(k <= w)
    BY <2>3, <1>10
  <2>. QED  BY <2>1, <2>2, <2>3
<1>15. ASSUME NEW i \in 1 .. n PROVE \E k \in 1 .. Len(t) : at[k] = i /\ t[k] = s[i]
  <2>1. CASE i < l
    <3>2. PICK k \in 1 .. Len(u) : au[k] = i /\ u[k] = s[i]
      BY <1>5, <2>1, <1>1
    <3>3. k \in 1 .. Len(t) /\ k <= a
      BY <1>8, <1>9 DEF a
    <3>. QED  BY <3>2, <3>3, <1>10
  <2>2. CASE l <= i
    <3>. DEFINE k == i + w + 1 - l
    <3>1. k \in 1 .. Len(t) /\ ~(k <= w) /\ k - w + l - 1 = i
      BY <2>2, <1>1, <1>9
    <3>. HIDE DEF k
    <3>. QED  BY <3>1, <1>10
  <2>. QED  BY <2>1, <2>2, <1>1
<1>16. ASSUME NEW i \in 1 .. n, NEW x \in Slots, Split(s, l, i)
       PROVE  \E k \in 1 .. Len(t) : at[k] = i /\ t[k] = SlotRule(e, d, s[i].match, x)
  <2>1. CASE i < l
    <3>2. PICK k \in 1 .. Len(u) : au[k] = i /\ u[k] = SlotRule(e, d, s[i].match, x)
      BY <1>5, <1>16, <2>1, <1>1
    <3>3. k \in 1 .. Len(t) /\ k <= a
      BY <1>8, <1>9 DEF a
    <3>. QED  BY <3>2, <3>3, <1>10
  <2>2. CASE i = l
    <3>1. PICK j \in 1 .. Len(v) : v[j] = SlotRule(e, d, {}, x)
      BY <1>6
    <3>. DEFINE k == Len(u) + j
    <3>2. k \in 1 .. Len(t) /\ ~(k <= a) /\ k <= w
      BY <1>8, <1>9 DEF a, w
    <3>3. t[k] = v[j]
      BY <1>8
    <3>. HIDE DEF k
    <3>. QED  BY <2>2, <3>1, <3>2, <3>3, <1>2, <1>10
  <2>3. CASE l < i
    BY <2>3, <1>1, <1>16 DEF Split
  <2>. QED  BY <2>1, <2>2, <2>3, <1>1
<1>17. Unfolds(t, e, d, s, n, l, at)
  BY <1>12, <1>13, <1>14, <1>15, <1>16, Zenon DEF Unfolds
<1>. QED  BY <1>1, <1>8, <1>17 DEF s, n, t

(* The countries' rules in t: each leads to its country and comes before   *)
(* the rule for everything; the last one of a country comes after what is  *)
(* for all, and what is for all and goes abroad has a rule of the country  *)
(* before it.                                                              *)
Led(t, c, d, k) ==
  /\ \A i \in 1 .. Len(t), s \in Slots : In(s) \in t[i].from => t[i].to = SlotTarget(c, d, s) /\ i < k
  /\ \A i \in 1 .. k - 1, j \in 1 .. Len(t) :
       t[i].from = {} /\ IsOurs(t[j]) /\ t[j].match = {} => i < j
  /\ \A s \in Slots : \E i \in 1 .. k - 1 : t[i].from = {In(s)} /\ t[i].match = {}
  /\ \A i \in 1 .. Len(t), s \in Slots : t[i].from = {} /\ t[i].match # {} /\ Foreign(t[i].to) =>
       \A w \in t[i].match : \E j \in 1 .. i - 1 : t[j].from = {In(s)} /\ (t[j].match = {} \/ w \in t[j].match)

(* The entrances differ from each other.                                   *)
LEMMA SlotsApart ==
  /\ \A s, x : In(s) = In(x) => s = x
  /\ \A s, x : LoopIn(s) = LoopIn(x) => s = x
  /\ \A s, x : In(s) # LoopIn(x) /\ In(s) # Api /\ LoopIn(s) # Api
BY DEF In, LoopIn, Api

(* Rules that stand for plain ones are led, and keep what was said for all. *)
LEMMA UnfoldsLed ==
  ASSUME NEW b \in Database, NEW e, NEW d, NEW s, NEW l, PlainRow(s, b, l),
         NEW t \in Seq(Good(b)), NEW at, Unfolds(t, e, d, s, Len(s), l, at)
  PROVE  \E k :
           /\ CatchAllAt(t, k, Final(b)) /\ (l = Len(s) => k = Len(t))
           /\ Led(t, e, d, k) /\ \A i \in 1 .. Len(t) : t[i].from \notin Insiders
           /\ \A w, to : Has(s, l, w, to) => Has(t, k, w, to)
           /\ Blocks(s[1]) => Blocks(t[1])
<1>. DEFINE n == Len(s)
            m == Len(t)
<1>1. n \in Nat /\ l \in 1 .. n /\ s[l] = Rule({}, {}, Final(b))
  BY Zenon DEF PlainRow
<1>2. \A i \in 1 .. n : s[i].from = {} /\ (i # l => s[i].match # {})
  BY Zenon DEF PlainRow
<1>3. s[l].match = {} /\ s[l].from = {}
  BY <1>1 DEF Rule
<1>4. at \in [1 .. m -> 1 .. n] /\ m \in Nat
  <2>1. at \in [1 .. m -> 1 .. n]
    BY Zenon DEF Unfolds
  <2>. QED  BY <2>1
<1>5. \A j, k \in 1 .. m : j < k => at[j] <= at[k] /\ (at[j] = at[k] => t[j].from # {})
  BY Zenon DEF Unfolds
<1>6. \A i \in 1 .. n : \E k \in 1 .. m : at[k] = i /\ t[k] = s[i]
  BY Zenon DEF Unfolds
<1>7. ASSUME NEW x \in Slots, NEW i \in 1 .. n, Split(s, l, i)
      PROVE  \E j \in 1 .. m : at[j] = i /\ t[j].from = {In(x)} /\ t[j].match = s[i].match
  <2>1. \E k \in 1 .. m : at[k] = i /\ t[k] = SlotRule(e, d, s[i].match, x)
    BY <1>7, Zenon DEF Unfolds
  <2>. QED  BY <2>1 DEF SlotRule, Rule
<1>8. ASSUME NEW k \in 1 .. m
      PROVE  t[k] = s[at[k]] \/ (Split(s, l, at[k]) /\ \E x \in Slots : t[k] = SlotRule(e, d, s[at[k]].match, x))
  BY Zenon DEF Unfolds
<1>. HIDE DEF n, m
(* A rule is itself, or a copy for one country.                            *)
<1>9. ASSUME NEW k \in 1 .. m
      PROVE  \/ t[k] = s[at[k]] /\ t[k].from = {}
             \/ /\ Split(s, l, at[k]) /\ at[k] <= l /\ t[k].match = s[at[k]].match
                /\ \E x \in Slots : t[k].from = {In(x)} /\ t[k].to = SlotTarget(e, d, x)
  <2>1. at[k] \in 1 .. n
    BY <1>4
  <2>2. CASE t[k] = s[at[k]]
    BY <2>1, <2>2, <1>2
  <2>3. CASE Split(s, l, at[k]) /\ \E x \in Slots : t[k] = SlotRule(e, d, s[at[k]].match, x)
    BY <2>1, <2>3, <1>1 DEF Split, SlotRule, Rule
  <2>. QED  BY <2>2, <2>3, <1>8
(* What is for everything stands for the rule for everything.              *)
<1>10. ASSUME NEW k \in 1 .. m, t[k].match = {} PROVE at[k] = l
  BY <1>10, <1>9, <1>4, <1>2
(* A copy comes before the rule itself and before what stands for later    *)
(* ones.                                                                   *)
<1>11. ASSUME NEW j \in 1 .. m, NEW k \in 1 .. m, at[j] <= at[k], t[k].from = {}, j # k
      PROVE  j < k
  <2>. SUFFICES ASSUME k < j PROVE FALSE
    BY <1>4, <1>11
  <2>2. at[j] \in Nat /\ at[k] \in Nat
    BY <1>4
  <2>. QED  BY <2>2, <1>11, <1>5
<1>12. PICK k \in 1 .. m : at[k] = l /\ t[k] = s[l]
  BY <1>1, <1>6
<1>13. t[k].from = {} /\ t[k].match = {} /\ l \in Nat
  BY <1>12, <1>3, <1>1
<1>14. CatchAllAt(t, k, Final(b))
  <2>1. ASSUME NEW i \in 1 .. m, i # k, IsCatchAll(t[i]) PROVE FALSE
    BY <2>1, <1>10, <1>11, <1>12, <1>13 DEF IsCatchAll
  <2>. QED  BY <2>1, <1>1, <1>12 DEF CatchAllAt, m
<1>15. l = n => k = m
  <2>. SUFFICES ASSUME l = n, k # m PROVE FALSE
    OBVIOUS
  <2>. QED  BY <1>11, <1>12, <1>13, <1>4
<1>16. ASSUME NEW i \in 1 .. m, t[i].from # {} PROVE at[i] <= l /\ i < k
  BY <1>16, <1>9, <1>11, <1>12, <1>13
<1>17. ASSUME NEW i \in 1 .. m, NEW x \in Slots, In(x) \in t[i].from
      PROVE  t[i].to = SlotTarget(e, d, x) /\ i < k
  BY <1>16, <1>9, <1>17, SlotsApart
<1>18. ASSUME NEW i \in 1 .. k - 1, NEW j \in 1 .. m, t[i].from = {}, IsOurs(t[j]), t[j].match = {}
      PROVE  i < j
  <2>1. i \in 1 .. m /\ i < k /\ i # j
    BY <1>12, <1>18, <1>4 DEF IsOurs
  <2>2. at[j] = l /\ at[i] <= l /\ at[i] # l /\ at[i] \in 1 .. n
    BY <2>1, <1>10, <1>12, <1>18, <1>5, <1>4
  <2>. QED  BY <2>1, <1>4, <2>2, <1>13, <1>5
<1>19. ASSUME NEW x \in Slots PROVE \E i \in 1 .. m : at[i] = l /\ t[i].from = {In(x)} /\ t[i].match = {}
  <2>2. \E i \in 1 .. m : at[i] = l /\ t[i].from = {In(x)} /\ t[i].match = s[l].match
    BY <1>7, <1>1 DEF Split
  <2>. QED  BY <2>2, <1>3
<1>20. ASSUME NEW i \in 1 .. m, NEW x \in Slots, t[i].from = {}, t[i].match # {}, Foreign(t[i].to),
             NEW w \in t[i].match
      PROVE  \E j \in 1 .. i - 1 : t[j].from = {In(x)} /\ (t[j].match = {} \/ w \in t[j].match)
  <2>1. t[i] = s[at[i]] /\ at[i] \in 1 .. n /\ at[i] # l
    BY <1>9, <1>3, <1>4, <1>20
  <2>2. PICK j \in 1 .. m : at[j] <= at[i] /\ t[j].from = {In(x)} /\ (t[j].match = {} \/ w \in t[j].match)
    <3>1. CASE at[i] < l
      <4>2. PICK j \in 1 .. m : at[j] = at[i] /\ t[j].from = {In(x)} /\ t[j].match = s[at[i]].match
        BY <2>1, <1>7, <3>1, <1>20 DEF Split, Many
      <4>. QED  BY <2>1, <4>2
    <3>2. CASE l < at[i]
      <4>1. PICK j \in 1 .. m : at[j] = l /\ t[j].from = {In(x)} /\ t[j].match = {}
        BY <1>19
      <4>. QED  BY <4>1, <3>2, <2>1, <1>13
    <3>. QED  BY <2>1, <3>1, <3>2, <1>13
  <2>3. j < i
    BY <2>2, <1>11, <1>20
  <2>. QED  BY <2>2, <2>3
<1>21. Led(t, e, d, k)
  <2>1. ASSUME NEW x \in Slots PROVE \E i \in 1 .. k - 1 : t[i].from = {In(x)} /\ t[i].match = {}
    <3>1. PICK i \in 1 .. m : t[i].from = {In(x)} /\ t[i].match = {}
      BY <1>19
    <3>2. i \in 1 .. k - 1
      BY <3>1, <1>12, <1>16
    <3>. QED  BY <3>1, <3>2
  <2>. QED  BY <2>1, <1>17, <1>18, <1>20 DEF Led, m
<1>22. ASSUME NEW i \in 1 .. m PROVE t[i].from \notin Insiders
  BY <1>9, SlotsApart DEF Insiders
<1>23. ASSUME NEW w, NEW to, Has(s, l, w, to) PROVE Has(t, k, w, to)
  <2>1. PICK i \in 1 .. l - 1 : s[i].from = {} /\ w \in s[i].match /\ s[i].to = to
    BY <1>23 DEF Has
  <2>2. i \in 1 .. n /\ i < l
    BY <1>1
  <2>3. PICK j \in 1 .. m : at[j] = i /\ t[j] = s[i]
    BY <2>2, <1>6
  <2>5. j \in 1 .. k - 1
    BY <1>12, <2>2, <2>3, <1>11, <1>13
  <2>. QED  BY <2>1, <2>3, <2>5 DEF Has
<1>24. ASSUME Blocks(s[1]) PROVE Blocks(t[1])
  <2>1. ~Split(s, l, 1)
    BY <1>3, <1>24 DEF Blocks, Split, Many, Foreign, Block, IsNode, ToDe, Upstream
  <2>2. PICK j \in 1 .. m : at[j] = 1 /\ t[j] = s[1]
    BY <1>1, <1>6
  <2>3. 1 \in 1 .. m /\ (1 # j => 1 < j)
    BY <2>2, <1>4
  <2>4. at[1] = 1
    BY <2>3, <1>5, <1>4, <2>2
  <2>. QED  BY <2>1, <2>3, <2>4, <1>9, <1>24
<1>. QED  BY <1>14, <1>15, <1>21, <1>22, <1>23, <1>24 DEF n, m

(* The rules that the layer of the countries writes are led, and keep what *)
(* was said for all.                                                       *)
LEMMA EntrancesRules ==
  ASSUME NEW b \in Database, NEW d \in Database, NEW e, NEW l, PlainAt(e, b, l, {})
  PROVE  \E t \in Seq(Good(b)) : \E k :
           /\ Entrances(e, d).rules = t /\ CatchAllAt(t, k, Final(b)) /\ (Real(b) # {} => k = Len(t))
           /\ Led(t, e, d, k) /\ \A i \in 1 .. Len(t) : t[i].from \notin Insiders
           /\ \A w, to : Has(e.rules, l, w, to) => Has(t, k, w, to)
           /\ Blocks(e.rules[1]) => Blocks(t[1])
<1>. DEFINE t == Entrances(e, d).rules
            s == e.rules
<1>1. PlainRow(s, b, l) /\ (Real(b) # {} => l = Len(s))
  BY EntrancesParts DEF PlainAt
<1>2. t \in Seq(Good(b)) /\ \E at : Unfolds(t, e, d, s, Len(s), l, at)
  BY EntrancesUnfold
<1>. HIDE DEF t, s
<1>3. \E k :
        /\ CatchAllAt(t, k, Final(b)) /\ (l = Len(s) => k = Len(t))
        /\ Led(t, e, d, k) /\ \A i \in 1 .. Len(t) : t[i].from \notin Insiders
        /\ \A w, to : Has(s, l, w, to) => Has(t, k, w, to)
        /\ Blocks(s[1]) => Blocks(t[1])
  BY <1>1, <1>2, UnfoldsLed
<1>. QED  BY <1>1, <1>2, <1>3 DEF t, s

(* The two files have outbounds for the same nodes.                        *)
SameNodes(c, e) == \A n \in Nodes : Node(n) \in RealTags(c) <=> Node(n) \in RealTags(e)

(* Then every country leads to the same in both.                           *)
LEMMA SameTargets ==
  ASSUME NEW c, NEW e, SameNodes(c, e), NEW d \in Database, NEW s \in Slots
  PROVE  Usable(c, d, s) = Usable(e, d, s) /\ SlotTarget(c, d, s) = SlotTarget(e, d, s)
<1>. DEFINE u == Usable(c, d, s)
<1>2. ASSUME NEW x, Usable(x, d, s) = u
      PROVE  /\ s \notin d.on \/ u = {} => SlotTarget(x, d, s) = Block
             /\ s \in d.on /\ u # {} =>
                  \/ SlotTarget(x, d, s) = Country(s) /\ Cardinality(u) # 1
                  \/ Cardinality(u) = 1 /\ \E n \in u : u = {n} /\ SlotTarget(x, d, s) = Node(n)
  BY <1>2, SlotTargetIs
<1>. HIDE DEF u
<1>3. u = Usable(c, d, s)
  BY DEF u
<1>. QED  BY <1>2, <1>3 DEF SameNodes, Usable

(* Then led rules are led in both.                                         *)
LEMMA SameLed ==
  ASSUME NEW c, NEW e, SameNodes(c, e), NEW d \in Database, NEW t, NEW k, Led(t, c, d, k)
  PROVE  Led(t, e, d, k)
<1>1. \A s \in Slots : SlotTarget(c, d, s) = SlotTarget(e, d, s)
  BY SameTargets
<1>. QED  BY <1>1 DEF Led

(* The balancer of a country.                                              *)
CountryBal(c, d, s) ==
  [tag |-> Country(s), members |-> {Node(n) : n \in Usable(c, d, s)}, closed |-> TRUE]

(* The balancers and the probed nodes of a file with countries.            *)
Balanced(c, d) ==
  \A s \in Slots : SlotTarget(c, d, s) = Country(s) =>
    /\ CountryBal(c, d, s) \in c.bal
    /\ \A n \in Usable(c, d, s) : Node(n) \in c.seen

(* The entrances, outbounds and balancers that the layer of the countries  *)
(* writes.                                                                 *)
LEMMA EntrancesRest ==
  ASSUME NEW b \in Database, NEW d \in Database, NEW e, NEW l, PlainAt(e, b, l, {}),
         NEW t \in Seq(RuleType), Entrances(e, d).rules = t
  PROVE  LET f == Entrances(e, d) IN
         /\ Furnished(f, b) /\ f.ins = {In(0)} \cup {In(s) : s \in Slots} /\ f.outs = e.outs
         /\ SameNodes(e, f) /\ Balanced(f, d)
         /\ \A x \in f.bal : x.closed /\ (x.tag = Upstream \/ \E s \in Slots :
                                            SlotTarget(f, d, s) = Country(s) /\ x = CountryBal(f, d, s))
<1>. DEFINE f == Entrances(e, d)
            held == [s \in Slots |-> {Node(n) : n \in Usable(e, d, s)}]
            bals == {s \in Slots : SlotTarget(e, d, s) = Country(s)}
            used == UNION {held[s] : s \in {x \in Slots : SlotTarget(e, d, x) # Block}}
<1>1. e \in Files /\ e.ins = {In(0)} /\ Furnished(e, b) /\ \A x \in e.bal : x.tag = Upstream
  BY DEF PlainAt, Furnished
<1>. DEFINE ins1 == e.ins \cup {In(s) : s \in Slots}
            bal1 == {[x EXCEPT !.closed = TRUE] : x \in e.bal} \cup
                    {[tag |-> Country(s), members |-> held[s], closed |-> TRUE] : s \in bals}
            seen1 == IF bals = {} THEN e.seen ELSE e.seen \cup used
<1>2. /\ f.ins = ins1 /\ f.outs = e.outs /\ f.rules = t /\ f.bal = bal1 /\ f.seen = seen1
      /\ f = [ins |-> ins1, outs |-> e.outs, rules |-> t, bal |-> bal1, seen |-> seen1]
  <2>1. \E r : f = [e EXCEPT !.ins = ins1, !.rules = r, !.bal = bal1, !.seen = seen1]
    BY DEF Entrances
  <2>. HIDE DEF ins1, bal1, seen1, f
  <2>2. PICK r : f = [e EXCEPT !.ins = ins1, !.rules = r, !.bal = bal1, !.seen = seen1]
    BY <2>1
  <2>. QED  BY <2>2, <1>1 DEF Files, f
<1>3. \A s \in Slots : held[s] = {Node(n) : n \in Usable(e, d, s)} /\ held[s] \subseteq Places
  BY PlacesThere DEF Usable
<1>4. \A s \in bals : [tag |-> Country(s), members |-> held[s], closed |-> TRUE] = CountryBal(e, d, s)
                      /\ CountryBal(e, d, s) \in BalType /\ CountryBal(e, d, s).closed
                      /\ CountryBal(e, d, s).tag = Country(s)
  <2>. TAKE s \in bals
  <2>. QED  BY <1>3, PlacesThere DEF CountryBal, BalType
<1>6. used \subseteq Places
  BY <1>3
<1>. HIDE DEF f, held, bals, used
<1>10. ASSUME NEW x \in f.bal
       PROVE  \/ x \in BalType /\ x.closed /\ x.tag = Upstream /\ \E y \in e.bal : y.tag = Upstream /\ y.members = x.members
              \/ \E s \in bals : x = CountryBal(e, d, s)
  <2>2. CASE x \in {[y EXCEPT !.closed = TRUE] : y \in e.bal}
    <3>1. PICK y \in e.bal : x = [y EXCEPT !.closed = TRUE]
      BY <2>2
    <3>. QED  BY <3>1, <1>1 DEF Files, BalType
  <2>3. CASE x \in {[tag |-> Country(s), members |-> held[s], closed |-> TRUE] : s \in bals}
    <3>1. PICK s \in bals : x = [tag |-> Country(s), members |-> held[s], closed |-> TRUE]
      BY <2>3
    <3>. QED  BY <3>1, <1>4
  <2>. QED  BY <2>2, <2>3, <1>2
<1>7. f \in Files
  BY <1>1, <1>2, PlacesThere, <1>4, <1>10, <1>6 DEF Files
<1>8. SameNodes(e, f) /\ NodesThere(f) = NodesThere(e)
  BY <1>2 DEF SameNodes, NodesThere, RealTags
<1>9. \A s \in Slots : CountryBal(e, d, s) = CountryBal(f, d, s) /\ SlotTarget(e, d, s) = SlotTarget(f, d, s)
             /\ Usable(e, d, s) = Usable(f, d, s)
  <2>. TAKE s \in Slots
  <2>. QED  BY <1>8, SameTargets DEF CountryBal
<1>12. Furnished(f, b)
  <2>0. \A s \in bals : CountryBal(e, d, s).tag = Country(s)
    BY <1>4
  <2>1. \A x \in f.bal : x.tag = Upstream =>
          Nodal(x.members) /\ f.outs # <<>> /\ f.outs[1].tag[1] \in {"upstream", "to-de"}
    BY <1>1, <1>2, <1>10, <2>0 DEF Country, Upstream, Furnished
  <2>. QED  BY <1>1, <1>2, <1>7, <1>8, <2>1 DEF Furnished
<1>13. Balanced(f, d)
  <2>. SUFFICES ASSUME NEW s \in Slots, SlotTarget(f, d, s) = Country(s)
                PROVE  CountryBal(f, d, s) \in f.bal /\ \A n \in Usable(f, d, s) : Node(n) \in f.seen
    BY DEF Balanced
  <2>1. s \in bals
    BY <1>9 DEF bals
  <2>3. held[s] \subseteq used
    BY <1>9 DEF used, Country, Block
  <2>. QED  BY <2>1, <2>3, <1>2, <1>3, <1>9, <1>4
<1>14. f.ins = {In(0)} \cup {In(s) : s \in Slots}
  BY <1>1, <1>2
<1>15. ASSUME NEW x \in f.bal
       PROVE  x.closed /\ (x.tag = Upstream \/ \E s \in Slots :
                                  SlotTarget(f, d, s) = Country(s) /\ x = CountryBal(f, d, s))
  BY <1>4, <1>9, <1>10 DEF bals
<1>. QED  BY <1>2, <1>8, <1>12, <1>13, <1>14, <1>15 DEF f

(* Rules for the insiders, put before the others.                          *)
LEMMA InsidersFirst ==
  ASSUME NEW b, NEW t \in Seq(Good(b)), NEW p \in Seq(Good(b)), \A i \in 1 .. Len(p) : p[i].from \in Insiders,
         NEW c, NEW d, NEW k, Led(t, c, d, k), NEW to, CatchAllAt(t, k, to)
  PROVE  /\ Led(p \o t, c, d, Len(p) + k)
         /\ CatchAllAt(p \o t, Len(p) + k, to) /\ (k = Len(t) => Len(p) + k = Len(p \o t))
         /\ \A w, x : Has(t, k, w, x) => Has(p \o t, Len(p) + k, w, x)
         /\ Blocks(t[1]) => GovFirst(p \o t)
<1>. DEFINE q == p \o t
            n == Len(p)
<1>1. /\ q \in Seq(Good(b)) /\ n \in Nat /\ Len(t) \in Nat /\ Len(q) = n + Len(t)
      /\ \A i \in 1 .. n : q[i] = p[i]
      /\ \A i \in 1 .. Len(t) : q[n + i] = t[i]
      /\ \A i \in 1 .. Len(q) : i \in 1 .. n \/ (i - n \in 1 .. Len(t) /\ n + (i - n) = i)
  BY ConcatIs
<1>2. \A x \in Insiders : x # {} /\ \A s : In(s) \notin x
  <2>. TAKE x \in Insiders
  <2>1. x = {Api} \/ \E s \in Slots : x = {LoopIn(s)}
    BY DEF Insiders
  <2>. QED  BY <2>1, SlotsApart
<1>5. k \in 1 .. Len(t)
  BY DEF CatchAllAt
<1>led. /\ \A i \in 1 .. Len(t), s \in Slots : In(s) \in t[i].from => t[i].to = SlotTarget(c, d, s) /\ i < k
        /\ \A i \in 1 .. k - 1, j \in 1 .. Len(t) :
             t[i].from = {} /\ IsOurs(t[j]) /\ t[j].match = {} => i < j
        /\ \A s \in Slots : \E i \in 1 .. k - 1 : t[i].from = {In(s)} /\ t[i].match = {}
        /\ \A i \in 1 .. Len(t), s \in Slots : t[i].from = {} /\ t[i].match # {} /\ Foreign(t[i].to) =>
             \A w \in t[i].match : \E j \in 1 .. i - 1 : t[j].from = {In(s)} /\ (t[j].match = {} \/ w \in t[j].match)
  BY DEF Led
<1>. DEFINE m == n + k
<1>m. m = n + k /\ m \in Nat
  BY <1>1, <1>5
<1>. HIDE DEF q, n, m
<1>6. \A i \in 1 .. Len(q) : (i \in 1 .. n /\ q[i].from \in Insiders) \/ (i - n \in 1 .. Len(t) /\ q[i] = t[i - n])
  <2>. TAKE i \in 1 .. Len(q)
  <2>1. CASE i \in 1 .. n
    BY <2>1, <1>1 DEF n
  <2>2. CASE i - n \in 1 .. Len(t) /\ n + (i - n) = i
    BY <2>2, <1>1
  <2>. QED  BY <2>1, <2>2, <1>1
<1>7. \A i \in 1 .. Len(q), s \in Slots : In(s) \in q[i].from => q[i].to = SlotTarget(c, d, s) /\ i < m
  <2>. TAKE i \in 1 .. Len(q), s \in Slots
  <2>. HAVE In(s) \in q[i].from
  <2>1. i - n \in 1 .. Len(t) /\ q[i] = t[i - n]
    BY <1>2, <1>6
  <2>2. t[i - n].to = SlotTarget(c, d, s) /\ i - n < k
    BY <2>1, <1>led
  <2>. QED  BY <2>1, <2>2, <1>1, <1>5, <1>m
<1>8. ASSUME NEW i \in 1 .. m - 1, NEW j \in 1 .. Len(q), q[i].from = {}, IsOurs(q[j]), q[j].match = {}
      PROVE  i < j
  <2>0. i \in 1 .. Len(q)
    BY <1>1, <1>5, <1>m
  <2>1. i - n \in 1 .. Len(t) /\ q[i] = t[i - n]
    BY <2>0, <1>2, <1>6, <1>8
  <2>2. j - n \in 1 .. Len(t) /\ q[j] = t[j - n]
    BY <1>2, <1>6, <1>8 DEF IsOurs
  <2>3. i - n \in 1 .. k - 1
    BY <2>1, <1>1, <1>5, <1>m
  <2>4. i - n < j - n
    BY <2>1, <2>2, <2>3, <1>8, <1>led
  <2>. QED  BY <2>4, <2>2, <1>1
<1>9. ASSUME NEW s \in Slots PROVE \E i \in 1 .. m - 1 : q[i].from = {In(s)} /\ q[i].match = {}
  <2>1. PICK i \in 1 .. k - 1 : t[i].from = {In(s)} /\ t[i].match = {}
    BY <1>led
  <2>2. i \in 1 .. Len(t) /\ n + i \in 1 .. m - 1
    BY <1>1, <1>5, <1>m
  <2>. QED  BY <2>1, <2>2, <1>1
<1>10. ASSUME NEW i \in 1 .. Len(q), NEW s \in Slots, q[i].from = {}, q[i].match # {}, Foreign(q[i].to),
              NEW w \in q[i].match
       PROVE  \E j \in 1 .. i - 1 : q[j].from = {In(s)} /\ (q[j].match = {} \/ w \in q[j].match)
  <2>. DEFINE h == i - n
  <2>1. h \in 1 .. Len(t) /\ q[i] = t[h] /\ n + h = i
    BY SMTT(30), <1>1, <1>2, <1>6, <1>10
  <2>. HIDE DEF h
  <2>a. t[h].from = {} /\ t[h].match # {} /\ Foreign(t[h].to) /\ w \in t[h].match
    BY <2>1, <1>10
  <2>2. PICK j \in 1 .. h - 1 : t[j].from = {In(s)} /\ (t[j].match = {} \/ w \in t[j].match)
    BY <2>1, <2>a, <1>led
  <2>3. j \in 1 .. Len(t) /\ n + j \in 1 .. i - 1
    BY <2>1, <1>1
  <2>. QED  BY <2>2, <2>3, <1>1
<1>11. Led(q, c, d, m)
  BY ZenonT(30), <1>7, <1>8, <1>9, <1>10 DEF Led
<1>12. ASSUME NEW w, NEW x, Has(t, k, w, x) PROVE Has(q, m, w, x)
  <2>1. PICK i \in 1 .. k - 1 : t[i].from = {} /\ w \in t[i].match /\ t[i].to = x
    BY <1>12 DEF Has
  <2>. DEFINE j == n + i
  <2>2. i \in 1 .. Len(t) /\ j \in 1 .. m - 1
    BY <1>1, <1>5, <1>m
  <2>3. q[j] = t[i]
    BY <2>2, <1>1
  <2>. HIDE DEF j
  <2>. QED  BY <2>1, <2>2, <2>3 DEF Has
<1>13. ASSUME Blocks(t[1]) PROVE GovFirst(q)
  <2>. DEFINE g == n + 1
  <2>1. 1 \in 1 .. Len(t) /\ g \in 1 .. Len(q) /\ g - 1 = n
    BY <1>1, <1>5
  <2>. HIDE DEF g
  <2>3. \A j \in 1 .. n : q[j].from \in Insiders
    BY <1>1 DEF n
  <2>. QED  BY <1>13, <2>1, <2>3, <1>1 DEF GovFirst
<1>14. CatchAllAt(p \o t, Len(p) + k, to) /\ (k = Len(t) => Len(p) + k = Len(p \o t))
  BY CatchAllAfter, <1>2, PlainTyped, SeqWider DEF n, IsCatchAll
<1>. QED  BY <1>11, <1>12, <1>13, <1>14 DEF q, n, m

-----------------------------------------------------------------------------
(* The layer of the countries: the director.                               *)

(* What went to the balancer of all nodes goes to the director.            *)
Sent(r) == IF IsCatchAll(r) /\ r.to = Upstream THEN [r EXCEPT !.to = Director] ELSE r

(* A rule that goes to the director instead stays good.                    *)
LEMMA SentIs ==
  ASSUME NEW b \in Database, NEW r \in Good(b)
  PROVE  /\ Sent(r) \in Good(b) /\ Sent(r).from = r.from /\ Sent(r).match = r.match
         /\ ~IsCatchAll(r) => Sent(r) = r
         /\ r = Rule({}, {}, Upstream) => Sent(r) = Rule({}, {}, Director)
<1>1. r \in RuleType /\ Director \in Places /\ Director # Direct
  BY PlacesThere DEF Good, Director, Direct
<1>2. CASE ~(IsCatchAll(r) /\ r.to = Upstream)
  BY <1>2 DEF Sent, Rule, IsCatchAll
<1>3. CASE IsCatchAll(r) /\ r.to = Upstream
  BY <1>3, <1>1, PlacesThere DEF Sent, IsCatchAll, RuleType, Rule, Good
<1>. QED  BY <1>2, <1>3

(* The rules stay led when the last one goes to the director.              *)
LEMMA AllSent ==
  ASSUME NEW b \in Database, NEW t \in Seq(Good(b)), NEW k, CatchAllAt(t, k, Upstream),
         NEW c, NEW d, Led(t, c, d, k),
         NEW u \in Seq(RuleType), Len(u) = Len(t),
         \A i \in 1 .. Len(u) : u[i] = Sent(t[i])
  PROVE  /\ u \in Seq(Good(b)) /\ Len(u) = Len(t) /\ CatchAllAt(u, k, Director) /\ Led(u, c, d, k)
         /\ \A i \in 1 .. Len(u) : u[i].from = t[i].from
         /\ \A w, x : Has(t, k, w, x) => Has(u, k, w, x)
         /\ Blocks(t[1]) => Blocks(u[1])
<1>1. /\ DOMAIN t = 1 .. Len(t) /\ Len(t) \in Nat /\ k \in 1 .. Len(t)
      /\ \A i \in 1 .. Len(t) : t[i] \in Good(b)
      /\ \A i \in 1 .. Len(t) : i # k => ~IsCatchAll(t[i])
      /\ t[k] = Rule({}, {}, Upstream)
  BY DEF CatchAllAt
<1>2. \A i \in 1 .. Len(t) : /\ u[i] \in Good(b) /\ u[i].from = t[i].from /\ u[i].match = t[i].match
                             /\ i # k => u[i] = t[i]
  BY <1>1, SentIs
<1>3. u[k] = Rule({}, {}, Director)
  BY <1>1, SentIs
<1>4. u \in Seq(Good(b)) /\ Len(u) = Len(t)
  BY <1>2
<1>5. CatchAllAt(u, k, Director)
  BY <1>1, <1>2, <1>3, <1>4 DEF CatchAllAt, IsCatchAll
<1>led. /\ \A i \in 1 .. Len(t), s \in Slots : In(s) \in t[i].from => t[i].to = SlotTarget(c, d, s) /\ i < k
        /\ \A i \in 1 .. k - 1, j \in 1 .. Len(t) :
             t[i].from = {} /\ IsOurs(t[j]) /\ t[j].match = {} => i < j
        /\ \A s \in Slots : \E i \in 1 .. k - 1 : t[i].from = {In(s)} /\ t[i].match = {}
        /\ \A i \in 1 .. Len(t), s \in Slots : t[i].from = {} /\ t[i].match # {} /\ Foreign(t[i].to) =>
             \A w \in t[i].match : \E j \in 1 .. i - 1 : t[j].from = {In(s)} /\ (t[j].match = {} \/ w \in t[j].match)
  BY DEF Led

<1>6. \A i \in 1 .. k - 1 : i \in 1 .. Len(t) /\ i # k /\ u[i] = t[i]
  BY <1>1, <1>2
<1>7. ASSUME NEW i \in 1 .. Len(u), NEW s \in Slots, In(s) \in u[i].from
      PROVE  u[i].to = SlotTarget(c, d, s) /\ i < k
  BY <1>7, <1>2, <1>4, <1>led, <1>1
<1>8. ASSUME NEW i \in 1 .. k - 1, NEW j \in 1 .. Len(u), u[i].from = {}, IsOurs(u[j]), u[j].match = {}
      PROVE  i < j
  BY <1>8, <1>6, <1>2, <1>4, <1>led DEF IsOurs
<1>9. ASSUME NEW s \in Slots PROVE \E i \in 1 .. k - 1 : u[i].from = {In(s)} /\ u[i].match = {}
  BY <1>led, <1>6
<1>10. ASSUME NEW i \in 1 .. Len(u), NEW s \in Slots, u[i].from = {}, u[i].match # {}, Foreign(u[i].to),
              NEW w \in u[i].match
       PROVE  \E j \in 1 .. i - 1 : u[j].from = {In(s)} /\ (u[j].match = {} \/ w \in u[j].match)
  <2>2. u[i] = t[i] /\ i \in 1 .. Len(t)
    BY <1>2, <1>4, <1>10, <1>3 DEF Rule
  <2>a. t[i].from = {} /\ t[i].match # {} /\ Foreign(t[i].to) /\ w \in t[i].match
    BY <2>2, <1>10
  <2>3. PICK j \in 1 .. i - 1 : t[j].from = {In(s)} /\ (t[j].match = {} \/ w \in t[j].match)
    BY <2>2, <2>a, <1>led
  <2>4. j \in 1 .. Len(t)
    BY <2>2, <1>1
  <2>. QED  BY <2>3, <2>4, <1>2
<1>11. Led(u, c, d, k)
  BY ZenonT(30), <1>7, <1>8, <1>9, <1>10 DEF Led
<1>12. ASSUME NEW w, NEW x, Has(t, k, w, x) PROVE Has(u, k, w, x)
  BY <1>12, <1>6 DEF Has
<1>13. ASSUME Blocks(t[1]) PROVE Blocks(u[1])
  BY <1>13, <1>1, <1>2 DEF Blocks, Rule
<1>. QED  BY <1>2, <1>4, <1>5, <1>11, <1>12, <1>13

(* The countries that have a node, and the director above them.            *)
Lively(c, d)      == {s \in Slots : SlotTarget(c, d, s) # Block}
Loops(c, d)       == {Loop(s) : s \in Lively(c, d)}
DirectorBal(c, d) == [tag |-> Director, members |-> Loops(c, d), closed |-> TRUE]

(* The lively countries, in order.                                         *)
InLine(q, c, d) ==
  /\ q \in Seq(Slots) /\ ToSet(q) = Lively(c, d) /\ Len(q) \in Nat
  /\ \A i, j \in 1 .. Len(q) : q[i] = q[j] => i = j

(* The lively countries as AddDirector lists them.                         *)
Alive(c, d) == Keep(InOrder, LAMBDA s : SlotTarget(c, d, s) # Block)

(* They are in order and none is there twice.                              *)
LEMMA LivelyIs ==
  ASSUME NEW c, NEW d
  PROVE  InLine(Alive(c, d), c, d)
<1>. DEFINE T == Lively(c, d)
            q == Alive(c, d)
<1>1. InOrder \in Seq(Slots) /\ Slots = ToSet(InOrder) /\ Len(InOrder) \in Nat
  BY Constants
<1>2. \A i, j \in 1 .. Len(InOrder) : InOrder[i] = InOrder[j] => i = j
  BY RouterConfigAssumption, <1>1 DEF IsInjective
<1>4. q = FlattenSeq([i \in DOMAIN InOrder |-> IF InOrder[i] \in T THEN <<InOrder[i]>> ELSE <<>>])
  BY <1>1 DEF Alive, Keep, Lively
<1>. HIDE DEF q, T
<1>5. q \in Seq(Slots) /\ Kept(q, InOrder, T)
  BY <1>4, <1>1, KeepKeeps
<1>6. ToSet(q) = ToSet(InOrder) \cap T
  BY <1>5, <1>1, KeptSet
<1>7. T \subseteq Slots
  BY DEF T, Lively
<1>8. PICK h \in [1 .. Len(q) -> 1 .. Len(InOrder)] :
        /\ \A k \in 1 .. Len(q) : q[k] = InOrder[h[k]]
        /\ \A k, l \in 1 .. Len(q) : k < l => h[k] < h[l]
  BY <1>5 DEF Kept
<1>9. ASSUME NEW i \in 1 .. Len(q), NEW j \in 1 .. Len(q), q[i] = q[j] PROVE i = j
  BY <1>2, <1>8, <1>9
<1>10. InLine(q, c, d)
  BY <1>1, <1>5, <1>6, <1>7, <1>9 DEF InLine, T
<1>. QED  BY <1>10 DEF q

(* There are finitely many countries.                                      *)
LEMMA SlotsFinite == IsFiniteSet(Slots)
<1>1. InOrder \in Seq(Slots) /\ Slots = ToSet(InOrder)
  BY Constants
<1>2. Len(InOrder) \in Nat /\ DOMAIN InOrder = 1 .. Len(InOrder)
  BY <1>1
<1>4. InOrder \in Surjection(1 .. Len(InOrder), Slots)
  BY <1>1, <1>2 DEF Surjection, ToSet
<1>. QED  BY <1>4, FS_Surjection, <1>2, FS_Interval

(* There are finitely many loops.                                          *)
LEMMA LoopsFinite ==
  ASSUME NEW c, NEW d
  PROVE  IsFiniteSet(Loops(c, d)) /\ Cardinality(Loops(c, d)) \in Nat
<1>. DEFINE f == [s \in Lively(c, d) |-> Loop(s)]
<1>2. f \in Surjection(Lively(c, d), Loops(c, d))
  BY DEF Surjection, Loops
<1>3. IsFiniteSet(Loops(c, d))
  BY <1>2, FS_Surjection, SlotsFinite, FS_Subset DEF Lively
<1>. QED  BY <1>3, FS_CardinalityType

(* Two lively countries make two loops.                                    *)
LEMMA TwoLoops ==
  ASSUME NEW c, NEW d, NEW s \in Lively(c, d), NEW x \in Lively(c, d), s # x
  PROVE  Cardinality(Loops(c, d)) >= 2
<1>1. Loop(s) # Loop(x) /\ Loop(s) \in Loops(c, d) /\ Loop(x) \in Loops(c, d)
  BY DEF Loop, Loops
<1>3. Cardinality({Loop(s), Loop(x)}) = 2
  <2>1. IsFiniteSet({Loop(s)}) /\ Cardinality({Loop(s)}) = 1
    BY FS_Singleton
  <2>2. {Loop(s), Loop(x)} = {Loop(s)} \cup {Loop(x)} /\ Loop(x) \notin {Loop(s)}
    BY <1>1
  <2>. QED  BY <2>1, <2>2, FS_AddElement
<1>. QED  BY <1>3, <1>1, FS_Subset, LoopsFinite

(* Two countries with nodes: the file was built with more than one node.   *)
LEMMA TwoNodes ==
  ASSUME NEW b \in Database, NEW d \in Database, NEW c, NodesThere(c) = Real(b),
         NEW s \in Lively(c, d), NEW x \in Lively(c, d), s # x
  PROVE  Final(b) = Upstream
<1>2. PICK n \in Nodes, m \in Nodes : /\ d.home[n] = s /\ d.home[m] = x
                                      /\ n \in NodesThere(c) /\ m \in NodesThere(c)
  BY DEF Usable, NodesThere, Lively, SlotTarget
<1>. QED  BY <1>2, FinalIs

(* The rules of the loops lead each to its country, that of the API home.  *)
Inside(t, c, d) ==
  \A i \in 1 .. Len(t) : t[i].from \in Insiders =>
    t[i] = Rule({Api}, {}, Api) \/ \E s \in Slots : t[i] = Rule({LoopIn(s)}, {}, SlotTarget(c, d, s))

(* The director has the lively countries behind it, and a loop for each    *)
(* that nothing but other loops comes before.                              *)
Directed(c, d, k) ==
  /\ CatchAllAt(c.rules, k, Director) /\ Api \in c.ins /\ Rule({Api}, {}, Api) \in ToSet(c.rules)
  /\ Cardinality(Loops(c, d)) >= 2 /\ Loops(c, d) \subseteq Tags(c) \cap c.seen
  /\ \A s \in Lively(c, d) : \E i \in 1 .. k - 1 :
       c.rules[i].from = {LoopIn(s)} /\ \A j \in 1 .. i - 1 : c.rules[j].from \in Insiders
  /\ \A x \in Tags(c) : x[1] = "auto-via" => x \in Loops(c, d)

(* The rules in front for the loops of the countries of q.                 *)
LoopRules(q, c, d) == [i \in 1 .. Len(q) |-> Rule({LoopIn(q[i])}, {}, SlotTarget(c, d, q[i]))]
(* The rules in front: that of the API, then those of the loops.           *)
InFront(q, c, d)   == <<Rule({Api}, {}, Api)>> \o LoopRules(q, c, d)

(* The rules for the insiders are good.                                    *)
LEMMA InsideRules ==
  ASSUME NEW b \in Database, NEW c, NEW d \in Database
  PROVE  /\ Rule({Api}, {}, Api) \in Good(b) /\ {Api} \in Insiders
         /\ \A s \in Slots : Rule({LoopIn(s)}, {}, SlotTarget(c, d, s)) \in Good(b) /\ {LoopIn(s)} \in Insiders
         /\ \A f, m, to : Rule(f, m, to).from = f /\ Rule(f, m, to).match = m /\ Rule(f, m, to).to = to
<1>1. \A f, m, to : Rule(f, m, to).from = f /\ Rule(f, m, to).match = m /\ Rule(f, m, to).to = to
  BY DEF Rule
<1>2. \A f \in SUBSET Doors, to \in Places : Rule(f, {}, to) \in RuleType
  BY DEF Rule, RuleType
<1>6. \A f \in Froms, to \in Places : Rule(f, {}, to) \in RuleType /\ to # Direct => Rule(f, {}, to) \in Good(b)
  BY <1>1 DEF Good
<1>7. Rule({Api}, {}, Api) \in Good(b)
  BY <1>2, <1>6, PlacesThere DEF Api, Direct, Froms
<1>8. \A s \in Slots : Rule({LoopIn(s)}, {}, SlotTarget(c, d, s)) \in Good(b)
  BY <1>2, <1>6, PlacesThere, SlotTargetIs DEF Froms
<1>. QED  BY <1>1, <1>7, <1>8 DEF Insiders

(* p is a front for the lively countries.                                  *)
Fronting(p, b, c, d) ==
  /\ p \in Seq(Good(b)) /\ \A i \in 1 .. Len(p) : p[i].from \in Insiders
  /\ Inside(p, c, d) /\ Len(p) \in Nat /\ Len(p) # 0 /\ p[1] = Rule({Api}, {}, Api)
  /\ \A s \in Lively(c, d) : \E i \in 1 .. Len(p) : p[i].from = {LoopIn(s)}

(* The rules in front are.                                                 *)
LEMMA InFrontIs ==
  ASSUME NEW b \in Database, NEW c, NEW d \in Database, NEW q, InLine(q, c, d)
  PROVE  Fronting(InFront(q, c, d), b, c, d)
<1>. DEFINE v == LoopRules(q, c, d)
            u == <<Rule({Api}, {}, Api)>>
            p == u \o v
<1>1. q \in Seq(Slots) /\ Len(q) \in Nat /\ DOMAIN q = 1 .. Len(q) /\ \A i \in 1 .. Len(q) : q[i] \in Slots
  BY DEF InLine
<1>2. u \in Seq(Good(b)) /\ Len(u) = 1 /\ u[1] = Rule({Api}, {}, Api)
  BY InsideRules, OneIs
<1>3. /\ v \in Seq(Good(b)) /\ Len(v) = Len(q)
      /\ \A i \in 1 .. Len(v) : v[i] = Rule({LoopIn(q[i])}, {}, SlotTarget(c, d, q[i]))
  BY <1>1, InsideRules DEF LoopRules
<1>. HIDE DEF u, v
<1>4. /\ p \in Seq(Good(b)) /\ Len(p) = Len(u) + Len(v) /\ Len(v) \in Nat
      /\ \A i \in 1 .. Len(u) : p[i] = u[i]
      /\ \A i \in 1 .. Len(v) : p[Len(u) + i] = v[i]
      /\ \A i \in 1 .. Len(p) : i \in 1 .. Len(u) \/ (i - Len(u) \in 1 .. Len(v) /\ Len(u) + (i - Len(u)) = i)
  <2>1. u \in Seq(Good(b)) /\ v \in Seq(Good(b))
    BY <1>2, <1>3
  <2>. QED  BY <2>1, ConcatIs
<1>. HIDE DEF p
<1>5. /\ Len(p) = 1 + Len(v) /\ p[1] = Rule({Api}, {}, Api)
      /\ \A i \in 1 .. Len(v) : p[1 + i] = v[i]
      /\ \A i \in 1 .. Len(p) : i = 1 \/ (i - 1 \in 1 .. Len(v) /\ 1 + (i - 1) = i)
  BY <1>2, <1>4
<1>6. \A i \in 1 .. Len(p) : p[i] = Rule({Api}, {}, Api) \/ \E s \in Slots : p[i] = Rule({LoopIn(s)}, {}, SlotTarget(c, d, s))
  <2>. TAKE i \in 1 .. Len(p)
  <2>1. CASE i = 1
    BY <2>1, <1>5
  <2>2. CASE i - 1 \in 1 .. Len(v) /\ 1 + (i - 1) = i
    <3>. DEFINE j == i - 1
    <3>1. j \in 1 .. Len(v) /\ 1 + j = i
      BY <2>2
    <3>. HIDE DEF j
    <3>. QED  BY <3>1, <1>3, <1>1, <1>5
  <2>. QED  BY <2>1, <2>2, <1>5
<1>7. \A s \in Lively(c, d) : \E i \in 1 .. Len(p) : p[i].from = {LoopIn(s)}
  <2>. TAKE s \in Lively(c, d)
  <2>1. PICK j \in 1 .. Len(q) : q[j] = s
    BY <1>1 DEF InLine, ToSet
  <2>2. j \in 1 .. Len(v) /\ 1 + j \in 1 .. Len(p)
    BY <2>1, <1>1, <1>3, <1>5
  <2>4. Rule({LoopIn(s)}, {}, SlotTarget(c, d, s)).from = {LoopIn(s)}
    BY InsideRules
  <2>. QED  BY <2>2, <2>4, <2>1, <1>3, <1>5
<1>8. \A i \in 1 .. Len(p) : p[i].from \in Insiders
  <2>. TAKE i \in 1 .. Len(p)
  <2>1. CASE p[i] = Rule({Api}, {}, Api)
    <3>1. p[i].from = {Api}
      BY <2>1 DEF Rule
    <3>. QED  BY <3>1, InsideRules
  <2>2. CASE \E s \in Slots : p[i] = Rule({LoopIn(s)}, {}, SlotTarget(c, d, s))
    <3>1. PICK s \in Slots : p[i] = Rule({LoopIn(s)}, {}, SlotTarget(c, d, s))
      BY <2>2
    <3>. QED  BY <3>1, InsideRules
  <2>. QED  BY <2>1, <2>2, <1>6
<1>9. p = InFront(q, c, d)
  BY DEF p, u, v, InFront
<1>10. Inside(p, c, d)
  BY <1>6 DEF Inside
<1>11. Len(p) \in Nat /\ Len(p) # 0
  BY <1>3, <1>5, <1>1
<1>. QED  BY <1>4, <1>5, <1>7, <1>8, <1>9, <1>10, <1>11 DEF Fronting

-----------------------------------------------------------------------------
(* The settled file, and the checks on it.                                 *)

(* A file with the countries of d.                                         *)
Settled(c, b, d, k) ==
  /\ Built(c, b, k) /\ Led(c.rules, c, d, k) /\ Inside(c.rules, c, d) /\ Balanced(c, d)
  /\ c.ins \ {Api} = {In(0)} \cup {In(s) : s \in Slots}
  /\ \A x \in c.bal : x.closed /\
       \/ x.tag = Upstream
       \/ \E s \in Slots : SlotTarget(c, d, s) = Country(s) /\ x = CountryBal(c, d, s)
       \/ x = DirectorBal(c, d) /\ Directed(c, d, k)

(* The outbounds of the loops.                                             *)
LoopOuts(q) == [i \in 1 .. Len(q) |-> Out(Loop(q[i]), TRUE)]

(* There is one for each lively country.                                   *)
LEMMA LoopOutsAre ==
  ASSUME NEW f, NEW d, NEW q, InLine(q, f, d)
  PROVE  LoopOuts(q) \in Seq(OutType) /\ ToSet(LoopOuts(q)) = {Out(Loop(s), TRUE) : s \in Lively(f, d)}
<1>. DEFINE v == LoopOuts(q)
<1>1. DOMAIN q = 1 .. Len(q) /\ Len(q) \in Nat /\ q \in Seq(Slots)
  BY DEF InLine
<1>3. \A i \in 1 .. Len(q) : Out(Loop(q[i]), TRUE) \in OutType
  <2>. TAKE i \in 1 .. Len(q)
  <2>1. PICK s \in Slots : s = q[i]
    BY <1>1
  <2>. QED  BY <2>1, PlacesThere DEF Out, OutType
<1>5. DOMAIN v = 1 .. Len(q) /\ (\A i \in 1 .. Len(q) : v[i] = Out(Loop(q[i]), TRUE)) /\ v = [i \in 1 .. Len(q) |-> v[i]]
  BY <1>1 DEF LoopOuts
<1>. HIDE DEF v
<1>4. v \in Seq(OutType)
  <2>1. \A i \in 1 .. Len(q) : v[i] \in OutType
    BY <1>3, <1>5
  <2>. QED  BY <1>1, <1>5, <2>1
<1>6. ToSet(v) = {v[i] : i \in 1 .. Len(q)}
  BY <1>5 DEF ToSet
<1>7. \A i \in 1 .. Len(q) : q[i] \in Lively(f, d)
  BY <1>1 DEF InLine, ToSet
<1>8. \A s \in Lively(f, d) : \E i \in 1 .. Len(q) : q[i] = s
  BY <1>1 DEF InLine, ToSet
<1>10. {Out(Loop(s), TRUE) : s \in Lively(f, d)} \subseteq ToSet(v)
  BY <1>5, <1>6, <1>8
<1>. QED  BY <1>4, <1>10, <1>5, <1>6, <1>7 DEF v

(* What they add to the tags.                                              *)
LEMMA LoopOutsAdded ==
  ASSUME NEW f \in Files, NEW g, NEW d,
         NEW v \in Seq(OutType), ToSet(v) = {Out(Loop(s), TRUE) : s \in Lively(f, d)}, g.outs = f.outs \o v
  PROVE  /\ g.outs \in Seq(OutType) /\ ToSet(f.outs) \subseteq ToSet(g.outs)
         /\ f.outs # <<>> => g.outs # <<>> /\ g.outs[1] = f.outs[1]
         /\ Tags(g) = Tags(f) \cup Loops(f, d) /\ RealTags(g) = RealTags(f) \cup Loops(f, d)
         /\ SameNodes(f, g)
<1>1. f.outs \in Seq(OutType)
  BY DEF Files
<1>4. ToSet(v) = {Out(Loop(s), TRUE) : s \in Lively(f, d)}
  OBVIOUS
<1>6. /\ g.outs \in Seq(OutType) /\ ToSet(g.outs) = ToSet(f.outs) \cup ToSet(v)
      /\ \A i \in 1 .. Len(f.outs) : g.outs[i] = f.outs[i]
      /\ Len(g.outs) = Len(f.outs) + Len(v) /\ Len(v) \in Nat
  <2>. DEFINE z == f.outs
              y == g.outs
  <2>1. z \in Seq(OutType) /\ v \in Seq(OutType) /\ y = z \o v
    BY <1>1
  <2>. HIDE DEF z, y
  <2>a. z \in Seq(OutType) /\ v \in Seq(OutType)
    BY <2>1
  <2>b. /\ z \o v \in Seq(OutType) /\ ToSet(z \o v) = ToSet(z) \cup ToSet(v)
        /\ \A i \in 1 .. Len(z) : (z \o v)[i] = z[i]
        /\ Len(z \o v) = Len(z) + Len(v) /\ Len(v) \in Nat
    <3>3. ToSet(z \o v) = ToSet(z) \cup ToSet(v)
      <4>1. \A x \in Seq(OutType), y1 \in Seq(OutType) : ToSet(x \o y1) = ToSet(x) \cup ToSet(y1)
        BY ConcatIs
      <4>. QED  BY <2>a, <4>1
    <3>. QED  BY <3>3, <2>a, ConcatIs
  <2>. QED  BY <2>1, <2>b DEF z, y
<1>7. ASSUME f.outs # <<>> PROVE g.outs # <<>> /\ g.outs[1] = f.outs[1]
  BY <1>1, <1>7, <1>6
<1>8. {o.tag : o \in ToSet(v)} = Loops(f, d) /\ {o.tag : o \in {x \in ToSet(v) : x.real}} = Loops(f, d)
  <2>1. \A s : Out(Loop(s), TRUE).tag = Loop(s)
    BY OutTag
  <2>2. \A s : Out(Loop(s), TRUE).real
    BY Zenon DEF Out
  <2>4. {o.tag : o \in ToSet(v)} = Loops(f, d)
    BY <1>4, <2>1 DEF Loops
  <2>. QED  BY <2>4, <1>4, <2>2
<1>9. Tags(g) = Tags(f) \cup Loops(f, d)
  BY <1>6, <1>8 DEF Tags
<1>10. RealTags(g) = RealTags(f) \cup Loops(f, d)
  BY <1>6, <1>8 DEF RealTags
<1>11. \A n \in Nodes : Node(n) \notin Loops(f, d)
  BY DEF Node, Loops, Loop
<1>. QED  BY <1>6, <1>7, <1>9, <1>10, <1>11 DEF SameNodes

(* What AddDirector makes of a file with two lively countries.             *)
Directing(c, d, q) ==
  [ins   |-> c.ins \cup {Api},
   outs  |-> c.outs \o LoopOuts(q),
   rules |-> InFront(q, c, d) \o [i \in DOMAIN c.rules |-> Sent(c.rules[i])],
   bal   |-> c.bal \cup {DirectorBal(c, d)},
   seen  |-> c.seen \cup Loops(c, d)]

(* AddDirector does what the director needs, or nothing.                   *)
LEMMA AddDirectorIs ==
  ASSUME NEW c, NEW d
  PROVE  \/ AddDirector(c, d) = c
         \/ \E q : InLine(q, c, d) /\ Len(q) >= 2 /\ AddDirector(c, d) = Directing(c, d, q)
<1>. DEFINE q == Alive(c, d)
<1>1. InLine(q, c, d)
  BY LivelyIs
<1>2. DOMAIN q = 1 .. Len(q) /\ Len(q) \in Nat /\ ToSet(q) = Lively(c, d)
  BY <1>1 DEF InLine
<1>3. {Loop(s) : s \in ToSet(q)} = Loops(c, d)
  BY <1>2 DEF Loops
<1>4. \/ AddDirector(c, d) = c
      \/ /\ ~(Len(q) < 2)
         /\ AddDirector(c, d) =
              [ins   |-> c.ins \cup {Api},
               outs  |-> c.outs \o [i \in DOMAIN q |-> Out(Loop(q[i]), TRUE)],
               rules |-> <<Rule({Api}, {}, Api)>>
                         \o [i \in DOMAIN q |-> Rule({LoopIn(q[i])}, {}, SlotTarget(c, d, q[i]))]
                         \o [i \in DOMAIN c.rules |-> Sent(c.rules[i])],
               bal   |-> c.bal \cup {[tag |-> Director, members |-> {Loop(s) : s \in ToSet(q)}, closed |-> TRUE]},
               seen  |-> c.seen \cup {Loop(s) : s \in ToSet(q)}]
  BY Zenon DEF AddDirector, Sent, Alive
<1>6. AddDirector(c, d) # c => ~(Len(q) < 2)
  BY <1>4
<1>. HIDE DEF q
<1>5. CASE AddDirector(c, d) # c
  <2>1. [i \in DOMAIN q |-> Out(Loop(q[i]), TRUE)] = LoopOuts(q)
    BY <1>2 DEF LoopOuts
  <2>2. [i \in DOMAIN q |-> Rule({LoopIn(q[i])}, {}, SlotTarget(c, d, q[i]))] = LoopRules(q, c, d)
    BY <1>2 DEF LoopRules
  <2>3. AddDirector(c, d) = Directing(c, d, q)
    BY <1>3, <1>4, <1>5, <2>1, <2>2 DEF Directing, DirectorBal, InFront
  <2>. QED  BY <1>1, <2>3, <1>2, <1>6, <1>5
<1>. QED  BY <1>5

(* What Entrances leaves: a file with countries and no director yet.       *)
Entered(f, b, d, t, k) ==
  /\ Furnished(f, b) /\ f.rules = t /\ t \in Seq(Good(b))
  /\ CatchAllAt(t, k, Final(b)) /\ (Real(b) # {} => k = Len(t))
  /\ Led(t, f, d, k) /\ (\A i \in 1 .. Len(t) : t[i].from \notin Insiders)
  /\ Balanced(f, d) /\ f.ins = {In(0)} \cup {In(s) : s \in Slots}
  /\ \A x \in f.bal : x.closed /\ (x.tag = Upstream \/ \E s \in Slots :
                                     SlotTarget(f, d, s) = Country(s) /\ x = CountryBal(f, d, s))
  /\ \A o \in ToSet(f.outs) : o.tag[1] # "auto-via"

(* What is handed on from the rules s to the rules t.                      *)
HandsOn(s, k, t, l) ==
  /\ \A w, x : x # Director /\ Has(s, k, w, x) => Has(t, l, w, x)
  /\ s # <<>> /\ Blocks(s[1]) => GovFirst(t)

(* The file is settled after the layer of the countries has no director to *)
(* add.                                                                    *)
LEMMA EnteredSettles ==
  ASSUME NEW b \in Database, NEW d \in Database, NEW f, NEW t, NEW k, Entered(f, b, d, t, k)
  PROVE  Settled(f, b, d, k) /\ HandsOn(t, k, f.rules, k)
<1>1. /\ Furnished(f, b) /\ f.rules = t /\ t \in Seq(Good(b))
      /\ CatchAllAt(t, k, Final(b)) /\ (Real(b) # {} => k = Len(t))
      /\ Led(t, f, d, k) /\ (\A i \in 1 .. Len(t) : t[i].from \notin Insiders)
      /\ Balanced(f, d) /\ f.ins = {In(0)} \cup {In(s) : s \in Slots}
      /\ \A x \in f.bal : x.closed /\ (x.tag = Upstream \/ \E s \in Slots :
                                     SlotTarget(f, d, s) = Country(s) /\ x = CountryBal(f, d, s))
  BY DEF Entered
<1>4. f.ins \ {Api} = {In(0)} \cup {In(s) : s \in Slots}
  BY <1>1, SlotsApart
<1>5. Settled(f, b, d, k)
  BY <1>1, <1>4 DEF Settled, Built, Inside
<1>6. HandsOn(t, k, f.rules, k)
  <2>1. ASSUME t # <<>>, Blocks(t[1]) PROVE GovFirst(t)
    BY <2>1, <1>1 DEF GovFirst
  <2>. QED  BY <1>1, <2>1 DEF HandsOn
<1>. QED  BY <1>5, <1>6

(* The rules with the director's in front.                                 *)
Overseen(r, l, f, d) ==
  /\ CatchAllAt(r, l, Director) /\ Led(r, f, d, l) /\ Inside(r, f, d)
  /\ Rule({Api}, {}, Api) \in ToSet(r)
  /\ \A s \in Lively(f, d) : \E i \in 1 .. l - 1 :
       r[i].from = {LoopIn(s)} /\ \A j \in 1 .. i - 1 : r[j].from \in Insiders

(* The rules with a director in front.                                     *)
LEMMA DirectingRules ==
  ASSUME NEW b \in Database, NEW d \in Database, NEW f, NEW t, NEW k, Entered(f, b, d, t, k),
         NEW q, InLine(q, f, d), Final(b) = Upstream
  PROVE  \E r \in Seq(Good(b)) : \E l :
           /\ Directing(f, d, q).rules = r /\ HandsOn(t, k, r, l)
           /\ Overseen(r, l, f, d) /\ (Real(b) # {} => l = Len(r))
<1>. DEFINE p == InFront(q, f, d)
            u == [i \in DOMAIN t |-> Sent(t[i])]
            r == p \o u
            l == Len(p) + k
<1>1. /\ f.rules = t /\ t \in Seq(Good(b)) /\ Len(t) \in Nat /\ DOMAIN t = 1 .. Len(t)
      /\ CatchAllAt(t, k, Upstream) /\ (Real(b) # {} => k = Len(t))
      /\ Led(t, f, d, k) /\ (\A i \in 1 .. Len(t) : t[i].from \notin Insiders)
      /\ \A i \in 1 .. Len(t) : t[i] \in Good(b)
  BY DEF Entered
<1>2. u \in Seq(RuleType) /\ Len(u) = Len(t) /\ \A i \in 1 .. Len(u) : u[i] = Sent(t[i])
  BY <1>1, SentIs, PlainTyped
<1>3. Directing(f, d, q).rules = r
  BY <1>1 DEF Directing
<1>. HIDE DEF u
<1>4. /\ u \in Seq(Good(b)) /\ CatchAllAt(u, k, Director) /\ Led(u, f, d, k)
      /\ \A i \in 1 .. Len(u) : u[i].from = t[i].from
      /\ \A w, x : Has(t, k, w, x) => Has(u, k, w, x)
      /\ Blocks(t[1]) => Blocks(u[1])
  BY <1>1, <1>2, AllSent
<1>5. Fronting(p, b, f, d)
  BY InFrontIs
<1>. HIDE DEF p
<1>6. /\ p \in Seq(Good(b)) /\ \A i \in 1 .. Len(p) : p[i].from \in Insiders
      /\ Inside(p, f, d) /\ Len(p) \in Nat /\ Len(p) # 0 /\ p[1] = Rule({Api}, {}, Api)
      /\ \A s \in Lively(f, d) : \E i \in 1 .. Len(p) : p[i].from = {LoopIn(s)}
  BY <1>5 DEF Fronting
<1>7. /\ Led(r, f, d, l)
      /\ CatchAllAt(r, l, Director) /\ (k = Len(u) => l = Len(r))
      /\ \A w, x : Has(u, k, w, x) => Has(r, l, w, x)
      /\ Blocks(u[1]) => GovFirst(r)
  BY <1>4, <1>6, InsidersFirst
<1>8. /\ r \in Seq(Good(b)) /\ Len(r) = Len(p) + Len(u)
      /\ \A i \in 1 .. Len(p) : r[i] = p[i]
      /\ \A i \in 1 .. Len(u) : r[Len(p) + i] = u[i]
      /\ \A i \in 1 .. Len(r) : i \in 1 .. Len(p) \/ (i - Len(p) \in 1 .. Len(u) /\ Len(p) + (i - Len(p)) = i)
  BY <1>4, <1>6, ConcatIs
<1>9. k \in 1 .. Len(u) /\ l = Len(p) + k
  BY <1>4 DEF CatchAllAt
<1>. HIDE DEF r, l
<1>10. HandsOn(t, k, r, l)
  BY <1>4, <1>7 DEF HandsOn
<1>11. Inside(r, f, d)
  <2>1. ASSUME NEW i \in 1 .. Len(r), r[i].from \in Insiders
        PROVE  r[i] = Rule({Api}, {}, Api) \/ \E s \in Slots : r[i] = Rule({LoopIn(s)}, {}, SlotTarget(f, d, s))
    <3>1. CASE i \in 1 .. Len(p)
      <4>1. r[i] = p[i] /\ p[i].from \in Insiders
        BY <3>1, <1>6, <1>8
      <4>. QED  BY <3>1, <4>1, <1>6 DEF Inside
    <3>2. CASE i - Len(p) \in 1 .. Len(u) /\ Len(p) + (i - Len(p)) = i
      <4>. DEFINE h == i - Len(p)
      <4>1. h \in 1 .. Len(u) /\ Len(p) + h = i
        BY <3>2
      <4>. HIDE DEF h
      <4>2. r[i] = u[h] /\ u[h].from = t[h].from /\ t[h].from \notin Insiders
        BY <4>1, <1>1, <1>2, <1>4, <1>8
      <4>. QED  BY <4>2, <2>1
    <3>. QED  BY <3>1, <3>2, <1>8
  <2>. QED  BY <2>1 DEF Inside
<1>12. Rule({Api}, {}, Api) \in ToSet(r)
  BY <1>6, <1>8, <1>4 DEF ToSet
<1>13. ASSUME NEW s \in Lively(f, d)
       PROVE  \E i \in 1 .. l - 1 : r[i].from = {LoopIn(s)} /\ \A j \in 1 .. i - 1 : r[j].from \in Insiders
  <2>1. PICK i \in 1 .. Len(p) : p[i].from = {LoopIn(s)}
    BY <1>6
  <2>2. i \in 1 .. l - 1
    BY <1>6, <1>9, <1>4
  <2>3. \A j \in 1 .. i - 1 : j \in 1 .. Len(p) /\ r[j] = p[j]
    BY <1>6, <1>8
  <2>. QED  BY <2>1, <2>2, <2>3, <1>6, <1>8
<1>14. Overseen(r, l, f, d)
  BY <1>7, <1>11, <1>12, <1>13 DEF Overseen
<1>15. Real(b) # {} => l = Len(r)
  BY <1>1, <1>2, <1>7
<1>. QED  BY <1>3, <1>10, <1>14, <1>15, <1>8

(* Files with the same nodes mean the same by a country.                   *)
LEMMA SameCountries ==
  ASSUME NEW c, NEW e, SameNodes(c, e), NEW d \in Database
  PROVE  /\ \A s \in Slots : SlotTarget(c, d, s) = SlotTarget(e, d, s) /\ CountryBal(c, d, s) = CountryBal(e, d, s)
                             /\ Usable(c, d, s) = Usable(e, d, s)
         /\ Lively(c, d) = Lively(e, d) /\ Loops(c, d) = Loops(e, d) /\ DirectorBal(c, d) = DirectorBal(e, d)
         /\ \A t : Inside(t, c, d) => Inside(t, e, d)
<1>1. \A s \in Slots : SlotTarget(c, d, s) = SlotTarget(e, d, s) /\ Usable(c, d, s) = Usable(e, d, s)
  BY SameTargets
<1>2. \A s \in Slots : CountryBal(c, d, s) = CountryBal(e, d, s)
  <2>. TAKE s \in Slots
  <2>. QED  BY <1>1 DEF CountryBal
<1>3. Lively(c, d) = Lively(e, d)
  BY <1>1 DEF Lively
<1>7. \A t : Inside(t, c, d) => Inside(t, e, d)
  BY <1>1 DEF Inside
<1>. QED  BY <1>1, <1>2, <1>3, <1>7 DEF DirectorBal, Loops

(* The file is settled after the director is added.                        *)
LEMMA DirectingSettles ==
  ASSUME NEW b \in Database, NEW d \in Database, NEW f, NEW t, NEW k, Entered(f, b, d, t, k),
         NEW q, InLine(q, f, d), Len(q) >= 2, NEW g, g = Directing(f, d, q)
  PROVE  /\ \E l : Settled(g, b, d, l) /\ HandsOn(t, k, g.rules, l)
         /\ SameNodes(f, g) /\ Tags(g) = Tags(f) \cup Loops(f, d)
<1>1. /\ Furnished(f, b) /\ Balanced(f, d) /\ f.ins = {In(0)} \cup {In(s) : s \in Slots}
      /\ \A x \in f.bal : x.closed /\ (x.tag = Upstream \/ \E s \in Slots :
                                     SlotTarget(f, d, s) = Country(s) /\ x = CountryBal(f, d, s))
      /\ \A o \in ToSet(f.outs) : o.tag[1] # "auto-via"
  BY DEF Entered
<1>2. /\ f \in Files /\ NodesThere(f) = Real(b)
      /\ Out(Direct, TRUE) \in ToSet(f.outs) /\ Out(Block, FALSE) \in ToSet(f.outs)
      /\ \A x \in f.bal : x.tag = Upstream =>
           Nodal(x.members) /\ f.outs # <<>> /\ f.outs[1].tag[1] \in {"upstream", "to-de"}
  BY <1>1 DEF Furnished
<1>3. q[1] \in Lively(f, d) /\ q[2] \in Lively(f, d) /\ q[1] # q[2] /\ Len(q) \in Nat
  BY DEF InLine, ToSet
<1>4. Final(b) = Upstream /\ Cardinality(Loops(f, d)) >= 2
  BY <1>2, <1>3, TwoNodes, TwoLoops
<1>ex. PICK r \in Seq(Good(b)) : \E l :
         /\ Directing(f, d, q).rules = r /\ HandsOn(t, k, r, l)
         /\ Overseen(r, l, f, d) /\ (Real(b) # {} => l = Len(r))
  BY <1>4, DirectingRules
<1>5. PICK l : /\ Directing(f, d, q).rules = r /\ HandsOn(t, k, r, l)
               /\ Overseen(r, l, f, d) /\ (Real(b) # {} => l = Len(r))
  BY <1>ex
<1>6. /\ g.ins = f.ins \cup {Api} /\ g.outs = f.outs \o LoopOuts(q) /\ g.rules = r
      /\ g.bal = f.bal \cup {DirectorBal(f, d)} /\ g.seen = f.seen \cup Loops(f, d)
      /\ g = [ins |-> g.ins, outs |-> g.outs, rules |-> g.rules, bal |-> g.bal, seen |-> g.seen]
  BY <1>5 DEF Directing
<1>7. /\ g.outs \in Seq(OutType) /\ ToSet(f.outs) \subseteq ToSet(g.outs)
      /\ f.outs # <<>> => g.outs # <<>> /\ g.outs[1] = f.outs[1]
      /\ Tags(g) = Tags(f) \cup Loops(f, d)
      /\ SameNodes(f, g)
  <2>. DEFINE v == LoopOuts(q)
  <2>1. v \in Seq(OutType) /\ ToSet(v) = {Out(Loop(s), TRUE) : s \in Lively(f, d)} /\ g.outs = f.outs \o v
    BY <1>6, LoopOutsAre
  <2>. HIDE DEF v
  <2>. QED  BY ZenonT(30), <1>2, <2>1, LoopOutsAdded
<1>8. /\ \A s \in Slots : SlotTarget(f, d, s) = SlotTarget(g, d, s) /\ CountryBal(f, d, s) = CountryBal(g, d, s)
                             /\ Usable(f, d, s) = Usable(g, d, s)
      /\ Lively(f, d) = Lively(g, d) /\ Loops(f, d) = Loops(g, d) /\ DirectorBal(f, d) = DirectorBal(g, d)
      /\ Inside(r, f, d) => Inside(r, g, d)
  BY <1>7, SameCountries
<1>9. /\ Loops(f, d) \subseteq Places /\ DirectorBal(f, d) \in BalType
      /\ DirectorBal(f, d).tag = Director /\ DirectorBal(f, d).closed
  <2>3. DirectorBal(f, d).closed
    BY Zenon DEF DirectorBal
  <2>. QED  BY <2>3, PlacesThere DEF DirectorBal, BalType, Loops, Lively
<1>10. Overseen(r, l, g, d)
  BY <1>7, SameLed, <1>5, <1>8 DEF Overseen
<1>11. g \in Files
  BY <1>2, <1>6, <1>9, PlacesThere, PlainTyped, SeqWider, <1>7 DEF Files
<1>12. Furnished(g, b)
  <2>1. NodesThere(g) = NodesThere(f)
    BY <1>7 DEF NodesThere, SameNodes
  <2>2. In(0) \in g.ins
    BY <1>1, <1>6
  <2>3. ASSUME NEW x \in g.bal, x.tag = Upstream
        PROVE  Nodal(x.members) /\ g.outs # <<>> /\ g.outs[1].tag[1] \in {"upstream", "to-de"}
    BY <2>3, <1>6, <1>9, <1>2, <1>7 DEF Upstream, Director
  <2>. QED  BY <1>2, <1>7, <1>11, <2>1, <2>2, <2>3 DEF Furnished
<1>13. CatchAllAt(g.rules, l, Director)
  BY <1>6, <1>10 DEF Overseen
<1>14. Built(g, b, l)
  BY <1>4, <1>5, <1>6, <1>12, <1>13 DEF Built
<1>15. Directed(g, d, l)
  <2>1. Loops(g, d) \subseteq Tags(g) \cap g.seen /\ Cardinality(Loops(g, d)) >= 2
    BY <1>4, <1>6, <1>7, <1>8
  <2>2. \A x \in Tags(g) : x[1] = "auto-via" => x \in Loops(g, d)
    BY <1>1, <1>7, <1>8 DEF Tags
  <2>3. Api \in g.ins
    BY <1>6
  <2>. QED  BY <1>6, <1>10, <1>13, <2>1, <2>2, <2>3 DEF Directed, Overseen
<1>16. Balanced(g, d)
  BY <1>1, <1>6, <1>8 DEF Balanced
<1>17. g.ins \ {Api} = {In(0)} \cup {In(s) : s \in Slots}
  BY ZenonT(30), <1>1, <1>6, SlotsApart
<1>18. ASSUME NEW x \in g.bal
       PROVE  x.closed /\ (\/ x.tag = Upstream
                           \/ \E s \in Slots : SlotTarget(g, d, s) = Country(s) /\ x = CountryBal(g, d, s)
                           \/ x = DirectorBal(g, d) /\ Directed(g, d, l))
  BY <1>1, <1>8, <1>9, <1>15, <1>6
<1>19. Settled(g, b, d, l)
  BY <1>6, <1>10, <1>14, <1>16, <1>17, <1>18 DEF Settled, Overseen
<1>. QED  BY <1>5, <1>6, <1>7, <1>19

(* The nodes that have an outbound, real or not.                           *)
NodeTags(c) == {n \in Nodes : Node(n) \in Tags(c)}

(* The layer of the countries, with countries, on any file of before.      *)
LEMMA EntrancesEntered ==
  ASSUME NEW b \in Database, NEW d \in Database, NEW c, NEW l, Built(c, b, l),
         NEW f, f = Entrances(Strip(c), d)
  PROVE  /\ SameNodes(c, f) /\ NodeTags(f) \subseteq NodeTags(c)
         /\ \E t, k : /\ Entered(f, b, d, t, k)
                      /\ \A w, x : x # Director /\ Has(c.rules, l, w, x) => Has(t, k, w, x)
                      /\ GovFirst(c.rules) => t # <<>> /\ Blocks(t[1])
<1>. DEFINE e == Strip(c)
<1>1. PICK m : /\ PlainAt(e, b, m, {})
               /\ \A w, x : x # Director /\ Has(c.rules, l, w, x) => Has(e.rules, m, w, x)
               /\ GovFirst(c.rules) => Blocks(e.rules[1])
  BY StripPlain
<1>2. Furnished(c, b) /\ e.rules \in Seq(PlainRules(b)) /\ e.rules \in Seq(RuleType)
  <2>. HIDE DEF e
  <2>. QED  BY PlainTyped, SeqWider, <1>1 DEF Built, PlainAt
<1>3. /\ \A n \in Nodes : Node(n) \in Tags(e) => Node(n) \in Tags(c)
      /\ \A n \in Nodes : Node(n) \in RealTags(e) <=> Node(n) \in RealTags(c)
      /\ \A o \in ToSet(e.outs) : o.tag[1] # "auto-via"
  BY <1>2, StripFurnished
<1>4. f = Entrances(e, d)
  OBVIOUS
<1>. HIDE DEF e
<1>5. PICK t \in Seq(Good(b)) : \E k :
           /\ f.rules = t /\ CatchAllAt(t, k, Final(b)) /\ (Real(b) # {} => k = Len(t))
           /\ Led(t, e, d, k) /\ \A i \in 1 .. Len(t) : t[i].from \notin Insiders
           /\ \A w, to : Has(e.rules, m, w, to) => Has(t, k, w, to)
           /\ Blocks(e.rules[1]) => Blocks(t[1])
  BY <1>1, EntrancesRules, <1>4
<1>6. PICK k :
           /\ f.rules = t /\ CatchAllAt(t, k, Final(b)) /\ (Real(b) # {} => k = Len(t))
           /\ Led(t, e, d, k) /\ \A i \in 1 .. Len(t) : t[i].from \notin Insiders
           /\ \A w, to : Has(e.rules, m, w, to) => Has(t, k, w, to)
           /\ Blocks(e.rules[1]) => Blocks(t[1])
  BY <1>5
<1>8. /\ Furnished(f, b) /\ f.ins = {In(0)} \cup {In(s) : s \in Slots} /\ f.outs = e.outs
      /\ SameNodes(e, f) /\ Balanced(f, d)
      /\ \A x \in f.bal : x.closed /\ (x.tag = Upstream \/ \E s \in Slots :
                                            SlotTarget(f, d, s) = Country(s) /\ x = CountryBal(f, d, s))
  BY <1>1, <1>4, <1>6, EntrancesRest, PlainTyped, SeqWider
<1>10. Entered(f, b, d, t, k)
  BY <1>3, <1>6, <1>8, SameLed DEF Entered
<1>11. SameNodes(c, f) /\ NodeTags(f) \subseteq NodeTags(c)
  BY <1>3, <1>8 DEF SameNodes, NodeTags, Tags
<1>. QED  BY <1>1, <1>6, <1>10, <1>11 DEF CatchAllAt

(* The layer of the countries, switched on, settles the file that was      *)
(* built.                                                                  *)
LEMMA TransformSettles ==
  ASSUME NEW b \in Database, NEW d \in Database, d.multi, NEW c, NEW l, Built(c, b, l),
         NEW g, g = Transform(c, d)
  PROVE  /\ SameNodes(c, g) /\ NodeTags(g) \subseteq NodeTags(c)
         /\ \E k : /\ Settled(g, b, d, k)
                   /\ \A w, x : x # Director /\ Has(c.rules, l, w, x) => Has(g.rules, k, w, x)
                   /\ GovFirst(c.rules) => GovFirst(g.rules)
<1>. DEFINE f == Entrances(Strip(c), d)
<1>1. g = AddDirector(f, d)
  BY DEF Transform
<1>2. /\ SameNodes(c, f) /\ NodeTags(f) \subseteq NodeTags(c)
      /\ \E t, k : /\ Entered(f, b, d, t, k)
                   /\ \A w, x : x # Director /\ Has(c.rules, l, w, x) => Has(t, k, w, x)
                   /\ GovFirst(c.rules) => t # <<>> /\ Blocks(t[1])
  BY EntrancesEntered
<1>. HIDE DEF f
<1>3. PICK t, k : /\ Entered(f, b, d, t, k)
                  /\ \A w, x : x # Director /\ Has(c.rules, l, w, x) => Has(t, k, w, x)
                  /\ GovFirst(c.rules) => t # <<>> /\ Blocks(t[1])
  BY <1>2
<1>4. CASE AddDirector(f, d) = f
  BY <1>1, <1>4, <1>3, EnteredSettles, <1>2 DEF HandsOn
<1>5. ASSUME NEW q, InLine(q, f, d), Len(q) >= 2, AddDirector(f, d) = Directing(f, d, q)
      PROVE  /\ SameNodes(c, g) /\ NodeTags(g) \subseteq NodeTags(c)
             /\ \E m : /\ Settled(g, b, d, m)
                       /\ \A w, x : x # Director /\ Has(c.rules, l, w, x) => Has(g.rules, m, w, x)
                       /\ GovFirst(c.rules) => GovFirst(g.rules)
  <2>2. /\ \E m : Settled(g, b, d, m) /\ HandsOn(t, k, g.rules, m)
        /\ SameNodes(f, g) /\ Tags(g) = Tags(f) \cup Loops(f, d)
    BY <1>3, <1>5, DirectingSettles, <1>1
  <2>3. PICK m : Settled(g, b, d, m) /\ HandsOn(t, k, g.rules, m)
    BY <2>2
  <2>4. SameNodes(c, g)
    BY <1>2, <2>2 DEF SameNodes
  <2>5. NodeTags(g) \subseteq NodeTags(c)
    BY <1>2, <2>2 DEF Node, Loops, Loop, NodeTags
  <2>. QED  BY <1>3, <2>3, <2>4, <2>5 DEF HandsOn
<1>. QED  BY <1>4, <1>5, AddDirectorIs

(* Checks 1 and 2 hold of a settled file that had a node to build with.    *)
LEMMA SettledOrder ==
  ASSUME NEW b \in Database, NEW d \in Database, NEW c, NEW k, Settled(c, b, d, k), Real(b) # {}
  PROVE  OrderIsRight(c)
<1>1. /\ c.rules \in Seq(Good(b)) /\ DOMAIN c.rules = 1 .. Len(c.rules) /\ Len(c.rules) \in Nat
      /\ k = Len(c.rules) /\ Led(c.rules, c, d, k) /\ Inside(c.rules, c, d)
      /\ \A i \in 1 .. Len(c.rules) : c.rules[i] \in Good(b)
      /\ \E to : CatchAllAt(c.rules, k, to)
  BY DEF Settled, Built
<1>2. PICK to : CatchAllAt(c.rules, k, to)
  BY <1>1
<1>3. /\ \A i \in 1 .. Len(c.rules), s \in Slots : In(s) \in c.rules[i].from => c.rules[i].to = SlotTarget(c, d, s) /\ i < k
      /\ \A i \in 1 .. k - 1, j \in 1 .. Len(c.rules) :
           c.rules[i].from = {} /\ IsOurs(c.rules[j]) /\ c.rules[j].match = {} => i < j
  BY <1>1 DEF Led
<1>5. SUFFICES ASSUME NEW i \in 1 .. Len(c.rules), NEW j \in 1 .. Len(c.rules),
                      IsOurs(c.rules[i]), c.rules[i].match = {}
               PROVE  (c.rules[j].to = Direct => j < i) /\ (IsCatchAll(c.rules[j]) => i < j)
  BY <1>1 DEF OrderIsRight
<1>6. ASSUME c.rules[j].to = Direct PROVE j < i
  <2>2. c.rules[j].match # {} /\ c.rules[j].from \in Froms
    BY <1>6, <1>1 DEF Good
  <2>3. \A s \in Slots : In(s) \notin c.rules[j].from
    BY <1>3, <1>6, SlotTargetIs
  <2>4. c.rules[j].from \notin Insiders
    <3>2. \A x, y : Rule(x, {}, y).match = {}
      BY DEF Rule
    <3>. QED  BY <3>2, <2>2, <1>1 DEF Inside
  <2>5. c.rules[j].from = {}
    BY <2>2, <2>3, <2>4 DEF Froms, Insiders
  <2>7. j \in 1 .. k - 1
    BY <2>2, <1>1, <1>2 DEF CatchAllAt, Rule
  <2>. QED  BY <2>5, <2>7, <1>3, <1>5
<1>7. ASSUME IsCatchAll(c.rules[j]) PROVE i < j
  <2>2. PICK s \in Slots : In(s) \in c.rules[i].from
    BY <1>5 DEF IsOurs
  <2>. QED  BY <2>2, <1>3, <1>2, <1>7 DEF CatchAllAt
<1>. QED  BY <1>6, <1>7

(* Checks 3, 3b and 4 hold of every settled file.                          *)
LEMMA SettledBals ==
  ASSUME NEW b \in Database, NEW d \in Database, NEW c, NEW k, Settled(c, b, d, k)
  PROVE  FailsClosed(c) /\ DirectorIsRight(c) /\ RefersToWhatIsThere(c)
<1>1. /\ Furnished(c, b) /\ c \in Files /\ Led(c.rules, c, d, k) /\ Balanced(c, d) /\ Inside(c.rules, c, d)
      /\ \A x \in c.bal : x.closed /\
       \/ x.tag = Upstream
       \/ \E s \in Slots : SlotTarget(c, d, s) = Country(s) /\ x = CountryBal(c, d, s)
       \/ x = DirectorBal(c, d) /\ Directed(c, d, k)
  BY DEF Settled, Built, Furnished
<1>2. /\ Out(Direct, TRUE) \in ToSet(c.outs) /\ Out(Block, FALSE) \in ToSet(c.outs)
  BY <1>1 DEF Furnished
<1>4. DirectorIsRight(c)
  <2>. DEFINE last == SelectLastInSeq(c.rules, IsCatchAll)
  <2>1. SUFFICES ASSUME NEW x \in c.bal, x.tag = Director
                 PROVE  /\ Cardinality(x.members) >= 2 /\ x.members \subseteq Tags(c) \cap c.seen
                        /\ last # 0 /\ c.rules[last].to = Director
                        /\ \A t \in x.members : \E i \in 1 .. last : LoopIn(t[2]) \in c.rules[i].from
                        /\ Api \in c.ins /\ Rule({Api}, {}, Api) \in ToSet(c.rules)
    BY DEF DirectorIsRight
  <2>2. x.members = Loops(c, d) /\ Directed(c, d, k)
    BY <2>1, <1>1 DEF Upstream, Director, CountryBal, Country, DirectorBal
  <2>3. /\ CatchAllAt(c.rules, k, Director) /\ Api \in c.ins /\ Rule({Api}, {}, Api) \in ToSet(c.rules)
        /\ Cardinality(Loops(c, d)) >= 2 /\ Loops(c, d) \subseteq Tags(c) \cap c.seen
        /\ \A s \in Lively(c, d) : \E i \in 1 .. k - 1 : c.rules[i].from = {LoopIn(s)}
    BY <2>2 DEF Directed
  <2>4. Len(c.rules) \in Nat
    BY <1>1 DEF Files
  <2>5. \/ last = 0 /\ \A i \in 1 .. Len(c.rules) : ~IsCatchAll(c.rules[i])
        \/ last \in 1 .. Len(c.rules) /\ IsCatchAll(c.rules[last]) /\ \A i \in 1 .. Len(c.rules) : IsCatchAll(c.rules[i]) => i <= last
    BY <2>4, LastIs
  <2>. HIDE DEF last
  <2>6. k \in 1 .. Len(c.rules) /\ c.rules[k] = Rule({}, {}, Director) /\ \A i \in 1 .. Len(c.rules) : i # k => ~IsCatchAll(c.rules[i])
    BY <2>3 DEF CatchAllAt
  <2>7. last = k
    BY <2>6, <2>5 DEF IsCatchAll, Rule
  <2>9. \A t \in x.members : \E i \in 1 .. last : LoopIn(t[2]) \in c.rules[i].from
    <3>. TAKE t \in x.members
    <3>1. PICK s \in Lively(c, d) : t = Loop(s)
      BY <2>2 DEF Loops
    <3>3. PICK i \in 1 .. k - 1 : c.rules[i].from = {LoopIn(s)}
      BY <2>3
    <3>4. i \in 1 .. last
      BY <2>4, <2>6, <2>7
    <3>. QED  BY <3>3, <3>4, <3>1 DEF Loop
  <2>. QED  BY <2>2, <2>3, <2>9, <2>6, <2>7 DEF Rule
<1>5. RefersToWhatIsThere(c)
  <2>1. SUFFICES ASSUME NEW i \in DOMAIN c.rules, NEW s \in Slots, In(s) \in c.rules[i].from
                 PROVE  c.rules[i].to \in Tags(c) \cup {x.tag : x \in c.bal}
    BY DEF RefersToWhatIsThere, IsOurs, ToSet
  <2>3. c.rules[i].to = SlotTarget(c, d, s)
    BY <1>1, <2>1 DEF Led, Files
  <2>5. Block \in Tags(c)
    BY <1>2, OutTag DEF Tags
  <2>6. \A n \in Usable(c, d, s) : Node(n) \in Tags(c)
    BY DEF Usable, RealTags, Tags
  <2>7. SlotTarget(c, d, s) = Country(s) => Country(s) \in {x.tag : x \in c.bal}
    <3>1. CountryBal(c, d, s).tag = Country(s)
      BY DEF CountryBal
    <3>. QED  BY <1>1, <3>1 DEF Balanced
  <2>. QED  BY <2>3, <2>5, <2>6, <2>7, SlotTargetIs
<1>. QED  BY <1>4, <1>5, <1>1, <1>2 DEF FailsClosed

(* Checks 5 and 6 hold of a settled file, but for a clash of tags.         *)
LEMMA SettledMembers ==
  ASSUME NEW b \in Database, NEW d \in Database, NEW c, NEW k, Settled(c, b, d, k),
         NEW c0, SameNodes(c0, c), NodeTags(c) \subseteq NodeTags(c0), ~Clash(c0, d)
  PROVE  MembersAreMeant(c)
<1>1. /\ c \in Files /\ Balanced(c, d)
      /\ \A x \in c.bal : \/ x.tag = Upstream
                          \/ \E s \in Slots : SlotTarget(c, d, s) = Country(s) /\ x = CountryBal(c, d, s)
                          \/ x = DirectorBal(c, d)
  BY DEF Settled, Built, Furnished
<1>2. SUFFICES ASSUME NEW x \in c.bal, x.tag[1] = "balancer"
               PROVE  /\ {t \in Tags(c) : Covers(x.members, t)} = x.members
                      /\ \A t \in x.members : Covers(c.seen, t)
  BY DEF MembersAreMeant
<1>3. PICK s \in Slots : SlotTarget(c, d, s) = Country(s) /\ x = CountryBal(c, d, s)
  BY <1>2, <1>1 DEF Upstream, DirectorBal, Director
<1>. DEFINE u == Usable(c, d, s)
<1>4. x.members = {Node(n) : n \in u}
  BY <1>3 DEF CountryBal
<1>5. s \in d.on /\ u \subseteq Nodes
  BY <1>3 DEF Country, Block, SlotTarget, Usable
<1>6. Usable(c0, d, s) = u
  BY SameTargets
<1>7. \A n \in u : Node(n) \in Tags(c)
  BY DEF Usable, RealTags, Tags
<1>. HIDE DEF u
<1>9. ASSUME NEW t \in Tags(c), Covers(x.members, t) PROVE t \in x.members
  <2>1. CASE t \in x.members
    BY <2>1
  <2>2. CASE t \notin x.members
    <3>1. PICK m \in x.members : IsNode(t) /\ <<t[2], m[2]>> \in Prefixed
      BY <1>9, <2>2 DEF Covers
    <3>2. PICK n \in u : m = Node(n)
      BY <1>4
    <3>3. t[2] \in Nodes /\ <<t[2], n>> \in Prefixed
      BY <3>1, <3>2, RouterConfigAssumption DEF Node
    <3>4. t \in Places
      <4>2. \A o \in ToSet(c.outs) : o \in OutType
        BY <1>1 DEF ToSet, Files
      <4>. QED  BY <4>2, PlacesThere DEF Tags, OutType
    <3>5. t = Node(t[2])
      BY <3>1, <3>4 DEF IsNode, Node, Places
    <3>7. t[2] \in u
      BY <1>5, <1>6, <3>3, <3>5 DEF Clash, NodeTags
    <3>. QED  BY <1>4, <3>5, <3>7
  <2>. QED  BY <2>1, <2>2
<1>11. \A t \in x.members : Covers(c.seen, t)
  BY <1>1, <1>3, <1>4 DEF Balanced, u, Covers
<1>. QED  BY <1>9, <1>11, <1>4, <1>7 DEF Covers

(* What the layer of the countries makes of any file of before passes its  *)
(* own checks, unless the tags clash.                                      *)
LEMMA TransformSound ==
  ASSUME NEW b \in Database, NEW d \in Database, NEW c, NEW l, Built(c, b, l), Real(b) # {}
  PROVE  Sound(Transform(c, d)) \/ Clash(c, d)
<1>1. CASE d.multi
  <2>. DEFINE g == Transform(c, d)
  <2>1. /\ SameNodes(c, g) /\ NodeTags(g) \subseteq NodeTags(c)
        /\ \E k : /\ Settled(g, b, d, k)
                  /\ \A w, x : x # Director /\ Has(c.rules, l, w, x) => Has(g.rules, k, w, x)
                  /\ GovFirst(c.rules) => GovFirst(g.rules)
    BY <1>1, TransformSettles
  <2>. HIDE DEF g
  <2>2. PICK k : Settled(g, b, d, k)
    BY <2>1
  <2>4. ~Clash(c, d) => MembersAreMeant(g)
    BY <2>1, <2>2, SettledMembers
  <2>. QED  BY <2>4, <2>2, SettledOrder, SettledBals DEF Sound, g
<1>2. CASE ~d.multi
  BY <1>2, StripPlain, PlainSound DEF Transform
<1>. QED  BY <1>1, <1>2

-----------------------------------------------------------------------------
(* Joined neighbours, and both kinds of file.                              *)

(* What joined rules have of the rules they join, and the other way.       *)
LEMMA JoinedIs ==
  ASSUME NEW t, NEW s, NEW n, NEW g, Joined(t, s, n, g)
  PROVE  /\ \A i \in 1 .. n : g[i] \in 1 .. Len(t) /\ t[g[i]].from = s[i].from /\ t[g[i]].to = s[i].to
                              /\ s[i].match \subseteq t[g[i]].match
                              /\ (s[i].match = {} \/ s[i].from # {} => t[g[i]] = s[i])
         /\ \A i, j \in 1 .. n : i <= j => g[i] <= g[j]
         /\ \A k \in 1 .. Len(t) : \E i \in 1 .. n : g[i] = k
         /\ \A k \in 1 .. Len(t) : \A w \in t[k].match : \E i \in 1 .. n : g[i] = k /\ w \in s[i].match
BY DEF Joined, Class

(* Joined good rules are good.                                             *)
LEMMA JoinedGood ==
  ASSUME NEW b, NEW s \in Seq(Good(b)), NEW t \in Seq(RuleType), NEW g, Joined(t, s, Len(s), g)
  PROVE  t \in Seq(Good(b))
<1>1. Len(s) \in Nat /\ Len(t) \in Nat /\ (\A i \in 1 .. Len(s) : s[i] \in Good(b))
      /\ \A k \in 1 .. Len(t) : t[k] \in RuleType
  OBVIOUS
<1>0. /\ \A i \in 1 .. Len(s) : /\ t[g[i]].from = s[i].from /\ t[g[i]].to = s[i].to
                                /\ s[i].match \subseteq t[g[i]].match
      /\ \A k \in 1 .. Len(t) : \E i \in 1 .. Len(s) : g[i] = k
      /\ \A k \in 1 .. Len(t) : \A w \in t[k].match : \E i \in 1 .. Len(s) : g[i] = k /\ w \in s[i].match
  BY DEF Joined
<1>2. ASSUME NEW k \in 1 .. Len(t) PROVE t[k] \in Good(b)
  <2>1. PICK i \in 1 .. Len(s) : g[i] = k
    BY <1>0
  <2>2. t[k].from = s[i].from /\ t[k].to = s[i].to /\ s[i].match \subseteq t[k].match
    BY <2>1, <1>0
  <2>3. \A w \in t[k].match : \E j \in 1 .. Len(s) : w \in s[j].match /\ s[j].from = t[k].from /\ s[j].to = t[k].to
    <3>. TAKE w \in t[k].match
    <3>1. PICK j \in 1 .. Len(s) : g[j] = k /\ w \in s[j].match
      BY <1>0
    <3>. QED  BY <3>1, <1>0
  <2>4. t[k].match \cap Russian # {} => t[k].to = Direct
    <3>. SUFFICES ASSUME NEW w \in t[k].match, w \in Russian PROVE t[k].to = Direct
      OBVIOUS
    <3>1. PICK j \in 1 .. Len(s) : w \in s[j].match /\ s[j].to = t[k].to
      BY <2>3
    <3>. QED  BY <3>1, <1>1 DEF Good
  <2>5. t[k].match = {} \/ "dns-world" \in t[k].match => t[k].to # Direct
    <3>1. CASE t[k].match = {}
      BY <3>1, <2>2, <1>1 DEF Good
    <3>2. CASE "dns-world" \in t[k].match
      <4>1. PICK j \in 1 .. Len(s) : "dns-world" \in s[j].match /\ s[j].to = t[k].to
        BY <3>2, <2>3
      <4>. QED  BY <4>1, <1>1 DEF Good
    <3>. QED  BY <3>1, <3>2
  <2>6. "dns-world" \in t[k].match /\ t[k].from = {} => Foreign(t[k].to)
    <3>. SUFFICES ASSUME "dns-world" \in t[k].match, t[k].from = {} PROVE Foreign(t[k].to)
      OBVIOUS
    <3>1. PICK j \in 1 .. Len(s) : "dns-world" \in s[j].match /\ s[j].from = t[k].from /\ s[j].to = t[k].to
      BY <2>3
    <3>. QED  BY <3>1, <1>1 DEF Good
  <2>7. "own" \in t[k].match => IF t[k].from = {} THEN t[k].to = OwnTo(b) ELSE Foreign(OwnTo(b))
    <3>. SUFFICES ASSUME "own" \in t[k].match PROVE IF t[k].from = {} THEN t[k].to = OwnTo(b) ELSE Foreign(OwnTo(b))
      OBVIOUS
    <3>1. PICK j \in 1 .. Len(s) : "own" \in s[j].match /\ s[j].from = t[k].from /\ s[j].to = t[k].to
      BY <2>3
    <3>. QED  BY <3>1, <1>1 DEF Good
  <2>8. t[k].from \in Froms
    BY <1>1, <2>2 DEF Good
  <2>. QED  BY <1>1, <2>4, <2>5, <2>6, <2>7, <2>8 DEF Good
<1>. QED  BY <1>1, <1>2

(* Joined rules say what the rules said.                                   *)
LEMMA JoinedHands ==
  ASSUME NEW b, NEW s \in Seq(Good(b)), NEW t \in Seq(Good(b)), NEW g, Joined(t, s, Len(s), g),
         NEW l, NEW to, CatchAllAt(s, l, to)
  PROVE  /\ \A w, x : Has(s, l, w, x) => Has(t, g[l], w, x)
         /\ GovFirst(s) => GovFirst(t)
         /\ \A i \in 1 .. Len(s) : i < l /\ (s[i].match # {} \/ s[i].from # {}) => g[i] \in 1 .. g[l] - 1
<1>0. /\ \A i \in 1 .. Len(s) : g[i] \in 1 .. Len(t) /\ t[g[i]].from = s[i].from /\ t[g[i]].to = s[i].to
                               /\ s[i].match \subseteq t[g[i]].match
                               /\ (s[i].match = {} \/ s[i].from # {} => t[g[i]] = s[i])
      /\ \A i, j \in 1 .. Len(s) : i <= j => g[i] <= g[j]
      /\ \A k \in 1 .. Len(t) : \E i \in 1 .. Len(s) : g[i] = k
  BY DEF Class, Joined
<1>1. /\ Len(s) \in Nat /\ Len(t) \in Nat /\ l \in 1 .. Len(s) /\ s[l] = Rule({}, {}, to)
      /\ s[l].match = {} /\ s[l].from = {}
  BY DEF CatchAllAt, Rule
<1>2. t[g[l]].match = {} /\ t[g[l]].from = {} /\ g[l] \in 1 .. Len(t)
  BY <1>0, <1>1
<1>3. ASSUME NEW i \in 1 .. Len(s), i < l, s[i].match # {} \/ s[i].from # {} PROVE g[i] \in 1 .. g[l] - 1
  <2>2. g[i] # g[l]
    BY <1>0, <1>2, <1>3
  <2>. QED  BY <2>2, <1>2, <1>1, <1>3, <1>0
<1>4. ASSUME NEW w, NEW x, Has(s, l, w, x) PROVE Has(t, g[l], w, x)
  <2>1. PICK i \in 1 .. l - 1 : s[i].from = {} /\ w \in s[i].match /\ s[i].to = x
    BY <1>4 DEF Has
  <2>2. i \in 1 .. Len(s) /\ i < l
    BY <1>1
  <2>. QED  BY <2>1, <2>2, <1>3, <1>0 DEF Has
<1>5. ASSUME GovFirst(s) PROVE GovFirst(t)
  <2>1. PICK i \in 1 .. Len(s) : Blocks(s[i]) /\ \A j \in 1 .. i - 1 : s[j].from \in Insiders
    BY <1>5 DEF GovFirst
  <2>2. g[i] \in 1 .. Len(t) /\ Blocks(t[g[i]])
    BY <1>0, <2>1 DEF Blocks
  <2>3. ASSUME NEW j \in 1 .. g[i] - 1 PROVE t[j].from \in Insiders
    <3>1. j \in 1 .. Len(t) /\ j < g[i]
      BY <2>2, <1>1
    <3>2. PICK h \in 1 .. Len(s) : g[h] = j
      BY <3>1, <1>0
    <3>4. h \in 1 .. i - 1
      BY <1>1, <1>0, <3>1, <3>2, <2>2
    <3>. QED  BY <3>4, <2>1, <3>2, <1>0
  <2>. QED  BY <2>2, <2>3 DEF GovFirst
<1>. QED  BY <1>3, <1>4, <1>5

(* A file with the countries of d, or one without any.                     *)
Shape(c, b, d, l) == Settled(c, b, d, l) \/ PlainAt(c, b, l, {})

(* What the rules s say is said by the rules t.                            *)
Carries(s, l, t, k) ==
  /\ \A w, x : x # Director /\ Has(s, l, w, x) => Has(t, k, w, x)
  /\ GovFirst(s) => GovFirst(t)

(* Either kind of file is a built one.                                     *)
LEMMA ShapeBuilt ==
  ASSUME NEW b \in Database, NEW d, NEW c, NEW l, Shape(c, b, d, l)
  PROVE  Built(c, b, l)
BY PlainBuilt DEF Shape, Settled

(* The layer of the countries makes one kind or the other of any built     *)
(* file, and says what was said for all.                                   *)
LEMMA TransformShapes ==
  ASSUME NEW b \in Database, NEW d \in Database, NEW c, NEW l, Built(c, b, l)
  PROVE  \E k : Shape(Transform(c, d), b, d, k) /\ Carries(c.rules, l, Transform(c, d).rules, k)
<1>. DEFINE g == Transform(c, d)
<1>1. CASE d.multi
  <2>. HIDE DEF g
  <2>. QED  BY <1>1, TransformSettles DEF Shape, Carries, g
<1>2. CASE ~d.multi
  <2>1. g = Strip(c)
    BY <1>2 DEF Transform
  <2>. HIDE DEF g
  <2>2. PICK k : /\ PlainAt(g, b, k, {})
                 /\ \A w, to : to # Director /\ Has(c.rules, l, w, to) => Has(g.rules, k, w, to)
                 /\ GovFirst(c.rules) => Blocks(g.rules[1])
    BY <2>1, StripPlain
  <2>3. ASSUME GovFirst(c.rules) PROVE GovFirst(g.rules)
    BY <2>2, <2>3 DEF PlainAt, CatchAllAt, GovFirst
  <2>. QED  BY <2>2, <2>3 DEF Shape, g, Carries
<1>. QED  BY <1>1, <1>2

(* Led and Inside hold of the joined rules too.                            *)
LEMMA JoinedLed ==
  ASSUME NEW b \in Database, NEW d \in Database, NEW c,
         NEW s \in Seq(Good(b)), NEW t \in Seq(Good(b)), NEW g, Joined(t, s, Len(s), g),
         NEW l, NEW to, CatchAllAt(s, l, to), Led(s, c, d, l)
  PROVE  Led(t, c, d, g[l])
<1>. DEFINE m == g[l]
<1>1. /\ Len(s) \in Nat /\ Len(t) \in Nat /\ l \in 1 .. Len(s)
      /\ s[l].match = {} /\ s[l].from = {}
  BY DEF CatchAllAt, Rule
<1>2. /\ \A i \in 1 .. Len(s) : g[i] \in 1 .. Len(t) /\ t[g[i]].from = s[i].from /\ t[g[i]].to = s[i].to
                                /\ s[i].match \subseteq t[g[i]].match
      /\ \A i \in 1 .. Len(s) : s[i].match = {} \/ s[i].from # {} => t[g[i]] = s[i]
      /\ \A i, j \in 1 .. Len(s) : i <= j => g[i] <= g[j]
      /\ \A k \in 1 .. Len(t) : \E i \in 1 .. Len(s) : g[i] = k
      /\ \A k \in 1 .. Len(t) : \A w \in t[k].match : \E i \in 1 .. Len(s) : g[i] = k /\ w \in s[i].match
  BY DEF Joined, Class
<1>3. \A i \in 1 .. Len(s) : i < l /\ (s[i].match # {} \/ s[i].from # {}) => g[i] \in 1 .. m - 1
  BY JoinedHands
<1>led. /\ \A i \in 1 .. Len(s), x \in Slots : In(x) \in s[i].from => s[i].to = SlotTarget(c, d, x) /\ i < l
        /\ \A i \in 1 .. l - 1, j \in 1 .. Len(s) :
             s[i].from = {} /\ IsOurs(s[j]) /\ s[j].match = {} => i < j
        /\ \A x \in Slots : \E i \in 1 .. l - 1 : s[i].from = {In(x)} /\ s[i].match = {}
        /\ \A i \in 1 .. Len(s), x \in Slots : s[i].from = {} /\ s[i].match # {} /\ Foreign(s[i].to) =>
             \A w \in s[i].match : \E j \in 1 .. i - 1 : s[j].from = {In(x)} /\ (s[j].match = {} \/ w \in s[j].match)
  BY DEF Led
<1>4. m \in 1 .. Len(t) /\ t[m].from = {} /\ t[m].match = {}
  BY <1>1, <1>2
<1>. HIDE DEF m
<1>5. ASSUME NEW i \in 1 .. Len(t), NEW x \in Slots, In(x) \in t[i].from
      PROVE  t[i].to = SlotTarget(c, d, x) /\ i < m
  <2>1. PICK h \in 1 .. Len(s) : g[h] = i
    BY <1>2
  <2>2. In(x) \in s[h].from /\ s[h].to = t[i].to
    BY <2>1, <1>2, <1>5
  <2>. QED  BY <2>1, <2>2, <1>1, <1>4, <1>3, <1>led
<1>6. ASSUME NEW i \in 1 .. m - 1, NEW j \in 1 .. Len(t), t[i].from = {}, IsOurs(t[j]), t[j].match = {}
      PROVE  i < j
  <2>0. i \in 1 .. Len(t) /\ i < m
    BY <1>4, <1>1
  <2>1. PICK h \in 1 .. Len(s) : g[h] = i
    BY <2>0, <1>2
  <2>2. PICK e \in 1 .. Len(s) : g[e] = j
    BY <1>2
  <2>3. h \in 1 .. l - 1
    <3>1. l <= h => m <= g[h]
      BY <1>1, <1>2 DEF m
    <3>. QED  BY <3>1, <2>0, <2>1, <1>1, <1>4
  <2>4. s[h].from = {} /\ s[e].from = t[j].from /\ s[e].match \subseteq t[j].match
    BY <2>1, <2>2, <1>2, <1>6
  <2>6. h < e
    BY <2>3, <2>4, <1>led, <1>6 DEF IsOurs
  <2>7. i <= j
    BY <2>1, <2>2, <2>6, <1>2, <1>1
  <2>. QED  BY <2>0, <2>7, <1>6, <1>1 DEF IsOurs
<1>7. ASSUME NEW x \in Slots PROVE \E i \in 1 .. m - 1 : t[i].from = {In(x)} /\ t[i].match = {}
  <2>1. PICK i \in 1 .. l - 1 : s[i].from = {In(x)} /\ s[i].match = {}
    BY <1>led
  <2>2. i \in 1 .. Len(s) /\ i < l /\ s[i].from # {}
    BY <2>1, <1>1
  <2>3. g[i] \in 1 .. m - 1 /\ t[g[i]] = s[i]
    BY <2>2, <1>2, <1>3
  <2>. QED  BY <2>1, <2>3
<1>8. ASSUME NEW i \in 1 .. Len(t), NEW x \in Slots, t[i].from = {}, t[i].match # {}, Foreign(t[i].to),
             NEW w \in t[i].match
      PROVE  \E j \in 1 .. i - 1 : t[j].from = {In(x)} /\ (t[j].match = {} \/ w \in t[j].match)
  <2>1. PICK h \in 1 .. Len(s) : g[h] = i /\ w \in s[h].match
    BY <1>2
  <2>2. s[h].from = {} /\ s[h].match # {} /\ Foreign(s[h].to) /\ w \in s[h].match
    BY <2>1, <1>2, <1>8
  <2>3. PICK j \in 1 .. h - 1 : s[j].from = {In(x)} /\ (s[j].match = {} \/ w \in s[j].match)
    BY <2>2, <1>led
  <2>4. j \in 1 .. Len(s) /\ j <= h /\ s[j].from # {}
    BY <2>3, <1>1
  <2>5. t[g[j]] = s[j] /\ g[j] \in 1 .. Len(t) /\ g[j] <= i
    BY <2>1, <2>4, <1>2
  <2>7. g[j] \in 1 .. i - 1
    BY <2>5, <1>1, <2>4, <1>8
  <2>. QED  BY <2>3, <2>5, <2>7
<1>9. Led(t, c, d, m)
  BY ZenonT(30), <1>5, <1>6, <1>7, <1>8 DEF Led
<1>. QED  BY <1>9 DEF m

(* The joined file is of the same shape.                                   *)
LEMMA JoinedSettled ==
  ASSUME NEW b \in Database, NEW d \in Database, NEW c, NEW l, Settled(c, b, d, l),
         NEW t \in Seq(Good(b)), NEW g, Joined(t, c.rules, Len(c.rules), g),
         NEW e, e = [c EXCEPT !.rules = t]
  PROVE  Settled(e, b, d, g[l])
<1>1. /\ Built(c, b, l) /\ Led(c.rules, c, d, l) /\ Inside(c.rules, c, d) /\ Balanced(c, d)
      /\ c.ins \ {Api} = {In(0)} \cup {In(s) : s \in Slots}
      /\ \A x \in c.bal : x.closed /\
           \/ x.tag = Upstream
           \/ \E s \in Slots : SlotTarget(c, d, s) = Country(s) /\ x = CountryBal(c, d, s)
           \/ x = DirectorBal(c, d) /\ Directed(c, d, l)
  BY DEF Settled
<1>2. /\ Furnished(c, b) /\ c.rules \in Seq(Good(b)) /\ c.rules \in Seq(RuleType) /\ Len(c.rules) \in Nat
      /\ (Real(b) # {} => l = Len(c.rules)) /\ t \in Seq(RuleType)
      /\ \E to : CatchAllAt(c.rules, l, to)
  BY <1>1, PlainTyped, SeqWider DEF Built
<1>3. /\ Furnished(e, b) /\ e.rules = t /\ e.ins = c.ins /\ e.bal = c.bal /\ e.outs = c.outs /\ e.seen = c.seen
  BY <1>2, FurnishedRules
<1>4. \A to : CatchAllAt(c.rules, l, to) => CatchAllAt(t, g[l], to) /\ (l = Len(c.rules) => g[l] = Len(t))
  BY <1>2, CatchAllJoined
<1>5. Built(e, b, g[l])
  BY <1>2, <1>4, <1>1, <1>3 DEF Built
<1>6. SameNodes(c, e) /\ Tags(e) = Tags(c)
  BY <1>3 DEF SameNodes, RealTags, Tags
<1>7. /\ \A s \in Slots : SlotTarget(c, d, s) = SlotTarget(e, d, s) /\ CountryBal(c, d, s) = CountryBal(e, d, s)
                             /\ Usable(c, d, s) = Usable(e, d, s)
      /\ Lively(c, d) = Lively(e, d) /\ Loops(c, d) = Loops(e, d) /\ DirectorBal(c, d) = DirectorBal(e, d)
      /\ Inside(t, c, d) => Inside(t, e, d)
  BY <1>6, SameCountries
<1>8. Led(t, e, d, g[l])
  <2>1. PICK to : CatchAllAt(c.rules, l, to)
    BY <1>2
  <2>. QED  BY <1>6, SameLed, <1>1, <1>2, <2>1, JoinedLed
<1>9. /\ \A i \in 1 .. Len(c.rules) : g[i] \in 1 .. Len(t) /\ t[g[i]].from = c.rules[i].from
      /\ \A i \in 1 .. Len(c.rules) : c.rules[i].match = {} \/ c.rules[i].from # {} => t[g[i]] = c.rules[i]
      /\ \A i, j \in 1 .. Len(c.rules) : i <= j => g[i] <= g[j]
      /\ \A k \in 1 .. Len(t) : \E i \in 1 .. Len(c.rules) : g[i] = k
  <2>. DEFINE s == c.rules
  <2>1. Joined(t, s, Len(s), g)
    OBVIOUS
  <2>. HIDE DEF s
  <2>2. /\ \A i \in 1 .. Len(s) : g[i] \in 1 .. Len(t) /\ t[g[i]].from = s[i].from
        /\ \A i \in 1 .. Len(s) : s[i].match = {} \/ s[i].from # {} => t[g[i]] = s[i]
        /\ \A i, j \in 1 .. Len(s) : i <= j => g[i] <= g[j]
        /\ \A k \in 1 .. Len(t) : \E i \in 1 .. Len(s) : g[i] = k
    BY <2>1, JoinedIs
  <2>. QED  BY <2>2 DEF s
<1>10. Inside(t, c, d)
  <2>1. ASSUME NEW i \in 1 .. Len(t), t[i].from \in Insiders
        PROVE  t[i] = Rule({Api}, {}, Api) \/ \E s \in Slots : t[i] = Rule({LoopIn(s)}, {}, SlotTarget(c, d, s))
    <3>1. PICK h \in 1 .. Len(c.rules) : g[h] = i
      BY <1>9
    <3>2. c.rules[h].from \in Insiders /\ c.rules[h].from # {}
      BY <2>1, <3>1, <1>9 DEF Insiders
    <3>4. c.rules[h] = Rule({Api}, {}, Api) \/ \E s \in Slots : c.rules[h] = Rule({LoopIn(s)}, {}, SlotTarget(c, d, s))
      BY <3>2, <1>1 DEF Inside
    <3>. QED  BY <3>4, <3>1, <3>2, <1>9
  <2>. QED  BY <2>1 DEF Inside
<1>11. Balanced(e, d)
  BY <1>1, <1>3, <1>7 DEF Balanced
<1>12. ASSUME Directed(c, d, l) PROVE Directed(e, d, g[l])
  <2>1. /\ CatchAllAt(c.rules, l, Director) /\ Api \in c.ins /\ Rule({Api}, {}, Api) \in ToSet(c.rules)
        /\ Cardinality(Loops(c, d)) >= 2 /\ Loops(c, d) \subseteq Tags(c) \cap c.seen
        /\ \A s \in Lively(c, d) : \E i \in 1 .. l - 1 :
             c.rules[i].from = {LoopIn(s)} /\ \A j \in 1 .. i - 1 : c.rules[j].from \in Insiders
        /\ \A x \in Tags(c) : x[1] = "auto-via" => x \in Loops(c, d)
    BY <1>12 DEF Directed
  <2>2. CatchAllAt(t, g[l], Director) /\ l \in 1 .. Len(c.rules)
    BY <2>1, <1>4 DEF CatchAllAt
  <2>3. Rule({Api}, {}, Api) \in ToSet(t)
    <3>1. DOMAIN c.rules = 1 .. Len(c.rules) /\ DOMAIN t = 1 .. Len(t)
      BY <1>2
    <3>2. PICK i \in 1 .. Len(c.rules) : c.rules[i] = Rule({Api}, {}, Api)
      BY <2>1, <3>1 DEF ToSet
    <3>3. t[g[i]] = c.rules[i] /\ g[i] \in 1 .. Len(t)
      <4>1. Rule({Api}, {}, Api).match = {}
        BY DEF Rule
      <4>. QED  BY <3>2, <4>1, <1>9
    <3>. QED  BY <3>1, <3>2, <3>3 DEF ToSet
  <2>4. ASSUME NEW s \in Lively(c, d)
        PROVE  \E i \in 1 .. g[l] - 1 : t[i].from = {LoopIn(s)} /\ \A j \in 1 .. i - 1 : t[j].from \in Insiders
    <3>1. PICK i \in 1 .. l - 1 :
             c.rules[i].from = {LoopIn(s)} /\ \A j \in 1 .. i - 1 : c.rules[j].from \in Insiders
      BY <2>1
    <3>2. i \in 1 .. Len(c.rules) /\ i < l /\ c.rules[i].from # {}
      BY <3>1, <2>2, <1>2
    <3>4. t[g[i]].from = {LoopIn(s)} /\ g[i] \in 1 .. Len(t)
      BY <3>1, <3>2, <1>9
    <3>5. ASSUME NEW j \in 1 .. g[i] - 1 PROVE t[j].from \in Insiders
      <4>1. j \in 1 .. Len(t) /\ j < g[i] /\ Len(t) \in Nat
        BY <3>4, <1>2
      <4>2. PICK h \in 1 .. Len(c.rules) : g[h] = j
        BY <4>1, <1>9
      <4>3. ~(i <= h)
        BY <3>2, <1>9, <4>1, <4>2, <3>4
      <4>4. h \in 1 .. i - 1
        BY <4>3, <1>2, <3>2
      <4>. QED  BY <4>2, <4>4, <3>1, <1>9
    <3>. QED  BY <3>4, <3>5, <3>2, <2>1, <1>2, JoinedHands
  <2>. QED  BY <2>1, <2>2, <2>3, <2>4, <1>3, <1>6, <1>7 DEF Directed
<1>13. ASSUME NEW x \in e.bal
       PROVE  x.closed /\ (\/ x.tag = Upstream
                           \/ \E s \in Slots : SlotTarget(e, d, s) = Country(s) /\ x = CountryBal(e, d, s)
                           \/ x = DirectorBal(e, d) /\ Directed(e, d, g[l]))
  BY <1>1, <1>3, <1>7, <1>12
<1>. QED  BY <1>1, <1>3, <1>5, <1>7, <1>8, <1>10, <1>11, <1>13 DEF Settled

(* Joining neighbours keeps the kind of the file and what it says.         *)
LEMMA CompactShapes ==
  ASSUME NEW b \in Database, NEW d \in Database, NEW c, NEW l, Shape(c, b, d, l)
  PROVE  \E k : Shape(Compact(c), b, d, k) /\ Carries(c.rules, l, Compact(c).rules, k)
<1>1. /\ Furnished(c, b) /\ c \in Files /\ c.rules \in Seq(Good(b))
      /\ (Real(b) # {} => l = Len(c.rules)) /\ \E to : CatchAllAt(c.rules, l, to)
  BY ShapeBuilt DEF Built, Furnished
<1>3. PICK t \in Seq(RuleType) : \E g : Compact(c) = [c EXCEPT !.rules = t] /\ Joined(t, c.rules, Len(c.rules), g)
  BY <1>1, CompactJoins
<1>4. PICK g : Compact(c) = [c EXCEPT !.rules = t] /\ Joined(t, c.rules, Len(c.rules), g)
  BY <1>3
<1>5. t \in Seq(Good(b))
  BY <1>1, <1>4, JoinedGood
<1>6. Compact(c).rules = t
  BY <1>1, <1>4, FurnishedRules
<1>7. Carries(c.rules, l, t, g[l])
  <2>1. PICK to : CatchAllAt(c.rules, l, to)
    BY <1>1
  <2>. QED  BY <1>1, <1>4, <1>5, <2>1, JoinedHands DEF Carries
<1>8. CASE Settled(c, b, d, l)
  BY <1>4, <1>5, <1>8, JoinedSettled, <1>6, <1>7 DEF Shape
<1>9. CASE PlainAt(c, b, l, {})
  <2>1. c.rules \in Seq(PlainRules(b)) /\ CatchAllAt(c.rules, l, Final(b))
    BY <1>9 DEF PlainAt
  <2>2. t \in Seq(PlainRules(b))
    <3>1. ASSUME NEW i \in 1 .. Len(t) PROVE t[i] \in PlainRules(b)
      <4>1. PICK h \in 1 .. Len(c.rules) : g[h] = i
        BY <1>4, JoinedIs
      <4>2. t[i].from = c.rules[h].from
        BY <1>4, <4>1, JoinedIs
      <4>. QED  BY <4>2, <1>5, <2>1 DEF PlainRules
    <3>. QED  BY <3>1
  <2>3. CatchAllAt(t, g[l], Final(b)) /\ (l = Len(c.rules) => g[l] = Len(t))
    BY <1>4, <2>1, CatchAllJoined, <1>1, PlainTyped, SeqWider
  <2>4. PlainAt([c EXCEPT !.rules = t], b, g[l], {})
    BY <1>1, <1>9, <2>2, <2>3, PlainRewritten
  <2>. QED  BY <1>4, <1>6, <1>7, <2>4 DEF Shape
<1>. QED  BY <1>8, <1>9 DEF Shape

(* What a file that was built from b says of Russian destinations and of   *)
(* the owner's.                                                            *)
Carried(s, l, b) ==
  /\ GovFirst(s)
  /\ Real(b) # {} => Has(s, l, "ru", Direct) /\ Has(s, l, "geoip", Direct)
  /\ b.own # "none" => Has(s, l, "own", OwnTo(b))

(* What was carried is carried on.                                         *)
LEMMA CarriedOn ==
  ASSUME NEW b \in Database, NEW s, NEW l, NEW t, NEW k, Carried(s, l, b), Carries(s, l, t, k)
  PROVE  Carried(t, k, b)
<1>1. Direct # Director /\ OwnTo(b) # Director
  BY FinalPlace DEF OwnTo, Direct, Director, Block
<1>. QED  BY <1>1 DEF Carried, Carries

(* The rules that every layer but the first leaves there.                  *)
Solid(b) == OwnRules(b) \cup IF Real(b) = {} THEN {} ELSE RuSet

(* No later layer drops these rules.                                       *)
LEMMA SolidLasts ==
  ASSUME NEW b \in Database
  PROVE  Lasting(Solid(b)) /\ Lasting(OwnRules(b))
<1>2. \A r \in Solid(b) : r.match \in {{"own"}, {"ru"}, {"geoip"}}
  <2>. TAKE r \in Solid(b)
  <2>. QED  BY DEF Rule, Solid, OwnRules, RuSet
<1>3. \A r \in Solid(b) : ~IsOldDns(r) /\ ~IsGov(r) /\ ~IsDns(r)
  <2>. TAKE r \in Solid(b)
  <2>. QED  BY <1>2 DEF IsOldDns, IsGov, IsDns
<1>. QED  BY <1>3 DEF Lasting, Solid

(* The file that all layers have rewritten carries what it is to say.      *)
LEMMA SolidCarried ==
  ASSUME NEW b \in Database, NEW c, NEW l, PlainAt(c, b, l, Solid(b)),
         c.rules # <<>>, c.rules[1] = GovRule
  PROVE  Built(c, b, l) /\ Carried(c.rules, l, b)
<1>1. /\ Solid(b) \subseteq Ahead(c.rules, l) /\ l \in 1 .. Len(c.rules) /\ Len(c.rules) \in Nat
  BY DEF PlainAt, CatchAllAt, Furnished, Files
<1>2. \A w, to : Rule({}, {w}, to) \in Ahead(c.rules, l) => Has(c.rules, l, w, to)
  <2>. TAKE w, to
  <2>. QED  BY DEF Ahead, Has, Rule
<1>3. GovFirst(c.rules)
  BY <1>1 DEF GovRule, Blocks, Rule, GovFirst
<1>4. Real(b) # {} => Has(c.rules, l, "ru", Direct) /\ Has(c.rules, l, "geoip", Direct)
  BY <1>1, <1>2 DEF Solid, RuSet
<1>5. b.own # "none" => Has(c.rules, l, "own", OwnTo(b))
  BY <1>1, <1>2 DEF Solid, OwnRules
<1>. QED  BY <1>3, <1>4, <1>5, PlainBuilt DEF Carried

(* So does the file of the whole pipeline.                                 *)
LEMMA PipelineCarried ==
  ASSUME NEW d \in Database, NEW had \in BOOLEAN
  PROVE  \E l : Built(Pipeline(d, had), d, l) /\ Carried(Pipeline(d, had).rules, l, d)
<1>1. PICK l1 : PlainAt(Render(d), d, l1, OwnRules(d))
  BY RenderPlain
<1>2. PICK l2 : PlainAt(BaseRu(Render(d)), d, l2, Solid(d))
  BY <1>1, BaseRuPlain DEF Solid
<1>4. PICK l3 : PlainAt(SplitDns(Preserve(BaseRu(Render(d)), had)), d, l3, Solid(d))
  BY SplitDnsPlain, SolidLasts, <1>2, PreservePlain
<1>5. PICK l4 : PlainAt(GovBlock(SplitDns(Preserve(BaseRu(Render(d)), had))), d, l4, Solid(d))
  BY <1>4, GovBlockPlain, SolidLasts
<1>. QED  BY SolidCarried, <1>5, OverridePlain, SolidLasts DEF Pipeline

-----------------------------------------------------------------------------
(* The invariant.                                                          *)
Pcs   == {"idle", "base", "to-de", "dns", "gov", "ui", "countries"}
(* What the history of the live file may be.                               *)
Mades == [built : Database, plan : Database, whole : BOOLEAN]

(* The live file c is what the layers make of what it was made from.       *)
LiveRight(c, m) ==
  /\ Sound(c)
  /\ \E l : Shape(c, m.built, m.plan, l) /\ (m.whole => Carried(c.rules, l, m.built))

(* The rules that the layers so far have left in their place.              *)
Standing(pc, b) == IF pc = "base" THEN OwnRules(b) ELSE Solid(b)

(* The file of the apply r that is on its way is plain; in the classic     *)
(* mode it is the live one, which is not whole yet.                        *)
RunRight(r, m) ==
  r.pc # "idle" =>
    /\ r \in [pc : Pcs, cfg : Files, had : BOOLEAN, classic : BOOLEAN, built : Database]
    /\ \E l : PlainAt(r.cfg, r.built, l, Standing(r.pc, r.built))
    /\ r.pc = "countries" => r.cfg.rules # <<>> /\ r.cfg.rules[1] = GovRule
    /\ r.classic => m.built = r.built /\ ~m.whole

(* The inductive invariant.                                                *)
Inv == db \in Database /\ made \in Mades /\ LiveRight(live, made) /\ RunRight(run, made)

(* A plain file may be live while an apply is on its way.                  *)
LEMMA PlainLive ==
  ASSUME NEW m \in Mades, NEW c, NEW l, NEW S, PlainAt(c, m.built, l, S), ~m.whole
  PROVE  LiveRight(c, m)
BY PlainSound, PlainSame DEF LiveRight, Shape, Mades

(* A layer that leaves a plain file keeps the apply right.                 *)
LEMMA LayerKeeps ==
  ASSUME NEW m \in Mades, NEW r, RunRight(r, m), r.pc # "idle", NEW next \in Pcs \ {"idle"},
         NEW c, NEW l, PlainAt(c, r.built, l, Standing(next, r.built)),
         next = "countries" => c.rules # <<>> /\ c.rules[1] = GovRule
  PROVE  RunRight([r EXCEPT !.pc = next, !.cfg = c], m) /\ (r.classic => LiveRight(c, m))
<1>1. /\ r \in [pc : Pcs, cfg : Files, had : BOOLEAN, classic : BOOLEAN, built : Database]
      /\ r.classic => m.built = r.built /\ ~m.whole
  BY DEF RunRight
<1>. DEFINE q == [r EXCEPT !.pc = next, !.cfg = c]
<1>3. /\ q \in [pc : Pcs, cfg : Files, had : BOOLEAN, classic : BOOLEAN, built : Database]
      /\ q.pc = next /\ q.cfg = c /\ q.built = r.built
  BY <1>1 DEF PlainAt, Furnished
<1>4. q.classic => r.classic
  BY Zenon, <1>1
<1>. HIDE DEF q
<1>. QED  BY <1>1, <1>3, <1>4, PlainLive DEF q, RunRight

(* What is known of an apply that is on its way.                           *)
LEMMA RunFacts ==
  ASSUME NEW m \in Mades, NEW r, RunRight(r, m), r.pc # "idle"
  PROVE  /\ r.built \in Database /\ r.had \in BOOLEAN
         /\ \E l : PlainAt(r.cfg, r.built, l, Standing(r.pc, r.built))
BY DEF RunRight

(* Each layer, on the file that is on its way.                             *)
LEMMA LayersKeep ==
  ASSUME NEW m \in Mades, NEW r, RunRight(r, m)
  PROVE  /\ r.pc = "base" => RunRight([r EXCEPT !.pc = "to-de", !.cfg = BaseRu(r.cfg)], m)
                             /\ (r.classic => LiveRight(BaseRu(r.cfg), m))
         /\ r.pc = "to-de" => RunRight([r EXCEPT !.pc = "dns", !.cfg = Preserve(r.cfg, r.had)], m)
                             /\ (r.classic => LiveRight(Preserve(r.cfg, r.had), m))
         /\ r.pc = "dns" => RunRight([r EXCEPT !.pc = "gov", !.cfg = SplitDns(r.cfg)], m)
                             /\ (r.classic => LiveRight(SplitDns(r.cfg), m))
         /\ r.pc = "gov" => RunRight([r EXCEPT !.pc = "ui", !.cfg = GovBlock(r.cfg)], m)
                             /\ (r.classic => LiveRight(GovBlock(r.cfg), m))
         /\ r.pc = "ui" => RunRight([r EXCEPT !.pc = "countries", !.cfg = Override(r.cfg)], m)
                             /\ (r.classic => LiveRight(Override(r.cfg), m))
<1>1. ASSUME r.pc = "base"
      PROVE  RunRight([r EXCEPT !.pc = "to-de", !.cfg = BaseRu(r.cfg)], m) /\ (r.classic => LiveRight(BaseRu(r.cfg), m))
  <2>1. PICK l : PlainAt(r.cfg, r.built, l, OwnRules(r.built)) /\ r.built \in Database
    BY <1>1, RunFacts DEF Standing
  <2>2. PICK k : PlainAt(BaseRu(r.cfg), r.built, k, Solid(r.built))
    BY <2>1, BaseRuPlain DEF Solid
  <2>3. PlainAt(BaseRu(r.cfg), r.built, k, Standing("to-de", r.built))
    BY <2>2 DEF Standing
  <2>. QED  BY <1>1, <2>3, LayerKeeps DEF Pcs
<1>. DEFINE b == r.built
<1>2. ASSUME r.pc \in {"to-de", "dns", "gov", "ui"}
      PROVE  b \in Database /\ r.had \in BOOLEAN /\ \E l : PlainAt(r.cfg, b, l, Solid(b))
  BY <1>2, RunFacts DEF Standing
<1>3. ASSUME r.pc = "to-de"
      PROVE  RunRight([r EXCEPT !.pc = "dns", !.cfg = Preserve(r.cfg, r.had)], m) /\ (r.classic => LiveRight(Preserve(r.cfg, r.had), m))
  <2>1. PICK l : PlainAt(Preserve(r.cfg, r.had), b, l, Solid(b))
    BY <1>2, <1>3, PreservePlain
  <2>. QED  BY <1>3, LayerKeeps, <2>1 DEF Pcs, Standing
<1>4. ASSUME r.pc = "dns"
      PROVE  RunRight([r EXCEPT !.pc = "gov", !.cfg = SplitDns(r.cfg)], m) /\ (r.classic => LiveRight(SplitDns(r.cfg), m))
  <2>1. PICK l : PlainAt(SplitDns(r.cfg), b, l, Solid(b))
    BY <1>2, <1>4, SplitDnsPlain, SolidLasts
  <2>. QED  BY <1>4, LayerKeeps, <2>1 DEF Pcs, Standing
<1>5. ASSUME r.pc = "gov"
      PROVE  RunRight([r EXCEPT !.pc = "ui", !.cfg = GovBlock(r.cfg)], m) /\ (r.classic => LiveRight(GovBlock(r.cfg), m))
  <2>1. PICK l : PlainAt(GovBlock(r.cfg), b, l, Solid(b))
    BY <1>2, <1>5, GovBlockPlain, SolidLasts
  <2>. QED  BY <1>5, LayerKeeps, <2>1 DEF Pcs, Standing
<1>6. ASSUME r.pc = "ui"
      PROVE  RunRight([r EXCEPT !.pc = "countries", !.cfg = Override(r.cfg)], m) /\ (r.classic => LiveRight(Override(r.cfg), m))
  <2>1. PICK l : PlainAt(Override(r.cfg), b, l, Solid(b))
    BY <1>2, <1>6, OverridePlain, SolidLasts
  <2>2. PlainAt(Override(r.cfg), b, l, Standing("countries", b)) /\ Override(r.cfg).rules # <<>> /\ Override(r.cfg).rules[1] = GovRule
    BY <2>1, <1>2, <1>6, OverridePlain, SolidLasts DEF Standing
  <2>. QED  BY <1>6, <2>2, LayerKeeps DEF Pcs
<1>. QED  BY <1>1, <1>3, <1>4, <1>5, <1>6

(* The layer of the countries, on any file of before, and the joining.     *)
LEMMA Renewed ==
  ASSUME NEW b \in Database, NEW d \in Database, NEW c, NEW l, Built(c, b, l),
         NEW m \in Mades, m.built = b, m.plan = d, m.whole => Carried(c.rules, l, b),
         Sound(Transform(c, d))
  PROVE  LiveRight(Transform(c, d), m) /\ LiveRight(Compact(Transform(c, d)), m)
<1>. DEFINE g == Transform(c, d)
<1>1. PICK k : Shape(g, b, d, k) /\ Carries(c.rules, l, g.rules, k)
  BY TransformShapes
<1>. HIDE DEF g
<1>2. m.whole => Carried(g.rules, k, b)
  BY <1>1, CarriedOn
<1>3. PICK j : Shape(Compact(g), b, d, j) /\ Carries(g.rules, k, Compact(g).rules, j)
  BY <1>1, CompactShapes
<1>5. Sound(Compact(g))
  <2>1. g \in Files
    BY <1>1, ShapeBuilt DEF Built, Furnished
  <2>2. PICK t \in Seq(RuleType) : \E h : Compact(g) = [g EXCEPT !.rules = t] /\ Joined(t, g.rules, Len(g.rules), h)
    BY <2>1, CompactJoins
  <2>. QED  BY <2>1, <2>2, SoundWhenJoined DEF g
<1>7. LiveRight(Compact(g), m)
  BY <1>3, <1>5, <1>2, CarriedOn DEF LiveRight
<1>. QED  BY <1>7, <1>1, <1>2 DEF g, LiveRight

(* The invariant holds in the first state.                                 *)
LEMMA InitRight == Init => Inv
<1>. SUFFICES ASSUME Init PROVE Inv
  OBVIOUS
<1>1. PICK had \in BOOLEAN : live = Compact(Transform(Pipeline(db, had), db))
  BY DEF Init
<1>2. db \in Database /\ made \in Mades /\ made.built = db /\ made.plan = db /\ Sound(live) /\ run = NoRun
  BY RouterConfigAssumption DEF Init, Mades
<1>3. PICK l : Built(Pipeline(db, had), db, l) /\ Carried(Pipeline(db, had).rules, l, db)
  BY <1>2, PipelineCarried
<1>. DEFINE g == Transform(Pipeline(db, had), db)
<1>4. PICK k : Shape(g, db, db, k) /\ Carries(Pipeline(db, had).rules, l, g.rules, k)
  BY <1>2, <1>3, TransformShapes
<1>. HIDE DEF g
<1>6. PICK j : Shape(Compact(g), db, db, j) /\ Carries(g.rules, k, Compact(g).rules, j)
  BY <1>2, <1>4, CompactShapes
<1>7. Carried(Compact(g).rules, j, db)
  BY <1>2, <1>6, CarriedOn, <1>3, <1>4
<1>8. LiveRight(live, made)
  BY <1>1, <1>2, <1>6, <1>7 DEF LiveRight, g
<1>. QED  BY <1>2, <1>8 DEF Inv, RunRight, NoRun

(* An edit leaves a database.                                              *)
LEMMA EditTyped ==
  ASSUME db \in Database, Edit
  PROVE  db' \in Database
<1>2. ASSUME NEW n \in Nodes, NEW k \in Kinds, db' = [db EXCEPT !.node[n] = k] PROVE db' \in Database
  BY <1>2 DEF Database
<1>3. ASSUME NEW n \in Nodes, NEW s \in Slots \cup {0}, db' = [db EXCEPT !.home[n] = s] PROVE db' \in Database
  BY <1>3 DEF Database
<1>4. ASSUME NEW s \in Slots, db' = [db EXCEPT !.on = IF s \in @ THEN @ \ {s} ELSE @ \cup {s}] PROVE db' \in Database
  BY <1>4 DEF Database
<1>5. ASSUME NEW p \in Policies, db' = [db EXCEPT !.own = p] PROVE db' \in Database
  BY <1>5 DEF Database
<1>6. ASSUME db' = [db EXCEPT !.multi = ~@] PROVE db' \in Database
  BY <1>6 DEF Database
<1>7. ASSUME db' = [db EXCEPT !.director = ~@] PROVE db' \in Database
  BY <1>7 DEF Database
<1>8. ASSUME db' = [db EXCEPT !.geoip = ~@] PROVE db' \in Database
  BY <1>8 DEF Database
<1>. QED  BY <1>2, <1>3, <1>4, <1>5, <1>6, <1>7, <1>8 DEF Edit

(* An apply begins right.                                                  *)
LEMMA Begins ==
  ASSUME NEW d \in Database, NEW m \in Mades, NEW classic \in BOOLEAN, NEW had \in BOOLEAN,
         NEW n, n = IF classic THEN [m EXCEPT !.built = d, !.whole = FALSE] ELSE m
  PROVE  /\ n \in Mades
         /\ RunRight([pc |-> "base", cfg |-> Render(d), had |-> had, classic |-> classic, built |-> d], n)
         /\ classic => LiveRight(Render(d), n)
<1>1. n \in Mades /\ (classic => n.built = d /\ ~n.whole)
  BY DEF Mades
<1>2. PICK l : PlainAt(Render(d), d, l, OwnRules(d))
  BY RenderPlain
<1>. DEFINE r == [pc |-> "base", cfg |-> Render(d), had |-> had, classic |-> classic, built |-> d]
<1>4. /\ r \in [pc : Pcs, cfg : Files, had : BOOLEAN, classic : BOOLEAN, built : Database]
      /\ r.pc = "base" /\ r.cfg = Render(d) /\ r.built = d
  BY <1>2 DEF Pcs, PlainAt, Furnished
<1>5. r.classic => classic
  BY Zenon
<1>. HIDE DEF r
<1>6. RunRight(r, n)
  BY <1>1, <1>2, <1>4, <1>5 DEF RunRight, Standing
<1>. QED  BY <1>1, <1>6, <1>2, PlainLive DEF r

(* Every step keeps the invariant.                                         *)
LEMMA NextKeeps == Inv /\ [Next]_vars => Inv'
<1>. SUFFICES ASSUME Inv, [Next]_vars PROVE Inv'
  OBVIOUS
<1>1. db \in Database /\ made \in Mades /\ LiveRight(live, made) /\ RunRight(run, made)
  BY DEF Inv
<1>2. CASE Edit
  BY <1>1, <1>2, EditTyped DEF Edit, Inv
<1>3. ASSUME NEW classic \in BOOLEAN, Begin(classic) PROVE Inv'
  <2>. DEFINE had == ToDe \in RealTags(live)
  <2>1. had \in BOOLEAN /\ db' = db
    BY <1>3 DEF Begin
  <2>2. /\ run' = [pc |-> "base", cfg |-> Render(db), had |-> had, classic |-> classic, built |-> db]
        /\ live' = IF classic THEN Render(db) ELSE live
        /\ made' = IF classic THEN [made EXCEPT !.built = db, !.whole = FALSE] ELSE made
    BY <1>3 DEF Begin, Writes
  <2>. HIDE DEF had
  <2>. QED  BY <1>1, <2>1, <2>2, Begins DEF Inv
<1>4. ASSUME NEW at, NEW next, NEW c,
             run' = [run EXCEPT !.pc = next, !.cfg = c], Writes(run.classic, c), UNCHANGED <<db, made, edits>>,
             RunRight([run EXCEPT !.pc = next, !.cfg = c], made) /\ (run.classic => LiveRight(c, made))
      PROVE  Inv'
  BY <1>1, <1>4 DEF Writes, Inv
<1>5. CASE BaseRuLayer
  BY <1>1, <1>4, <1>5, LayersKeep DEF BaseRuLayer, Layer
<1>6. CASE PreserveLayer
  BY <1>1, <1>4, <1>6, LayersKeep DEF PreserveLayer, Layer
<1>7. CASE SplitDnsLayer
  BY <1>1, <1>4, <1>7, LayersKeep DEF SplitDnsLayer, Layer
<1>8. CASE GovBlockLayer
  BY <1>1, <1>4, <1>8, LayersKeep DEF GovBlockLayer, Layer
<1>9. CASE OverrideLayer
  BY <1>1, <1>4, <1>9, LayersKeep DEF OverrideLayer, Layer
<1>10. CASE Finish
  <2>1. /\ run.pc = "countries" /\ Sound(Transform(run.cfg, db))
        /\ live' = IF run.classic THEN Transform(run.cfg, db) ELSE Compact(Transform(run.cfg, db))
        /\ made' = [built |-> run.built, plan |-> db, whole |-> TRUE] /\ run' = NoRun /\ db' = db
    BY <1>10 DEF Finish
  <2>2. PICK l : PlainAt(run.cfg, run.built, l, Solid(run.built))
    BY <1>1, <2>1 DEF RunRight, Standing
  <2>3. run.built \in Database /\ run.cfg.rules # <<>> /\ run.cfg.rules[1] = GovRule
    BY <1>1, <2>1 DEF RunRight
  <2>4. Built(run.cfg, run.built, l) /\ Carried(run.cfg.rules, l, run.built)
    BY <2>2, <2>3, SolidCarried
  <2>5. made' \in Mades /\ made'.built = run.built /\ made'.plan = db
    BY <1>1, <2>1, <2>3 DEF Mades
  <2>6. LiveRight(live', made')
    BY <1>1, <2>1, <2>3, <2>4, <2>5, Renewed
  <2>7. RunRight(run', made')
    BY <2>1 DEF RunRight, NoRun
  <2>. QED  BY <1>1, <2>1, <2>5, <2>6, <2>7 DEF Inv
<1>11. CASE Fails
  BY <1>11, <1>1 DEF Fails, RunRight, NoRun, Inv
<1>12. CASE ApplyCountries
  <2>1. /\ run.pc = "idle" /\ Sound(Transform(live, db)) /\ live' = Transform(live, db)
        /\ made' = [made EXCEPT !.plan = db] /\ db' = db /\ run' = run
    BY <1>12 DEF ApplyCountries
  <2>2. PICK l : Shape(live, made.built, made.plan, l) /\ (made.whole => Carried(live.rules, l, made.built))
    BY <1>1 DEF LiveRight
  <2>3. made.built \in Database /\ made' \in Mades /\ made'.built = made.built /\ made'.plan = db /\ made'.whole = made.whole
    BY <1>1, <2>1 DEF Mades
  <2>5. LiveRight(live', made')
    BY <1>1, <2>1, <2>2, <2>3, Renewed, ShapeBuilt
  <2>. QED  BY <1>1, <2>1, <2>3, <2>5 DEF Inv, RunRight
<1>13. CASE UNCHANGED vars
  BY <1>1, <1>13 DEF Inv, vars
<1>. QED  BY <1>2, <1>3, <1>5, <1>6, <1>7, <1>8, <1>9, <1>10, <1>11, <1>12, <1>13 DEF Next

(* What the invariant says of the layer of the countries.                  *)
LEMMA RightIsSound ==
  ASSUME Inv
  PROVE  SoundOrClash
<1>1. db \in Database /\ made \in Mades /\ LiveRight(live, made) /\ RunRight(run, made)
  BY DEF Inv
<1>2. made.built \in Database
  BY <1>1 DEF Mades
<1>3. Sound(live) /\ \E l : Shape(live, made.built, made.plan, l)
  BY <1>1 DEF LiveRight
<1>4. Sound(Transform(live, db)) \/ Clash(live, db) \/ Real(made.built) = {}
  <2>1. PICK l : Built(live, made.built, l)
    BY <1>2, <1>3, ShapeBuilt
  <2>. QED  BY <1>1, <1>2, <2>1, TransformSound
<1>5. ASSUME run.pc = "countries"
      PROVE  Sound(Transform(run.cfg, db)) \/ Clash(run.cfg, db) \/ Real(run.built) = {}
  <2>1. run.built \in Database /\ \E l : PlainAt(run.cfg, run.built, l, Standing(run.pc, run.built))
    BY <1>1, <1>5, RunFacts
  <2>2. PICK l : Built(run.cfg, run.built, l)
    BY <2>1, PlainBuilt
  <2>. QED  BY <1>1, <2>1, <2>2, TransformSound
<1>. QED  BY <1>3, <1>4, <1>5 DEF SoundOrClash

(* In every reachable state the live file is a settled or a plain one of   *)
(* the database it was made from and passes the layer's checks, and the    *)
(* file of an apply that is on its way is a plain one that carries what    *)
(* the layers so far have written.                                         *)
THEOREM ConfigInvariant == Spec => []Inv
<1>1. Init => Inv
  BY InitRight
<1>2. Inv /\ [Next]_vars => Inv'
  BY NextKeeps
<1>. QED  BY <1>1, <1>2, PTL DEF Spec

(* The live file always passes the layer's own checks, and they refuse a   *)
(* new one only where a tag is the beginning of another or where there was *)
(* no real node to build with.                                             *)
THEOREM ConfigSoundOrClash == Spec => []SoundOrClash
<1>1. Inv => SoundOrClash
  BY RightIsSound
<1>. QED  BY <1>1, ConfigInvariant, PTL

-----------------------------------------------------------------------------
(* Where traffic goes.                                                     *)

(* The rule r is for dest at the entrance from; the first of s that is.    *)
Fits(r, from, dest) ==
  (r.from = {} \/ from \in r.from) /\ (r.match = {} \/ r.match \cap dest # {})

FirstFit(s, i, from, dest) ==
  /\ i \in 1 .. Len(s) /\ Fits(s[i], from, dest)
  /\ \A h \in 1 .. i - 1 : ~Fits(s[h], from, dest)

(* Where a rule fits, the first that fits decides.                         *)
LEMMA ChosenIs ==
  ASSUME NEW c, Len(c.rules) \in Nat, NEW from, NEW dest,
         NEW j \in 1 .. Len(c.rules), Fits(c.rules[j], from, dest)
  PROVE  \E i \in 1 .. j : FirstFit(c.rules, i, from, dest) /\ Chosen(c, from, dest) = c.rules[i].to
<1>. DEFINE I == {i \in 1 .. Len(c.rules) : Fits(c.rules[i], from, dest)}
<1>1. Chosen(c, from, dest) = LET i == IF I # {} THEN Min(I) ELSE 0
                              IN  IF i = 0 THEN c.outs[1].tag ELSE c.rules[i].to
  BY DEF Chosen, SelectInSeq, Fits
<1>2. j \in I /\ I \subseteq 1 .. Len(c.rules)
  OBVIOUS
<1>3. PICK i \in I : \A y \in I : i <= y
  <2>. HIDE DEF I
  <2>. QED  BY <1>2, FirstAndLast
<1>4. \A x \in I : (\A y \in I : x <= y) => x = i
  BY <1>2, <1>3
<1>5. Min(I) = i
  <2>. HIDE DEF I
  <2>. QED  BY <1>3, <1>4 DEF Min
<1>6. Chosen(c, from, dest) = c.rules[i].to
  <2>. HIDE DEF I
  <2>. QED  BY <1>1, <1>5, <1>2, <1>3
<1>8. ASSUME NEW h \in 1 .. i - 1 PROVE ~Fits(c.rules[h], from, dest)
  BY <1>2, <1>3
<1>. QED  BY <1>3, <1>6, <1>8, <1>2 DEF FirstFit

(* One of the first l rules decides.                                       *)
Decided(c, l, from, dest) ==
  \E i \in 1 .. l : FirstFit(c.rules, i, from, dest) /\ Chosen(c, from, dest) = c.rules[i].to

(* Whatever has a rule for everything has a choice.                        *)
LEMMA SomeChosen ==
  ASSUME NEW c, Len(c.rules) \in Nat, NEW l, NEW to, CatchAllAt(c.rules, l, to), NEW from, NEW dest
  PROVE  Decided(c, l, from, dest)
<1>1. l \in 1 .. Len(c.rules) /\ Fits(c.rules[l], from, dest)
  BY DEF CatchAllAt, Fits, Rule
<1>. QED  BY <1>1, ChosenIs DEF Decided

(* Direct and block lead where they say.                                   *)
LEMMA PlainExits ==
  ASSUME NEW b, NEW c, Furnished(c, b), NEW up
  PROVE  Exits(c, up, Direct) = {Direct} /\ Exits(c, up, Block) = {Block}
<1>1. Out(Direct, TRUE) \in ToSet(c.outs) /\ Out(Block, FALSE) \in ToSet(c.outs) /\ c.outs \in Seq(OutType)
  BY DEF Furnished, Files
<1>2. Direct \in Tags(c) /\ Block \in Tags(c)
  BY <1>1, OutTag DEF Tags
<1>. QED  BY <1>2, <1>1, RealTagged DEF Exits, Leaving

(* Serving, of any file and any plan.                                      *)
ServingOf(c, d, s, up) ==
  LET held == Usable(c, d, s) IN
  IF s \notin d.on \/ held = {} THEN {Block}
  ELSE IF Cardinality(held) = 1 THEN {Node(n) : n \in held}
  ELSE IF held \cap up = {} THEN {Block} ELSE {Node(n) : n \in held \cap up}

(* What a country's target leads to are the country's own nodes.           *)
LEMMA SettledServes ==
  ASSUME NEW b \in Database, NEW d \in Database, NEW c, NEW k, Settled(c, b, d, k),
         MembersAreMeant(c), NEW s \in Slots, NEW up
  PROVE  Exits(c, up, SlotTarget(c, d, s)) = ServingOf(c, d, s, up)
<1>. DEFINE u == Usable(c, d, s)
<1>1. /\ Furnished(c, b) /\ c.outs \in Seq(OutType) /\ Balanced(c, d)
      /\ \A x \in c.bal : x.closed /\
           \/ x.tag = Upstream
           \/ \E y \in Slots : SlotTarget(c, d, y) = Country(y) /\ x = CountryBal(c, d, y)
           \/ x = DirectorBal(c, d)
  BY DEF Settled, Built, Furnished, Files
<1>2. /\ u \subseteq Nodes
      /\ s \notin d.on \/ u = {} => SlotTarget(c, d, s) = Block
      /\ s \in d.on /\ u # {} =>
           \/ /\ SlotTarget(c, d, s) = Country(s) /\ Cardinality(u) # 1
           \/ /\ Cardinality(u) = 1 /\ \E n \in u : u = {n} /\ SlotTarget(c, d, s) = Node(n)
  BY SlotTargetIs
<1>3. \A n \in u : Node(n) \in RealTags(c) /\ Node(n) \in Tags(c)
  BY DEF Usable, RealTags, Tags
<1>4. CASE s \notin d.on \/ u = {}
  BY <1>1, <1>2, <1>4, PlainExits DEF ServingOf
<1>5. ASSUME NEW n \in u, s \in d.on, Cardinality(u) = 1, u = {n}, SlotTarget(c, d, s) = Node(n)
      PROVE  Exits(c, up, SlotTarget(c, d, s)) = ServingOf(c, d, s, up)
  <2>3. {Node(m) : m \in {n}} = {Node(n)}
    OBVIOUS
  <2>4. {Node(m) : m \in u} = {Node(n)}
    <3>. HIDE DEF u
    <3>. QED  BY <1>5, <2>3
  <2>. QED  BY <1>5, <2>4, <1>3 DEF Exits, Leaving, ServingOf
<1>6. ASSUME s \in d.on, u # {}, SlotTarget(c, d, s) = Country(s), Cardinality(u) # 1
      PROVE  Exits(c, up, SlotTarget(c, d, s)) = ServingOf(c, d, s, up)
  <2>1. Country(s) \notin Tags(c)
    <3>1. \A o \in ToSet(c.outs) : o \in OutType
      BY <1>1 DEF ToSet
    <3>. QED  BY <3>1 DEF Tags, OutType, Country, Leads
  <2>2. CountryBal(c, d, s) \in c.bal /\ CountryBal(c, d, s).tag = Country(s)
        /\ CountryBal(c, d, s).members = {Node(n) : n \in u}
    BY <1>1, <1>6 DEF CountryBal, Balanced
  <2>4. \A x \in c.bal : x.tag = Country(s) => x = CountryBal(c, d, s)
    <3>. TAKE x \in c.bal
    <3>. HAVE x.tag = Country(s)
    <3>3. PICK y \in Slots : x = CountryBal(c, d, y)
      BY <1>1 DEF Country, Upstream, DirectorBal, Director
    <3>. QED  BY <3>3 DEF CountryBal, Country
  <2>. DEFINE e == CHOOSE x \in c.bal : x.tag = Country(s)
  <2>5. e = CountryBal(c, d, s)
    BY <2>2, <2>4
  <2>. DEFINE good == {t \in RealTags(c) : Covers(e.members, t) /\ Covers(c.seen, t) /\ t[2] \in up}
  <2>6. Exits(c, up, Country(s)) = IF good # {} THEN good ELSE IF e.closed THEN {Block} ELSE Leaving(c, c.outs[1].tag)
    BY <2>1, <2>2 DEF Exits
  <2>. HIDE DEF e, u
  <2>7. /\ {t \in Tags(c) : Covers(e.members, t)} = e.members
        /\ \A t \in e.members : Covers(c.seen, t)
    BY <2>2, <2>5 DEF Country, MembersAreMeant
  <2>8. e.members = {Node(n) : n \in u} /\ e.members \subseteq RealTags(c) /\ RealTags(c) \subseteq Tags(c)
    BY <2>2, <2>5, <1>3 DEF RealTags, Tags
  <2>10. good = {Node(n) : n \in u \cap up}
    BY <2>8, <2>7 DEF Node
  <2>. HIDE DEF good
  <2>13. e.closed
    BY <2>5, <1>1, <2>2
  <2>. QED  BY <1>6, <2>6, <2>10, <2>13 DEF ServingOf, u
<1>. QED  BY <1>2, <1>4, <1>5, <1>6

(* Entrances of people.                                                    *)
Asks(from) == from = In(0) \/ \E s \in Slots : from = In(s)

(* Who a good rule is for: all, one of the insiders or one country.        *)
LEMMA FromIs ==
  ASSUME NEW b, NEW r \in Good(b)
  PROVE  /\ \A x : In(x) \in r.from => x \in Slots /\ r.from = {In(x)}
         /\ r.from \in Insiders => \A x : In(x) \notin r.from
         /\ IsCatchAll(r) <=> r.from = {} /\ r.match = {}
         /\ r.from = {} \/ r.from \in Insiders \/ \E s \in Slots : r.from = {In(s)}
<1>1. r.from \in Froms
  BY DEF Good
<1>4. r.from = {} \/ r.from \in Insiders \/ \E s \in Slots : r.from = {In(s)}
  BY <1>1 DEF Froms, Insiders
<1>. QED  BY <1>4, <1>1, SlotsApart DEF IsCatchAll, Froms, Insiders

(* What fits at the entrance of AUTO is for all.                           *)
LEMMA ZeroIsNobodys ==
  ASSUME NEW b, NEW r \in Good(b), NEW dest, Fits(r, In(0), dest)
  PROVE  r.from = {}
BY FromIs, Constants DEF Fits

(* The last rules of the countries come after what is for all.             *)
OursAfter(s, l) ==
  \A i \in 1 .. l - 1, j \in 1 .. Len(s) :
    s[i].from = {} /\ IsOurs(s[j]) /\ s[j].match = {} => i < j

(* What both kinds of file have in common.                                 *)
LEMMA ShapeFacts ==
  ASSUME NEW b \in Database, NEW d, NEW c, NEW l, Shape(c, b, d, l)
  PROVE  /\ Furnished(c, b) /\ c.rules \in Seq(Good(b)) /\ Len(c.rules) \in Nat
         /\ \A i \in 1 .. Len(c.rules) : c.rules[i] \in Good(b)
         /\ \E to : to # Direct /\ CatchAllAt(c.rules, l, to)
         /\ OursAfter(c.rules, l)
<1>2. /\ Furnished(c, b) /\ c.rules \in Seq(Good(b)) /\ Len(c.rules) \in Nat
      /\ CatchAllAt(c.rules, l, Final(b)) \/ CatchAllAt(c.rules, l, Director)
  BY ShapeBuilt DEF Built
<1>3. \A i \in 1 .. Len(c.rules) : c.rules[i] \in Good(b)
  BY <1>2
<1>4. Final(b) # Direct /\ Director # Direct
  BY FinalPlace DEF Director, Direct
<1>5. CASE Settled(c, b, d, l)
  BY <1>5, <1>2, <1>3, <1>4 DEF Settled, Led, OursAfter
<1>6. CASE PlainAt(c, b, l, {})
  BY <1>6, <1>2, <1>3, <1>4 DEF PlainAt, PlainRules, IsOurs, OursAfter
<1>. QED  BY <1>5, <1>6 DEF Shape

(* The i-th rule decides, for a word and not as the last one of all.       *)
Decides(c, b, l, i, from, dest) ==
  /\ i \in 1 .. l - 1 /\ FirstFit(c.rules, i, from, dest) /\ Chosen(c, from, dest) = c.rules[i].to
  /\ c.rules[i].match \cap dest # {} /\ c.rules[i] \in Good(b)
  /\ c.rules[i].from = {} \/ \E s \in Slots : from = In(s) /\ c.rules[i].from = {In(s)}

(* A word that has a rule for all is not left to the last rules.           *)
LEMMA WordFirst ==
  ASSUME NEW b \in Database, NEW d, NEW c, NEW l, Shape(c, b, d, l),
         NEW w, NEW to, Has(c.rules, l, w, to), NEW from, Asks(from), NEW dest, w \in dest
  PROVE  \E i : Decides(c, b, l, i, from, dest)
<1>1. /\ Len(c.rules) \in Nat /\ \A i \in 1 .. Len(c.rules) : c.rules[i] \in Good(b)
      /\ \E x : CatchAllAt(c.rules, l, x)
      /\ OursAfter(c.rules, l)
  BY ShapeFacts
<1>2. PICK f \in 1 .. l - 1 : c.rules[f].from = {} /\ w \in c.rules[f].match /\ c.rules[f].to = to
  BY DEF Has
<1>3. l \in 1 .. Len(c.rules) /\ \A i \in 1 .. Len(c.rules) : i # l => ~IsCatchAll(c.rules[i])
  BY <1>1 DEF CatchAllAt
<1>4. f \in 1 .. Len(c.rules) /\ Fits(c.rules[f], from, dest)
  BY <1>1, <1>2, <1>3 DEF Fits
<1>5. PICK i \in 1 .. f : FirstFit(c.rules, i, from, dest) /\ Chosen(c, from, dest) = c.rules[i].to
  BY <1>1, <1>4, ChosenIs
<1>6. i \in 1 .. l - 1 /\ i \in 1 .. Len(c.rules) /\ i # l /\ ~(f < i)
  BY <1>1, <1>3
<1>7. Fits(c.rules[i], from, dest) /\ c.rules[i] \in Good(b)
  BY <1>1, <1>5, <1>6 DEF FirstFit
<1>8. c.rules[i].from = {} \/ \E s \in Slots : from = In(s) /\ c.rules[i].from = {In(s)}
  <2>1. PICK x : from = In(x)
    BY DEF Asks
  <2>. QED  BY <1>7, <2>1, FromIs DEF Fits
<1>9. c.rules[i].match # {}
  <2>1. SUFFICES ASSUME c.rules[i].match = {} PROVE FALSE
    OBVIOUS
  <2>2. c.rules[i].from # {}
    BY <2>1, <1>3, <1>6, <1>7, FromIs
  <2>3. IsOurs(c.rules[i])
    BY <2>2, <1>8 DEF IsOurs
  <2>. QED  BY <2>1, <2>3, <1>1, <1>2, <1>6 DEF OursAfter
<1>10. c.rules[i].match \cap dest # {}
  BY <1>7, <1>9 DEF Fits
<1>. QED  BY <1>5, <1>6, <1>7, <1>8, <1>10 DEF Decides

(* From every entrance of people, Russian destinations are sent directly   *)
(* out.                                                                    *)
LEMMA RussianChosen ==
  ASSUME NEW b \in Database, NEW d, NEW c, NEW l, Shape(c, b, d, l), Carried(c.rules, l, b),
         Real(b) # {}, NEW from, Asks(from), NEW dest \in Ru
  PROVE  Chosen(c, from, dest) = Direct
<1>3. PICK i : Decides(c, b, l, i, from, dest)
  BY WordFirst DEF Carried, Ru
<1>. QED  BY <1>3 DEF Decides, Good, Ru, Russian

(* From every entrance of people, the blocked destinations are sent to the *)
(* block.                                                                  *)
LEMMA GovChosen ==
  ASSUME NEW b \in Database, NEW d, NEW c, NEW l, Shape(c, b, d, l), Carried(c.rules, l, b),
         NEW from, Asks(from)
  PROVE  Chosen(c, from, Gov) = Block
<1>1. Len(c.rules) \in Nat /\ \A i \in 1 .. Len(c.rules) : c.rules[i] \in Good(b)
  BY ShapeFacts
<1>2. PICK i \in 1 .. Len(c.rules) : Blocks(c.rules[i]) /\ \A j \in 1 .. i - 1 : c.rules[j].from \in Insiders
  BY DEF Carried, GovFirst
<1>3. Fits(c.rules[i], from, Gov) /\ c.rules[i].to = Block
  BY <1>2 DEF Blocks, Fits, Gov
<1>4. PICK j \in 1 .. i : FirstFit(c.rules, j, from, Gov) /\ Chosen(c, from, Gov) = c.rules[j].to
  BY <1>1, <1>3, ChosenIs
<1>5. j = i
  <2>1. SUFFICES ASSUME j \in 1 .. i - 1 PROVE FALSE
    OBVIOUS
  <2>2. c.rules[j].from \in Insiders /\ c.rules[j] \in Good(b) /\ Fits(c.rules[j], from, Gov)
    BY <1>1, <1>2, <1>4, <2>1 DEF FirstFit
  <2>3. PICK x : from = In(x)
    BY DEF Asks
  <2>. QED  BY <2>2, FromIs, <2>3 DEF Insiders, Fits
<1>. QED  BY <1>3, <1>4, <1>5

(* Russian destinations leave directly and the blocked ones not at all.    *)
LEMMA HomeReached ==
  ASSUME NEW b \in Database, NEW d, NEW c, NEW l, Shape(c, b, d, l), Carried(c.rules, l, b),
         NEW from, Asks(from), NEW up
  PROVE  /\ Real(b) # {} => \A dest \in Ru : Reached(c, up, from, dest) = {Direct}
         /\ Reached(c, up, from, Gov) = {Block}
<1>2. Direct # Director /\ Block # Director
  BY DEF Direct, Block, Director
<1>. QED  BY <1>2, RussianChosen, GovChosen, ShapeFacts, PlainExits DEF Reached

(* From the entrance of a country, what has no rule of its own for all     *)
(* goes to the country.                                                    *)
(* A rule for all takes w, and does not go abroad.                         *)
Homely(b, w, to) ==
  \E r \in Good(b) : r.from = {} /\ w \in r.match /\ ~Foreign(r.to) /\ to = r.to

LEMMA CountryChosen ==
  ASSUME NEW b \in Database, NEW d \in Database, NEW c, NEW k, Settled(c, b, d, k),
         NEW s \in Slots, NEW w, NEW dest, dest \subseteq {w}
  PROVE  \/ Chosen(c, In(s), dest) = SlotTarget(c, d, s)
         \/ Homely(b, w, Chosen(c, In(s), dest))
<1>1. /\ Len(c.rules) \in Nat /\ \A i \in 1 .. Len(c.rules) : c.rules[i] \in Good(b)
      /\ \E to : CatchAllAt(c.rules, k, to)
  BY ShapeFacts DEF Shape
<1>2. /\ \A i \in 1 .. Len(c.rules), x \in Slots : In(x) \in c.rules[i].from => c.rules[i].to = SlotTarget(c, d, x) /\ i < k
      /\ \A x \in Slots : \E i \in 1 .. k - 1 : c.rules[i].from = {In(x)} /\ c.rules[i].match = {}
      /\ \A i \in 1 .. Len(c.rules), x \in Slots : c.rules[i].from = {} /\ c.rules[i].match # {} /\ Foreign(c.rules[i].to) =>
           \A v \in c.rules[i].match : \E j \in 1 .. i - 1 :
             c.rules[j].from = {In(x)} /\ (c.rules[j].match = {} \/ v \in c.rules[j].match)
  BY DEF Settled, Led
<1>3. k \in 1 .. Len(c.rules) /\ \A i \in 1 .. Len(c.rules) : i # k => ~IsCatchAll(c.rules[i])
  BY <1>1 DEF CatchAllAt
<1>4. PICK e \in 1 .. k - 1 : c.rules[e].from = {In(s)} /\ c.rules[e].match = {}
  BY <1>2
<1>5. e \in 1 .. Len(c.rules) /\ Fits(c.rules[e], In(s), dest)
  BY <1>1, <1>3, <1>4 DEF Fits
<1>6. PICK i \in 1 .. e : FirstFit(c.rules, i, In(s), dest) /\ Chosen(c, In(s), dest) = c.rules[i].to
  BY <1>1, <1>5, ChosenIs
<1>7. i \in 1 .. Len(c.rules) /\ i # k
  BY <1>1, <1>3
<1>8. c.rules[i] \in Good(b) /\ Fits(c.rules[i], In(s), dest)
  BY <1>1, <1>6, <1>7 DEF FirstFit
<1>9. CASE In(s) \in c.rules[i].from
  BY <1>2, <1>6, <1>7, <1>9
<1>10. CASE c.rules[i].from = {}
  <2>1. c.rules[i].match # {}
    BY <1>3, <1>7, <1>8, <1>10, FromIs
  <2>2. w \in c.rules[i].match /\ w \in dest
    BY <1>8, <2>1 DEF Fits
  <2>3. ~Foreign(c.rules[i].to)
    <3>1. SUFFICES ASSUME Foreign(c.rules[i].to) PROVE FALSE
      OBVIOUS
    <3>2. PICK j \in 1 .. i - 1 : c.rules[j].from = {In(s)} /\ (c.rules[j].match = {} \/ w \in c.rules[j].match)
      BY <1>2, <1>7, <1>10, <2>1, <2>2, <3>1
    <3>. QED  BY <1>6, <3>2, <2>2 DEF FirstFit, Fits
  <2>. QED  BY <1>6, <1>8, <1>10, <2>2, <2>3 DEF Homely
<1>. QED  BY <1>8, <1>9, <1>10 DEF Fits

(* Foreign destinations from the entrance of a country go to the country.  *)
LEMMA WorldChosen ==
  ASSUME NEW b \in Database, NEW d \in Database, NEW c, NEW k, Settled(c, b, d, k),
         NEW s \in Slots, NEW dest \in World
  PROVE  Chosen(c, In(s), dest) = SlotTarget(c, d, s)
<1>2. ~Homely(b, "dns-world", Chosen(c, In(s), dest))
  BY DEF Good, Homely
<1>. QED  BY <1>2, CountryChosen DEF World

(* The owner's rule holds from the entrance of every country.              *)
LEMMA OwnChosen ==
  ASSUME NEW b \in Database, NEW d \in Database, NEW c, NEW k, Settled(c, b, d, k),
         Carried(c.rules, k, b), NEW s \in Slots
  PROVE  Chosen(c, In(s), Own) = CASE b.own = "direct_ru" -> Direct [] b.own = "block" -> Block
                                   [] OTHER -> SlotTarget(c, d, s)
<1>1. CASE b.own \in {"direct_ru", "block"}
  <2>1. OwnTo(b) = (IF b.own = "direct_ru" THEN Direct ELSE Block) /\ ~Foreign(OwnTo(b))
    BY <1>1 DEF OwnTo, Foreign, IsNode, Direct, Block, ToDe, Upstream
  <2>4. PICK i : Decides(c, b, k, i, In(s), Own)
    BY WordFirst, <1>1 DEF Carried, Asks, Own, Shape
  <2>. QED  BY <1>1, <2>1, <2>4 DEF Good, Decides, Own
<1>2. CASE b.own \notin {"direct_ru", "block"}
  <2>1. SUFFICES Chosen(c, In(s), Own) = SlotTarget(c, d, s)
    BY <1>2
  <2>2. SUFFICES ASSUME NEW r \in Good(b), r.from = {}, "own" \in r.match, ~Foreign(r.to),
                        Chosen(c, In(s), Own) = r.to
                 PROVE  r.to = SlotTarget(c, d, s)
    <3>2. Chosen(c, In(s), Own) = SlotTarget(c, d, s) \/ Homely(b, "own", Chosen(c, In(s), Own))
      BY CountryChosen DEF Own
    <3>. QED  BY <3>2 DEF Homely
  <2>4. r.to = Final(b)
    BY <2>2, <1>2 DEF Good, OwnTo
  <2>5. Real(b) = {} /\ Final(b) = Block
    BY <2>2, <2>4, FinalIs, FinalPlace
  <2>7. Usable(c, d, s) = {}
    BY <2>5 DEF NodesThere, Usable, Settled, Built, Furnished
  <2>. QED  BY <2>4, <2>5, <2>7, SlotTargetIs
<1>. QED  BY <1>1, <1>2

(* What is asked for at the entrance of a country.                         *)
LEMMA CountryReached ==
  ASSUME NEW b \in Database, NEW d \in Database, NEW c, NEW k, Settled(c, b, d, k),
         MembersAreMeant(c), NEW s \in Slots, NEW up
  PROVE  /\ \A dest \in World : Reached(c, up, In(s), dest) = ServingOf(c, d, s, up)
         /\ Carried(c.rules, k, b) => Reached(c, up, In(s), Own) =
              CASE b.own = "direct_ru" -> {Direct} [] b.own = "block" -> {Block}
                [] OTHER -> ServingOf(c, d, s, up)
<1>1. Exits(c, up, SlotTarget(c, d, s)) = ServingOf(c, d, s, up)
  BY SettledServes
<1>2. SlotTarget(c, d, s) # Director
  BY SlotTargetIs DEF Block, Director, Country, Node
<1>3. Direct # Director /\ Block # Director
  BY DEF Direct, Block, Director
<1>4. Exits(c, up, Direct) = {Direct} /\ Exits(c, up, Block) = {Block}
  BY PlainExits DEF Settled, Built
<1>6. ASSUME Carried(c.rules, k, b)
      PROVE  Reached(c, up, In(s), Own) =
              CASE b.own = "direct_ru" -> {Direct} [] b.own = "block" -> {Block}
                [] OTHER -> ServingOf(c, d, s, up)
  <2>. DEFINE to == Chosen(c, In(s), Own)
  <2>1. to = CASE b.own = "direct_ru" -> Direct [] b.own = "block" -> Block [] OTHER -> SlotTarget(c, d, s)
    BY <1>6, OwnChosen
  <2>. HIDE DEF to
  <2>2. to # Director => Reached(c, up, In(s), Own) = Exits(c, up, to)
    BY DEF Reached, to
  <2>3. CASE b.own = "direct_ru"
    BY <1>3, <1>4, <2>1, <2>2, <2>3
  <2>4. CASE b.own = "block"
    BY <1>3, <1>4, <2>1, <2>2, <2>4
  <2>5. CASE b.own \notin {"direct_ru", "block"}
    BY <1>1, <1>2, <2>1, <2>2, <2>5
  <2>. QED  BY <2>3, <2>4, <2>5
<1>. QED  BY <1>6, <1>1, <1>2, WorldChosen DEF Reached

(* No rule sends foreign destinations directly out.                        *)
LEMMA WorldNotDirect ==
  ASSUME NEW b \in Database, NEW d, NEW c, NEW l, Shape(c, b, d, l), NEW from, NEW dest \in World
  PROVE  Chosen(c, from, dest) # Direct
<1>1. /\ Len(c.rules) \in Nat /\ \A i \in 1 .. Len(c.rules) : c.rules[i] \in Good(b)
      /\ \E to : CatchAllAt(c.rules, l, to)
  BY ShapeFacts
<1>2. PICK to : CatchAllAt(c.rules, l, to)
  BY <1>1
<1>0. Decided(c, l, from, dest)
  BY <1>1, <1>2, SomeChosen
<1>3. PICK i \in 1 .. l : FirstFit(c.rules, i, from, dest) /\ Chosen(c, from, dest) = c.rules[i].to
  BY <1>0 DEF Decided
<1>. QED  BY <1>3, <1>1 DEF Good, Fits, World, FirstFit

(* No balancer has direct among its members, and the only one that may     *)
(* fall back falls back on a node.                                         *)
LEMMA BalsAbroad ==
  ASSUME NEW b \in Database, NEW d \in Database, NEW c, NEW l, Shape(c, b, d, l), NEW x \in c.bal
  PROVE  Direct \notin x.members /\ (x.closed \/ c.outs[1].tag # Direct)
<1>1. /\ x.tag = Upstream => Nodal(x.members) /\ c.outs[1].tag[1] \in {"upstream", "to-de"}
  BY ShapeFacts DEF Furnished
<1>2. \A n : Node(n) # Direct
  BY DEF Node, Direct
<1>3. CASE x.tag = Upstream
  BY <1>1, <1>2, <1>3 DEF Nodal, Direct
<1>4. CASE PlainAt(c, b, l, {})
  BY <1>3, <1>4 DEF PlainAt
<1>5. CASE Settled(c, b, d, l) /\ x.tag # Upstream
  <2>1. /\ x.closed
        /\ \/ \E s \in Slots : x = CountryBal(c, d, s)
           \/ x = DirectorBal(c, d)
    BY <1>5 DEF Settled
  <2>5. CASE x = DirectorBal(c, d)
    BY <2>1, <2>5 DEF DirectorBal, Loops, Loop, Direct
  <2>6. ASSUME NEW s \in Slots, x = CountryBal(c, d, s) PROVE Direct \notin x.members
    BY <1>2, <2>6 DEF CountryBal
  <2>. QED  BY <2>1, <2>5, <2>6
<1>. QED  BY <1>3, <1>4, <1>5 DEF Shape

(* What is not sent to direct does not leave directly, whatever answers.   *)
LEMMA ExitsAbroad ==
  ASSUME NEW b \in Database, NEW d \in Database, NEW c, NEW l, Shape(c, b, d, l), NEW up,
         NEW to, to # Direct
  PROVE  Direct \notin Exits(c, up, to)
<1>1. \A tag : tag # Direct => Direct \notin Leaving(c, tag)
  BY DEF Leaving, Block, Direct
<1>2. CASE to \in Tags(c) \/ {x \in c.bal : x.tag = to} = {}
  BY <1>1, <1>2 DEF Exits
<1>3. CASE to \notin Tags(c) /\ {x \in c.bal : x.tag = to} # {}
  <2>. DEFINE e == CHOOSE x \in c.bal : x.tag = to
              good == {t \in RealTags(c) : Covers(e.members, t) /\ Covers(c.seen, t) /\ t[2] \in up}
  <2>1. Exits(c, up, to) = IF good # {} THEN good ELSE IF e.closed THEN {Block} ELSE Leaving(c, c.outs[1].tag)
    BY <1>3 DEF Exits
  <2>2. e \in c.bal
    BY <1>3
  <2>. HIDE DEF e
  <2>3. Direct \notin e.members /\ (e.closed \/ c.outs[1].tag # Direct)
    BY <2>2, BalsAbroad
  <2>4. Direct \notin good
    BY <2>3 DEF Covers, IsNode, Direct
  <2>. HIDE DEF good
  <2>. QED  BY <1>1, <2>1, <2>3, <2>4 DEF Direct, Block
<1>. QED  BY <1>2, <1>3

(* Foreign destinations never leave directly.                              *)
LEMMA NeverDirect ==
  ASSUME NEW b \in Database, NEW d \in Database, NEW c, NEW l, Shape(c, b, d, l), NEW up,
         NEW from, NEW dest \in World
  PROVE  Direct \notin Reached(c, up, from, dest)
<1>1. \A f : Direct \notin Exits(c, up, Chosen(c, f, dest))
  BY WorldNotDirect, ExitsAbroad
<1>. DEFINE loops == {x \in Tags(c) : x[1] = "auto-via"}
<1>. QED  BY <1>1 DEF Reached, Direct, Block

(* The director's balancer is there with all it needs.                     *)
LEMMA DirectorThere ==
  ASSUME NEW b, NEW d, NEW c, NEW k, Settled(c, b, d, k), Director \in {x.tag : x \in c.bal}
  PROVE  Directed(c, d, k)
<1>1. PICK x \in c.bal : x.tag = Director
  OBVIOUS
<1>. QED  BY <1>1 DEF Settled, Upstream, Director, CountryBal, Country

(* What enters at AUTO goes to the director.                               *)
LEMMA AutoChosen ==
  ASSUME NEW b \in Database, NEW d, NEW c, NEW k, Settled(c, b, d, k), Directed(c, d, k)
  PROVE  Chosen(c, In(0), {}) = Director
<1>1. Len(c.rules) \in Nat /\ \A i \in 1 .. Len(c.rules) : c.rules[i] \in Good(b)
  BY ShapeFacts DEF Shape
<1>2. CatchAllAt(c.rules, k, Director)
  BY DEF Directed
<1>0. Decided(c, k, In(0), {})
  BY <1>1, <1>2, SomeChosen
<1>3. PICK i \in 1 .. k : FirstFit(c.rules, i, In(0), {}) /\ Chosen(c, In(0), {}) = c.rules[i].to
  BY <1>0 DEF Decided
<1>4. i \in 1 .. Len(c.rules) /\ c.rules[i] \in Good(b) /\ Fits(c.rules[i], In(0), {})
  BY <1>1, <1>3 DEF FirstFit
<1>5. c.rules[i].from = {} /\ c.rules[i].match = {}
  BY <1>4, ZeroIsNobodys DEF Fits
<1>6. i = k /\ c.rules[k].to = Director
  BY <1>2, <1>4, <1>5 DEF CatchAllAt, IsCatchAll, Rule
<1>. QED  BY <1>3, <1>6

(* What comes back through a loop goes to the loop's country.              *)
LEMMA LoopChosen ==
  ASSUME NEW b \in Database, NEW d, NEW c, NEW k, Settled(c, b, d, k), Directed(c, d, k),
         NEW s \in Lively(c, d), NEW dest
  PROVE  Chosen(c, LoopIn(s), dest) = SlotTarget(c, d, s)
<1>1. Len(c.rules) \in Nat /\ Inside(c.rules, c, d) /\ k \in 1 .. Len(c.rules)
  BY ShapeFacts DEF Shape, Settled, Directed, CatchAllAt
<1>2. \A j \in 1 .. Len(c.rules) : c.rules[j].from \in Insiders /\ LoopIn(s) \in c.rules[j].from =>
        c.rules[j] = Rule({LoopIn(s)}, {}, SlotTarget(c, d, s))
  <2>. SUFFICES ASSUME NEW j \in 1 .. Len(c.rules), c.rules[j].from \in Insiders, LoopIn(s) \in c.rules[j].from
                PROVE  c.rules[j] = Rule({LoopIn(s)}, {}, SlotTarget(c, d, s))
    OBVIOUS
  <2>2. \A f, m, to : Rule(f, m, to).from = f
    BY DEF Rule
  <2>3. c.rules[j] # Rule({Api}, {}, Api)
    BY <2>2, SlotsApart
  <2>4. PICK x \in Slots : c.rules[j] = Rule({LoopIn(x)}, {}, SlotTarget(c, d, x))
    BY <2>3, <1>1 DEF Inside
  <2>5. x = s
    BY <2>2, <2>4, SlotsApart
  <2>. QED  BY <2>4, <2>5
<1>3. PICK i \in 1 .. k - 1 : c.rules[i].from = {LoopIn(s)} /\ \A j \in 1 .. i - 1 : c.rules[j].from \in Insiders
  BY DEF Directed
<1>4. i \in 1 .. Len(c.rules)
  BY <1>1
<1>6. c.rules[i].from \in Insiders /\ LoopIn(s) \in c.rules[i].from
  BY <1>3 DEF Insiders, Lively
<1>8. Fits(c.rules[i], LoopIn(s), dest)
  BY <1>2, <1>4, <1>6 DEF Fits, Rule
<1>9. PICK j \in 1 .. i : FirstFit(c.rules, j, LoopIn(s), dest) /\ Chosen(c, LoopIn(s), dest) = c.rules[j].to
  BY <1>1, <1>4, <1>8, ChosenIs
<1>10. j \in 1 .. Len(c.rules) /\ (j = i \/ j \in 1 .. i - 1)
  BY <1>4
<1>11. c.rules[j].from \in Insiders
  BY <1>3, <1>6, <1>10
<1>12. LoopIn(s) \in c.rules[j].from
  BY <1>9, <1>11 DEF FirstFit, Fits, Insiders
<1>. QED  BY <1>9, <1>2, <1>10, <1>11, <1>12 DEF Rule

(* AUTO by countries: any country that is on may be chosen, or nothing.    *)
LEMMA AutoReached ==
  ASSUME NEW b \in Database, NEW d \in Database, NEW c, NEW k, Settled(c, b, d, k),
         MembersAreMeant(c), Director \in {x.tag : x \in c.bal}, NEW up
  PROVE  Reached(c, up, In(0), {}) = {Block} \cup UNION {ServingOf(c, d, s, up) : s \in d.on}
<1>1. Directed(c, d, k)
  BY DirectorThere
<1>. DEFINE tags == {x \in Tags(c) : x[1] = "auto-via"}
            Via(t) == Exits(c, up, Chosen(c, LoopIn(t[2]), {}))
<1>2. Reached(c, up, In(0), {}) = {Block} \cup UNION {Via(t) : t \in tags}
  BY <1>1, AutoChosen DEF Reached
<1>3. tags = Loops(c, d)
  BY <1>1 DEF Directed, Loops, Loop
<1>4. \A s \in Lively(c, d) : s \in Slots /\ s \in d.on /\ Loop(s)[2] = s
  BY SlotTargetIs DEF Lively, Loop
<1>5. \A s \in Lively(c, d) : Via(Loop(s)) = ServingOf(c, d, s, up)
  <2>. TAKE s \in Lively(c, d)
  <2>. QED  BY <1>4, <1>1, LoopChosen, SettledServes
<1>6. \A s \in d.on : s \in Lively(c, d) \/ ServingOf(c, d, s, up) = {Block}
  <2>. SUFFICES ASSUME NEW s \in d.on, s \notin Lively(c, d) PROVE ServingOf(c, d, s, up) = {Block}
    OBVIOUS
  <2>3. Exits(c, up, Block) = {Block}
    BY PlainExits DEF Settled, Built
  <2>. QED  BY <2>3, SettledServes DEF Lively, Database
<1>. HIDE DEF tags, Via
<1>10. \A s \in d.on : ServingOf(c, d, s, up) \subseteq {Block} \cup UNION {Via(t) : t \in tags}
  <2>. TAKE s \in d.on
  <2>1. CASE s \in Lively(c, d)
    BY <1>5, <2>1, <1>3 DEF Loops
  <2>. QED  BY <2>1, <1>6
<1>11. UNION {ServingOf(c, d, s, up) : s \in d.on} \subseteq {Block} \cup UNION {Via(t) : t \in tags}
  BY <1>10
<1>. QED  BY <1>2, <1>11, <1>4, <1>5, <1>3 DEF Loops

(* Who asks at a file, and which file has countries and a director.        *)
LEMMA ShapeAsks ==
  ASSUME NEW b \in Database, NEW d, NEW c, NEW l, Shape(c, b, d, l)
  PROVE  /\ \A from \in c.ins \ {Api} : Asks(from)
         /\ \A s \in Slots : In(s) \in c.ins => Settled(c, b, d, l)
         /\ Director \in {x.tag : x \in c.bal} => Settled(c, b, d, l)
<1>1. CASE Settled(c, b, d, l)
  BY <1>1 DEF Settled, Asks
<1>2. CASE PlainAt(c, b, l, {})
  BY <1>2, Constants, SlotsApart DEF PlainAt, Upstream, Director, Asks
<1>. QED  BY <1>1, <1>2 DEF Shape

(* What the invariant says of the live file.                               *)
LEMMA RightFacts ==
  ASSUME Inv
  PROVE  /\ made.built \in Database /\ made.plan \in Database /\ MembersAreMeant(live)
         /\ \E l : Shape(live, made.built, made.plan, l) /\ (made.whole => Carried(live.rules, l, made.built))
<1>1. made \in Mades /\ LiveRight(live, made)
  BY DEF Inv
<1>. QED  BY <1>1 DEF Sound, Mades, LiveRight

(* The first half of EachItsOwnWay.                                        *)
LEMMA RightStaysHome == Inv => RussiaStaysHome
<1>. SUFFICES ASSUME Inv, made.whole, Real(made.built) # {}, NEW from \in live.ins \ {Api}
              PROVE  /\ \A dest \in Ru : Reached(live, Nodes, from, dest) = {Direct}
                     /\ Reached(live, Nodes, from, Gov) = {Block}
  BY DEF RussiaStaysHome
<1>2. PICK l : Shape(live, made.built, made.plan, l) /\ Carried(live.rules, l, made.built)
  BY RightFacts
<1>. QED  BY <1>2, HomeReached, ShapeAsks, RightFacts

(* The second half.                                                        *)
LEMMA RightApart == Inv => CountriesApart
<1>. SUFFICES ASSUME Inv, NEW up \in SUBSET Nodes
              PROVE  /\ \A s \in {t \in Slots : In(t) \in live.ins} :
                          /\ \A dest \in World : Reached(live, up, In(s), dest) = Serving(s, up)
                          /\ made.whole => Reached(live, up, In(s), Own) =
                               CASE made.built.own = "direct_ru" -> {Direct}
                                 [] made.built.own = "block"     -> {Block}
                                 [] OTHER                        -> Serving(s, up)
                     /\ \A from \in live.ins \ {Api}, dest \in World : Direct \notin Reached(live, up, from, dest)
                     /\ Director \in {b.tag : b \in live.bal} =>
                          Reached(live, up, In(0), {}) = {Block} \cup UNION {Serving(s, up) : s \in made.plan.on}
  BY DEF CountriesApart
<1>1. made.built \in Database /\ made.plan \in Database /\ MembersAreMeant(live)
  BY RightFacts
<1>2. PICK l : Shape(live, made.built, made.plan, l) /\ (made.whole => Carried(live.rules, l, made.built))
  BY RightFacts
<1>3. \A s : Serving(s, up) = ServingOf(live, made.plan, s, up)
  BY DEF Serving, ServingOf
<1>4. ASSUME NEW s \in Slots, In(s) \in live.ins
      PROVE  /\ \A dest \in World : Reached(live, up, In(s), dest) = Serving(s, up)
             /\ made.whole => Reached(live, up, In(s), Own) =
                  CASE made.built.own = "direct_ru" -> {Direct}
                    [] made.built.own = "block"     -> {Block}
                    [] OTHER                        -> Serving(s, up)
  BY <1>1, <1>2, <1>4, ShapeAsks, CountryReached, <1>3
<1>6. ASSUME Director \in {b.tag : b \in live.bal}
      PROVE  Reached(live, up, In(0), {}) = {Block} \cup UNION {Serving(s, up) : s \in made.plan.on}
  BY <1>1, <1>2, <1>6, ShapeAsks, AutoReached, <1>3
<1>. QED  BY <1>4, <1>6, <1>1, <1>2, NeverDirect

(* What an entrance and a destination are sent to is what the database     *)
(* says: Russian destinations leave directly, the blocked ones not at all, *)
(* a country is served by its own nodes, and nothing foreign leaves        *)
(* directly.                                                               *)
THEOREM ConfigEachItsOwnWay == Spec => []EachItsOwnWay
<1>1. Inv => EachItsOwnWay
  BY RightStaysHome, RightApart DEF EachItsOwnWay
<1>. QED  BY <1>1, ConfigInvariant, PTL

-----------------------------------------------------------------------------
(* What is left of a file, and what a file says.                           *)

(* h lists a places among the first n, in order.                           *)
Rising(h, a, n) ==
  a \in Nat /\ h \in [1 .. a -> 1 .. n] /\ \A i, j \in 1 .. a : i < j => h[i] < h[j]

(* Each of the first a of h is one of the first b of k.                    *)
Within(h, a, k, b) == \A i \in 1 .. a : \E j \in 1 .. b : k[j] = h[i]

(* Places are listed in order in one way only.                             *)
LEMMA RisingOnce ==
  ASSUME NEW n \in Nat, NEW a, NEW b, NEW h, NEW k,
         Rising(h, a, n), Rising(k, b, n), Within(h, a, k, b), Within(k, b, h, a)
  PROVE  \A i \in 1 .. a : i \in 1 .. b /\ h[i] = k[i]
<1>0. /\ a \in Nat /\ b \in Nat /\ h \in [1 .. a -> 1 .. n] /\ k \in [1 .. b -> 1 .. n]
      /\ \A i, j \in 1 .. a : i < j => h[i] < h[j]
      /\ \A i, j \in 1 .. b : i < j => k[i] < k[j]
      /\ \A i \in 1 .. a : \E j \in 1 .. b : k[j] = h[i]
      /\ \A j \in 1 .. b : \E i \in 1 .. a : h[i] = k[j]
  BY Zenon DEF Rising, Within
<1>. DEFINE D == {i \in 1 .. a : ~(i \in 1 .. b /\ h[i] = k[i])}
<1>. SUFFICES ASSUME D # {} PROVE FALSE
  OBVIOUS
<1>1. PICK m \in D : \A i \in D : m <= i
  <2>1. D \subseteq Nat  BY <1>0
  <2>. HIDE DEF D
  <2>. QED  BY <2>1, LeastNatural
<1>2. m \in 1 .. a /\ ~(m \in 1 .. b /\ h[m] = k[m])
  BY <1>1
<1>3. ASSUME NEW i \in 1 .. a, i < m PROVE i \in 1 .. b /\ h[i] = k[i]
  <2>1. i \notin D
    <3>. HIDE DEF D
    <3>. QED  BY <1>1, <1>2, <1>3
  <2>. QED  BY <2>1
<1>. HIDE DEF D
<1>4. PICK j \in 1 .. b : k[j] = h[m]
  BY <1>0, <1>2
<1>5. j >= m
  <2>. SUFFICES ASSUME j < m PROVE FALSE
    BY <1>0, <1>2
  <2>1. j \in 1 .. a /\ h[j] = k[j]
    BY <1>0, <1>2, <1>3
  <2>2. h[j] < h[m] /\ h[j] \in 1 .. n
    BY <1>0, <1>2, <2>1
  <2>. QED  BY <2>2, <1>0, <1>2, <2>1, <1>4
<1>6. m \in 1 .. b
  BY <1>0, <1>2, <1>5
<1>7. PICK i \in 1 .. a : h[i] = k[m]
  BY <1>0, <1>6
<1>8. i >= m
  <2>. SUFFICES ASSUME i < m PROVE FALSE
    BY <1>0, <1>2
  <2>1. i \in 1 .. b /\ h[i] = k[i]
    BY <1>0, <1>3
  <2>3. k[i] = k[m]
    BY <2>1, <1>7
  <2>. QED  BY <2>3, <1>0, <1>2, <1>6, <2>1
<1>9. h[m] \in 1 .. n /\ k[m] \in 1 .. n /\ h[m] <= h[i] /\ k[m] <= k[j]
  <2>1. h[m] \in 1 .. n /\ k[m] \in 1 .. n
    BY <1>0, <1>2, <1>6
  <2>2. h[m] <= h[i]
    <3>1. CASE m = i
      <4>1. h[i] = h[m]
        BY <3>1, Zenon
      <4>. QED  BY <4>1, <2>1
    <3>2. CASE m < i  BY <1>0, <3>2, <1>2, <2>1
    <3>. QED  BY <3>1, <3>2, <1>8, <1>2
  <2>3. k[m] <= k[j]
    <3>1. CASE m = j
      <4>1. k[j] = k[m]
        BY <3>1, Zenon
      <4>. QED  BY <4>1, <2>1
    <3>2. CASE m < j  BY <1>0, <3>2, <1>6, <2>1
    <3>. QED  BY <3>1, <3>2, <1>5, <1>2
  <2>. QED  BY <2>1, <2>2, <2>3
<1>. QED  BY <1>0, <1>2, <1>4, <1>6, <1>7, <1>9

(* What is kept of a sequence is one sequence.                             *)
LEMMA KeptOnce ==
  ASSUME NEW A, NEW s \in Seq(A), NEW t \in Seq(A), NEW u \in Seq(A), NEW T, Kept(t, s, T), Kept(u, s, T)
  PROVE  t = u
<1>1. PICK h \in [1 .. Len(t) -> 1 .. Len(s)] :
        /\ \A k \in 1 .. Len(t) : s[h[k]] \in T /\ t[k] = s[h[k]]
        /\ \A k, l \in 1 .. Len(t) : k < l => h[k] < h[l]
        /\ \A i \in 1 .. Len(s) : s[i] \in T => \E k \in 1 .. Len(t) : h[k] = i
  BY Zenon DEF Kept
<1>2. PICK g \in [1 .. Len(u) -> 1 .. Len(s)] :
        /\ \A k \in 1 .. Len(u) : s[g[k]] \in T /\ u[k] = s[g[k]]
        /\ \A k, l \in 1 .. Len(u) : k < l => g[k] < g[l]
        /\ \A i \in 1 .. Len(s) : s[i] \in T => \E k \in 1 .. Len(u) : g[k] = i
  BY Zenon DEF Kept
<1>3. Len(s) \in Nat /\ Len(t) \in Nat /\ Len(u) \in Nat
  OBVIOUS
<1>4. \A i \in 1 .. Len(t) : \E j \in 1 .. Len(u) : g[j] = h[i]
  BY <1>1, <1>2
<1>5. \A j \in 1 .. Len(u) : \E i \in 1 .. Len(t) : h[i] = g[j]
  BY <1>1, <1>2
<1>6. Rising(h, Len(t), Len(s)) /\ Rising(g, Len(u), Len(s))
  BY <1>1, <1>2, <1>3, Zenon DEF Rising
<1>10. Within(h, Len(t), g, Len(u)) /\ Within(g, Len(u), h, Len(t))
  BY <1>4, <1>5, Zenon DEF Within
<1>. DEFINE n == Len(s)
            a == Len(t)
            b == Len(u)
<1>11. n \in Nat /\ Rising(h, a, n) /\ Rising(g, b, n) /\ Within(h, a, g, b) /\ Within(g, b, h, a)
  BY <1>3, <1>6, <1>10
<1>. HIDE DEF n, a, b
<1>13. \A i \in 1 .. b : i \in 1 .. a /\ g[i] = h[i]
  BY <1>11, RisingOnce
<1>7. /\ \A i \in 1 .. Len(t) : i \in 1 .. Len(u) /\ h[i] = g[i]
      /\ \A i \in 1 .. Len(u) : i \in 1 .. Len(t) /\ g[i] = h[i]
  BY <1>13, <1>11, RisingOnce DEF a, b
<1>8. Len(t) = Len(u)
  BY <1>3, <1>7
<1>9. \A i \in 1 .. Len(t) : t[i] = u[i]
  BY <1>1, <1>2, <1>7
<1>. QED  BY <1>8, <1>9

(* When all pass the test, all are kept.                                   *)
LEMMA KeptAll ==
  ASSUME NEW A, NEW s \in Seq(A), NEW T, \A i \in 1 .. Len(s) : s[i] \in T
  PROVE  Kept(s, s, T)
<1>. DEFINE h == [k \in 1 .. Len(s) |-> k]
<1>1. h \in [1 .. Len(s) -> 1 .. Len(s)] /\ \A k \in 1 .. Len(s) : h[k] = k
  OBVIOUS
<1>. HIDE DEF h
<1>2. /\ \A k \in 1 .. Len(s) : s[h[k]] \in T /\ s[k] = s[h[k]]
      /\ \A k, l \in 1 .. Len(s) : k < l => h[k] < h[l]
      /\ \A i \in 1 .. Len(s) : s[i] \in T => \E k \in 1 .. Len(s) : h[k] = i
  BY <1>1
<1>. QED  BY <1>1, <1>2, Zenon DEF Kept

(* When none passes the test, nothing is kept.                             *)
LEMMA KeptNone ==
  ASSUME NEW A, NEW s \in Seq(A), NEW T, \A i \in 1 .. Len(s) : s[i] \notin T
  PROVE  Kept(<<>>, s, T)
<1>. DEFINE h == [k \in 1 .. 0 |-> 1]
<1>1. h \in [1 .. Len(<<>>) -> 1 .. Len(s)] /\ 1 .. Len(<<>>) = {}
  OBVIOUS
<1>. HIDE DEF h
<1>2. /\ \A k \in 1 .. Len(<<>>) : s[h[k]] \in T /\ <<>>[k] = s[h[k]]
      /\ \A k, l \in 1 .. Len(<<>>) : k < l => h[k] < h[l]
      /\ \A i \in 1 .. Len(s) : s[i] \in T => \E k \in 1 .. Len(<<>>) : h[k] = i
  BY <1>1
<1>. QED  BY <1>1, <1>2, Zenon DEF Kept

(* What is kept of two sequences is kept of the one after the other.       *)
LEMMA KeptBoth ==
  ASSUME NEW A, NEW s \in Seq(A), NEW v \in Seq(A), NEW t \in Seq(A), NEW w \in Seq(A), NEW T,
         Kept(t, s, T), Kept(w, v, T)
  PROVE  Kept(t \o w, s \o v, T)
<1>1. PICK h \in [1 .. Len(t) -> 1 .. Len(s)] :
        /\ \A k \in 1 .. Len(t) : s[h[k]] \in T /\ t[k] = s[h[k]]
        /\ \A k, l \in 1 .. Len(t) : k < l => h[k] < h[l]
        /\ \A i \in 1 .. Len(s) : s[i] \in T => \E k \in 1 .. Len(t) : h[k] = i
  BY Zenon DEF Kept
<1>2. PICK g \in [1 .. Len(w) -> 1 .. Len(v)] :
        /\ \A k \in 1 .. Len(w) : v[g[k]] \in T /\ w[k] = v[g[k]]
        /\ \A k, l \in 1 .. Len(w) : k < l => g[k] < g[l]
        /\ \A i \in 1 .. Len(v) : v[i] \in T => \E k \in 1 .. Len(w) : g[k] = i
  BY Zenon DEF Kept
<1>. DEFINE x == t \o w
            y == s \o v
            f == [k \in 1 .. Len(x) |-> IF k \in 1 .. Len(t) THEN h[k] ELSE Len(s) + g[k - Len(t)]]
<1>3. /\ Len(t) \in Nat /\ Len(w) \in Nat /\ Len(x) = Len(t) + Len(w)
      /\ \A i \in 1 .. Len(t) : x[i] = t[i]
      /\ \A i \in 1 .. Len(w) : x[Len(t) + i] = w[i]
      /\ \A i \in 1 .. Len(x) : i \in 1 .. Len(t) \/ (i - Len(t) \in 1 .. Len(w) /\ Len(t) + (i - Len(t)) = i)
  BY ConcatIs
<1>4. /\ Len(s) \in Nat /\ Len(v) \in Nat /\ Len(y) = Len(s) + Len(v)
      /\ \A i \in 1 .. Len(s) : y[i] = s[i]
      /\ \A i \in 1 .. Len(v) : y[Len(s) + i] = v[i]
      /\ \A i \in 1 .. Len(y) : i \in 1 .. Len(s) \/ (i - Len(s) \in 1 .. Len(v) /\ Len(s) + (i - Len(s)) = i)
  BY ConcatIs
<1>. HIDE DEF x, y
<1>5. /\ \A k \in 1 .. Len(t) : k \in 1 .. Len(x) /\ f[k] = h[k]
      /\ \A k \in 1 .. Len(w) : Len(t) + k \in 1 .. Len(x) /\ f[Len(t) + k] = Len(s) + g[k]
      /\ DOMAIN f = 1 .. Len(x)
  BY <1>3
<1>. HIDE DEF f
<1>6. /\ \A k \in 1 .. Len(t) : h[k] \in 1 .. Len(s) /\ h[k] \in 1 .. Len(y)
      /\ \A k \in 1 .. Len(w) : g[k] \in 1 .. Len(v) /\ Len(s) + g[k] \in 1 .. Len(y)
  <2>1. ASSUME NEW k \in 1 .. Len(t)
        PROVE  h[k] \in 1 .. Len(s) /\ h[k] \in 1 .. Len(y)
    <3>1. h[k] \in 1 .. Len(s)
      BY <1>1
    <3>. QED  BY <3>1, <1>4
  <2>2. ASSUME NEW k \in 1 .. Len(w)
        PROVE  g[k] \in 1 .. Len(v) /\ Len(s) + g[k] \in 1 .. Len(y)
    <3>1. g[k] \in 1 .. Len(v)
      BY <1>2
    <3>. QED  BY <3>1, <1>4
  <2>. QED  BY <2>1, <2>2
<1>7. ASSUME NEW k \in 1 .. Len(x)
      PROVE  f[k] \in 1 .. Len(y) /\ y[f[k]] \in T /\ x[k] = y[f[k]]
  <2>1. CASE k \in 1 .. Len(t)
    <3>1. f[k] = h[k] /\ h[k] \in 1 .. Len(s) /\ h[k] \in 1 .. Len(y)
      BY <2>1, <1>5, <1>6
    <3>2. x[k] = t[k] /\ y[h[k]] = s[h[k]]
      BY <2>1, <3>1, <1>3, <1>4
    <3>. QED  BY <2>1, <3>1, <3>2, <1>1
  <2>2. CASE k - Len(t) \in 1 .. Len(w) /\ Len(t) + (k - Len(t)) = k
    <3>1. PICK j \in 1 .. Len(w) : k = Len(t) + j
      BY <2>2
    <3>2. f[k] = Len(s) + g[j] /\ x[k] = w[j] /\ y[f[k]] = v[g[j]]
      BY <3>1, <1>3, <1>4, <1>5, <1>6
    <3>. QED  BY <3>1, <3>2, <1>2, <1>6
  <2>. QED  BY <2>1, <2>2, <1>3
<1>8. f \in [1 .. Len(x) -> 1 .. Len(y)]
  BY <1>7 DEF f
<1>9. ASSUME NEW k \in 1 .. Len(x), NEW l \in 1 .. Len(x), k < l PROVE f[k] < f[l]
  <2>1. CASE l \in 1 .. Len(t)
    <3>1. k \in 1 .. Len(t)
      BY <2>1, <1>9, <1>3
    <3>. QED  BY <2>1, <3>1, <1>9, <1>1, <1>5
  <2>2. CASE l - Len(t) \in 1 .. Len(w) /\ Len(t) + (l - Len(t)) = l
    <3>1. PICK j \in 1 .. Len(w) : l = Len(t) + j
      BY <2>2
    <3>2. f[l] = Len(s) + g[j] /\ g[j] \in 1 .. Len(v)
      BY <3>1, <1>5, <1>6
    <3>3. CASE k \in 1 .. Len(t)
      BY <3>2, <3>3, <1>4, <1>5, <1>6
    <3>4. CASE k - Len(t) \in 1 .. Len(w) /\ Len(t) + (k - Len(t)) = k
      <4>1. PICK i \in 1 .. Len(w) : k = Len(t) + i
        BY <3>4
      <4>2. f[k] = Len(s) + g[i] /\ g[i] \in 1 .. Len(v) /\ i < j
        BY <4>1, <3>1, <1>9, <1>3, <1>5, <1>6
      <4>. QED  BY <4>2, <3>2, <1>4, <1>2
    <3>. QED  BY <3>3, <3>4, <1>3
  <2>. QED  BY <2>1, <2>2, <1>3
<1>10. ASSUME NEW i \in 1 .. Len(y), y[i] \in T PROVE \E k \in 1 .. Len(x) : f[k] = i
  <2>1. CASE i \in 1 .. Len(s)
    <3>1. PICK k \in 1 .. Len(t) : h[k] = i
      BY <2>1, <1>10, <1>1, <1>4
    <3>. QED  BY <3>1, <1>5
  <2>2. CASE i - Len(s) \in 1 .. Len(v) /\ Len(s) + (i - Len(s)) = i
    <3>1. PICK j \in 1 .. Len(v) : i = Len(s) + j
      BY <2>2
    <3>3. PICK k \in 1 .. Len(w) : g[k] = j
      BY <1>2, <3>1, <1>4, <1>10
    <3>. QED  BY <3>1, <3>3, <1>5
  <2>. QED  BY <2>1, <2>2, <1>4
<1>11. /\ \A k \in 1 .. Len(x) : y[f[k]] \in T /\ x[k] = y[f[k]]
       /\ \A k, l \in 1 .. Len(x) : k < l => f[k] < f[l]
       /\ \A i \in 1 .. Len(y) : y[i] \in T => \E k \in 1 .. Len(x) : f[k] = i
  BY <1>7, <1>9, <1>10
<1>12. Kept(x, y, T)
  BY <1>8, <1>11, Zenon DEF Kept
<1>. QED  BY <1>12 DEF x, y

(* What a rule for everybody does, the director's taken back, and whether  *)
(* it is for everything.                                                   *)
Saying(r) == IF r.match = {} THEN <<Returned(r).to, "all">> ELSE <<Returned(r).to, "some">>

(* The first rule of s that fits dest from AUTO does a with it.            *)
Says(s, dest, a) == \E i \in 1 .. Len(s) : FirstFit(s, i, In(0), dest) /\ Saying(s[i]) = a

(* There is one first rule that fits.                                      *)
LEMMA OneFirst ==
  ASSUME NEW s, Len(s) \in Nat, NEW from, NEW dest, NEW i, NEW j,
         FirstFit(s, i, from, dest), FirstFit(s, j, from, dest)
  PROVE  i = j
<1>1. i \in 1 .. Len(s) /\ j \in 1 .. Len(s)
  BY DEF FirstFit
<1>. QED  BY <1>1 DEF FirstFit

(* A file says one thing of a destination.                                 *)
LEMMA SaysOne ==
  ASSUME NEW s, Len(s) \in Nat, NEW dest, NEW a, NEW b, Says(s, dest, a), Says(s, dest, b)
  PROVE  a = b
BY OneFirst, Zenon DEF Says

(* When a rule fits, there is a first one that does, not after it.         *)
LEMMA FirstThere ==
  ASSUME NEW s, Len(s) \in Nat, NEW from, NEW dest, NEW j \in 1 .. Len(s), Fits(s[j], from, dest)
  PROVE  \E i \in 1 .. j : FirstFit(s, i, from, dest)
<1>. DEFINE S == {i \in 1 .. Len(s) : Fits(s[i], from, dest)}
<1>1. S \subseteq Nat /\ j \in S
  OBVIOUS
<1>2. PICK i \in S : \A k \in S : i <= k
  <2>. HIDE DEF S
  <2>. QED  BY <1>1, LeastNatural
<1>3. i \in 1 .. Len(s) /\ Fits(s[i], from, dest) /\ i <= j
  BY <1>1, <1>2
<1>4. ASSUME NEW h \in 1 .. i - 1 PROVE ~Fits(s[h], from, dest)
  BY <1>3, <1>2
<1>5. FirstFit(s, i, from, dest)
  BY <1>3, <1>4, Zenon DEF FirstFit
<1>. QED  BY <1>3, <1>5

(* The first rule that fits is joined to the first that fits then.         *)
LEMMA JoinedFirst ==
  ASSUME NEW s \in Seq(RuleType), NEW t \in Seq(RuleType), NEW g, Joined(t, s, Len(s), g),
         NEW from, NEW dest, NEW i, FirstFit(s, i, from, dest)
  PROVE  /\ i \in 1 .. Len(s) /\ FirstFit(t, g[i], from, dest) /\ t[g[i]].to = s[i].to
         /\ t[g[i]].match = {} <=> s[i].match = {}
<1>. DEFINE n == Len(s)
<1>0. Joined(t, s, n, g)
  OBVIOUS
<1>1. /\ \A j \in 1 .. Len(s) : g[j] \in 1 .. Len(t) /\ t[g[j]].from = s[j].from /\ t[g[j]].to = s[j].to
                                /\ s[j].match \subseteq t[g[j]].match
                                /\ (s[j].match = {} \/ s[j].from # {} => t[g[j]] = s[j])
      /\ \A h, j \in 1 .. Len(s) : h <= j => g[h] <= g[j]
      /\ \A k \in 1 .. Len(t) : \E j \in 1 .. Len(s) : g[j] = k
      /\ \A k \in 1 .. Len(t) : \A w \in t[k].match : \E j \in 1 .. Len(s) : g[j] = k /\ w \in s[j].match
  BY <1>0 DEF Joined, Class
<1>2. /\ i \in 1 .. Len(s) /\ Fits(s[i], from, dest)
      /\ \A h \in 1 .. i - 1 : ~Fits(s[h], from, dest)
  BY Zenon DEF FirstFit
<1>3. g[i] \in 1 .. Len(t) /\ Fits(t[g[i]], from, dest)
  BY <1>1, <1>2 DEF Fits
<1>4. ASSUME NEW k \in 1 .. g[i] - 1, Fits(t[k], from, dest) PROVE FALSE
  <2>0. k \in 1 .. Len(t) /\ k < g[i]
    BY <1>3
  <2>1. PICK j \in 1 .. Len(s) : g[j] = k /\ Fits(s[j], from, dest)
    <3>1. CASE t[k].match = {}
      <4>1. PICK j \in 1 .. Len(s) : g[j] = k
        BY <1>1, <2>0
      <4>2. s[j].match = {} /\ s[j].from = t[k].from
        BY <3>1, <4>1, <1>1
      <4>. QED  BY <4>1, <4>2, <1>4 DEF Fits
    <3>2. CASE t[k].match # {}
      <4>1. PICK w \in t[k].match : w \in dest
        BY <3>2, <1>4 DEF Fits
      <4>2. PICK j \in 1 .. Len(s) : g[j] = k /\ w \in s[j].match
        BY <4>1, <1>1, <2>0
      <4>. QED  BY <4>1, <4>2, <1>4, <1>1 DEF Fits
    <3>. QED  BY <3>1, <3>2
  <2>3. j \in 1 .. i - 1
    BY <1>2, <1>1, <1>3, <2>0, <2>1
  <2>. QED  BY <2>1, <2>3, <1>2
<1>. QED  BY <1>1, <1>2, <1>3, <1>4 DEF FirstFit

(* Joining neighbours does not change what a file says.                    *)
LEMMA JoinedSays ==
  ASSUME NEW s \in Seq(RuleType), NEW t \in Seq(RuleType), NEW g, Joined(t, s, Len(s), g),
         NEW dest, NEW a, Says(s, dest, a)
  PROVE  Says(t, dest, a)
<1>1. PICK i \in 1 .. Len(s) : FirstFit(s, i, In(0), dest) /\ Saying(s[i]) = a
  BY DEF Says
<1>2. /\ FirstFit(t, g[i], In(0), dest) /\ t[g[i]].to = s[i].to
      /\ t[g[i]].match = {} <=> s[i].match = {}
  BY <1>1, JoinedFirst
<1>3. g[i] \in 1 .. Len(t)
  BY <1>2 DEF FirstFit
<1>5. Returned(t[g[i]]).to = Returned(s[i]).to
  BY <1>2, <1>3 DEF Returned, RuleType
<1>. QED  BY <1>2, <1>3, <1>1, <1>5 DEF Says, Saying

(* Nor does leaving out the rules that are not for everybody.              *)
LEMMA KeptSays ==
  ASSUME NEW b, NEW s \in Seq(Good(b)), NEW u \in Seq(Good(b)), Kept(u, s, {r \in Good(b) : r.from = {}}),
         NEW dest, NEW a, Says(s, dest, a)
  PROVE  Says(u, dest, a)
<1>1. PICK h \in [1 .. Len(u) -> 1 .. Len(s)] :
        /\ \A k \in 1 .. Len(u) : s[h[k]] \in {r \in Good(b) : r.from = {}} /\ u[k] = s[h[k]]
        /\ \A k, l \in 1 .. Len(u) : k < l => h[k] < h[l]
        /\ \A i \in 1 .. Len(s) : s[i] \in {r \in Good(b) : r.from = {}} => \E k \in 1 .. Len(u) : h[k] = i
  BY Zenon DEF Kept
<1>2. PICK i \in 1 .. Len(s) : FirstFit(s, i, In(0), dest) /\ Saying(s[i]) = a
  BY DEF Says
<1>3. Fits(s[i], In(0), dest) /\ \A h0 \in 1 .. i - 1 : ~Fits(s[h0], In(0), dest)
  BY <1>2, Zenon DEF FirstFit
<1>5. PICK k \in 1 .. Len(u) : h[k] = i
  BY <1>1, <1>3, ZeroIsNobodys
<1>6. u[k] = s[i]
  BY <1>1, <1>5
<1>7. ASSUME NEW j \in 1 .. k - 1 PROVE ~Fits(u[j], In(0), dest)
  <2>1. j \in 1 .. Len(u) /\ j < k
    OBVIOUS
  <2>2. h[j] \in 1 .. Len(s) /\ h[j] < h[k] /\ u[j] = s[h[j]]
    BY <2>1, <1>1
  <2>3. h[j] \in 1 .. i - 1
    BY <2>2, <1>5
  <2>. QED  BY <2>2, <2>3, <1>3
<1>. QED  BY <1>2, <1>6, <1>3, <1>7 DEF Says, FirstFit

(* What taking a rule back from the director leaves.                       *)
LEMMA ReturnedIs ==
  ASSUME NEW r \in RuleType
  PROVE  /\ Returned(r) \in RuleType /\ Returned(r).from = r.from /\ Returned(r).match = r.match
         /\ Returned(r).to # Director /\ Returned(Returned(r)) = Returned(r)
         /\ r.to # Director => Returned(r) = r
         /\ r.to = Director => Returned(r).to = Upstream
<1>1. CASE r.to = Director
  BY <1>1, PlacesThere DEF Returned, Upstream, Director, RuleType
<1>2. CASE r.to # Director
  BY <1>2 DEF Returned
<1>. QED  BY <1>1, <1>2

(* Taking the countries off does not change what a file says.              *)
LEMMA StripSays ==
  ASSUME NEW b \in Database, NEW c, c.rules \in Seq(Good(b)), NEW dest, NEW a, Says(c.rules, dest, a)
  PROVE  Says(Strip(c).rules, dest, a)
<1>1. PICK u \in Seq(Good(b)) :
         /\ Kept(u, c.rules, {r \in Good(b) : r.from = {}})
         /\ Strip(c).rules = [i \in 1 .. Len(u) |-> Returned(u[i])]
  BY StripRules
<1>2. Says(u, dest, a)
  BY <1>1, KeptSays
<1>3. PICK i \in 1 .. Len(u) : FirstFit(u, i, In(0), dest) /\ Saying(u[i]) = a
  BY <1>2 DEF Says
<1>. DEFINE v == Strip(c).rules
<1>4. Len(v) = Len(u) /\ Len(u) \in Nat /\ \A k \in 1 .. Len(u) : v[k] = Returned(u[k])
  BY <1>1
<1>. HIDE DEF v
<1>6. ASSUME NEW k \in 1 .. Len(u)
      PROVE  v[k].from = u[k].from /\ v[k].match = u[k].match /\ Returned(v[k]).to = Returned(u[k]).to
  BY <1>4, ReturnedIs, PlainTyped
<1>8. FirstFit(v, i, In(0), dest)
  BY <1>3, <1>4, <1>6 DEF FirstFit, Fits
<1>10. Says(v, dest, a)
  BY <1>4, <1>8, <1>3, <1>6 DEF Says, Saying
<1>. QED  BY <1>10 DEF v

-----------------------------------------------------------------------------
(* The countries are taken off as they were put on.                        *)

(* Without the copies, the rules are the ones they stand for.              *)
LEMMA UnfoldsKept ==
  ASSUME NEW b, NEW c, NEW d, NEW s \in Seq(Good(b)), NEW t \in Seq(Good(b)), NEW l, NEW at,
         Unfolds(t, c, d, s, Len(s), l, at), \A i \in 1 .. Len(s) : s[i].from = {}
  PROVE  Kept(s, t, {r \in Good(b) : r.from = {}})
<1>. DEFINE n == Len(s)
            m == Len(t)
            TakenAt(i, k) == at[k] = i /\ t[k] = s[i]
            h == [i \in 1 .. n |-> CHOOSE k \in 1 .. m : TakenAt(i, k)]
<1>1. /\ at \in [1 .. m -> 1 .. n] /\ n \in Nat /\ m \in Nat
      /\ \A j, k \in 1 .. m : j < k => at[j] <= at[k] /\ (at[j] = at[k] => t[j].from # {})
      /\ \A k \in 1 .. m : t[k] = s[at[k]] \/ \E x \in Slots : t[k] = SlotRule(c, d, s[at[k]].match, x)
      /\ \A i \in 1 .. n : \E k \in 1 .. m : TakenAt(i, k)
  <2>1. /\ at \in [1 .. m -> 1 .. n]
        /\ \A j, k \in 1 .. m : j < k => at[j] <= at[k] /\ (at[j] = at[k] => t[j].from # {})
        /\ \A i \in 1 .. n : \E k \in 1 .. m : TakenAt(i, k)
    BY Zenon DEF Unfolds
  <2>2. \A k \in 1 .. m : t[k] = s[at[k]] \/ \E x \in Slots : t[k] = SlotRule(c, d, s[at[k]].match, x)
    BY Zenon DEF Unfolds
  <2>3. n \in Nat /\ m \in Nat
    OBVIOUS
  <2>. QED  BY <2>1, <2>2, <2>3
<1>2. \A x, w : SlotRule(c, d, w, x).from # {}
  BY DEF SlotRule, Rule
<1>3. \A i \in 1 .. n : h[i] \in 1 .. m /\ TakenAt(i, h[i])
  <2>. TAKE i \in 1 .. n
  <2>2. h[i] = CHOOSE k \in 1 .. m : TakenAt(i, k)
    OBVIOUS
  <2>. HIDE DEF TakenAt, h
  <2>. QED  BY <2>2, <1>1
<1>4. DOMAIN h = 1 .. n /\ h = [i \in 1 .. n |-> h[i]]
  OBVIOUS
<1>. HIDE DEF h
<1>5. h \in [1 .. n -> 1 .. m]
  BY <1>3, <1>4
<1>6. \A i \in 1 .. n : t[h[i]] \in {r \in Good(b) : r.from = {}} /\ s[i] = t[h[i]]
  BY <1>3
<1>7. ASSUME NEW i \in 1 .. n, NEW j \in 1 .. n, i < j PROVE h[i] < h[j]
  <2>1. h[i] \in 1 .. m /\ h[j] \in 1 .. m /\ at[h[i]] = i /\ at[h[j]] = j
    BY <1>3
  <2>3. ~(h[j] < h[i])
    <3>. SUFFICES ASSUME h[j] < h[i] PROVE FALSE
      OBVIOUS
    <3>. QED  BY <2>1, <1>7, <1>1
  <2>. QED  BY <2>1, <2>3, <1>1, <1>7
<1>8. ASSUME NEW k \in 1 .. m, t[k].from = {} PROVE \E i \in 1 .. n : h[i] = k
  <2>1. at[k] \in 1 .. n /\ t[k] = s[at[k]]
    <3>1. at[k] \in 1 .. n
      BY <1>1
    <3>2. t[k] = s[at[k]] \/ \E x \in Slots : t[k] = SlotRule(c, d, s[at[k]].match, x)
      BY <1>1
    <3>. QED  BY <3>1, <3>2, <1>2, <1>8, Zenon
  <2>2. h[at[k]] \in 1 .. m /\ at[h[at[k]]] = at[k] /\ t[h[at[k]]].from = {}
    BY <2>1, <1>3
  <2>3. ~(k < h[at[k]])
    BY <2>2, <1>1, <1>8
  <2>4. ~(h[at[k]] < k)
    BY <2>2, <1>1
  <2>5. h[at[k]] = k
    BY <2>2, <2>3, <2>4, <1>1
  <2>. QED  BY <2>1, <2>5
<1>9. /\ \A i \in 1 .. n : t[h[i]] \in {r \in Good(b) : r.from = {}} /\ s[i] = t[h[i]]
      /\ \A i, j \in 1 .. n : i < j => h[i] < h[j]
      /\ \A k \in 1 .. m : t[k] \in {r \in Good(b) : r.from = {}} => \E i \in 1 .. n : h[i] = k
  BY <1>6, <1>7, <1>8
<1>. QED  BY <1>5, <1>9, Zenon DEF Kept

(* A plain file with nothing of the countries left in it.                  *)
Bare(x, b) ==
  /\ \E l : PlainAt(x, b, l, {})
  /\ \A i \in 1 .. Len(x.rules) : x.rules[i].to # Director
  /\ \A o \in ToSet(x.outs) : o.tag[1] # "auto-via"
  /\ \A p \in x.seen : p[1] # "auto-via"
  /\ Final(b) = Upstream => \A n \in Real(b) : Node(n) \in x.seen

(* The rules that Strip leaves, the outbounds it leaves, and the           *)
(* balancers.                                                              *)
Abroad(b) == {r \in Good(b) : r.from = {}}
Outer     == {o \in OutType : o.tag[1] # "auto-via"}
Reopened(B) == {[y EXCEPT !.closed = FALSE] : y \in {z \in B : z.tag = Upstream}}

(* What is to be seen in g for the bare x to be left of it.                *)
Undone(x, b, g) ==
  /\ g.rules \in Seq(Good(b)) /\ g.outs \in Seq(OutType) /\ In(0) \in g.ins
  /\ \E u \in Seq(Good(b)) : /\ Kept(u, g.rules, Abroad(b)) /\ Len(u) = Len(x.rules)
                             /\ \A i \in 1 .. Len(u) : Returned(u[i]) = x.rules[i]
  /\ Kept(x.outs, g.outs, Outer)
  /\ Reopened(g.bal) = x.bal
  /\ {p \in g.seen : p[1] # "auto-via"} = x.seen

(* Strip, field by field.                                                  *)
LEMMA StripIs ==
  ASSUME NEW g
  PROVE  Strip(g) = [ins |-> g.ins \cap {In(0)}, outs |-> Strip(g).outs, rules |-> Strip(g).rules,
                     bal |-> Reopened(g.bal), seen |-> {p \in g.seen : p[1] # "auto-via"}]
BY DEF Strip, Reopened

(* The outbounds that Strip leaves.                                        *)
LEMMA StripOutsIs ==
  ASSUME NEW g, g.outs \in Seq(OutType)
  PROVE  Strip(g).outs \in Seq(OutType) /\ Kept(Strip(g).outs, g.outs, Outer)
<1>. DEFINE t == Keep(g.outs, LAMBDA o : o.tag[1] # "auto-via")
            v == g.outs
<1>1. \A i \in DOMAIN v : v[i] \in OutType
  OBVIOUS
<1>2. t = FlattenSeq([i \in DOMAIN v |-> IF v[i] \in Outer THEN <<v[i]>> ELSE <<>>])
  BY <1>1 DEF Keep, Outer
<1>3. Strip(g).outs = t
  BY DEF Strip
<1>. HIDE DEF t, v
<1>5. t \in Seq(OutType) /\ Kept(t, v, Outer)
  BY <1>2, KeepKeeps DEF v
<1>. QED  BY <1>3, <1>5 DEF v

(* What a bare file is.                                                    *)
LEMMA BareFacts ==
  ASSUME NEW b \in Database, NEW x, Bare(x, b)
  PROVE  /\ x \in Files /\ x.ins = {In(0)} /\ x.rules \in Seq(Good(b)) /\ x.outs \in Seq(OutType)
         /\ Len(x.rules) \in Nat
         /\ \A i \in 1 .. Len(x.rules) : /\ x.rules[i] \in Good(b) /\ x.rules[i].from = {}
                                         /\ x.rules[i].to # Director /\ Returned(x.rules[i]) = x.rules[i]
         /\ \A y \in x.bal : y \in BalType /\ y.tag = Upstream /\ ~y.closed
         /\ x = [ins |-> x.ins, outs |-> x.outs, rules |-> x.rules, bal |-> x.bal, seen |-> x.seen]
<1>1. PICK l : PlainAt(x, b, l, {})
  BY DEF Bare
<1>2. x \in Files /\ x.ins = {In(0)} /\ x.rules \in Seq(PlainRules(b)) /\ \A y \in x.bal : y.tag = Upstream /\ ~y.closed
  BY <1>1 DEF PlainAt, Furnished
<1>3. x.rules \in Seq(Good(b))
  BY <1>2, PlainTyped, SeqWider
<1>5. ASSUME NEW i \in 1 .. Len(x.rules)
      PROVE  /\ x.rules[i] \in Good(b) /\ x.rules[i].from = {}
             /\ x.rules[i].to # Director /\ Returned(x.rules[i]) = x.rules[i]
  BY <1>2 DEF PlainRules, Bare, Returned
<1>. QED  BY <1>2, <1>3, <1>5 DEF Files

(* A file that leaves x when undone is x without the countries.            *)
LEMMA UndoneIs ==
  ASSUME NEW b \in Database, NEW x, Bare(x, b), NEW g, Undone(x, b, g)
  PROVE  Strip(g) = x
<1>1. /\ x.ins = {In(0)} /\ x.rules \in Seq(Good(b)) /\ x.outs \in Seq(OutType) /\ Len(x.rules) \in Nat
      /\ x = [ins |-> x.ins, outs |-> x.outs, rules |-> x.rules, bal |-> x.bal, seen |-> x.seen]
  BY BareFacts
<1>2. /\ g.rules \in Seq(Good(b)) /\ g.outs \in Seq(OutType) /\ In(0) \in g.ins
      /\ Kept(x.outs, g.outs, Outer)
      /\ Reopened(g.bal) = x.bal
      /\ {p \in g.seen : p[1] # "auto-via"} = x.seen
  BY DEF Undone
<1>3. PICK u \in Seq(Good(b)) : /\ Kept(u, g.rules, Abroad(b)) /\ Len(u) = Len(x.rules)
                                /\ \A i \in 1 .. Len(u) : Returned(u[i]) = x.rules[i]
  BY DEF Undone
<1>4. PICK v \in Seq(Good(b)) :
         Kept(v, g.rules, Abroad(b)) /\ Strip(g).rules = [i \in 1 .. Len(v) |-> Returned(v[i])]
  BY <1>2, StripRules DEF Abroad
<1>5. u = v
  <2>. DEFINE s == g.rules
  <2>. HIDE DEF s
  <2>. QED  BY KeptOnce, <1>2, <1>3, <1>4
<1>6. Strip(g).rules = x.rules
  BY <1>3, <1>4, <1>5, <1>1
<1>7. Strip(g).outs = x.outs
  <2>. DEFINE v1 == g.outs
              t == Strip(g).outs
              y == x.outs
  <2>1. v1 \in Seq(OutType) /\ t \in Seq(OutType) /\ y \in Seq(OutType) /\ Kept(t, v1, Outer) /\ Kept(y, v1, Outer)
    BY <1>1, <1>2, StripOutsIs
  <2>. HIDE DEF v1, t, y
  <2>. QED  BY <2>1, KeptOnce DEF t, y
<1>8. g.ins \cap {In(0)} = x.ins
  BY <1>1, <1>2
<1>. QED  BY <1>1, StripIs, <1>2, <1>6, <1>7, <1>8

(* Open balancers of AUTO stay what they are.                              *)
LEMMA ReopenedSame ==
  ASSUME NEW B \in SUBSET BalType, \A y \in B : y.tag = Upstream /\ ~y.closed
  PROVE  Reopened(B) = B
<1>1. \A y \in B : [y EXCEPT !.closed = FALSE] = y
  BY DEF BalType
<1>2. {z \in B : z.tag = Upstream} = B
  OBVIOUS
<1>. QED  BY <1>1, <1>2 DEF Reopened

(* There is nothing to take off a bare file.                               *)
LEMMA BareStripped ==
  ASSUME NEW b \in Database, NEW x, Bare(x, b)
  PROVE  Strip(x) = x
<1>1. /\ x \in Files /\ x.ins = {In(0)} /\ x.rules \in Seq(Good(b)) /\ x.outs \in Seq(OutType) /\ Len(x.rules) \in Nat
      /\ \A i \in 1 .. Len(x.rules) : /\ x.rules[i] \in Good(b) /\ x.rules[i].from = {}
                                      /\ x.rules[i].to # Director /\ Returned(x.rules[i]) = x.rules[i]
      /\ \A y \in x.bal : y \in BalType /\ y.tag = Upstream /\ ~y.closed
  BY BareFacts
<1>2. Kept(x.rules, x.rules, Abroad(b))
  <2>. DEFINE s == x.rules
  <2>1. s \in Seq(Good(b)) /\ \A i \in 1 .. Len(s) : s[i] \in Abroad(b)
    BY <1>1 DEF Abroad
  <2>. HIDE DEF s
  <2>. QED  BY <2>1, KeptAll DEF s
<1>3. Kept(x.outs, x.outs, Outer)
  <2>. DEFINE s == x.outs
  <2>1. s \in Seq(OutType) /\ \A i \in 1 .. Len(s) : s[i] \in Outer
    BY <1>1 DEF Outer, Bare, ToSet
  <2>. HIDE DEF s
  <2>. QED  BY <2>1, KeptAll DEF s
<1>6. Undone(x, b, x)
  BY <1>1, <1>2, <1>3, ReopenedSame DEF Undone, Bare
<1>. QED  BY <1>6, UndoneIs

(* The countries with a balancer of their own.                             *)
Balancing(c, d) == {s \in Slots : SlotTarget(c, d, s) = Country(s)}
(* The nodes of the countries that lead anywhere.                          *)
HeldNodes(c, d)  == {Node(n) : n \in UNION {Usable(c, d, s) : s \in Lively(c, d)}}

(* What Entrances writes beside the rules.                                 *)
LEMMA EntrancesFields ==
  ASSUME NEW e \in Files, NEW d
  PROVE  LET f == Entrances(e, d) IN
         /\ f.ins = e.ins \cup {In(s) : s \in Slots} /\ f.outs = e.outs
         /\ f.bal = {[x EXCEPT !.closed = TRUE] : x \in e.bal} \cup {CountryBal(e, d, s) : s \in Balancing(e, d)}
         /\ f.seen = IF Balancing(e, d) = {} THEN e.seen ELSE e.seen \cup HeldNodes(e, d)
         /\ f = [ins |-> f.ins, outs |-> f.outs, rules |-> f.rules, bal |-> f.bal, seen |-> f.seen]
<1>. DEFINE f == Entrances(e, d)
            held == [s \in Slots |-> {Node(n) : n \in Usable(e, d, s)}]
            bals == {s \in Slots : SlotTarget(e, d, s) = Country(s)}
            used == UNION {held[s] : s \in {x \in Slots : SlotTarget(e, d, x) # Block}}
            ins1 == e.ins \cup {In(s) : s \in Slots}
            bal1 == {[x EXCEPT !.closed = TRUE] : x \in e.bal} \cup
                    {[tag |-> Country(s), members |-> held[s], closed |-> TRUE] : s \in bals}
            seen1 == IF bals = {} THEN e.seen ELSE e.seen \cup used
<1>1. /\ f.ins = ins1 /\ f.outs = e.outs /\ f.bal = bal1 /\ f.seen = seen1
      /\ f = [ins |-> f.ins, outs |-> f.outs, rules |-> f.rules, bal |-> f.bal, seen |-> f.seen]
  <2>1. \E r : f = [e EXCEPT !.ins = ins1, !.rules = r, !.bal = bal1, !.seen = seen1]
    BY DEF Entrances
  <2>. HIDE DEF ins1, bal1, seen1, f
  <2>2. PICK r : f = [e EXCEPT !.ins = ins1, !.rules = r, !.bal = bal1, !.seen = seen1]
    BY <2>1
  <2>. QED  BY <2>2 DEF Files
<1>2. \A s \in Slots : held[s] = {Node(n) : n \in Usable(e, d, s)}
  OBVIOUS
<1>4. used = HeldNodes(e, d)
  <2>. DEFINE lives == {x \in Slots : SlotTarget(e, d, x) # Block}
  <2>1. lives = Lively(e, d)
    BY DEF Lively
  <2>2. \A p : p \in used <=> \E s \in lives : p \in held[s]
    OBVIOUS
  <2>3. \A s \in lives : s \in Slots
    OBVIOUS
  <2>. HIDE DEF used, held, lives
  <2>4. \A s \in Lively(e, d) : held[s] = {Node(n) : n \in Usable(e, d, s)}
    BY <1>2, <2>1, <2>3
  <2>5. ASSUME NEW p \in used PROVE p \in HeldNodes(e, d)
    <3>1. PICK s \in Lively(e, d) : p \in {Node(n) : n \in Usable(e, d, s)}
      BY <2>1, <2>2, <2>4
    <3>2. PICK n \in Usable(e, d, s) : p = Node(n)
      BY <3>1
    <3>. QED  BY <3>1, <3>2 DEF HeldNodes
  <2>6. ASSUME NEW p \in HeldNodes(e, d) PROVE p \in used
    <3>1. PICK s \in Lively(e, d) : \E n \in Usable(e, d, s) : p = Node(n)
      BY DEF HeldNodes
    <3>. QED  BY <3>1, <2>1, <2>2, <2>4
  <2>. QED  BY <2>5, <2>6
<1>5. {[tag |-> Country(s), members |-> held[s], closed |-> TRUE] : s \in bals} = {CountryBal(e, d, s) : s \in bals}
  BY DEF CountryBal
<1>6. bals = Balancing(e, d)
  BY DEF Balancing
<1>. HIDE DEF f, held, bals, used
<1>. QED  BY <1>1, <1>4, <1>5, <1>6 DEF f

(* The tags of countries, loops and nodes differ.                          *)
LEMMA TagsApart ==
  /\ \A s : Country(s) # Upstream /\ Country(s) # Director /\ Country(s) # Block
  /\ Upstream # Director /\ \A s : Loop(s)[1] = "auto-via" /\ \A n : Node(n)[1] # "auto-via"
BY DEF Country, Upstream, Director, Loop, Node, Block

(* A country with a balancer has two nodes, and the file was built with    *)
(* the balancer of all nodes.                                              *)
LEMMA BalancingUpstream ==
  ASSUME NEW b \in Database, NEW d \in Database, NEW c, NodesThere(c) = Real(b), Balancing(c, d) # {}
  PROVE  Final(b) = Upstream
<1>1. PICK s \in Slots : SlotTarget(c, d, s) = Country(s)
  BY DEF Balancing
<1>. DEFINE u == Usable(c, d, s)
<1>2. u \subseteq Nodes /\ u # {} /\ Cardinality(u) # 1
  <2>1. /\ u \subseteq Nodes
        /\ s \notin d.on \/ u = {} => SlotTarget(c, d, s) = Block
        /\ s \in d.on /\ u # {} =>
             \/ /\ SlotTarget(c, d, s) = Country(s) /\ Cardinality(u) # 1
             \/ /\ Cardinality(u) = 1 /\ \E n \in u : u = {n} /\ SlotTarget(c, d, s) = Node(n)
    BY SlotTargetIs
  <2>. HIDE DEF u
  <2>. QED  BY <1>1, <2>1, TagsApart DEF Country, Node
<1>3. \E n \in u, m \in u : n # m
  <2>. SUFFICES ASSUME \A n \in u, m \in u : n = m PROVE FALSE
    OBVIOUS
  <2>. HIDE DEF u
  <2>1. PICK n : n \in u
    BY <1>2
  <2>. QED  BY <1>2, FS_Singleton, <2>1
<1>4. u \subseteq Real(b)
  BY DEF Usable, NodesThere
<1>. HIDE DEF u
<1>. QED  BY <1>3, <1>4, FinalIs

(* What Entrances writes leaves the file it was written on.                *)
LEMMA EntrancesUndone ==
  ASSUME NEW b \in Database, NEW d \in Database, NEW x, Bare(x, b), NEW f, f = Entrances(x, d)
  PROVE  /\ f.rules \in Seq(Good(b)) /\ f.outs = x.outs /\ In(0) \in f.ins
         /\ Kept(x.rules, f.rules, Abroad(b)) /\ Reopened(f.bal) = x.bal
         /\ {p \in f.seen : p[1] # "auto-via"} = x.seen
<1>1. /\ x \in Files /\ x.ins = {In(0)} /\ x.rules \in Seq(Good(b)) /\ x.outs \in Seq(OutType) /\ Len(x.rules) \in Nat
      /\ \A i \in 1 .. Len(x.rules) : x.rules[i].from = {}
      /\ \A y \in x.bal : y \in BalType /\ y.tag = Upstream /\ ~y.closed
  BY BareFacts
<1>2. PICK l : PlainAt(x, b, l, {})
  BY DEF Bare
<1>3. f.rules \in Seq(Good(b)) /\ \E at : Unfolds(f.rules, x, d, x.rules, Len(x.rules), l, at)
  BY <1>2, EntrancesUnfold
<1>4. Kept(x.rules, f.rules, Abroad(b))
  <2>. DEFINE s == x.rules
              t == f.rules
  <2>1. s \in Seq(Good(b)) /\ t \in Seq(Good(b)) /\ (\E at : Unfolds(t, x, d, s, Len(s), l, at))
        /\ \A i \in 1 .. Len(s) : s[i].from = {}
    BY <1>1, <1>3
  <2>. HIDE DEF s, t
  <2>. QED  BY <2>1, UnfoldsKept DEF s, t, Abroad
<1>5. /\ f.ins = x.ins \cup {In(s) : s \in Slots} /\ f.outs = x.outs
      /\ f.bal = {[y EXCEPT !.closed = TRUE] : y \in x.bal} \cup {CountryBal(x, d, s) : s \in Balancing(x, d)}
      /\ f.seen = IF Balancing(x, d) = {} THEN x.seen ELSE x.seen \cup HeldNodes(x, d)
  BY <1>1, EntrancesFields
<1>6. Reopened(f.bal) = x.bal
  <2>. DEFINE back(y) == [y EXCEPT !.closed = FALSE]
              shut(y) == [y EXCEPT !.closed = TRUE]
  <2>1. \A y \in x.bal : shut(y).tag = Upstream /\ back(shut(y)) = y
    BY <1>1 DEF BalType
  <2>3. {z \in f.bal : z.tag = Upstream} = {shut(y) : y \in x.bal}
    <3>. HIDE DEF shut
    <3>1. f.bal = {shut(y) : y \in x.bal} \cup {CountryBal(x, d, s) : s \in Balancing(x, d)}
      BY <1>5 DEF shut
    <3>. QED  BY <2>1, <3>1, TagsApart DEF CountryBal
  <2>4. Reopened(f.bal) = {back(z) : z \in {shut(y) : y \in x.bal}}
    BY <2>3 DEF Reopened
  <2>. HIDE DEF back, shut
  <2>. QED  BY <2>1, <2>4
<1>7. {p \in f.seen : p[1] # "auto-via"} = x.seen
  <2>1. \A p \in x.seen : p[1] # "auto-via"
    BY DEF Bare
  <2>2. CASE Balancing(x, d) = {}
    BY <1>5, <2>1, <2>2
  <2>3. CASE Balancing(x, d) # {}
    <3>1. NodesThere(x) = Real(b)
      BY <1>2 DEF PlainAt, Furnished
    <3>2. \A n \in Real(b) : Node(n) \in x.seen
      BY <2>3, <3>1, BalancingUpstream DEF Bare
    <3>4. HeldNodes(x, d) \subseteq x.seen
      BY <3>2, <3>1 DEF HeldNodes, Lively, Usable, NodesThere
    <3>. QED  BY <1>5, <2>1, <2>3, <3>4
  <2>. QED  BY <2>2, <2>3
<1>. QED  BY <1>3, <1>4, <1>5, <1>6, <1>7, <1>1

(* Sending the rules for everything to the director keeps what is kept.    *)
LEMMA KeptSent ==
  ASSUME NEW b \in Database, NEW u \in Seq(Good(b)), NEW s \in Seq(Good(b)), Kept(u, s, Abroad(b)),
         NEW v, v = [i \in 1 .. Len(u) |-> Sent(u[i])], NEW t, t = [i \in 1 .. Len(s) |-> Sent(s[i])]
  PROVE  /\ v \in Seq(Good(b)) /\ Len(v) = Len(u) /\ t \in Seq(Good(b)) /\ Len(t) = Len(s)
         /\ Kept(v, t, Abroad(b))
<1>1. PICK h \in [1 .. Len(u) -> 1 .. Len(s)] :
        /\ \A k \in 1 .. Len(u) : s[h[k]] \in Abroad(b) /\ u[k] = s[h[k]]
        /\ \A k, l \in 1 .. Len(u) : k < l => h[k] < h[l]
        /\ \A i \in 1 .. Len(s) : s[i] \in Abroad(b) => \E k \in 1 .. Len(u) : h[k] = i
  BY Zenon DEF Kept
<1>2. /\ \A i \in 1 .. Len(u) : Sent(u[i]) \in Good(b)
      /\ \A i \in 1 .. Len(s) : s[i] \in Good(b) /\ Sent(s[i]) \in Good(b) /\ Sent(s[i]).from = s[i].from
      /\ Len(u) \in Nat /\ Len(s) \in Nat
  BY SentIs
<1>3. /\ v \in Seq(Good(b)) /\ Len(v) = Len(u) /\ t \in Seq(Good(b)) /\ Len(t) = Len(s)
      /\ (\A i \in 1 .. Len(u) : v[i] = Sent(u[i])) /\ \A i \in 1 .. Len(s) : t[i] = Sent(s[i])
  BY <1>2
<1>6. /\ h \in [1 .. Len(v) -> 1 .. Len(t)]
      /\ \A k \in 1 .. Len(v) : t[h[k]] \in Abroad(b) /\ v[k] = t[h[k]]
      /\ \A k, l \in 1 .. Len(v) : k < l => h[k] < h[l]
      /\ \A i \in 1 .. Len(t) : t[i] \in Abroad(b) => \E k \in 1 .. Len(v) : h[k] = i
  BY <1>1, <1>3, <1>2 DEF Abroad
<1>7. Kept(v, t, Abroad(b))
  BY <1>6, Zenon DEF Kept
<1>. QED  BY <1>3, <1>7

(* What is kept comes after what is dropped.                               *)
LEMMA KeptBehind ==
  ASSUME NEW A, NEW p \in Seq(A), NEW s \in Seq(A), NEW u \in Seq(A), NEW T,
         \A i \in 1 .. Len(p) : p[i] \notin T, Kept(u, s, T)
  PROVE  Kept(u, p \o s, T)
<1>2. <<>> \in Seq(A) /\ <<>> \o u = u
  OBVIOUS
<1>. QED  BY <1>2, KeptBoth, KeptNone

(* What is kept comes before what is dropped.                              *)
LEMMA KeptBefore ==
  ASSUME NEW A, NEW p \in Seq(A), NEW s \in Seq(A), NEW u \in Seq(A), NEW T,
         \A i \in 1 .. Len(p) : p[i] \notin T, Kept(u, s, T)
  PROVE  Kept(u, s \o p, T)
<1>2. <<>> \in Seq(A) /\ u \o <<>> = u
  OBVIOUS
<1>. QED  BY <1>2, KeptBoth, KeptNone

(* What is sent to the director comes back.                                *)
LEMMA SentBack ==
  ASSUME NEW r, Returned(r) = r, r \in RuleType
  PROVE  Returned(Sent(r)) = r
<1>2. CASE IsCatchAll(r) /\ r.to = Upstream
  BY <1>2 DEF Sent, RuleType, Returned
<1>3. CASE ~(IsCatchAll(r) /\ r.to = Upstream)
  BY <1>3 DEF Sent
<1>. QED  BY <1>2, <1>3

(* A bare file whose outbounds are kept as they are.                       *)
LEMMA OutsKept ==
  ASSUME NEW b \in Database, NEW x, Bare(x, b)
  PROVE  x.outs \in Seq(OutType) /\ Kept(x.outs, x.outs, Outer)
<1>. DEFINE s == x.outs
<1>. HIDE DEF s
<1>. QED  BY KeptAll, BareFacts DEF s, Outer, Bare, ToSet

(* A balancer that is not AUTO's is not opened again.                      *)
LEMMA ReopenedWider ==
  ASSUME NEW B, NEW y, y.tag # Upstream
  PROVE  Reopened(B \cup {y}) = Reopened(B)
<1>1. {z \in B \cup {y} : z.tag = Upstream} = {z \in B : z.tag = Upstream}
  OBVIOUS
<1>. QED  BY <1>1 DEF Reopened

(* What AddDirector writes leaves it too.                                  *)
LEMMA DirectingUndone ==
  ASSUME NEW b \in Database, NEW d \in Database, NEW x, Bare(x, b), NEW f, f = Entrances(x, d),
         NEW q, InLine(q, f, d), NEW g, g = Directing(f, d, q)
  PROVE  Undone(x, b, g)
<1>1. /\ f.rules \in Seq(Good(b)) /\ f.outs = x.outs /\ In(0) \in f.ins
      /\ Kept(x.rules, f.rules, Abroad(b)) /\ Reopened(f.bal) = x.bal
      /\ {p \in f.seen : p[1] # "auto-via"} = x.seen
  BY EntrancesUndone
<1>2. /\ x.rules \in Seq(Good(b)) /\ Len(x.rules) \in Nat
      /\ \A i \in 1 .. Len(x.rules) : x.rules[i] \in Good(b) /\ Returned(x.rules[i]) = x.rules[i]
  BY BareFacts
<1>3. /\ g.ins = f.ins \cup {Api} /\ g.outs = f.outs \o LoopOuts(q)
      /\ g.rules = InFront(q, f, d) \o [i \in DOMAIN f.rules |-> Sent(f.rules[i])]
      /\ g.bal = f.bal \cup {DirectorBal(f, d)} /\ g.seen = f.seen \cup Loops(f, d)
  BY DEF Directing
<1>. DEFINE s == f.rules
            r == x.rules
            v == [i \in 1 .. Len(r) |-> Sent(r[i])]
            t == [i \in 1 .. Len(s) |-> Sent(s[i])]
            p == InFront(q, f, d)
<1>4. g.rules = p \o t
  BY <1>1, <1>3
<1>5. r \in Seq(Good(b)) /\ s \in Seq(Good(b)) /\ Kept(r, s, Abroad(b))
  BY <1>1, <1>2
<1>6. /\ v \in Seq(Good(b)) /\ Len(v) = Len(r) /\ t \in Seq(Good(b)) /\ Len(t) = Len(s)
      /\ Kept(v, t, Abroad(b))
  <2>. HIDE DEF r, s
  <2>. QED  BY <1>5, KeptSent
<1>7. \A i \in 1 .. Len(v) : Returned(v[i]) = r[i]
  <2>. TAKE i \in 1 .. Len(v)
  <2>2. r[i] \in Good(b) /\ Returned(r[i]) = r[i] /\ v[i] = Sent(r[i])
    BY <1>2, <1>6
  <2>. HIDE DEF r, v
  <2>. QED  BY <2>2, SentBack, PlainTyped
<1>8. p \in Seq(Good(b)) /\ \A i \in 1 .. Len(p) : p[i] \notin Abroad(b)
  <2>1. Fronting(p, b, f, d)
    BY InFrontIs
  <2>. HIDE DEF p
  <2>. QED  BY <2>1 DEF Abroad, Insiders, Fronting
<1>. HIDE DEF p, t, v
<1>9. p \o t \in Seq(Good(b)) /\ Kept(v, p \o t, Abroad(b))
  BY <1>6, <1>8, ConcatIs, KeptBehind
<1>10. g.outs \in Seq(OutType) /\ Kept(x.outs, g.outs, Outer)
  <2>. DEFINE o == x.outs
              w == LoopOuts(q)
  <2>1. o \in Seq(OutType) /\ Kept(o, o, Outer)
    BY OutsKept
  <2>2. w \in Seq(OutType) /\ ToSet(w) = {Out(Loop(y), TRUE) : y \in Lively(f, d)}
    BY LoopOutsAre
  <2>3. g.outs = o \o w
    BY <1>1, <1>3
  <2>. HIDE DEF o, w
  <2>4. \A i \in 1 .. Len(w) : w[i] \notin Outer
    <3>. TAKE i \in 1 .. Len(w)
    <3>1. w[i] \in ToSet(w)
      BY <2>2 DEF ToSet
    <3>2. PICK y \in Lively(f, d) : w[i] = Out(Loop(y), TRUE)
      BY <2>2, <3>1
    <3>3. w[i].tag = Loop(y)
      BY <3>2, OutTag
    <3>4. Loop(y)[1] = "auto-via"
      BY TagsApart
    <3>5. w[i].tag[1] = "auto-via"
      BY <3>3, <3>4, Zenon
    <3>. QED  BY <3>5 DEF Outer
  <2>5. o \o w \in Seq(OutType) /\ Kept(o, o \o w, Outer)
    BY <2>1, <2>2, ConcatIs, <2>4, KeptBefore
  <2>. QED  BY <2>3, <2>5 DEF o
<1>11. Reopened(g.bal) = x.bal
  <2>1. DirectorBal(f, d).tag # Upstream
    BY TagsApart DEF DirectorBal
  <2>2. Reopened(f.bal \cup {DirectorBal(f, d)}) = Reopened(f.bal)
    BY <2>1, ReopenedWider, Zenon
  <2>. QED  BY <2>2, <1>1, <1>3
<1>12. {y \in g.seen : y[1] # "auto-via"} = x.seen
  BY TagsApart, <1>1, <1>3 DEF Loops
<1>13. In(0) \in g.ins
  BY <1>1, <1>3
<1>14. \E u \in Seq(Good(b)) : /\ Kept(u, g.rules, Abroad(b)) /\ Len(u) = Len(x.rules)
                               /\ \A i \in 1 .. Len(u) : Returned(u[i]) = x.rules[i]
  BY <1>4, <1>6, <1>7, <1>9 DEF r
<1>. QED  BY <1>4, <1>9, <1>10, <1>11, <1>12, <1>13, <1>14 DEF Undone

(* The layer of the countries can be taken off again.                      *)
LEMMA BareBack ==
  ASSUME NEW b \in Database, NEW d \in Database, NEW x, Bare(x, b)
  PROVE  Strip(Transform(x, d)) = x
<1>1. Strip(x) = x
  BY BareStripped
<1>2. CASE ~d.multi
  BY <1>1, <1>2 DEF Transform
<1>3. CASE d.multi
  <2>. DEFINE f == Entrances(x, d)
              g == AddDirector(f, d)
  <2>1. Transform(x, d) = g
    BY <1>1, <1>3 DEF Transform
  <2>2. CASE g = f
    <3>1. /\ f.rules \in Seq(Good(b)) /\ f.outs = x.outs /\ In(0) \in f.ins
          /\ Kept(x.rules, f.rules, Abroad(b)) /\ Reopened(f.bal) = x.bal
          /\ {p \in f.seen : p[1] # "auto-via"} = x.seen
      <4>. HIDE DEF f
      <4>. QED  BY EntrancesUndone DEF f
    <3>. HIDE DEF f, g
    <3>4. Undone(x, b, f)
      BY <3>1, BareFacts, OutsKept DEF Undone
    <3>. QED  BY <2>1, <2>2, <3>4, UndoneIs
  <2>3. CASE \E q : InLine(q, f, d) /\ g = Directing(f, d, q)
    <3>. HIDE DEF f, g
    <3>1. PICK q : InLine(q, f, d) /\ g = Directing(f, d, q)
      BY <2>3
    <3>. QED  BY <2>1, UndoneIs, <3>1, DirectingUndone DEF f
  <2>. HIDE DEF f, g
  <2>. QED  BY <2>2, <2>3, AddDirectorIs DEF g
<1>. QED  BY <1>2, <1>3

-----------------------------------------------------------------------------
(* What the pipeline leaves.                                               *)

(* The files have the same entrances, outbounds and balancers, and the     *)
(* same nodes are probed.                                                  *)
SameHouse(c, e) == c.ins = e.ins /\ c.outs = e.outs /\ c.bal = e.bal /\ c.seen = e.seen

(* No rule leads to the director.                                          *)
Straight(s) == \A r \in ToSet(s) : r.to # Director

(* A rule for Russia comes too late, after a block of everything.          *)
RuAfter(s) ==
  \E i, j \in 1 .. Len(s) : i < j /\ s[i] = Rule({}, {}, Block) /\ s[j] = Rule({}, {"ru"}, Direct)

(* What the layers leave of that.                                          *)
Unled(s, b) == Straight(s) /\ (Real(b) = {} => RuAfter(s))

(* Keeping, and adding before or after, leave the Russian rules after the  *)
(* block.                                                                  *)
LEMMA RuAfterKept ==
  ASSUME NEW A, NEW s \in Seq(A), NEW t \in Seq(A), NEW T, Kept(t, s, T), RuAfter(s),
         Rule({}, {}, Block) \in T, Rule({}, {"ru"}, Direct) \in T
  PROVE  RuAfter(t)
<1>. DEFINE all == Rule({}, {}, Block)
            ru == Rule({}, {"ru"}, Direct)
<1>1. PICK i \in 1 .. Len(s), j \in 1 .. Len(s) : i < j /\ s[i] = all /\ s[j] = ru
  BY DEF RuAfter
<1>2. all \in T /\ ru \in T
  OBVIOUS
<1>3. PICK h \in [1 .. Len(t) -> 1 .. Len(s)] :
        /\ \A k \in 1 .. Len(t) : s[h[k]] \in T /\ t[k] = s[h[k]]
        /\ \A k, l \in 1 .. Len(t) : k < l => h[k] < h[l]
        /\ \A x \in 1 .. Len(s) : s[x] \in T => \E k \in 1 .. Len(t) : h[k] = x
  BY Zenon DEF Kept
<1>. HIDE DEF all, ru
<1>4. PICK k \in 1 .. Len(t) : h[k] = i
  BY <1>1, <1>2, <1>3
<1>5. PICK l \in 1 .. Len(t) : h[l] = j
  BY <1>1, <1>2, <1>3
<1>6. t[k] = all /\ t[l] = ru
  BY <1>1, <1>3, <1>4, <1>5
<1>7. Len(t) \in Nat /\ Len(s) \in Nat
  OBVIOUS
<1>8. k < l
  BY <1>1, <1>3, <1>4, <1>5, <1>7
<1>. QED  BY <1>6, <1>8 DEF RuAfter, all, ru

(* The same, with rules in front.                                          *)
LEMMA RuAfterBehind ==
  ASSUME NEW A, NEW p \in Seq(A), NEW s \in Seq(A), RuAfter(s)
  PROVE  RuAfter(p \o s)
<1>1. PICK i \in 1 .. Len(s), j \in 1 .. Len(s) :
        i < j /\ s[i] = Rule({}, {}, Block) /\ s[j] = Rule({}, {"ru"}, Direct)
  BY DEF RuAfter
<1>. DEFINE t == p \o s
<1>3. /\ Len(p) + i \in 1 .. Len(t) /\ Len(p) + j \in 1 .. Len(t) /\ Len(p) + i < Len(p) + j
      /\ t[Len(p) + i] = s[i] /\ t[Len(p) + j] = s[j]
  BY <1>1, ConcatIs
<1>. HIDE DEF t
<1>. QED  BY <1>1, <1>3 DEF t, RuAfter

(* The same, with rules at the end.                                        *)
LEMMA RuAfterBefore ==
  ASSUME NEW A, NEW p \in Seq(A), NEW s \in Seq(A), RuAfter(s)
  PROVE  RuAfter(s \o p)
<1>1. PICK i \in 1 .. Len(s), j \in 1 .. Len(s) :
        i < j /\ s[i] = Rule({}, {}, Block) /\ s[j] = Rule({}, {"ru"}, Direct)
  BY DEF RuAfter
<1>. DEFINE t == s \o p
<1>. HIDE DEF t
<1>. QED  BY <1>1, ConcatIs DEF t, RuAfter

(* Without a real node there is no final rule, and what was to come before *)
(* it goes to the end.                                                     *)
LEMMA BeforeFinalIs ==
  ASSUME NEW b \in Database, NEW s \in Seq(PlainRules(b)), NEW l, CatchAllAt(s, l, Final(b)),
         NEW new \in Seq(PlainRules(b))
  PROVE  /\ Real(b) = {} => BeforeFinal(s, new) = s \o new
         /\ ToSet(BeforeFinal(s, new)) \subseteq ToSet(s) \cup ToSet(new)
<1>. DEFINE I == {i \in 1 .. Len(s) : IsFinal(s[i])}
            at == SelectInSeq(s, IsFinal)
            i0 == IF at = 0 THEN Len(s) + 1 ELSE at
            t == SubSeq(s, 1, i0 - 1) \o new \o SubSeq(s, i0, Len(s))
<1>0. Len(s) \in Nat
  OBVIOUS
<1>1. BeforeFinal(s, new) = t
  BY DEF BeforeFinal
<1>2. l \in 1 .. Len(s) /\ s[l] = Rule({}, {}, Final(b)) /\ \A i \in 1 .. Len(s) : i # l => ~IsCatchAll(s[i])
  BY DEF CatchAllAt
<1>4. at = IF I # {} THEN Min(I) ELSE 0
  BY DEF SelectInSeq
<1>5. Real(b) = {} => l \notin I
  BY FinalIs, <1>2 DEF Foreign, Block, IsNode, ToDe, Upstream, IsFinal, Rule
<1>6. CASE I = {}
  <2>. HIDE DEF at, I
  <2>2. t = s \o new
    <3>1. t = SubSeq(s, 1, Len(s) + 1 - 1) \o new \o SubSeq(s, Len(s) + 1, Len(s))
      BY <1>4, <1>6
    <3>2. SubSeq(s, 1, Len(s) + 1 - 1) = s /\ SubSeq(s, Len(s) + 1, Len(s)) = <<>>
      BY <1>0
    <3>3. (s \o new) \o <<>> = s \o new
      BY <1>0
    <3>. QED  BY <3>1, <3>2, <3>3
  <2>. HIDE DEF t
  <2>. QED  BY <1>1, <2>2, ConcatIs
<1>7. CASE I # {}
  <2>1. I = {l} /\ Real(b) # {}
    BY <1>5, <1>7, <1>2 DEF IsFinal
  <2>3. at = l /\ l # 0
    <3>. HIDE DEF at, I
    <3>. QED  BY <2>1, <1>2, <1>4, <1>7, <1>0 DEF Min
  <2>. HIDE DEF at, I
  <2>. DEFINE u == SubSeq(s, 1, l - 1)
              z == SubSeq(s, l, Len(s))
  <2>4. t = u \o new \o z
    BY <2>3
  <2>5. u \in Seq(PlainRules(b)) /\ z \in Seq(PlainRules(b)) /\ ToSet(u) \subseteq ToSet(s) /\ ToSet(z) \subseteq ToSet(s)
    BY <1>0, <1>2 DEF ToSet
  <2>. HIDE DEF t, u, z
  <2>6. u \o new \in Seq(PlainRules(b)) /\ ToSet(u \o new) = ToSet(u) \cup ToSet(new)
    BY <2>5, ConcatIs
  <2>7. ToSet((u \o new) \o z) = ToSet(u \o new) \cup ToSet(z)
    <3>. DEFINE w == u \o new
    <3>1. w \in Seq(PlainRules(b))
      BY <2>6
    <3>. HIDE DEF w
    <3>2. ToSet(w \o z) = ToSet(w) \cup ToSet(z)
      BY <2>5, <3>1, ConcatIs
    <3>. QED  BY <3>2 DEF w
  <2>. QED  BY <1>1, <2>1, <2>4, <2>5, <2>6, <2>7
<1>. QED  BY <1>6, <1>7

(* Rules taken from two straight lists are straight.                       *)
LEMMA StraightWider ==
  ASSUME NEW s, NEW t, NEW u, ToSet(u) \subseteq ToSet(s) \cup ToSet(t), Straight(s), Straight(t)
  PROVE  Straight(u)
BY DEF Straight

(* The rules that the layers add do not lead to the director.              *)
LEMMA NewStraight ==
  ASSUME NEW b \in Database, NEW c \in Files
  PROVE  Straight(RuRules) /\ Straight(DnsRules(c)) /\ Straight(<<GovRule>>)
<1>1. Straight(RuRules)
  BY RuRulesIs DEF Straight, RuSet, Rule, Direct, Director
<1>2. Straight(DnsRules(c))
  BY UpstreamOfIs, DnsRulesIs DEF Foreign, IsNode, ToDe, Upstream, Director, Direct, Straight, Rule
<1>3. Straight(<<GovRule>>)
  <2>1. ToSet(<<GovRule>>) = {GovRule}
    <3>. DEFINE x == GovRule
    <3>. HIDE DEF x
    <3>. QED  BY OneIs DEF x
  <2>. QED  BY <2>1 DEF Straight, GovRule, Rule, Block, Director
<1>. QED  BY <1>1, <1>2, <1>3

(* New rules do not change the house.                                      *)
LEMMA RulesPut ==
  ASSUME NEW c \in Files, NEW t
  PROVE  [c EXCEPT !.rules = t].rules = t /\ SameHouse([c EXCEPT !.rules = t], c)
BY DEF Files, SameHouse

(* What a layer keeps of a file that no rule leads to the director.        *)
LEMMA KeptUnled ==
  ASSUME NEW b \in Database, NEW s \in Seq(PlainRules(b)), NEW t \in Seq(PlainRules(b)), NEW T, Kept(t, s, T),
         Straight(s)
  PROVE  /\ Straight(t)
         /\ Rule({}, {}, Block) \in T /\ Rule({}, {"ru"}, Direct) \in T /\ RuAfter(s) => RuAfter(t)
BY RuAfterKept, KeptSet DEF Straight

(* The Russian rules are put before the final one, and after a block of    *)
(* everything.                                                             *)
LEMMA BaseRuUnled ==
  ASSUME NEW b \in Database, NEW c, NEW l, PlainAt(c, b, l, OwnRules(b)), Straight(c.rules)
  PROVE  Unled(BaseRu(c).rules, b) /\ SameHouse(BaseRu(c), c)
<1>. DEFINE T == {r \in PlainRules(b) : ~IsBaseRu(r)}
            s == c.rules
            t == Keep(s, LAMBDA r : ~IsBaseRu(r))
            last == Rule({}, {}, Final(b))
            z == BeforeFinal(t, RuRules)
<1>1. s \in Seq(PlainRules(b)) /\ CatchAllAt(s, l, Final(b)) /\ c \in Files
  BY DEF PlainAt, Furnished
<1>2. BaseRu(c) = [c EXCEPT !.rules = z]
  BY DEF BaseRu
<1>3. t \in Seq(PlainRules(b)) /\ Kept(t, s, T)
  BY <1>1, KeepIs
<1>4. last \in T
  BY LayersRules DEF IsBaseRu, Rule
<1>. HIDE DEF t, T, s, last
<1>5. PICK k : CatchAllAt(t, k, Final(b))
  BY <1>1, <1>3, <1>4, KeptRules DEF last
<1>6. Straight(t)
  BY <1>1, <1>3, KeptUnled DEF s
<1>7. RuRules \in Seq(PlainRules(b)) /\ Straight(RuRules)
  BY <1>1, RuRulesIs, NewStraight
<1>8. /\ Real(b) = {} => z = t \o RuRules
      /\ ToSet(z) \subseteq ToSet(t) \cup ToSet(RuRules)
  BY <1>3, <1>5, <1>7, BeforeFinalIs
<1>9. Straight(z)
  BY <1>6, <1>7, <1>8, StraightWider
<1>10. ASSUME Real(b) = {} PROVE RuAfter(z)
  <2>1. k \in 1 .. Len(t) /\ t[k] = Rule({}, {}, Block)
    BY <1>5, <1>10, FinalIs DEF CatchAllAt
  <2>3. PICK j \in 1 .. Len(RuRules) : RuRules[j] = Rule({}, {"ru"}, Direct)
    BY RuRulesIs DEF ToSet, RuSet
  <2>. DEFINE u == RuRules
  <2>4. /\ Len(t \o u) = Len(t) + Len(u) /\ Len(t) \in Nat /\ Len(u) \in Nat
        /\ \A i \in 1 .. Len(t) : (t \o u)[i] = t[i]
        /\ \A i \in 1 .. Len(u) : (t \o u)[Len(t) + i] = u[i]
    BY <1>3, <1>7, ConcatIs
  <2>. HIDE DEF z, u
  <2>6. /\ k \in 1 .. Len(z) /\ Len(t) + j \in 1 .. Len(z) /\ k < Len(t) + j
        /\ z[k] = Rule({}, {}, Block) /\ z[Len(t) + j] = Rule({}, {"ru"}, Direct)
    BY <2>1, <2>3, <2>4, <1>8, <1>10 DEF u
  <2>. QED  BY <2>6 DEF RuAfter
<1>. HIDE DEF z
<1>. QED  BY <1>9, <1>10, <1>1, <1>2, RulesPut DEF Unled

(* The rules of the name servers leave that so.                            *)
LEMMA SplitDnsUnled ==
  ASSUME NEW b \in Database, NEW c, NEW l, NEW S, PlainAt(c, b, l, S), Unled(c.rules, b)
  PROVE  Unled(SplitDns(c).rules, b) /\ SameHouse(SplitDns(c), c)
<1>. DEFINE T == {r \in PlainRules(b) : ~IsOldDns(r)}
            s == c.rules
            t == Keep(s, LAMBDA r : ~IsOldDns(r))
            last == Rule({}, {}, Final(b))
            new == DnsRules(c)
            z == BeforeFinal(t, new)
<1>1. s \in Seq(PlainRules(b)) /\ CatchAllAt(s, l, Final(b)) /\ c \in Files
  BY DEF PlainAt, Furnished
<1>2. SplitDns(c) = [c EXCEPT !.rules = z]
  BY DEF SplitDns
<1>3. t \in Seq(PlainRules(b)) /\ Kept(t, s, T)
  BY <1>1, KeepIs
<1>4. last \in T /\ Rule({}, {"ru"}, Direct) \in T
  BY LayersRules DEF IsOldDns, Rule
<1>11. Real(b) = {} => Rule({}, {}, Block) \in T
  BY <1>4, FinalIs
<1>. HIDE DEF t, T, s, last, new
<1>5. PICK k : CatchAllAt(t, k, Final(b))
  BY <1>1, <1>3, <1>4, KeptRules DEF last
<1>6. Straight(t) /\ (Real(b) = {} => RuAfter(t))
  BY <1>1, <1>3, <1>4, <1>11, KeptUnled DEF s, Unled
<1>7. new \in Seq(PlainRules(b)) /\ Straight(new)
  BY <1>1, DnsRulesIs, NewStraight DEF new
<1>8. /\ Real(b) = {} => z = t \o new
      /\ ToSet(z) \subseteq ToSet(t) \cup ToSet(new)
  BY <1>3, <1>5, <1>7, BeforeFinalIs
<1>9. Straight(z) /\ (Real(b) = {} => RuAfter(z))
  <2>. HIDE DEF z
  <2>. QED  BY <1>6, <1>8, <1>7, StraightWider, <1>3, RuAfterBefore
<1>. HIDE DEF z
<1>. QED  BY <1>9, <1>1, <1>2, RulesPut DEF Unled

(* The rule of the blocked destinations leaves it so.                      *)
LEMMA GovBlockUnled ==
  ASSUME NEW b \in Database, NEW c, NEW l, NEW S, PlainAt(c, b, l, S), Unled(c.rules, b)
  PROVE  Unled(GovBlock(c).rules, b) /\ SameHouse(GovBlock(c), c)
<1>. DEFINE T == {r \in PlainRules(b) : ~IsGov(r)}
            s == c.rules
            t == Keep(s, LAMBDA r : ~IsGov(r))
            last == Rule({}, {}, Final(b))
            g == <<GovRule>>
            z == g \o t
<1>1. s \in Seq(PlainRules(b)) /\ CatchAllAt(s, l, Final(b)) /\ c \in Files
  BY DEF PlainAt, Furnished
<1>2. GovBlock(c) = [c EXCEPT !.rules = z]
  BY DEF GovBlock
<1>3. t \in Seq(PlainRules(b)) /\ Kept(t, s, T)
  BY <1>1, KeepIs
<1>4. last \in T /\ Rule({}, {"ru"}, Direct) \in T
  BY LayersRules DEF IsGov, Rule, Direct, Block
<1>11. Real(b) = {} => Rule({}, {}, Block) \in T
  BY <1>4, FinalIs
<1>. HIDE DEF t, T, s, last
<1>6. Straight(t) /\ (Real(b) = {} => RuAfter(t))
  BY <1>1, <1>3, <1>4, <1>11, KeptUnled DEF s, Unled
<1>7. g \in Seq(PlainRules(b)) /\ Straight(g)
  BY LayersRules, <1>1, NewStraight, OneIs
<1>. HIDE DEF g
<1>8. ToSet(z) = ToSet(g) \cup ToSet(t) /\ (RuAfter(t) => RuAfter(z))
  BY <1>3, <1>7, ConcatIs, RuAfterBehind
<1>. HIDE DEF z
<1>10. GovBlock(c).rules = z /\ SameHouse(GovBlock(c), c)
  BY <1>1, <1>2, RulesPut
<1>. QED  BY <1>10, <1>6, <1>7, <1>8, StraightWider DEF Unled

(* The layer of the panel leaves it so.                                    *)
LEMMA OverrideUnled ==
  ASSUME NEW b \in Database, NEW c, NEW l, NEW S, PlainAt(c, b, l, S), Unled(c.rules, b)
  PROVE  Unled(Override(c).rules, b) /\ SameHouse(Override(c), c)
<1>. DEFINE T == {r \in PlainRules(b) : ~IsGov(r) /\ ~IsDns(r)}
            s == c.rules
            t == Keep(s, LAMBDA r : ~IsGov(r) /\ ~IsDns(r))
            last == Rule({}, {}, Final(b))
            g == <<GovRule>>
            new == DnsRules(c)
            p == g \o new
            z == g \o new \o t
<1>1. s \in Seq(PlainRules(b)) /\ CatchAllAt(s, l, Final(b)) /\ c \in Files
  BY DEF PlainAt, Furnished
<1>2. Override(c) = [c EXCEPT !.rules = z]
  BY DEF Override
<1>3. t \in Seq(PlainRules(b)) /\ Kept(t, s, T)
  BY <1>1, KeepIs
<1>4. last \in T /\ Rule({}, {"ru"}, Direct) \in T
  BY LayersRules DEF IsGov, IsDns, Rule, Direct, Block
<1>11. Real(b) = {} => Rule({}, {}, Block) \in T
  BY <1>4, FinalIs
<1>. HIDE DEF t, T, s, last
<1>6. Straight(t) /\ (Real(b) = {} => RuAfter(t))
  BY <1>1, <1>3, <1>4, <1>11, KeptUnled DEF s, Unled
<1>7. g \in Seq(PlainRules(b)) /\ Straight(g)
  BY LayersRules, <1>1, NewStraight, OneIs
<1>12. new \in Seq(PlainRules(b)) /\ Straight(new)
  BY <1>1, DnsRulesIs, NewStraight DEF new
<1>. HIDE DEF g, new
<1>13. p \in Seq(PlainRules(b)) /\ Straight(p)
  <2>1. p \in Seq(PlainRules(b)) /\ ToSet(p) = ToSet(g) \cup ToSet(new)
    BY <1>7, <1>12, ConcatIs
  <2>. HIDE DEF p
  <2>. QED  BY <2>1, <1>7, <1>12, StraightWider
<1>14. z = p \o t
  OBVIOUS
<1>. HIDE DEF p, z
<1>8. ToSet(p \o t) = ToSet(p) \cup ToSet(t) /\ (RuAfter(t) => RuAfter(p \o t))
  BY <1>3, <1>13, ConcatIs, RuAfterBehind
<1>9. Straight(z) /\ (Real(b) = {} => RuAfter(z))
  BY <1>6, <1>8, <1>13, <1>14, StraightWider
<1>. QED  BY <1>9, <1>1, <1>2, RulesPut DEF Unled

(* The renderer does not know the director.                                *)
LEMMA RenderStraight ==
  ASSUME NEW d \in Database
  PROVE  Straight(Render(d).rules)
<1>. DEFINE a == Customs(d)
            z == IF d.geoip THEN RuRules ELSE <<>>
            p == a \o z
            last == Rule({}, {}, Final(d))
            o == <<last>>
<1>1. Render(d).rules = a \o z \o o
  BY DEF Render
<1>2. a = IF d.own = "none" THEN <<>> ELSE <<Rule({}, {"own"}, OwnTo(d))>>
  BY DEF Database, Policies, Customs, OwnTo
<1>3. Final(d) # Director /\ OwnTo(d) # Director
  BY FinalPlace DEF OwnTo, Direct, Block, Director
<1>4. a \in Seq(RuleType) /\ Straight(a)
  <2>1. CASE d.own = "none"
    BY <1>2, <2>1 DEF Straight, ToSet
  <2>2. CASE d.own # "none"
    <3>. DEFINE r == Rule({}, {"own"}, OwnTo(d))
    <3>1. r \in RuleType /\ r.to # Director
      BY <1>3, LayersRules, PlainTyped DEF Rule
    <3>. HIDE DEF r
    <3>. HIDE DEF a
    <3>. QED  BY <3>1, <1>2, <2>2, OneIs DEF Straight, r
  <2>. QED  BY <2>1, <2>2
<1>5. z \in Seq(RuleType) /\ Straight(z)
  <2>1. Straight(RuRules)
    BY RuRulesIs DEF Straight, RuSet, Rule, Direct, Director
  <2>. QED  BY <2>1, RuRulesIs, PlainTyped, SeqWider DEF Straight, ToSet
<1>6. o \in Seq(RuleType) /\ Straight(o)
  <2>1. last \in RuleType /\ last.to # Director
    BY <1>3, LayersRules, PlainTyped DEF Rule
  <2>. HIDE DEF last
  <2>. QED  BY <2>1, OneIs DEF Straight
<1>. HIDE DEF a, z, o
<1>7. p \in Seq(RuleType) /\ ToSet(p) = ToSet(a) \cup ToSet(z)
  BY <1>4, <1>5, ConcatIs
<1>8. a \o z \o o = p \o o
  OBVIOUS
<1>. HIDE DEF p
<1>10. Straight(p \o o)
  BY <1>4, <1>5, <1>6, <1>7, ConcatIs DEF Straight
<1>. QED  BY <1>1, <1>8, <1>10

(* The outbounds of the whole pipeline.                                    *)
PipeOuts(d, had) == IF had THEN <<Out(ToDe, TRUE)>> \o Render(d).outs ELSE Render(d).outs

(* What Preserve adds.                                                     *)
LEMMA PreserveHouse ==
  ASSUME NEW d \in Database, NEW had \in BOOLEAN, NEW c \in Files, SameHouse(c, Render(d)),
         NEW e, e = Preserve(c, had)
  PROVE  /\ e.rules = c.rules /\ e.ins = Render(d).ins /\ e.outs = PipeOuts(d, had)
         /\ e.bal = Render(d).bal /\ e.seen = Render(d).seen
<1>1. ToDe \notin Tags(c)
  <2>1. \A o \in ToSet(c.outs) : o.tag[1] \in {"upstream", "direct-ru", "block"}
    BY RenderOuts DEF SameHouse
  <2>. QED  BY <2>1 DEF Tags, ToDe
<1>. QED  BY <1>1 DEF SameHouse, PipeOuts, Files, Preserve

(* The file of the whole pipeline, with what the layers leave it.          *)
Piped(c, d, had) ==
  /\ \E l : PlainAt(c, d, l, Solid(d))
  /\ Unled(c.rules, d)
  /\ c.ins = Render(d).ins /\ c.outs = PipeOuts(d, had) /\ c.bal = Render(d).bal /\ c.seen = Render(d).seen

(* The pipeline leaves such a file.                                        *)
LEMMA PipelineIs ==
  ASSUME NEW d \in Database, NEW had \in BOOLEAN
  PROVE  Piped(Pipeline(d, had), d, had) /\ Pipeline(d, had).rules # <<>> /\ Pipeline(d, had).rules[1] = GovRule
<1>. DEFINE c1 == BaseRu(Render(d))
            c2 == Preserve(c1, had)
            c3 == SplitDns(c2)
            c4 == GovBlock(c3)
            c5 == Override(c4)
<1>0. Pipeline(d, had) = c5
  BY DEF Pipeline
<1>1. PICK l1 : PlainAt(Render(d), d, l1, OwnRules(d))
  BY RenderPlain
<1>2. PICK l2 : PlainAt(c1, d, l2, Solid(d))
  BY <1>1, BaseRuPlain DEF Solid
<1>3. Unled(c1.rules, d) /\ SameHouse(c1, Render(d)) /\ c1 \in Files
  BY <1>1, <1>2, RenderStraight, BaseRuUnled DEF PlainAt, Furnished
<1>. HIDE DEF c1
<1>4. PlainAt(c2, d, l2, Solid(d))
  BY <1>2, PreservePlain
<1>5. Unled(c2.rules, d) /\ c2.ins = Render(d).ins /\ c2.outs = PipeOuts(d, had)
      /\ c2.bal = Render(d).bal /\ c2.seen = Render(d).seen
  BY <1>3, PreserveHouse
<1>. HIDE DEF c2
<1>6. PICK l3 : PlainAt(c3, d, l3, Solid(d))
  BY <1>4, SplitDnsPlain, SolidLasts
<1>7. Unled(c3.rules, d) /\ SameHouse(c3, c2)
  BY <1>4, <1>5, SplitDnsUnled
<1>. HIDE DEF c3
<1>8. PICK l4 : PlainAt(c4, d, l4, Solid(d))
  BY <1>6, GovBlockPlain, SolidLasts
<1>9. Unled(c4.rules, d) /\ SameHouse(c4, c3)
  BY <1>6, <1>7, GovBlockUnled
<1>. HIDE DEF c4
<1>10. /\ \E k : PlainAt(c5, d, k, Solid(d))
       /\ c5.rules # <<>> /\ c5.rules[1] = GovRule
  BY <1>8, OverridePlain, SolidLasts
<1>11. Unled(c5.rules, d) /\ SameHouse(c5, c4)
  BY <1>8, <1>9, OverrideUnled
<1>. HIDE DEF c5
<1>12. c5.ins = Render(d).ins /\ c5.outs = PipeOuts(d, had)
       /\ c5.bal = Render(d).bal /\ c5.seen = Render(d).seen
  BY <1>5, <1>7, <1>9, <1>11 DEF SameHouse
<1>. QED  BY <1>0, <1>10, <1>11, <1>12 DEF Piped

(* Its outbounds: to-de when there was one, and no loops.                  *)
LEMMA PipeOutsAre ==
  ASSUME NEW d \in Database, NEW had \in BOOLEAN
  PROVE  /\ PipeOuts(d, had) \in Seq(OutType)
         /\ \A o \in ToSet(PipeOuts(d, had)) : o.tag[1] # "auto-via"
         /\ Out(ToDe, TRUE) \in ToSet(PipeOuts(d, had)) <=> had
<1>. DEFINE r == Render(d).outs
            x == Out(ToDe, TRUE)
            o1 == <<x>>
<1>1. r \in Seq(OutType) /\ \A o \in ToSet(r) : o.tag[1] \in {"upstream", "direct-ru", "block"}
  BY RenderOuts
<1>2. x \in OutType /\ x.tag[1] = "to-de"
  BY PlacesThere, OutTag DEF Out, OutType, ToDe
<1>. HIDE DEF r, x
<1>4. o1 \in Seq(OutType) /\ ToSet(o1) = {x}
  BY <1>2, OneIs
<1>. HIDE DEF o1
<1>5. o1 \o r \in Seq(OutType) /\ ToSet(o1 \o r) = {x} \cup ToSet(r)
  BY <1>1, <1>4, ConcatIs
<1>6. PipeOuts(d, had) = IF had THEN o1 \o r ELSE r
  BY DEF PipeOuts, o1, x, r
<1>7. CASE had
  BY <1>1, <1>2, <1>5, <1>6, <1>7 DEF x
<1>8. CASE ~had
  BY <1>1, <1>6, <1>8, <1>2 DEF x
<1>. QED  BY <1>7, <1>8

(* The nodes that are probed.                                              *)
LEMMA RenderSeen ==
  ASSUME NEW d \in Database
  PROVE  Render(d).seen = IF Final(d) = Upstream THEN {Node(n) : n \in Real(d)} ELSE {}
BY DEF Render

(* Such a file is bare.                                                    *)
LEMMA PipedBare ==
  ASSUME NEW d \in Database, NEW had \in BOOLEAN, NEW c, Piped(c, d, had)
  PROVE  Bare(c, d) /\ (ToDe \in RealTags(c) <=> had)
<1>1. PICK l : PlainAt(c, d, l, Solid(d))
  BY DEF Piped
<1>3. Straight(c.rules) /\ c.outs = PipeOuts(d, had) /\ c.seen = Render(d).seen
  BY DEF Piped, Unled
<1>4. \A i \in 1 .. Len(c.rules) : c.rules[i].to # Director
  BY <1>3 DEF Straight, ToSet
<1>5. \A o \in ToSet(c.outs) : o.tag[1] # "auto-via"
  BY <1>3, PipeOutsAre
<1>6. /\ \A p \in c.seen : p[1] # "auto-via"
      /\ Final(d) = Upstream => \A n \in Real(d) : Node(n) \in c.seen
  <2>1. c.seen = IF Final(d) = Upstream THEN {Node(n) : n \in Real(d)} ELSE {}
    BY <1>3, RenderSeen
  <2>. QED  BY <2>1 DEF Node
<1>7. Bare(c, d)
  BY <1>4, <1>5, <1>6, <1>1, PlainSame DEF Bare
<1>. QED  BY <1>7, <1>3, PipeOutsAre, RealTagged

(* What the countries are does not change what the pipeline builds.        *)
LEMMA SamePipeline ==
  ASSUME NEW b \in Database, NEW d \in Database, d.node = b.node, d.own = b.own, d.geoip = b.geoip, NEW had
  PROVE  Pipeline(d, had) = Pipeline(b, had)
<1>1. Real(d) = Real(b)
  BY DEF Real
<1>4. Render(d) = Render(b)
  BY <1>1 DEF Render, Customs, Final
<1>. QED  BY <1>4 DEF Pipeline

-----------------------------------------------------------------------------
(* Files that are like the pipeline's.                                     *)

(* Something leaves directly, but only after a block of everything.        *)
Late(s) ==
  \E i, j \in 1 .. Len(s) : /\ i < j /\ s[i].from = {} /\ s[i].match = {} /\ s[i].to = Block
                            /\ s[j].from = {} /\ s[j].to = Direct

(* Russian rules after a block are late.                                   *)
LEMMA AfterIsLate ==
  ASSUME NEW s, RuAfter(s)
  PROVE  Late(s)
<1>1. PICK i \in 1 .. Len(s), j \in 1 .. Len(s) :
        i < j /\ s[i] = Rule({}, {}, Block) /\ s[j] = Rule({}, {"ru"}, Direct)
  BY DEF RuAfter
<1>. QED  BY <1>1 DEF Late, Rule

(* Joining neighbours leaves late what was late.                           *)
LEMMA LateJoined ==
  ASSUME NEW s \in Seq(RuleType), NEW t \in Seq(RuleType), NEW g, Joined(t, s, Len(s), g), Late(s)
  PROVE  Late(t)
<1>. DEFINE n == Len(s)
<1>0. Joined(t, s, n, g)
  OBVIOUS
<1>1. /\ \A i \in 1 .. Len(s) : /\ g[i] \in 1 .. Len(t) /\ t[g[i]].from = s[i].from /\ t[g[i]].to = s[i].to
                                /\ (s[i].match = {} \/ s[i].from # {} => t[g[i]] = s[i])
      /\ \A h, j \in 1 .. Len(s) : h <= j => g[h] <= g[j]
  BY <1>0 DEF Joined, Class
<1>2. PICK i \in 1 .. Len(s), j \in 1 .. Len(s) :
        /\ i < j /\ s[i].from = {} /\ s[i].match = {} /\ s[i].to = Block
        /\ s[j].from = {} /\ s[j].to = Direct
  BY DEF Late
<1>3. /\ g[i] \in 1 .. Len(t) /\ g[j] \in 1 .. Len(t) /\ g[i] <= g[j]
      /\ t[g[i]] = s[i] /\ t[g[j]].from = {} /\ t[g[j]].to = Direct
  <2>3. g[i] <= g[j]
    BY <1>1, <1>2
  <2>. QED  BY <2>3, <1>1, <1>2
<1>5. g[i] < g[j]
  BY <1>3, <1>2 DEF Block, Direct
<1>. QED  BY <1>2, <1>3, <1>5 DEF Late

(* So does taking the countries off, and putting them on.                  *)
LEMMA LateStripped ==
  ASSUME NEW b \in Database, NEW c, c.rules \in Seq(Good(b))
  PROVE  Late(c.rules) <=> Late(Strip(c).rules)
<1>1. PICK u \in Seq(Good(b)) :
        /\ Kept(u, c.rules, {r \in Good(b) : r.from = {}})
        /\ Strip(c).rules = [i \in 1 .. Len(u) |-> Returned(u[i])]
  BY StripRules
<1>. DEFINE s == c.rules
            v == Strip(c).rules
            T == {r \in Good(b) : r.from = {}}
<1>2. PICK h \in [1 .. Len(u) -> 1 .. Len(s)] :
        /\ \A k \in 1 .. Len(u) : s[h[k]] \in T /\ u[k] = s[h[k]]
        /\ \A k, l \in 1 .. Len(u) : k < l => h[k] < h[l]
        /\ \A i \in 1 .. Len(s) : s[i] \in T => \E k \in 1 .. Len(u) : h[k] = i
  BY <1>1, Zenon DEF Kept
<1>3. Len(v) = Len(u) /\ Len(u) \in Nat /\ Len(s) \in Nat /\ \A k \in 1 .. Len(u) : v[k] = Returned(u[k])
  BY <1>1
<1>4. (\A k \in 1 .. Len(u) : u[k] \in RuleType) /\ \A i \in 1 .. Len(s) : s[i] \in Good(b)
  BY PlainTyped
<1>5. Upstream # Block /\ Upstream # Direct /\ Block # Director /\ Direct # Director
  BY DEF Upstream, Block, Direct, Director
<1>. HIDE DEF v, s
<1>6. ASSUME NEW k \in 1 .. Len(u)
      PROVE  /\ v[k].from = u[k].from /\ v[k].match = u[k].match
             /\ v[k].to \in {Block, Direct} <=> u[k].to \in {Block, Direct}
             /\ u[k].to \in {Block, Direct} => v[k].to = u[k].to
  BY <1>3, <1>4, ReturnedIs, <1>5
<1>7. ASSUME Late(s) PROVE Late(v)
  <2>1. PICK i \in 1 .. Len(s), j \in 1 .. Len(s) :
          /\ i < j /\ s[i].from = {} /\ s[i].match = {} /\ s[i].to = Block
          /\ s[j].from = {} /\ s[j].to = Direct
    BY <1>7 DEF Late
  <2>2. PICK k \in 1 .. Len(u) : h[k] = i
    BY <1>2, <1>4, <2>1
  <2>3. PICK l \in 1 .. Len(u) : h[l] = j
    BY <1>2, <1>4, <2>1
  <2>4. u[k] = s[i] /\ u[l] = s[j]
    BY <1>2, <2>2, <2>3
  <2>5. k < l
    BY <1>2, <1>3, <2>1, <2>2, <2>3
  <2>. QED  BY <1>3, <2>5, <1>6, <2>1, <2>4 DEF Late
<1>8. ASSUME Late(v) PROVE Late(s)
  <2>1. PICK k \in 1 .. Len(u), l \in 1 .. Len(u) :
          /\ k < l /\ v[k].from = {} /\ v[k].match = {} /\ v[k].to = Block
          /\ v[l].from = {} /\ v[l].to = Direct
    BY <1>3, <1>8 DEF Late
  <2>2. /\ u[k].from = {} /\ u[k].match = {} /\ u[k].to = Block
        /\ u[l].from = {} /\ u[l].to = Direct
    BY <1>6, <2>1
  <2>3. h[k] \in 1 .. Len(s) /\ h[l] \in 1 .. Len(s) /\ h[k] < h[l] /\ u[k] = s[h[k]] /\ u[l] = s[h[l]]
    BY <1>2, <2>1
  <2>. QED  BY <2>2, <2>3 DEF Late
<1>. QED  BY <1>7, <1>8 DEF s, v

(* With a rule for everything, something is always said.                   *)
LEMMA SaysSomething ==
  ASSUME NEW s, Len(s) \in Nat, NEW l, NEW to, CatchAllAt(s, l, to), NEW dest
  PROVE  \E a : Says(s, dest, a)
<1>1. l \in 1 .. Len(s) /\ s[l] = Rule({}, {}, to)
  BY DEF CatchAllAt
<1>2. Fits(s[l], In(0), dest)
  BY <1>1 DEF Fits, Rule
<1>3. PICK i \in 1 .. l : FirstFit(s, i, In(0), dest)
  BY <1>1, <1>2, FirstThere
<1>. QED  BY <1>3 DEF Says, FirstFit

(* What is said of a file was said by the file that it is the rest of.     *)
LEMMA SaidBefore ==
  ASSUME NEW b \in Database, NEW g, g.rules \in Seq(Good(b)), NEW l, NEW to, CatchAllAt(g.rules, l, to),
         Len(Strip(g).rules) \in Nat, NEW dest, NEW a, Says(Strip(g).rules, dest, a)
  PROVE  Says(g.rules, dest, a)
<1>1. Len(g.rules) \in Nat
  OBVIOUS
<1>2. PICK x : Says(g.rules, dest, x)
  BY <1>1, SaysSomething
<1>. QED  BY <1>2, SaysOne, StripSays

(* The file x is what the pipeline built, but for neighbouring lists that  *)
(* are joined.                                                             *)
Likens(x, b, had) ==
  LET p == Pipeline(b, had) IN
  /\ Bare(x, b) /\ SameHouse(x, p)
  /\ \A dest, a : Says(p.rules, dest, a) => Says(x.rules, dest, a)
  /\ Real(b) = {} => Late(x.rules)

(* The pipeline's own file is like itself.                                 *)
LEMMA PipelineLikens ==
  ASSUME NEW b \in Database, NEW had \in BOOLEAN
  PROVE  Likens(Pipeline(b, had), b, had)
<1>. DEFINE p == Pipeline(b, had)
<1>1. Piped(p, b, had)
  BY PipelineIs
<1>. HIDE DEF p
<1>2. Bare(p, b) /\ (Real(b) = {} => Late(p.rules))
  BY <1>1, PipedBare, AfterIsLate DEF Piped, Unled
<1>. QED  BY <1>2 DEF Likens, SameHouse, p

(* Files of one house are of one house without the countries.              *)
LEMMA StripHouse ==
  ASSUME NEW c, NEW e, SameHouse(c, e)
  PROVE  SameHouse(Strip(c), Strip(e))
<1>1. c.ins = e.ins /\ c.outs = e.outs /\ c.bal = e.bal /\ c.seen = e.seen
  BY DEF SameHouse
<1>4. Strip(c).bal = Strip(e).bal
  BY <1>1 DEF Strip
<1>5. Strip(c).seen = Strip(e).seen
  BY <1>1 DEF Strip
<1>. QED  BY <1>4, <1>5, <1>1 DEF SameHouse, Strip

(* Without the countries nothing leads to the director.                    *)
LEMMA StripReturned ==
  ASSUME NEW b \in Database, NEW c, c.rules \in Seq(Good(b))
  PROVE  Len(Strip(c).rules) \in Nat /\ \A i \in 1 .. Len(Strip(c).rules) : Strip(c).rules[i].to # Director
<1>1. PICK u \in Seq(Good(b)) :
        /\ Kept(u, c.rules, {r \in Good(b) : r.from = {}})
        /\ Strip(c).rules = [i \in 1 .. Len(u) |-> Returned(u[i])]
  BY StripRules
<1>. DEFINE v == Strip(c).rules
<1>4. Len(v) = Len(u) /\ Len(u) \in Nat /\ \A i \in 1 .. Len(u) : v[i] = Returned(u[i])
  BY <1>1
<1>. HIDE DEF v
<1>5. Len(v) \in Nat /\ \A i \in 1 .. Len(v) : v[i].to # Director
  BY <1>4, ReturnedIs, PlainTyped
<1>. QED  BY <1>5 DEF v

(* A file of the same house is bare when it is plain and nothing leads to  *)
(* the director.                                                           *)
LEMMA BareToo ==
  ASSUME NEW b \in Database, NEW x, Bare(x, b), NEW y, NEW l, PlainAt(y, b, l, {}), SameHouse(y, x),
         \A i \in 1 .. Len(y.rules) : y.rules[i].to # Director
  PROVE  Bare(y, b)
BY DEF Bare, SameHouse

(* Every shape has a rule for everything.                                  *)
LEMMA ShapeCatches ==
  ASSUME NEW b \in Database, NEW d, NEW c, NEW l, Shape(c, b, d, l)
  PROVE  c \in Files /\ c.rules \in Seq(Good(b)) /\ \E to : CatchAllAt(c.rules, l, to)
BY ShapeFacts DEF Furnished

(* The lists of a finished file are joined.                                *)
LEMMA CompactLikens ==
  ASSUME NEW b \in Database, NEW d \in Database, NEW had \in BOOLEAN
  PROVE  Likens(Strip(Compact(Transform(Pipeline(b, had), d))), b, had)
<1>. DEFINE p == Pipeline(b, had)
            g == Transform(p, d)
            c == Compact(g)
            x == Strip(c)
<1>1. Likens(p, b, had)
  BY PipelineLikens
<1>. HIDE DEF p
<1>2. Bare(p, b) /\ (Real(b) = {} => Late(p.rules))
  BY <1>1 DEF Likens
<1>3. Strip(g) = p
  BY <1>2, BareBack
<1>5. PICK k : Shape(g, b, d, k)
  BY TransformShapes, <1>2, PlainBuilt DEF Bare
<1>. HIDE DEF g
<1>6. PICK m : Shape(c, b, d, m)
  BY <1>5, CompactShapes
<1>7. /\ g \in Files /\ g.rules \in Seq(Good(b)) /\ g.rules \in Seq(RuleType)
      /\ \E to : CatchAllAt(g.rules, k, to)
  BY <1>5, ShapeCatches, PlainTyped, SeqWider
<1>7a. PICK t \in Seq(RuleType) :
          \E j : c = [g EXCEPT !.rules = t] /\ Joined(t, g.rules, Len(g.rules), j)
  BY <1>7, CompactJoins
<1>8. PICK j : c = [g EXCEPT !.rules = t] /\ Joined(t, g.rules, Len(g.rules), j)
  BY <1>7a
<1>9. c.rules = t /\ SameHouse(c, g)
  BY <1>7, <1>8, RulesPut
<1>10. c.rules \in Seq(Good(b))
  BY <1>6, ShapeCatches
<1>. HIDE DEF c
<1>11. \E l : PlainAt(x, b, l, {})
  BY <1>6, ShapeBuilt, StripPlain
<1>12. SameHouse(x, p)
  BY <1>3, <1>9, StripHouse
<1>13. Len(x.rules) \in Nat /\ \A i \in 1 .. Len(x.rules) : x.rules[i].to # Director
  BY <1>10, StripReturned
<1>14. ASSUME NEW dest, NEW a, Says(p.rules, dest, a) PROVE Says(x.rules, dest, a)
  <2>2. Says(g.rules, dest, a)
    BY <1>3, <1>7, <1>14, SaidBefore, <1>2, BareFacts
  <2>3. Says(c.rules, dest, a)
    <3>. DEFINE s == g.rules
    <3>. HIDE DEF s
    <3>. QED  BY <1>9, JoinedSays, <1>7, <1>8, <2>2
  <2>. QED  BY <2>3, <1>10, StripSays
<1>15. ASSUME Real(b) = {} PROVE Late(x.rules)
  <2>2. Late(c.rules)
    <3>. DEFINE s == g.rules
    <3>1. s \in Seq(RuleType) /\ Joined(t, s, Len(s), j) /\ Late(s)
      BY <1>7, <1>8, <1>2, <1>3, <1>15, LateStripped
    <3>. HIDE DEF s
    <3>. QED  BY <1>9, <3>1, LateJoined
  <2>. QED  BY <2>2, <1>10, LateStripped
<1>. HIDE DEF x
<1>16. Bare(x, b)
  BY <1>2, <1>11, <1>12, <1>13, BareToo
<1>. QED  BY <1>12, <1>14, <1>15, <1>16 DEF Likens, p, g, c, x

-----------------------------------------------------------------------------
(* Where the live file comes from.                                         *)

(* The file of an apply that has come to pc, as the layers so far leave it. *)
Stage(pc, b, had) ==
  CASE pc = "base"  -> Render(b)
    [] pc = "to-de" -> BaseRu(Render(b))
    [] pc = "dns"   -> Preserve(BaseRu(Render(b)), had)
    [] pc = "gov"   -> SplitDns(Preserve(BaseRu(Render(b)), had))
    [] pc = "ui"    -> GovBlock(SplitDns(Preserve(BaseRu(Render(b)), had)))
    [] OTHER        -> Pipeline(b, had)

(* The file on its way is what the layers so far make.                     *)
Traced(r) == r.pc # "idle" => r.cfg = Stage(r.pc, r.built, r.had)

(* A whole file, without the countries, is what the layers make.           *)
Derived(c, m) == m.whole => \E had \in BOOLEAN : Likens(Strip(c), m.built, had)

(* The inductive invariant, with where the files come from.                *)
TracedInv == Inv /\ Traced(run) /\ Derived(live, made)

(* Each layer takes the file to the next stage.                            *)
LEMMA StagesStep ==
  ASSUME NEW b, NEW had
  PROVE  /\ Stage("base", b, had) = Render(b)
         /\ Stage("to-de", b, had) = BaseRu(Stage("base", b, had))
         /\ Stage("dns", b, had) = Preserve(Stage("to-de", b, had), had)
         /\ Stage("gov", b, had) = SplitDns(Stage("dns", b, had))
         /\ Stage("ui", b, had) = GovBlock(Stage("gov", b, had))
         /\ Stage("countries", b, had) = Override(Stage("ui", b, had))
BY DEF Stage, Pipeline

(* A layer that takes the file to the next stage keeps it traced.          *)
LEMMA LayerTraced ==
  ASSUME NEW r, NEW at, NEW next, Traced(r), r.pc = at, at # "idle",
         r \in [pc : Pcs, cfg : Files, had : BOOLEAN, classic : BOOLEAN, built : Database],
         NEW c, r.cfg = Stage(at, r.built, r.had) => c = Stage(next, r.built, r.had)
  PROVE  Traced([r EXCEPT !.pc = next, !.cfg = c])
<1>. DEFINE q == [r EXCEPT !.pc = next, !.cfg = c]
<1>1. q.pc = next /\ q.cfg = c /\ q.built = r.built
  OBVIOUS
<1>2. q.had = r.had
  BY Zenon
<1>3. c = Stage(next, r.built, r.had)
  BY DEF Traced
<1>. HIDE DEF q
<1>4. Traced(q)
  BY <1>1, <1>2, <1>3, Zenon DEF Traced
<1>. QED  BY <1>4 DEF q

(* What a finished apply leaves is derived.                                *)
LEMMA FinishDerived ==
  ASSUME NEW b \in Database, NEW had \in BOOLEAN, NEW d \in Database, NEW m, m.built = b
  PROVE  /\ Derived(Transform(Pipeline(b, had), d), m)
         /\ Derived(Compact(Transform(Pipeline(b, had), d)), m)
<1>. DEFINE p == Pipeline(b, had)
            g == Transform(p, d)
            c == Compact(g)
<1>1. Likens(p, b, had) /\ Likens(Strip(c), b, had)
  BY PipelineLikens, CompactLikens
<1>. HIDE DEF p, c
<1>2. Strip(g) = p
  BY <1>1, BareBack DEF Likens
<1>. HIDE DEF g
<1>. QED  BY <1>1, <1>2 DEF p, g, c, Derived

(* The layer of the countries begins with taking the countries off.        *)
LEMMA TransformStripped ==
  ASSUME NEW b \in Database, NEW c, Bare(Strip(c), b), NEW d \in Database
  PROVE  Transform(c, d) = Transform(Strip(c), d) /\ Strip(Transform(c, d)) = Strip(c)
<1>. DEFINE x == Strip(c)
<1>. QED  BY BareStripped, BareBack DEF Transform

(* The invariant holds in the first state.                                 *)
LEMMA InitTraced == Init => TracedInv
<1>. SUFFICES ASSUME Init PROVE TracedInv
  OBVIOUS
<1>2. PICK had \in BOOLEAN : live = Compact(Transform(Pipeline(db, had), db))
  BY DEF Init
<1>3. db \in Database /\ made.built = db /\ run = NoRun
  BY RouterConfigAssumption DEF Init
<1>5. Traced(run)
  BY <1>3 DEF Traced, NoRun
<1>. QED  BY <1>5, InitRight, <1>2, <1>3, FinishDerived DEF TracedInv

(* Every step keeps it.                                                    *)
LEMMA NextTraces == TracedInv /\ [Next]_vars => TracedInv'
<1>. SUFFICES ASSUME TracedInv, [Next]_vars PROVE TracedInv'
  OBVIOUS
<1>1. Inv /\ Inv' /\ Traced(run) /\ Derived(live, made)
  BY NextKeeps DEF TracedInv
<1>2. db \in Database /\ made \in Mades /\ RunRight(run, made)
  BY <1>1 DEF Inv
<1>3. ASSUME NEW classic \in BOOLEAN, Begin(classic) PROVE TracedInv'
  <2>. DEFINE had == ToDe \in RealTags(live)
              r == [pc |-> "base", cfg |-> Render(db), had |-> had, classic |-> classic, built |-> db]
  <2>1. /\ run' = r
        /\ live' = IF classic THEN Render(db) ELSE live
        /\ made' = IF classic THEN [made EXCEPT !.built = db, !.whole = FALSE] ELSE made
    BY <1>3 DEF Begin, Writes
  <2>. HIDE DEF had
  <2>2. r.pc = "base" /\ r.cfg = Render(db) /\ r.built = db /\ Render(db) = Stage("base", db, r.had)
    BY StagesStep
  <2>. HIDE DEF r
  <2>4. Derived(live', made')
    BY <1>2, <2>1, <1>1 DEF Mades, Derived
  <2>. QED  BY <1>1, <2>1, <2>4, <2>2 DEF TracedInv, Traced
<1>4. ASSUME run.pc # "idle"
      PROVE  /\ run \in [pc : Pcs, cfg : Files, had : BOOLEAN, classic : BOOLEAN, built : Database]
             /\ run.classic => ~made.whole
  BY <1>2, <1>4 DEF RunRight
<1>5. ASSUME NEW at \in Pcs \ {"idle"}, NEW next, NEW c, Layer(at, next, c),
             run.cfg = Stage(at, run.built, run.had) => c = Stage(next, run.built, run.had)
      PROVE  TracedInv'
  <2>. DEFINE r == [run EXCEPT !.pc = next, !.cfg = c]
  <2>1. run.pc = at /\ run' = r /\ live' = (IF run.classic THEN c ELSE live) /\ made' = made
    BY <1>5 DEF Layer, Writes
  <2>2. at # "idle" /\ run.pc # "idle"
    BY <2>1
  <2>4. Traced(r)
    BY <1>1, <1>5, <2>1, <2>2, LayerTraced, <1>4
  <2>. HIDE DEF r
  <2>5. Derived(live', made')
    BY <1>4, <2>1, <2>2, <1>1 DEF Derived
  <2>. QED  BY <1>1, <2>1, <2>4, <2>5 DEF TracedInv
<1>6. CASE BaseRuLayer
  BY <1>5, <1>6, StagesStep DEF BaseRuLayer, Pcs
<1>7. CASE PreserveLayer
  BY <1>5, <1>7, StagesStep DEF PreserveLayer, Pcs
<1>8. CASE SplitDnsLayer
  BY <1>5, <1>8, StagesStep DEF SplitDnsLayer, Pcs
<1>9. CASE GovBlockLayer
  BY <1>5, <1>9, StagesStep DEF GovBlockLayer, Pcs
<1>10. CASE OverrideLayer
  BY <1>5, <1>10, StagesStep DEF OverrideLayer, Pcs
<1>11. CASE Finish
  <2>1. /\ run.pc = "countries"
        /\ live' = IF run.classic THEN Transform(run.cfg, db) ELSE Compact(Transform(run.cfg, db))
        /\ made' = [built |-> run.built, plan |-> db, whole |-> TRUE] /\ run' = NoRun
    BY <1>11 DEF Finish
  <2>3. run.cfg = Pipeline(run.built, run.had)
    BY <1>1, <2>1 DEF Traced, Stage
  <2>5. Derived(live', made')
    BY <1>2, <2>1, <2>3, FinishDerived, RunFacts
  <2>. QED  BY <1>1, <2>5, <2>1 DEF TracedInv, Traced, NoRun
<1>12. CASE ApplyCountries
  <2>1. /\ live' = Transform(live, db) /\ made' = [made EXCEPT !.plan = db] /\ run' = run
    BY <1>12 DEF ApplyCountries
  <2>2. made'.built = made.built /\ made'.whole = made.whole /\ made.built \in Database
    BY <1>2, <2>1 DEF Mades
  <2>3. ASSUME made.whole PROVE \E had \in BOOLEAN : Likens(Strip(live'), made.built, had)
    <3>1. PICK had \in BOOLEAN : Likens(Strip(live), made.built, had)
      BY <1>1, <2>3 DEF Derived
    <3>. QED  BY <3>1, <1>2, <2>1, <2>2, TransformStripped DEF Likens
  <2>. QED  BY <1>1, <2>1, <2>2, <2>3 DEF TracedInv, Derived
<1>13. CASE Edit
  BY <1>1, <1>13 DEF TracedInv, Edit
<1>14. CASE Fails
  BY <1>14, <1>1 DEF Fails, Traced, NoRun, TracedInv
<1>15. CASE UNCHANGED vars
  BY <1>1, <1>15 DEF TracedInv, vars
<1>. QED  BY <1>3, <1>6, <1>7, <1>8, <1>9, <1>10, <1>11, <1>12, <1>13, <1>14, <1>15 DEF Next

-----------------------------------------------------------------------------
(* The short way and the long one.                                         *)

(* Files of one house have the same tags and mean the same by a country.   *)
LEMMA HouseTags ==
  ASSUME NEW c, NEW e, SameHouse(c, e)
  PROVE  /\ Tags(c) = Tags(e) /\ RealTags(c) = RealTags(e) /\ SameNodes(c, e)
         /\ \A up, to : Exits(c, up, to) = Exits(e, up, to)
<1>1. c.outs = e.outs /\ c.bal = e.bal /\ c.seen = e.seen
  BY DEF SameHouse
<1>2. Tags(c) = Tags(e) /\ RealTags(c) = RealTags(e)
  BY <1>1 DEF Tags, RealTags
<1>. QED  BY <1>2, <1>1 DEF SameNodes, Exits, Leaving

(* Which of the two AddDirector does.                                      *)
LEMMA DirectorAdded ==
  ASSUME NEW c, NEW d
  PROVE  /\ ~d.director \/ Len(Alive(c, d)) < 2 => AddDirector(c, d) = c
         /\ ~(~d.director \/ Len(Alive(c, d)) < 2) => AddDirector(c, d) = Directing(c, d, Alive(c, d))
<1>. DEFINE q == Alive(c, d)
<1>2. DOMAIN q = 1 .. Len(q) /\ Len(q) \in Nat /\ ToSet(q) = Lively(c, d)
  BY LivelyIs DEF InLine
<1>3. {Loop(s) : s \in ToSet(q)} = Loops(c, d)
  BY <1>2 DEF Loops
<1>4. /\ ~d.director \/ Len(q) < 2 => AddDirector(c, d) = c
      /\ ~(~d.director \/ Len(q) < 2) =>
           AddDirector(c, d) =
              [ins   |-> c.ins \cup {Api},
               outs  |-> c.outs \o [i \in DOMAIN q |-> Out(Loop(q[i]), TRUE)],
               rules |-> <<Rule({Api}, {}, Api)>>
                         \o [i \in DOMAIN q |-> Rule({LoopIn(q[i])}, {}, SlotTarget(c, d, q[i]))]
                         \o [i \in DOMAIN c.rules |-> Sent(c.rules[i])],
               bal   |-> c.bal \cup {[tag |-> Director, members |-> {Loop(s) : s \in ToSet(q)}, closed |-> TRUE]},
               seen  |-> c.seen \cup {Loop(s) : s \in ToSet(q)}]
  BY Zenon DEF AddDirector, Sent, Alive
<1>. HIDE DEF q
<1>5. [i \in DOMAIN q |-> Out(Loop(q[i]), TRUE)] = LoopOuts(q)
  BY <1>2 DEF LoopOuts
<1>6. [i \in DOMAIN q |-> Rule({LoopIn(q[i])}, {}, SlotTarget(c, d, q[i]))] = LoopRules(q, c, d)
  BY <1>2 DEF LoopRules
<1>7. ~(~d.director \/ Len(q) < 2) => AddDirector(c, d) = Directing(c, d, q)
  BY <1>3, <1>4, <1>5, <1>6 DEF Directing, DirectorBal, InFront
<1>. QED  BY <1>4, <1>7 DEF q

(* Files of one house list the same lively countries.                      *)
LEMMA SameAlive ==
  ASSUME NEW c, NEW e, SameNodes(c, e), NEW d \in Database
  PROVE  Alive(c, d) = Alive(e, d)
<1>2. \A i \in DOMAIN InOrder : InOrder[i] \in Slots
  BY Constants
<1>3. ASSUME NEW x, NEW T, T = Lively(x, d)
      PROVE  Alive(x, d) = FlattenSeq([i \in DOMAIN InOrder |-> IF InOrder[i] \in T THEN <<InOrder[i]>> ELSE <<>>])
  BY <1>2, <1>3 DEF Alive, Keep, Lively
<1>. DEFINE T == Lively(c, d)
<1>. HIDE DEF T
<1>. QED  BY <1>3, SameCountries

(* The layer of the countries treats files of one house alike.             *)
LEMMA EntrancesHouse ==
  ASSUME NEW x \in Files, NEW y \in Files, SameHouse(x, y), NEW d \in Database
  PROVE  SameHouse(Entrances(x, d), Entrances(y, d))
<1>. DEFINE f == Entrances(x, d)
            g == Entrances(y, d)
<1>1. x.ins = y.ins /\ x.outs = y.outs /\ x.bal = y.bal /\ x.seen = y.seen /\ SameNodes(x, y)
  BY HouseTags DEF SameHouse
<1>2. /\ \A s \in Slots : SlotTarget(x, d, s) = SlotTarget(y, d, s) /\ CountryBal(x, d, s) = CountryBal(y, d, s)
                          /\ Usable(x, d, s) = Usable(y, d, s)
      /\ Lively(x, d) = Lively(y, d)
  BY <1>1, SameCountries
<1>3. Balancing(x, d) = Balancing(y, d)
  BY <1>2 DEF Balancing
<1>4. HeldNodes(x, d) = HeldNodes(y, d)
  BY <1>2 DEF Lively, HeldNodes
<1>6. /\ f.ins = x.ins \cup {In(s) : s \in Slots} /\ f.outs = x.outs
      /\ f.bal = {[z EXCEPT !.closed = TRUE] : z \in x.bal} \cup {CountryBal(x, d, s) : s \in Balancing(x, d)}
      /\ f.seen = IF Balancing(x, d) = {} THEN x.seen ELSE x.seen \cup HeldNodes(x, d)
  <2>. HIDE DEF f
  <2>. QED  BY EntrancesFields DEF f
<1>7. /\ g.ins = y.ins \cup {In(s) : s \in Slots} /\ g.outs = y.outs
      /\ g.bal = {[z EXCEPT !.closed = TRUE] : z \in y.bal} \cup {CountryBal(y, d, s) : s \in Balancing(y, d)}
      /\ g.seen = IF Balancing(y, d) = {} THEN y.seen ELSE y.seen \cup HeldNodes(y, d)
  <2>. HIDE DEF g
  <2>. QED  BY EntrancesFields DEF g
<1>. HIDE DEF f, g
<1>8. f.ins = g.ins /\ f.outs = g.outs /\ f.seen = g.seen
  BY <1>1, <1>3, <1>4, <1>6, <1>7
<1>9. f.bal = g.bal
  BY <1>1, <1>6, <1>7, <1>2, <1>3 DEF Balancing
<1>. QED  BY <1>8, <1>9 DEF SameHouse, f, g

(* So does the director.                                                   *)
LEMMA DirectorHouse ==
  ASSUME NEW f, NEW g, SameHouse(f, g), NEW d \in Database
  PROVE  SameHouse(AddDirector(f, d), AddDirector(g, d))
<1>1. f.ins = g.ins /\ f.outs = g.outs /\ f.bal = g.bal /\ f.seen = g.seen /\ SameNodes(f, g)
  BY HouseTags DEF SameHouse
<1>2. Alive(f, d) = Alive(g, d) /\ Loops(f, d) = Loops(g, d) /\ DirectorBal(f, d) = DirectorBal(g, d)
  BY <1>1, SameAlive, SameCountries
<1>. DEFINE q == Alive(f, d)
<1>3. /\ Directing(f, d, q).ins = f.ins \cup {Api} /\ Directing(f, d, q).outs = f.outs \o LoopOuts(q)
      /\ Directing(f, d, q).bal = f.bal \cup {DirectorBal(f, d)} /\ Directing(f, d, q).seen = f.seen \cup Loops(f, d)
  BY Zenon DEF Directing
<1>4. /\ Directing(g, d, q).ins = g.ins \cup {Api} /\ Directing(g, d, q).outs = g.outs \o LoopOuts(q)
      /\ Directing(g, d, q).bal = g.bal \cup {DirectorBal(g, d)} /\ Directing(g, d, q).seen = g.seen \cup Loops(g, d)
  BY Zenon DEF Directing
<1>5. SameHouse(Directing(f, d, q), Directing(g, d, q))
  BY <1>1, <1>2, <1>3, <1>4 DEF SameHouse
<1>6. CASE ~d.director \/ Len(q) < 2
  BY <1>2, <1>6, DirectorAdded
<1>7. CASE ~(~d.director \/ Len(q) < 2)
  BY <1>2, <1>7, DirectorAdded, <1>5
<1>. QED  BY <1>6, <1>7

(* And so does the whole layer.                                            *)
LEMMA TransformHouse ==
  ASSUME NEW b \in Database, NEW d \in Database, NEW x, Bare(x, b), NEW y, Bare(y, b), SameHouse(x, y)
  PROVE  SameHouse(Transform(x, d), Transform(y, d))
<1>1. Strip(x) = x /\ Strip(y) = y /\ x \in Files /\ y \in Files
  BY BareStripped, BareFacts
<1>2. CASE ~d.multi
  BY <1>1, <1>2 DEF Transform
<1>3. CASE d.multi
  BY <1>1, <1>3, EntrancesHouse, DirectorHouse DEF Transform
<1>. QED  BY <1>2, <1>3

(* Only the rule for everything leads to the director, and he is there.    *)
DirectorsPlace(c) ==
  \A i \in 1 .. Len(c.rules) : c.rules[i].to = Director =>
    c.rules[i].from = {} /\ c.rules[i].match = {} /\ Director \in {x.tag : x \in c.bal}

(* Entrances leads nothing to the director.                                *)
LEMMA EntrancesStraight ==
  ASSUME NEW b \in Database, NEW d \in Database, NEW x, Bare(x, b), NEW f, f = Entrances(x, d)
  PROVE  f.rules \in Seq(Good(b)) /\ \A i \in 1 .. Len(f.rules) : f.rules[i].to # Director
<1>1. PICK l : PlainAt(x, b, l, {})
  BY DEF Bare
<1>. DEFINE t == f.rules
            s == x.rules
<1>2. t \in Seq(Good(b)) /\ \E at : Unfolds(t, x, d, s, Len(s), l, at)
  BY <1>1, EntrancesUnfold
<1>3. PICK at : Unfolds(t, x, d, s, Len(s), l, at)
  BY <1>2
<1>4. \A i \in 1 .. Len(s) : s[i].to # Director
  BY BareFacts
<1>. HIDE DEF t, s
<1>5. ASSUME NEW i \in 1 .. Len(t) PROVE t[i].to # Director
  <2>1. /\ at[i] \in 1 .. Len(s)
        /\ t[i] = s[at[i]] \/ \E y \in Slots : t[i] = SlotRule(x, d, s[at[i]].match, y)
    BY <1>3 DEF Unfolds
  <2>2. CASE t[i] = s[at[i]]
    BY <1>4, <2>1, <2>2
  <2>3. ASSUME NEW y \in Slots, t[i] = SlotRule(x, d, s[at[i]].match, y) PROVE t[i].to # Director
    <3>2. t[i].to = SlotTarget(x, d, y)
      BY <2>3 DEF SlotRule, Rule
    <3>. QED  BY <3>2, SlotTargetIs
  <2>. QED  BY <2>1, <2>2, <2>3
<1>. QED  BY <1>2, <1>5 DEF t

(* AddDirector leads only the rule for everything to him.                  *)
LEMMA DirectingPlaces ==
  ASSUME NEW b \in Database, NEW d \in Database, NEW f, f.rules \in Seq(Good(b)),
         \A i \in 1 .. Len(f.rules) : f.rules[i].to # Director,
         NEW q, InLine(q, f, d), NEW g, g = Directing(f, d, q)
  PROVE  DirectorsPlace(g)
<1>. DEFINE s == f.rules
            p == InFront(q, f, d)
            u == [i \in DOMAIN s |-> Sent(s[i])]
<1>1. g.rules = p \o u /\ g.bal = f.bal \cup {DirectorBal(f, d)}
  BY DEF Directing
<1>2. /\ s \in Seq(Good(b)) /\ Len(s) \in Nat /\ DOMAIN s = 1 .. Len(s)
      /\ \A i \in 1 .. Len(s) : s[i] \in Good(b) /\ s[i].to # Director
  OBVIOUS
<1>. HIDE DEF s
<1>3. u \in Seq(Good(b)) /\ Len(u) = Len(s) /\ \A i \in 1 .. Len(u) : u[i] = Sent(s[i])
  BY <1>2, SentIs
<1>. HIDE DEF u
<1>4. Fronting(p, b, f, d)
  BY InFrontIs
<1>. HIDE DEF p
<1>5. /\ p \in Seq(Good(b)) /\ Len(p) \in Nat /\ Inside(p, f, d)
      /\ \A i \in 1 .. Len(p) : p[i].from \in Insiders
  BY <1>4 DEF Fronting
<1>6. /\ Len(p \o u) = Len(p) + Len(u)
      /\ \A i \in 1 .. Len(p) : (p \o u)[i] = p[i]
      /\ \A i \in 1 .. Len(u) : (p \o u)[Len(p) + i] = u[i]
      /\ \A i \in 1 .. Len(p \o u) : i \in 1 .. Len(p) \/ (i - Len(p) \in 1 .. Len(u) /\ Len(p) + (i - Len(p)) = i)
  <2>1. p \in Seq(Good(b)) /\ u \in Seq(Good(b))
    BY <1>3, <1>5
  <2>. QED  BY <2>1, ConcatIs
<1>7. Director \in {x.tag : x \in g.bal}
  <2>1. DirectorBal(f, d).tag = Director
    BY DEF DirectorBal
  <2>. QED  BY <1>1, <2>1
<1>8. ASSUME NEW i \in 1 .. Len(p) PROVE p[i].to # Director
  <2>2. \A y \in Slots : SlotTarget(f, d, y) # Director
    BY SlotTargetIs
  <2>4. ASSUME NEW y \in Slots, p[i] = Rule({LoopIn(y)}, {}, SlotTarget(f, d, y)) PROVE p[i].to # Director
    BY <2>2, <2>4 DEF Rule
  <2>5. p[i] = Rule({Api}, {}, Api) => p[i].to # Director
    BY DEF Rule, Api, Director
  <2>. QED  BY <2>4, <2>5, <1>5 DEF Inside
<1>9. ASSUME NEW i \in 1 .. Len(u), u[i].to = Director PROVE u[i].from = {} /\ u[i].match = {}
  BY <1>2, <1>3, SentIs, <1>9 DEF IsCatchAll
<1>. DEFINE r == p \o u
<1>10. ASSUME NEW i \in 1 .. Len(r), r[i].to = Director PROVE r[i].from = {} /\ r[i].match = {}
  <2>1. CASE i \in 1 .. Len(p)
    <3>1. r[i] = p[i]
      BY <2>1, <1>6
    <3>. HIDE DEF r
    <3>. QED  BY <2>1, <3>1, <1>8, <1>10
  <2>2. CASE i - Len(p) \in 1 .. Len(u) /\ Len(p) + (i - Len(p)) = i
    <3>. DEFINE h == i - Len(p)
    <3>1. h \in 1 .. Len(u) /\ Len(p) + h = i
      BY <2>2
    <3>. HIDE DEF h
    <3>2. r[i] = u[h]
      BY <3>1, <1>6
    <3>. HIDE DEF r
    <3>. QED  BY <3>1, <3>2, <1>9, <1>10
  <2>. QED  BY <2>1, <2>2, <1>6
<1>. HIDE DEF r
<1>. QED  BY <1>7, <1>10, <1>1 DEF DirectorsPlace, r

(* So it is in every file that the layer of the countries writes.          *)
LEMMA TransformPlaces ==
  ASSUME NEW b \in Database, NEW d \in Database, NEW x, Bare(x, b)
  PROVE  DirectorsPlace(Transform(x, d))
<1>1. Strip(x) = x
  BY BareStripped
<1>2. CASE ~d.multi
  BY <1>1, <1>2, BareFacts DEF Transform, DirectorsPlace
<1>3. CASE d.multi
  <2>. DEFINE f == Entrances(x, d)
              g == AddDirector(f, d)
  <2>1. Transform(x, d) = g
    BY <1>1, <1>3 DEF Transform
  <2>2. f.rules \in Seq(Good(b)) /\ \A i \in 1 .. Len(f.rules) : f.rules[i].to # Director
    <3>. HIDE DEF f
    <3>. QED  BY EntrancesStraight DEF f
  <2>. HIDE DEF f, g
  <2>3. CASE g = f
    BY <2>1, <2>2, <2>3 DEF DirectorsPlace
  <2>4. CASE \E q : InLine(q, f, d) /\ g = Directing(f, d, q)
    BY <2>1, <2>2, <2>4, DirectingPlaces
  <2>. QED  BY <2>3, <2>4, AddDirectorIs DEF g
<1>. QED  BY <1>2, <1>3

(* And when neighbours are joined.                                         *)
LEMMA JoinedPlaces ==
  ASSUME NEW c, c.rules \in Seq(RuleType), DirectorsPlace(c), NEW e, e.rules \in Seq(RuleType), NEW g,
         Joined(e.rules, c.rules, Len(c.rules), g), e.bal = c.bal
  PROVE  DirectorsPlace(e)
<1>. DEFINE s == c.rules
            t == e.rules
<1>1. s \in Seq(RuleType) /\ t \in Seq(RuleType) /\ Joined(t, s, Len(s), g)
  OBVIOUS
<1>2. \A i \in 1 .. Len(s) : s[i].to = Director =>
        s[i].from = {} /\ s[i].match = {} /\ Director \in {x.tag : x \in e.bal}
  BY DEF DirectorsPlace
<1>. HIDE DEF s, t
<1>. DEFINE n == Len(s)
<1>0. Joined(t, s, n, g)
  BY <1>1
<1>3. /\ \A i \in 1 .. Len(s) : /\ g[i] \in 1 .. Len(t) /\ t[g[i]].to = s[i].to
                                /\ (s[i].match = {} \/ s[i].from # {} => t[g[i]] = s[i])
      /\ \A k \in 1 .. Len(t) : \E j \in 1 .. Len(s) : g[j] = k
  BY <1>0 DEF Joined, Class
<1>4. ASSUME NEW k \in 1 .. Len(t), t[k].to = Director
      PROVE  t[k].from = {} /\ t[k].match = {} /\ Director \in {x.tag : x \in e.bal}
  <2>1. PICK j \in 1 .. Len(s) : g[j] = k
    BY <1>3
  <2>3. s[j].from = {} /\ s[j].match = {} /\ Director \in {x.tag : x \in e.bal}
    BY <1>2, <1>3, <1>4, <2>1
  <2>. QED  BY <2>3, <1>3, <2>1
<1>. QED  BY <1>4 DEF DirectorsPlace, t

(* What a file that says a of dest does with it for AUTO.                  *)
AutoWay(c, a) ==
  IF a = <<Upstream, "all">> /\ Director \in {x.tag : x \in c.bal} THEN Director ELSE a[1]

(* What it does with it for a country.                                     *)
CountryWay(c, d, s, a) == IF a[2] = "all" \/ Foreign(a[1]) THEN SlotTarget(c, d, s) ELSE a[1]

(* The rule i of the file c is what says a of dest.                         *)
SaidBy(c, b, l, i, dest, a) ==
  /\ FirstFit(c.rules, i, In(0), dest) /\ Chosen(c, In(0), dest) = c.rules[i].to
  /\ c.rules[i] \in Good(b) /\ c.rules[i].from = {}
  /\ a[2] = "all" <=> c.rules[i].match = {}
  /\ c.rules[i].match = {} => i = l
  /\ c.rules[i].match # {} => a = <<c.rules[i].to, "some">>
  /\ c.rules[i].match = {} => a = <<Returned(c.rules[i]).to, "all">>

(* What a file says of dest is said by the first rule that fits from AUTO. *)
LEMMA SaidFirst ==
  ASSUME NEW b \in Database, NEW d, NEW c, NEW l, Shape(c, b, d, l), DirectorsPlace(c),
         NEW dest, NEW a, Says(c.rules, dest, a)
  PROVE  \E i \in 1 .. l : SaidBy(c, b, l, i, dest, a)
<1>1. /\ c.rules \in Seq(Good(b)) /\ Len(c.rules) \in Nat
      /\ \A i \in 1 .. Len(c.rules) : c.rules[i] \in Good(b)
      /\ \E to : to # Direct /\ CatchAllAt(c.rules, l, to)
  BY ShapeFacts
<1>2. PICK to : CatchAllAt(c.rules, l, to)
  BY <1>1
<1>3. Decided(c, l, In(0), dest)
  BY <1>1, <1>2, SomeChosen
<1>4. PICK i \in 1 .. l : FirstFit(c.rules, i, In(0), dest) /\ Chosen(c, In(0), dest) = c.rules[i].to
  BY <1>3 DEF Decided
<1>5. i \in 1 .. Len(c.rules) /\ Fits(c.rules[i], In(0), dest)
  BY <1>4 DEF FirstFit
<1>6. c.rules[i] \in Good(b) /\ c.rules[i].from = {}
  BY <1>1, <1>5, ZeroIsNobodys
<1>7. Saying(c.rules[i]) = a
  <2>1. PICK j \in 1 .. Len(c.rules) : FirstFit(c.rules, j, In(0), dest) /\ Saying(c.rules[j]) = a
    BY DEF Says
  <2>. QED  BY <2>1, <1>1, <1>4, OneFirst
<1>8. c.rules[i].match = {} => i = l
  BY <1>2, <1>5, <1>6 DEF CatchAllAt, IsCatchAll
<1>9. c.rules[i].match # {} => a = <<c.rules[i].to, "some">>
  <2>1. ASSUME c.rules[i].match # {} PROVE c.rules[i].to # Director
    BY <1>5, <2>1 DEF DirectorsPlace
  <2>. QED  BY <1>7, <2>1 DEF Saying, Returned
<1>10. c.rules[i].match = {} => a = <<Returned(c.rules[i]).to, "all">>
  BY <1>7 DEF Saying
<1>. QED  BY <1>4, <1>6, <1>8, <1>9, <1>10 DEF SaidBy

(* What a file says of a destination is what it does with it from AUTO.    *)
LEMMA AutoSays ==
  ASSUME NEW b \in Database, NEW d, NEW c, NEW l, Shape(c, b, d, l), DirectorsPlace(c),
         NEW dest, NEW a, Says(c.rules, dest, a)
  PROVE  Chosen(c, In(0), dest) = AutoWay(c, a)
<1>0. PICK i \in 1 .. l : SaidBy(c, b, l, i, dest, a)
  BY SaidFirst
<1>1. /\ FirstFit(c.rules, i, In(0), dest) /\ Chosen(c, In(0), dest) = c.rules[i].to
      /\ c.rules[i] \in Good(b) /\ c.rules[i].from = {}
      /\ a[2] = "all" <=> c.rules[i].match = {}
      /\ c.rules[i].match = {} => i = l
      /\ c.rules[i].match # {} => a = <<c.rules[i].to, "some">>
      /\ c.rules[i].match = {} => a = <<Returned(c.rules[i]).to, "all">>
  BY <1>0 DEF SaidBy
<1>2. i \in 1 .. Len(c.rules) /\ c.rules[i] \in RuleType
  BY <1>1, PlainTyped DEF FirstFit
<1>. DEFINE r == c.rules[i]
<1>3. /\ r.to # Director => Returned(r) = r
      /\ r.to = Director => Returned(r).to = Upstream
  BY <1>2, ReturnedIs
<1>. HIDE DEF r
<1>4. CASE r.match # {}
  BY <1>1, <1>4 DEF r, AutoWay
<1>5. CASE r.match = {}
  <2>1. a = <<Returned(r).to, "all">> /\ i = l
    BY <1>1, <1>5 DEF r
  <2>2. CASE Director \in {x.tag : x \in c.bal}
    <3>2. Directed(c, d, l)
      BY <2>2, DirectorThere, ShapeAsks
    <3>3. r.to = Director
      BY <2>1, <3>2 DEF Directed, CatchAllAt, Rule, r
    <3>4. a = <<Upstream, "all">>
      BY <1>3, <2>1, <3>3
    <3>. QED  BY <1>1, <2>2, <3>3, <3>4 DEF AutoWay, r
  <2>3. CASE Director \notin {x.tag : x \in c.bal}
    BY <1>2, <2>3, <1>3, <2>1, <1>1 DEF DirectorsPlace, r, AutoWay
  <2>. QED  BY <2>2, <2>3
<1>. QED  BY <1>4, <1>5

(* From a country, what is foreign or for everything goes to the country,  *)
(* and the rest where the file says.                                       *)
LEMMA CountrySays ==
  ASSUME NEW b \in Database, NEW d \in Database, NEW c, NEW k, Settled(c, b, d, k), DirectorsPlace(c),
         GovFirst(c.rules), NEW dest \in Ru \cup World \cup {Gov, Own}, NEW a, Says(c.rules, dest, a),
         NEW s \in Slots
  PROVE  Chosen(c, In(s), dest) = CountryWay(c, d, s, a)
<1>. DEFINE t == c.rules
            from == In(s)
<1>0. Shape(c, b, d, k)
  BY DEF Shape
<1>a. PICK i \in 1 .. k : SaidBy(c, b, k, i, dest, a)
  BY <1>0, SaidFirst
<1>1. /\ FirstFit(t, i, In(0), dest) /\ Chosen(c, In(0), dest) = t[i].to
      /\ t[i] \in Good(b) /\ t[i].from = {}
      /\ a[2] = "all" <=> t[i].match = {}
      /\ t[i].match = {} => i = k
      /\ t[i].match # {} => a = <<t[i].to, "some">>
      /\ t[i].match = {} => a = <<Returned(t[i]).to, "all">>
  BY <1>a DEF SaidBy
<1>2. t \in Seq(Good(b)) /\ Len(t) \in Nat /\ (\A j \in 1 .. Len(t) : t[j] \in Good(b)) /\ k \in 1 .. Len(t)
  BY <1>0, ShapeFacts DEF CatchAllAt
<1>3. i \in 1 .. Len(t) /\ Fits(t[i], In(0), dest)
  BY <1>1 DEF FirstFit
<1>4. Fits(t[i], from, dest)
  BY <1>1, <1>3 DEF Fits
<1>5. PICK j \in 1 .. i : FirstFit(t, j, from, dest) /\ Chosen(c, from, dest) = t[j].to
  BY <1>2, <1>3, <1>4, ChosenIs
<1>6. j \in 1 .. Len(t) /\ Fits(t[j], from, dest) /\ (\A h \in 1 .. j - 1 : ~Fits(t[h], from, dest)) /\ t[j] \in Good(b)
  BY <1>2, <1>5 DEF FirstFit
<1>7. Led(t, c, d, k)
  BY DEF Settled
<1>. HIDE DEF t
<1>8. CASE t[j].from = {}
  <2>1. j = i
    BY <1>6, <1>8, <1>1, <1>2, <1>3, <1>5 DEF Fits, FirstFit
  <2>2. t[i].match # {}
    <3>. SUFFICES ASSUME t[i].match = {} PROVE FALSE
      OBVIOUS
    <3>2. PICK h \in 1 .. k - 1 : t[h].from = {In(s)} /\ t[h].match = {}
      BY <1>7 DEF Led
    <3>. QED  BY <1>6, <2>1, <3>2, <1>1 DEF Fits
  <2>4. ~Foreign(t[i].to)
    <3>. SUFFICES ASSUME Foreign(t[i].to) PROVE FALSE
      OBVIOUS
    <3>1. PICK w \in t[i].match : w \in dest
      BY <1>3, <2>2 DEF Fits
    <3>2. PICK h \in 1 .. i - 1 : t[h].from = {In(s)} /\ (t[h].match = {} \/ w \in t[h].match)
      BY <1>1, <1>3, <1>7, <2>2, <3>1 DEF Led
    <3>. QED  BY <1>6, <2>1, <3>2, <3>1 DEF Fits
  <2>. QED  BY <1>5, <2>1, <2>4, <1>1, <2>2 DEF CountryWay
<1>9. CASE t[j].from # {}
  <2>1. from \in t[j].from
    BY <1>6, <1>9 DEF Fits
  <2>3. t[j].to = SlotTarget(c, d, s) /\ j < k
    BY <1>6, <1>7, <2>1 DEF Led
  <2>5. a[2] = "all" \/ Foreign(a[1])
    <3>. SUFFICES ASSUME a[2] # "all", ~Foreign(a[1]) PROVE FALSE
      OBVIOUS
    <3>1. t[i].match # {} /\ ~Foreign(t[i].to)
      BY <1>1
    <3>2. i < k
      <4>1. t[k].match = {}
        <5>1. PICK to : CatchAllAt(t, k, to)
          BY <1>0, ShapeFacts DEF t
        <5>. QED  BY <5>1 DEF CatchAllAt, Rule
      <4>. QED  BY <1>2, <3>1, <4>1
    <3>3. t[j].match # {}
      <4>. SUFFICES ASSUME t[j].match = {} PROVE FALSE
        OBVIOUS
      <4>1. IsOurs(t[j])
        BY <2>1 DEF IsOurs
      <4>2. i \in 1 .. k - 1
        BY <1>2, <3>2
      <4>3. i < j
        BY <1>1, <1>6, <1>7, <4>1, <4>2 DEF Led
      <4>. QED  BY <1>2, <1>5, <4>3
    <3>4. PICK w \in t[j].match : w \in dest
      BY <1>6, <3>3 DEF Fits
    <3>5. PICK v \in t[i].match : v \in dest
      BY <1>3, <3>1 DEF Fits
    <3>7. w \notin Russian
      BY <2>3, SlotTargetIs, <1>6 DEF Good
    <3>8. dest # {"dns-world"}
      BY <1>1, <3>1, <3>5 DEF Good
    <3>9. dest # Own
      BY <3>4, <3>5, <1>1, <1>6, <1>9, <3>1 DEF Own, Good
    <3>10. dest = Gov
      BY <3>4, <3>7, <3>8, <3>9 DEF Ru, Russian, World
    <3>11. PICK h \in 1 .. Len(t) : Blocks(t[h]) /\ \A g \in 1 .. h - 1 : t[g].from \in Insiders
      BY DEF GovFirst, t
    <3>12. Fits(t[h], from, dest) /\ t[h].from = {}
      BY <3>10, <3>11 DEF Blocks, Fits, Gov
    <3>15. j = h
      BY <1>2, <1>6, <3>11, <3>12, <2>1, FromIs
    <3>. QED  BY <1>9, <3>12, <3>15
  <2>. QED  BY <1>5, <2>3, <2>5 DEF CountryWay
<1>. QED  BY <1>8, <1>9

(* Who leads to the director has one.                                      *)
LEMMA DirectorChosen ==
  ASSUME NEW b \in Database, NEW d, NEW c, NEW l, Shape(c, b, d, l), DirectorsPlace(c),
         NEW from, NEW dest, Chosen(c, from, dest) = Director
  PROVE  Settled(c, b, d, l) /\ Directed(c, d, l)
<1>1. /\ Len(c.rules) \in Nat /\ \E to : to # Direct /\ CatchAllAt(c.rules, l, to)
  BY ShapeFacts
<1>2. PICK to : CatchAllAt(c.rules, l, to)
  BY <1>1
<1>3. Decided(c, l, from, dest)
  BY <1>1, <1>2, SomeChosen
<1>4. PICK i \in 1 .. l : FirstFit(c.rules, i, from, dest) /\ Chosen(c, from, dest) = c.rules[i].to
  BY <1>3 DEF Decided
<1>. QED  BY DirectorThere, ShapeAsks, <1>4 DEF DirectorsPlace, FirstFit

(* Through a director, traffic comes to the countries.                     *)
Beyond(c, d, up) == UNION {Exits(c, up, SlotTarget(c, d, x[2])) : x \in {y \in Tags(c) : y[1] = "auto-via"}}

(* What is sent to the director comes out at the countries.                *)
LEMMA DirectorReaches ==
  ASSUME NEW b \in Database, NEW d, NEW c, NEW k, Settled(c, b, d, k), Directed(c, d, k),
         NEW from, NEW dest, Chosen(c, from, dest) = Director, NEW up
  PROVE  Reached(c, up, from, dest) = {Block} \cup Beyond(c, d, up)
<1>. DEFINE tags == {y \in Tags(c) : y[1] = "auto-via"}
<1>2. \A x \in tags : Chosen(c, LoopIn(x[2]), dest) = SlotTarget(c, d, x[2])
  <2>. TAKE x \in tags
  <2>1. PICK s \in Lively(c, d) : x = Loop(s)
    BY DEF Loops, Directed
  <2>. QED  BY LoopChosen, <2>1 DEF Loop
<1>. HIDE DEF tags
<1>. QED  BY <1>2 DEF Beyond, tags, Reached

(* They are the same for files of one house.                               *)
LEMMA BeyondSame ==
  ASSUME NEW b \in Database, NEW d \in Database, NEW c, NEW e, NEW k, Settled(c, b, d, k), Directed(c, d, k),
         SameHouse(c, e), NEW up
  PROVE  Beyond(c, d, up) = Beyond(e, d, up)
<1>1. Tags(c) = Tags(e) /\ SameNodes(c, e) /\ \A to : Exits(c, up, to) = Exits(e, up, to)
  BY HouseTags
<1>. DEFINE tags == {y \in Tags(c) : y[1] = "auto-via"}
<1>2. \A x \in tags : x[2] \in Slots
  <2>. TAKE x \in tags
  <2>2. PICK s \in Lively(c, d) : x = Loop(s)
    BY DEF Loops, Directed
  <2>. QED  BY <2>2 DEF Loop, Lively
<1>5. Beyond(c, d, up) = UNION {Exits(c, up, SlotTarget(c, d, x[2])) : x \in tags}
  BY DEF Beyond
<1>6. Beyond(e, d, up) = UNION {Exits(e, up, SlotTarget(e, d, x[2])) : x \in tags}
  BY <1>1 DEF Beyond
<1>. HIDE DEF tags
<1>. QED  BY <1>1, <1>5, <1>6, <1>2, SameCountries

(* A file with all that is needed to follow traffic through it.            *)
Guided(c, b, d, l) == Shape(c, b, d, l) /\ DirectorsPlace(c) /\ GovFirst(c.rules)

(* Files of one house that say the same choose the same.                   *)
LEMMA SameChosen ==
  ASSUME NEW b \in Database, NEW d \in Database, NEW g, NEW k, Guided(g, b, d, k), NEW e, NEW l, Guided(e, b, d, l),
         SameHouse(g, e), NEW dest \in Ru \cup World \cup {Gov, Own}, NEW a, Says(g.rules, dest, a), Says(e.rules, dest, a),
         NEW from \in g.ins \ {Api}
  PROVE  Chosen(g, from, dest) = Chosen(e, from, dest)
<1>1. /\ Shape(g, b, d, k) /\ DirectorsPlace(g) /\ GovFirst(g.rules)
      /\ Shape(e, b, d, l) /\ DirectorsPlace(e) /\ GovFirst(e.rules)
  BY DEF Guided
<1>2. g.ins = e.ins /\ g.bal = e.bal /\ SameNodes(g, e)
  BY HouseTags DEF SameHouse
<1>4. CASE from = In(0)
  BY <1>4, <1>1, AutoSays, <1>2 DEF AutoWay
<1>5. ASSUME NEW s \in Slots, from = In(s) PROVE Chosen(g, from, dest) = Chosen(e, from, dest)
  <2>2. Settled(g, b, d, k) /\ Settled(e, b, d, l)
    BY <1>1, ShapeAsks, <1>2, <1>5
  <2>5. CountryWay(g, d, s, a) = CountryWay(e, d, s, a)
    BY <1>2, SameCountries DEF CountryWay
  <2>. QED  BY <1>5, <2>5, <1>1, <2>2, CountrySays
<1>. QED  BY <1>4, <1>5, <1>1, ShapeAsks DEF Asks

(* Two files of one house that say the same lead the same way.             *)
LEMMA SameWays ==
  ASSUME NEW b \in Database, NEW d \in Database, NEW g, NEW k, Guided(g, b, d, k), NEW e, NEW l, Guided(e, b, d, l),
         SameHouse(g, e), \A dest, a : Says(g.rules, dest, a) => Says(e.rules, dest, a)
  PROVE  SameRouting(g, e) /\ SameRouting(e, g)
<1>1. /\ Shape(g, b, d, k) /\ DirectorsPlace(g) /\ Shape(e, b, d, l) /\ DirectorsPlace(e)
  BY DEF Guided
<1>2. g.ins = e.ins
  BY DEF SameHouse
<1>3. ASSUME NEW from \in g.ins \ {Api}, NEW dest \in Ru \cup World \cup {Gov, Own}, NEW up \in SUBSET Nodes
      PROVE  Reached(g, up, from, dest) = Reached(e, up, from, dest)
  <2>2. PICK a : Says(g.rules, dest, a)
    BY SaysSomething, <1>1, ShapeFacts
  <2>4. Chosen(g, from, dest) = Chosen(e, from, dest)
    BY <2>2, SameChosen
  <2>5. CASE Chosen(g, from, dest) = Director
    <3>1. Settled(g, b, d, k) /\ Directed(g, d, k) /\ Settled(e, b, d, l) /\ Directed(e, d, l)
      BY <1>1, <2>4, <2>5, DirectorChosen
    <3>3. Reached(e, up, from, dest) = {Block} \cup Beyond(e, d, up)
      <4>1. Chosen(e, from, dest) = Director
        BY <2>4, <2>5
      <4>. QED  BY <3>1, <4>1, DirectorReaches
    <3>. QED  BY <3>3, <2>5, <3>1, DirectorReaches, BeyondSame
  <2>6. CASE Chosen(g, from, dest) # Director
    BY <2>6, <2>4, HouseTags DEF Reached
  <2>. QED  BY <2>5, <2>6
<1>. QED  BY <1>2, <1>3 DEF SameRouting

(* The layer's checks refuse a file with countries whose Russian rules     *)
(* come after a block of everything.                                       *)
LEMMA LateRefused ==
  ASSUME NEW b, NEW d, NEW c, NEW k, Settled(c, b, d, k), Late(c.rules), Slots # {}
  PROVE  ~OrderIsRight(c)
<1>. DEFINE t == c.rules
<1>1. PICK i \in 1 .. Len(t), j \in 1 .. Len(t) :
        /\ i < j /\ t[i].from = {} /\ t[i].match = {} /\ t[i].to = Block
        /\ t[j].from = {} /\ t[j].to = Direct
  BY DEF Late
<1>2. PICK s \in Slots : TRUE
  OBVIOUS
<1>3. PICK h \in 1 .. k - 1 : t[h].from = {In(s)} /\ t[h].match = {}
  BY <1>2 DEF Settled, Led
<1>4. t \in Seq(Good(b)) /\ k \in 1 .. Len(t)
  BY DEF Settled, Built, CatchAllAt
<1>5. DOMAIN t = 1 .. Len(t) /\ Len(t) \in Nat
  BY <1>4
<1>. HIDE DEF t
<1>6. h \in DOMAIN t /\ i \in DOMAIN t /\ j \in DOMAIN t
  BY <1>1, <1>3, <1>4, <1>5
<1>7. IsOurs(t[h]) /\ IsCatchAll(t[i])
  BY <1>1, <1>2, <1>3 DEF IsOurs, IsCatchAll
<1>8. ASSUME OrderIsRight(c) PROVE FALSE
  BY <1>3, <1>6, <1>7, <1>8, <1>1, <1>4, <1>5 DEF OrderIsRight, t
<1>. QED  BY <1>8

(* Without countries the order is right.                                   *)
LEMMA NobodysOrder ==
  ASSUME NEW c, Slots = {}
  PROVE  OrderIsRight(c)
BY DEF OrderIsRight, IsOurs

(* What is checked of a file with countries.                               *)
LEMMA SettledChecks ==
  ASSUME NEW b \in Database, NEW d \in Database, NEW c, NEW k, Settled(c, b, d, k), Real(b) = {} => Late(c.rules)
  PROVE  Sound(c) <=> (Real(b) # {} \/ Slots = {}) /\ MembersAreMeant(c)
BY SettledBals, NobodysOrder, SettledOrder, LateRefused DEF Sound

(* Of two bare files of one house the layer makes sound files or refuses   *)
(* both.                                                                   *)
LEMMA SameSound ==
  ASSUME NEW b \in Database, NEW d \in Database, NEW x, Bare(x, b), NEW y, Bare(y, b), SameHouse(x, y),
         Real(b) = {} => Late(x.rules) /\ Late(y.rules)
  PROVE  Sound(Transform(x, d)) <=> Sound(Transform(y, d))
<1>2. CASE ~d.multi
  BY <1>2, PlainSound, BareStripped DEF Transform, Bare
<1>3. CASE d.multi
  <2>1. ASSUME NEW z, Bare(z, b), Real(b) = {} => Late(z.rules)
        PROVE  Sound(Transform(z, d)) <=> (Real(b) # {} \/ Slots = {}) /\ MembersAreMeant(Transform(z, d))
    <3>. DEFINE g == Transform(z, d)
    <3>1. PICK l : Built(z, b, l)
      BY <2>1, PlainBuilt DEF Bare
    <3>2. PICK k : Settled(g, b, d, k)
      BY <1>3, <3>1, TransformSettles
    <3>3. Strip(g) = z
      BY <2>1, BareBack
    <3>. HIDE DEF g
    <3>5. Real(b) = {} => Late(g.rules)
      BY <2>1, <3>3, LateStripped, <3>2 DEF Settled, Built
    <3>. QED  BY <3>2, <3>5, SettledChecks DEF g
  <2>2. MembersAreMeant(Transform(x, d)) <=> MembersAreMeant(Transform(y, d))
    <3>. DEFINE g == Transform(x, d)
                e == Transform(y, d)
    <3>1. SameHouse(g, e)
      BY TransformHouse
    <3>. HIDE DEF g, e
    <3>. QED  BY <3>1, HouseTags DEF g, e, MembersAreMeant, SameHouse
  <2>. QED  BY <2>2, <2>1
<1>. QED  BY <1>2, <1>3

(* Joining the lists of a guided file leaves it guided and on its ways.    *)
LEMMA CompactGuided ==
  ASSUME NEW b \in Database, NEW d \in Database, NEW g, NEW k, Guided(g, b, d, k)
  PROVE  SameRouting(g, Compact(g))
<1>. DEFINE c == Compact(g)
<1>1. Shape(g, b, d, k) /\ DirectorsPlace(g) /\ GovFirst(g.rules)
  BY DEF Guided
<1>2. g \in Files /\ g.rules \in Seq(Good(b)) /\ g.rules \in Seq(RuleType)
  BY <1>1, ShapeCatches, PlainTyped, SeqWider
<1>2a. PICK t \in Seq(RuleType) :
          \E j : c = [g EXCEPT !.rules = t] /\ Joined(t, g.rules, Len(g.rules), j)
  BY <1>2, CompactJoins
<1>3. PICK j : c = [g EXCEPT !.rules = t] /\ Joined(t, g.rules, Len(g.rules), j)
  BY <1>2a
<1>4. c.rules = t /\ SameHouse(c, g)
  BY <1>2, <1>3, RulesPut
<1>5. PICK m : Shape(c, b, d, m) /\ Carries(g.rules, k, c.rules, m)
  BY <1>1, CompactShapes
<1>. HIDE DEF c
<1>7. DirectorsPlace(c)
  BY <1>3, <1>4, <1>1, <1>2, JoinedPlaces DEF SameHouse
<1>8. Guided(c, b, d, m)
  BY <1>1, <1>5, <1>7 DEF Guided, Carries
<1>9. ASSUME NEW dest, NEW a, Says(g.rules, dest, a) PROVE Says(c.rules, dest, a)
  <2>. DEFINE s == g.rules
  <2>. HIDE DEF s
  <2>. QED  BY <1>4, JoinedSays, <1>2, <1>3, <1>9
<1>. QED  BY <1>8, <1>9, SameWays, <1>4 DEF c, SameHouse

(* What the layers make of the same file in two ways.                      *)
LEMMA WaysAgree ==
  ASSUME NEW b \in Database, NEW d \in Database, NEW had \in BOOLEAN,
         NEW c, NEW l, Built(c, b, l), GovFirst(c.rules), Likens(Strip(c), b, had)
  PROVE  LET short == Transform(c, d)
             long  == Transform(Pipeline(b, had), d)
         IN /\ Sound(short) <=> Sound(long)
            /\ SameRouting(short, long) /\ SameRouting(short, Compact(long))
            /\ Transform(short, d) = short
            /\ Strip(short) = Strip(c)
<1>. DEFINE x == Strip(c)
            p == Pipeline(b, had)
            short == Transform(c, d)
            long  == Transform(p, d)
<1>1. Bare(x, b) /\ Bare(p, b) /\ SameHouse(x, p) /\ (Real(b) = {} => Late(x.rules) /\ Late(p.rules))
      /\ \A dest, a : Says(p.rules, dest, a) => Says(x.rules, dest, a)
  BY PipelineLikens DEF Likens
<1>2. short = Transform(x, d) /\ Strip(short) = x
  BY <1>1, TransformStripped
<1>3. Strip(long) = p
  <2>. HIDE DEF p
  <2>. QED  BY <1>1, BareBack
<1>4. SameHouse(short, long) /\ (Sound(short) <=> Sound(long))
  <2>. HIDE DEF x, p, short
  <2>. QED  BY <1>2, <1>1, TransformHouse, SameSound
<1>5. PICK k : Shape(short, b, d, k) /\ GovFirst(short.rules)
  BY TransformShapes DEF Carries
<1>6. PICK m : Shape(long, b, d, m) /\ GovFirst(long.rules)
  <2>1. PICK n : Built(p, b, n) /\ Carried(p.rules, n, b)
    BY PipelineCarried
  <2>. HIDE DEF p
  <2>2. PICK m : Shape(long, b, d, m) /\ Carries(p.rules, n, long.rules, m)
    BY <2>1, TransformShapes
  <2>. QED  BY <2>1, <2>2 DEF Carries, Carried
<1>7. Guided(short, b, d, k) /\ Guided(long, b, d, m)
  <2>. HIDE DEF x, p, short
  <2>. QED  BY <1>2, <1>5, <1>6, <1>1, TransformPlaces DEF Guided
<1>. HIDE DEF x, p, short, long
<1>8. ASSUME NEW dest, NEW a, Says(long.rules, dest, a) PROVE Says(short.rules, dest, a)
  BY <1>5, <1>6, ShapeCatches, <1>3, <1>8, StripSays, <1>1, BareFacts, <1>2, SaidBefore
<1>10. SameRouting(short, long)
  BY <1>7, <1>8, SameWays, <1>4 DEF SameHouse
<1>12. SameRouting(short, Compact(long))
  BY <1>10, <1>7, CompactGuided DEF SameRouting
<1>13. Transform(short, d) = short
  BY <1>1, <1>2, TransformStripped
<1>. QED  BY <1>2, <1>4, <1>10, <1>12, <1>13 DEF x, p, short, long

(* A file that is like the pipeline's had its to-de if that one has.       *)
LEMMA HadIs ==
  ASSUME NEW b \in Database, NEW had \in BOOLEAN, NEW c \in Files, Likens(Strip(c), b, had)
  PROVE  had = (ToDe \in RealTags(c))
<1>. DEFINE x == Strip(c)
            p == Pipeline(b, had)
<1>1. x.outs = p.outs
  BY DEF Likens, SameHouse
<1>2. ToDe \in RealTags(p) <=> had
  BY PipelineIs, PipedBare
<1>3. x.outs \in Seq(OutType) /\ ToSet(x.outs) = {o \in ToSet(c.outs) : o.tag[1] # "auto-via"}
  BY StripOuts
<1>. HIDE DEF x, p
<1>5. ToDe \in RealTags(x) <=> Out(ToDe, TRUE) \in ToSet(x.outs)
  BY <1>3, RealTagged
<1>7. ToDe \in RealTags(c) <=> Out(ToDe, TRUE) \in ToSet(c.outs)
  BY RealTagged DEF Files
<1>8. Out(ToDe, TRUE) \in ToSet(x.outs) <=> Out(ToDe, TRUE) \in ToSet(c.outs)
  <2>. DEFINE o == Out(ToDe, TRUE)
  <2>1. o.tag = ToDe
    BY OutTag
  <2>. HIDE DEF o
  <2>3. o \in ToSet(x.outs) <=> o \in ToSet(c.outs)
    BY <1>3, <2>1 DEF ToDe
  <2>. QED  BY <2>3 DEF o
<1>9. ToDe \in RealTags(c) <=> had
  BY <1>2, <1>5, <1>7, <1>8, <1>1 DEF RealTags
<1>. QED  BY <1>9

(* The invariant implies the property.                                     *)
LEMMA TracedAgrees == TracedInv => ShortWayAgrees
<1>. SUFFICES ASSUME TracedInv, made.whole PROVE ShortWayAgrees
  BY DEF ShortWayAgrees
<1>. DEFINE b == made.built
            d == [b EXCEPT !.multi = db.multi, !.home = db.home, !.on = db.on, !.director = db.director]
            now == ToDe \in RealTags(live)
            short == Transform(live, d)
            long  == Transform(Pipeline(d, now), d)
<1>1. Inv /\ Derived(live, made)
  BY DEF TracedInv
<1>2. db \in Database /\ b \in Database
  BY <1>1 DEF Inv, Mades
<1>3. d \in Database /\ d.node = b.node /\ d.own = b.own /\ d.geoip = b.geoip
  BY <1>2 DEF Database
<1>4. PICK l : Shape(live, b, made.plan, l) /\ Carried(live.rules, l, b)
  BY <1>1, RightFacts
<1>5. PICK had \in BOOLEAN : Likens(Strip(live), b, had)
  BY <1>1 DEF Derived
<1>6. Built(live, b, l) /\ live \in Files
  BY <1>2, <1>4, ShapeBuilt, ShapeCatches
<1>7. now = had
  BY <1>2, <1>5, <1>6, HadIs
<1>. HIDE DEF b, d, now
<1>9. long = Transform(Pipeline(b, had), d)
  BY <1>7, <1>2, <1>3, SamePipeline
<1>10. GovFirst(live.rules)
  BY <1>4 DEF Carried
<1>11. /\ Sound(short) <=> Sound(Transform(Pipeline(b, had), d))
       /\ SameRouting(short, Transform(Pipeline(b, had), d)) /\ SameRouting(short, Compact(Transform(Pipeline(b, had), d)))
       /\ Transform(short, d) = short
       /\ Strip(short) = Strip(live)
  BY <1>2, <1>3, <1>5, <1>6, <1>10, WaysAgree
<1>12. /\ Sound(short) <=> Sound(long)
       /\ SameRouting(short, long) /\ SameRouting(short, Compact(long))
       /\ Transform(short, d) = short
       /\ Strip(short) = Strip(live)
  BY <1>9, <1>11
<1>. HIDE DEF short, long
<1>. QED  BY <1>12 DEF ShortWayAgrees, b, d, now, short, long

(* The layer of the countries, run on a finished file, leads where the     *)
(* whole pipeline would lead, is refused when that would be, changes       *)
(* nothing the second time, and leaves the same file when it is taken off  *)
(* again.                                                                  *)
THEOREM ConfigShortWayAgrees == Spec => []ShortWayAgrees
<1>1. Init => TracedInv
  BY InitTraced
<1>2. TracedInv /\ [Next]_vars => TracedInv'
  BY NextTraces
<1>3. TracedInv => ShortWayAgrees
  BY TracedAgrees
<1>. QED  BY <1>1, <1>2, <1>3, PTL DEF Spec
=============================================================================
