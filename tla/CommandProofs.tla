----------------------------- MODULE CommandProofs -----------------------------
(***************************************************************************)
(* Proofs about the command, for any command lines, sites and baselines:   *)
(* its exit code tells the outcome, the checks it reports are those it     *)
(* made, its diff adds up and its scores hold.                             *)
(***************************************************************************)
EXTENDS Command, TLAPS, FiniteSetTheorems, SequenceTheorems

-----------------------------------------------------------------------------
(* The places of findings. *)

(* A place is a group and an index into its findings.                      *)
LEMMA PlaceIs ==
    ASSUME NEW in, IsGroups(in)
    PROVE  /\ \A g \in DOMAIN in : /\ in[g] \in Seq(Finding) /\ Len(in[g]) \in Nat
                                   /\ \A i \in 1 .. Len(in[g]) : in[g][i] \in Finding
           /\ \A p \in Places(in) : /\ p[1] \in DOMAIN in /\ p[2] \in 1 .. Len(in[p[1]])
                                    /\ p = <<p[1], p[2]>> /\ At(in, p) \in Finding
           /\ \A g \in DOMAIN in : \A i \in 1 .. Len(in[g]) :
                 <<g, i>> \in Places(in) /\ At(in, <<g, i>>) = in[g][i]
<1>1. ASSUME NEW g \in DOMAIN in
      PROVE  /\ in[g] \in Seq(Finding) /\ Len(in[g]) \in Nat
             /\ \A i \in 1 .. Len(in[g]) : in[g][i] \in Finding
  <2>1. in[g] \in Seq(Finding)
    BY DEF IsGroups
  <2> QED  BY <2>1, LenProperties, ElementOfSeq
<1>2. ASSUME NEW p \in Places(in)
      PROVE  p[1] \in DOMAIN in /\ p[2] \in 1 .. Len(in[p[1]]) /\ p = <<p[1], p[2]>>
  <2>1. PICK g \in DOMAIN in : p \in {g} \X (1 .. Len(in[g]))
    BY DEF Places
  <2> QED  BY <2>1
<1>3. \A p \in Places(in) : At(in, p) \in Finding
  BY <1>1, <1>2 DEF At
<1>4. ASSUME NEW g \in DOMAIN in, NEW i \in 1 .. Len(in[g])
      PROVE  <<g, i>> \in Places(in) /\ At(in, <<g, i>>) = in[g][i]
  BY DEF Places, At
<1> QED  BY <1>1, <1>2, <1>3, <1>4

(* The findings of a report are those of its groups. *)
LEMMA FlattenIs ==
    ASSUME NEW in, IsGroups(in)
    PROVE  /\ \A f \in Flatten(in) : /\ f \in Finding
                                     /\ \E g \in DOMAIN in : \E i \in 1 .. Len(in[g]) : f = in[g][i]
           /\ \A g \in DOMAIN in : \A i \in 1 .. Len(in[g]) : in[g][i] \in Flatten(in)
<1>1. ASSUME NEW f \in Flatten(in)
      PROVE  f \in Finding /\ \E g \in DOMAIN in : \E i \in 1 .. Len(in[g]) : f = in[g][i]
  <2>1. PICK p \in Places(in) : f = At(in, p)
    BY DEF Flatten
  <2> QED  BY <2>1, PlaceIs DEF At
<1>2. ASSUME NEW g \in DOMAIN in, NEW i \in 1 .. Len(in[g]) PROVE in[g][i] \in Flatten(in)
  <2>1. <<g, i>> \in Places(in) /\ At(in, <<g, i>>) = in[g][i]
    BY PlaceIs
  <2> QED  BY <2>1 DEF Flatten
<1> QED  BY <1>1, <1>2

(* There are finitely many places. *)
LEMMA PlacesFinite ==
    ASSUME NEW in, IsGroups(in)
    PROVE  IsFiniteSet(Places(in))
<1> DEFINE D == DOMAIN in
           part == [g \in D |-> {g} \X (1 .. Len(in[g]))]
           T == {{g} \X (1 .. Len(in[g])) : g \in D}
<1>1. part \in Surjection(D, T)
  BY DEF Surjection
<1>2. IsFiniteSet(T)
  <2>1. IsFiniteSet(D)
    BY DEF IsGroups
  <2> HIDE DEF D, T, part
  <2> QED  BY <1>1, <2>1, FS_Surjection
<1>3. \A t \in T : IsFiniteSet(t)
  <2> SUFFICES ASSUME NEW g \in D PROVE IsFiniteSet({g} \X (1 .. Len(in[g])))
    OBVIOUS
  <2>1. Len(in[g]) \in Nat
    BY PlaceIs
  <2>2. IsFiniteSet(1 .. Len(in[g]))
    <3>1. 1 \in Int /\ Len(in[g]) \in Int
      BY <2>1
    <3> QED  BY <3>1, FS_Interval
  <2>3. IsFiniteSet({g})
    BY FS_Singleton
  <2> QED  BY <2>2, <2>3, FS_Product
<1>4. IsFiniteSet(UNION T)
  <2> HIDE DEF T
  <2> QED  BY <1>2, <1>3, FS_UNION
<1> QED  BY <1>4 DEF Places

(* A part of the groups is groups. *)
LEMMA PartIs ==
    ASSUME NEW in, IsGroups(in), NEW D, D \subseteq DOMAIN in
    PROVE  IsGroups([g \in D |-> in[g]])
<1>1. IsFiniteSet(D)
  BY FS_Subset DEF IsGroups
<1>2. \A g \in D : in[g] \in Seq(Finding)
  BY DEF IsGroups
<1> QED  BY <1>1, <1>2 DEF IsGroups

(* Numbers of findings are numbers. *)
LEMMA CountsType ==
    ASSUME NEW in, IsGroups(in)
    PROVE  Counts(in) \in [Severities -> Nat]
<1> SUFFICES ASSUME NEW s \in Severities
             PROVE  Cardinality({p \in Places(in) : At(in, p).severity = s}) \in Nat
  BY DEF Counts
<1>1. IsFiniteSet({p \in Places(in) : At(in, p).severity = s})
  BY PlacesFinite, FS_Subset
<1> QED  BY <1>1, FS_CardinalityType

(* The penalty is a weighted sum. *)
LEMMA PenaltyIs ==
    ASSUME NEW in, IsGroups(in)
    PROVE  /\ Penalty(in) = Counts(in)[2] + 3 * Counts(in)[3] + 8 * Counts(in)[4] + 20 * Counts(in)[5]
           /\ Penalty(in) \in Nat
<1> DEFINE n == Counts(in)
<1>1. n[1] \in Nat /\ n[2] \in Nat /\ n[3] \in Nat /\ n[4] \in Nat /\ n[5] \in Nat
  BY CountsType DEF Severities
<1>2. Weight[1] = 0 /\ Weight[2] = 1 /\ Weight[3] = 3 /\ Weight[4] = 8 /\ Weight[5] = 20
  BY DEF Weight
<1>3. Penalty(in) = 0 * n[1] + 1 * n[2] + 3 * n[3] + 8 * n[4] + 20 * n[5]
  BY <1>2 DEF Penalty
<1> HIDE DEF n
<1>4. Penalty(in) = n[2] + 3 * n[3] + 8 * n[4] + 20 * n[5] /\ Penalty(in) \in Nat
  BY <1>1, <1>3
<1> QED  BY <1>4 DEF n

(* A score lies between 0 and 100, and a larger penalty gives no better one. *)
LEMMA ScoreIs ==
    ASSUME NEW p \in Nat, NEW q \in Nat, NEW n \in Nat \ {0}
    PROVE  /\ Score(p, n) \in 0 .. 100
           /\ q <= p => Score(p, n) <= Score(q, n)
<1>1. p \div n \in Nat /\ q \div n \in Nat
  BY SMTT(30)
<1>2. q <= p => q \div n <= p \div n
  BY SMTT(30)
<1> DEFINE x == p \div n
           y == q \div n
<1>3. Score(p, n) = Larger(0, 100 - x) /\ Score(q, n) = Larger(0, 100 - y)
  BY DEF Score
<1> HIDE DEF x, y
<1>4. x \in Nat /\ y \in Nat /\ (q <= p => y <= x)
  BY <1>1, <1>2 DEF x, y
<1> QED  BY <1>3, <1>4 DEF Larger

(* The worst severity bounds all, and is that of a finding or none.        *)
LEMMA MaxIs ==
    ASSUME NEW fs, fs \subseteq Finding
    PROVE  /\ MaxSeverity(fs) \in 0 .. 5
           /\ \A f \in fs : f.severity <= MaxSeverity(fs)
           /\ MaxSeverity(fs) = 0 \/ \E f \in fs : f.severity = MaxSeverity(fs)
<1> DEFINE S == {0} \cup {f.severity : f \in fs}
<1>1. S \subseteq 0 .. 5 /\ 0 \in S
  BY DEF Finding, Severities
<1>2. \E x \in S : \A y \in S : x >= y
  <2> HIDE DEF S
  <2>1. CASE 5 \in S
    BY <1>1, <2>1
  <2>2. CASE 5 \notin S /\ 4 \in S
    BY <1>1, <2>2
  <2>3. CASE 5 \notin S /\ 4 \notin S /\ 3 \in S
    BY <1>1, <2>3
  <2>4. CASE 5 \notin S /\ 4 \notin S /\ 3 \notin S /\ 2 \in S
    BY <1>1, <2>4
  <2>5. CASE 5 \notin S /\ 4 \notin S /\ 3 \notin S /\ 2 \notin S
    BY <1>1, <2>5
  <2> QED  BY <2>1, <2>2, <2>3, <2>4, <2>5
<1>3. MaxSeverity(fs) = Max(S)
  BY DEF MaxSeverity
<1>4. Max(S) \in S /\ \A y \in S : Max(S) >= y
  <2> HIDE DEF S
  <2> QED  BY <1>2 DEF Max
<1> QED  BY <1>1, <1>3, <1>4

-----------------------------------------------------------------------------
(* The keys of findings. *)

(* Findings that have the same key and severity are the same.              *)
LEMMA SameFinding ==
    ASSUME NEW f \in Finding, NEW g \in Finding, Key(f) = Key(g), f.severity = g.severity
    PROVE  f = g
<1>1. f.id = g.id /\ f.url = g.url /\ f.evidence = g.evidence
  BY DEF Key
<1>2. /\ f = [id |-> f.id, url |-> f.url, severity |-> f.severity, evidence |-> f.evidence]
      /\ g = [id |-> g.id, url |-> g.url, severity |-> g.severity, evidence |-> g.evidence]
  BY DEF Finding
<1> QED  BY <1>1, <1>2

(* A map by key keeps one finding for every key. *)
LEMMA ByKeyIs ==
    ASSUME NEW fs, fs \subseteq Finding
    PROVE  /\ \A f \in fs : \E g \in ByKey(fs) : Key(g) = Key(f)
           /\ \A f, g \in ByKey(fs) : Key(f) = Key(g) => f = g
<1>1. ASSUME NEW f \in fs PROVE \E g \in ByKey(fs) : Key(g) = Key(f)
  <2> DEFINE H == {h \in fs : Key(h) = Key(f)}
  <2>1. f \in H /\ \A h \in H : h.severity \in 1 .. 5
    BY DEF Finding, Severities
  <2>2. \E g \in H : \A h \in H : g.severity <= h.severity
    <3> HIDE DEF H
    <3>1. CASE \E h \in H : h.severity = 1
      BY <2>1, <3>1
    <3>2. CASE (\A h \in H : h.severity # 1) /\ \E h \in H : h.severity = 2
      BY <2>1, <3>2
    <3>3. CASE (\A h \in H : h.severity \notin {1, 2}) /\ \E h \in H : h.severity = 3
      BY <2>1, <3>3
    <3>4. CASE (\A h \in H : h.severity \notin {1, 2, 3}) /\ \E h \in H : h.severity = 4
      BY <2>1, <3>4
    <3>5. CASE \A h \in H : h.severity \notin {1, 2, 3, 4}
      BY <2>1, <3>5
    <3> QED  BY <3>1, <3>2, <3>3, <3>4, <3>5
  <2>3. PICK g \in H : \A h \in H : g.severity <= h.severity
    BY <2>2
  <2>4. g \in ByKey(fs)
    BY <2>3 DEF ByKey
  <2> QED  BY <2>3, <2>4
<1>2. ASSUME NEW f \in ByKey(fs), NEW g \in ByKey(fs), Key(f) = Key(g) PROVE f = g
  <2>1. f \in Finding /\ g \in Finding /\ f.severity <= g.severity /\ g.severity <= f.severity
    BY <1>2 DEF ByKey
  <2>2. f.severity = g.severity
    BY <2>1 DEF Finding, Severities
  <2> QED  BY <1>2, <2>1, <2>2, SameFinding
<1> QED  BY <1>1, <1>2

(* The findings of a report are finitely many. *)
LEMMA FlattenFinite ==
    ASSUME NEW in, IsGroups(in)
    PROVE  /\ Flatten(in) \subseteq Finding
           /\ IsFiniteSet(Flatten(in)) /\ IsFiniteSet(KeysOf(in))
<1> DEFINE spots == Places(in)
           F == Flatten(in)
           K == KeysOf(in)
           at == [p \in spots |-> At(in, p)]
           key == [f \in F |-> Key(f)]
<1>1. at \in Surjection(spots, F)
  BY DEF Surjection, Flatten
<1>2. key \in Surjection(F, K)
  BY DEF Surjection, KeysOf
<1>3. IsFiniteSet(spots)
  BY PlacesFinite
<1>4. IsFiniteSet(F)
  <2> HIDE DEF spots, F, at
  <2> QED  BY <1>1, <1>3, FS_Surjection
<1>5. IsFiniteSet(K)
  <2> HIDE DEF F, K, key
  <2> QED  BY <1>2, <1>4, FS_Surjection
<1> QED  BY <1>4, <1>5, FlattenIs

(* What is absent are the keys that only one side has, one finding each.   *)
LEMMA AbsentIs ==
    ASSUME NEW in, IsGroups(in), NEW other, IsGroups(other)
    PROVE  LET A == Absent(Flatten(in), Flatten(other)) IN
           /\ \A f \in A : f \in Flatten(in) /\ Key(f) \notin KeysOf(other)
           /\ \A k \in KeysOf(in) \ KeysOf(other) : \E f \in A : Key(f) = k
           /\ Cardinality(A) = Cardinality(KeysOf(in) \ KeysOf(other))
<1> DEFINE F == Flatten(in)
           G == Flatten(other)
           A == Absent(F, G)
           K == KeysOf(in) \ KeysOf(other)
           key == [f \in A |-> Key(f)]
<1>0. F \subseteq Finding /\ G \subseteq Finding /\ IsFiniteSet(F)
  BY FlattenFinite
<1>1. ASSUME NEW f \in A PROVE f \in F /\ f \in ByKey(F) /\ Key(f) \notin KeysOf(other)
  <2>1. f \in ByKey(F) /\ \A g \in ByKey(G) : Key(g) # Key(f)
    BY DEF Absent
  <2>2. \A g \in G : Key(g) # Key(f)
    <3> TAKE g \in G
    <3>1. PICK h \in ByKey(G) : Key(h) = Key(g)
      BY <1>0, ByKeyIs
    <3> QED  BY <2>1, <3>1
  <2> QED  BY <2>1, <2>2 DEF ByKey, KeysOf
<1>2. ASSUME NEW k \in K PROVE \E f \in A : Key(f) = k
  <2>1. PICK f \in F : Key(f) = k
    BY DEF KeysOf
  <2>2. PICK g \in ByKey(F) : Key(g) = k
    BY <1>0, <2>1, ByKeyIs
  <2>3. \A h \in ByKey(G) : Key(h) # k
    BY DEF KeysOf, ByKey
  <2> QED  BY <2>2, <2>3 DEF Absent
<1>3. key \in Bijection(A, K)
  <2>1. key \in [A -> K]
    <3> SUFFICES ASSUME NEW f \in A PROVE Key(f) \in K
      OBVIOUS
    <3> QED  BY <1>1 DEF KeysOf
  <2>2. \A f, g \in A : key[f] = key[g] => f = g
    BY <1>0, <1>1, ByKeyIs
  <2>3. \A k \in K : \E f \in A : key[f] = k
    BY <1>2
  <2> HIDE DEF A, K, key
  <2> QED  BY <2>1, <2>2, <2>3 DEF Bijection, Injection, Surjection, IsInjective
<1>4. IsFiniteSet(A)
  <2>1. A \subseteq F
    BY <1>1
  <2> HIDE DEF A
  <2> QED  BY <1>0, <2>1, FS_Subset
<1>5. Cardinality(A) = Cardinality(K)
  <2>1. ExistsBijection(A, K)
    BY <1>3 DEF ExistsBijection
  <2> HIDE DEF A, K
  <2> QED  BY <1>4, <2>1, FS_Bijection
<1> QED  BY <1>1, <1>2, <1>5

(* Without two findings of one key there are as many keys as findings.     *)
LEMMA DistinctCount ==
    ASSUME NEW in, IsGroups(in), Distinct(in)
    PROVE  Cardinality(Places(in)) = Cardinality(KeysOf(in))
<1> DEFINE spots == Places(in)
           K == KeysOf(in)
           key == [p \in spots |-> Key(At(in, p))]
<1>1. ASSUME NEW p \in spots, NEW q \in spots, key[p] = key[q] PROVE p = q
  <2> DEFINE S == {r \in spots : Key(At(in, r)) = Key(At(in, p))}
  <2>1. At(in, p) \in Flatten(in)
    BY DEF Flatten
  <2>2. Cardinality(S) = 1
    BY <2>1 DEF Distinct, Times
  <2>3. IsFiniteSet(S)
    BY PlacesFinite, FS_Subset
  <2>4. p \in S /\ q \in S
    BY <1>1
  <2>5. \E x : S = {x}
    <3> HIDE DEF S
    <3> QED  BY <2>2, <2>3, FS_Singleton
  <2> HIDE DEF S
  <2> QED  BY <2>4, <2>5
<1>2. key \in [spots -> K]
  BY DEF KeysOf, Flatten
<1>3. \A k \in K : \E p \in spots : key[p] = k
  BY DEF KeysOf, Flatten
<1>4. ExistsBijection(spots, K)
  <2> HIDE DEF spots, K, key
  <2>1. key \in Bijection(spots, K)
    BY <1>1, <1>2, <1>3 DEF Bijection, Injection, Surjection, IsInjective
  <2> QED  BY <2>1 DEF ExistsBijection
<1>5. IsFiniteSet(spots)
  BY PlacesFinite
<1> HIDE DEF spots, K
<1>6. Cardinality(K) = Cardinality(spots)
  BY <1>4, <1>5, FS_Bijection
<1> QED  BY <1>6 DEF spots, K

(* A key is among the groups as often as the map of keys says. *)
LEMMA TimesIs ==
    ASSUME NEW in, IsGroups(in), NEW f
    PROVE  /\ Times(f, in) \in Nat
           /\ Times(f, in) = 0 <=> Key(f) \notin KeysOf(in)
<1> DEFINE S == {p \in Places(in) : Key(At(in, p)) = Key(f)}
<1>1. IsFiniteSet(S)
  BY PlacesFinite, FS_Subset
<1>2. S = {} <=> Key(f) \notin KeysOf(in)
  BY DEF KeysOf, Flatten
<1>3. Cardinality(S) \in Nat /\ (Cardinality(S) = 0 <=> S = {})
  <2> HIDE DEF S
  <2> QED  BY <1>1, FS_CardinalityType, FS_EmptySet
<1> QED  BY <1>2, <1>3 DEF Times

-----------------------------------------------------------------------------
(* Reports that have more findings. *)

(* A set with at least as many elements has an image of the other in it.   *)
LEMMA InjectionOf ==
    ASSUME NEW A, IsFiniteSet(A), NEW B, IsFiniteSet(B), Cardinality(A) <= Cardinality(B)
    PROVE  \E e \in [A -> B] : \A x, y \in A : e[x] = e[y] => x = y
<1> DEFINE m == Cardinality(A)
           n == Cardinality(B)
<1>1. m \in Nat /\ n \in Nat /\ m <= n
  BY FS_CardinalityType
<1>2. PICK a \in Bijection(1 .. m, A) : TRUE
  BY FS_CardinalityType DEF ExistsBijection
<1>3. PICK b \in Bijection(1 .. n, B) : TRUE
  BY FS_CardinalityType DEF ExistsBijection
<1> HIDE DEF m, n
<1>4. a \in [1 .. m -> A] /\ \A x \in A : \E i \in 1 .. m : a[i] = x
  BY <1>2 DEF Bijection, Surjection
<1>5. b \in [1 .. n -> B] /\ \A i, j \in 1 .. n : b[i] = b[j] => i = j
  BY <1>3 DEF Bijection, Injection, IsInjective
<1> DEFINE at[x \in A] == CHOOSE i \in 1 .. m : a[i] = x
           e == [x \in A |-> b[at[x]]]
<1>6. \A x \in A : at[x] \in 1 .. m /\ a[at[x]] = x
  BY <1>4
<1>7. \A x \in A : at[x] \in 1 .. n
  BY <1>1, <1>6
<1>8. e \in [A -> B]
  BY <1>5, <1>7
<1>9. \A x, y \in A : e[x] = e[y] => x = y
  BY <1>5, <1>6, <1>7
<1> QED  BY <1>8, <1>9

(* A report that has every finding of another as often has at least the    *)
(* other's penalty.                                                        *)
LEMMA CoversCosts ==
    ASSUME NEW in, IsGroups(in), NEW other, IsGroups(other), Covers(in, other)
    PROVE  Penalty(other) <= Penalty(in)
<1> DEFINE spots == Places(in)
           Q == Places(other)
           there(f) == {p \in spots : At(in, p) = f}
           here(f) == {q \in Q : At(other, q) = f}
           embed == [f \in Flatten(other) |->
                        CHOOSE e \in [here(f) -> there(f)] : \A x, y \in here(f) : e[x] = e[y] => x = y]
           h == [q \in Q |-> embed[At(other, q)][q]]
<1>1. IsFiniteSet(spots) /\ IsFiniteSet(Q)
  BY PlacesFinite
<1>2. ASSUME NEW f \in Flatten(other)
      PROVE  /\ embed[f] \in [here(f) -> there(f)]
             /\ \A x, y \in here(f) : embed[f][x] = embed[f][y] => x = y
  <2>1. IsFiniteSet(here(f)) /\ IsFiniteSet(there(f))
    BY <1>1, FS_Subset
  <2>2. Cardinality(here(f)) <= Cardinality(there(f))
    <3>1. Cardinality(here(f)) \in Nat /\ Cardinality(there(f)) \in Nat
      BY <2>1, FS_CardinalityType
    <3>2. Cardinality(there(f)) >= Cardinality(here(f))
      BY DEF Covers, Often
    <3> HIDE DEF here, there
    <3> QED  BY <3>1, <3>2
  <2>3. \E e \in [here(f) -> there(f)] : \A x, y \in here(f) : e[x] = e[y] => x = y
    <3> HIDE DEF here, there
    <3> QED  BY <2>1, <2>2, InjectionOf
  <2> QED  BY <2>3
<1>3. \A q \in Q : At(other, q) \in Flatten(other) /\ q \in here(At(other, q))
  BY DEF Flatten
<1>4. \A q \in Q : h[q] \in spots /\ At(in, h[q]) = At(other, q)
  <2> TAKE q \in Q
  <2>1. h[q] \in there(At(other, q))
    BY <1>2, <1>3, ZenonT(40)
  <2> QED  BY <2>1
<1>5. \A q, r \in Q : h[q] = h[r] => q = r
  <2> SUFFICES ASSUME NEW q \in Q, NEW r \in Q, h[q] = h[r] PROVE q = r
    OBVIOUS
  <2>1. At(other, q) = At(other, r)
    <3>1. h[q] = h[r]
      OBVIOUS
    <3> HIDE DEF h
    <3> QED  BY <1>4, <3>1
  <2>2. q \in here(At(other, q)) /\ r \in here(At(other, q))
    BY <2>1
  <2>3. embed[At(other, q)][q] = embed[At(other, q)][r]
    BY <2>1
  <2> QED  BY <1>2, <1>3, <2>2, <2>3
<1>6. ASSUME NEW s \in Severities PROVE Counts(other)[s] <= Counts(in)[s]
  <2> DEFINE S == {q \in Q : At(other, q).severity = s}
             T == {p \in spots : At(in, p).severity = s}
             k == [q \in S |-> h[q]]
  <2>1. k \in [S -> T] /\ \A q, r \in S : k[q] = k[r] => q = r
    <3> HIDE DEF h
    <3> QED  BY <1>4, <1>5
  <2>2. IsFiniteSet(T)
    BY <1>1, FS_Subset
  <2>3. Cardinality(S) <= Cardinality(T)
    <3> HIDE DEF S, T, k
    <3>1. k \in Injection(S, T)
      BY <2>1 DEF Injection, IsInjective
    <3> QED  BY <2>2, <3>1, FS_Injection
  <2> QED  BY <2>3 DEF Counts
<1> DEFINE m == Counts(in)
           n == Counts(other)
<1>7. m \in [Severities -> Nat] /\ n \in [Severities -> Nat]
  BY CountsType
<1>8. n[2] <= m[2] /\ n[3] <= m[3] /\ n[4] <= m[4] /\ n[5] <= m[5]
  BY <1>6 DEF Severities
<1>9. /\ Penalty(in) = m[2] + 3 * m[3] + 8 * m[4] + 20 * m[5]
      /\ Penalty(other) = n[2] + 3 * n[3] + 8 * n[4] + 20 * n[5]
  BY PenaltyIs
<1> HIDE DEF m, n
<1>10. /\ m[2] \in Nat /\ m[3] \in Nat /\ m[4] \in Nat /\ m[5] \in Nat
       /\ n[2] \in Nat /\ n[3] \in Nat /\ n[4] \in Nat /\ n[5] \in Nat
  BY <1>7 DEF Severities
<1> QED  BY <1>8, <1>9, <1>10

(* The groups of a report are finitely many. *)
LEMMA AreGroups ==
    ASSUME NEW in \in [orderedGroups -> Seq(Finding)]
    PROVE  IsGroups(in)
<1>1. IsFiniteSet({"crawlability"} \cup {"metadata"} \cup {"content"} \cup {"structured-data"}
                  \cup {"internal-linking"} \cup {"web-hygiene"})
  BY FS_Singleton, FS_Union
<1>2. DOMAIN in = orderedGroups
  OBVIOUS
<1>3. orderedGroups = {"crawlability"} \cup {"metadata"} \cup {"content"} \cup {"structured-data"}
                      \cup {"internal-linking"} \cup {"web-hygiene"}
  BY DEF orderedGroups
<1> QED  BY <1>1, <1>2, <1>3 DEF IsGroups

(* The categories of a report reach a threshold if and only if some of its *)
(* findings does.                                                          *)
LEMMA ThresholdIs ==
    ASSUME NEW in \in [orderedGroups -> Seq(Finding)], NEW c, NEW t \in 1 .. 6
    PROVE  ReachesThreshold(NewReport(c, in), t) <=> AtLeast(Flatten(in), t) # {}
<1> DEFINE r == NewReport(c, in)
<1>1. /\ r.groups = in /\ r.highest = MaxSeverity(Flatten(in))
      /\ r.categories = {g \in orderedGroups : in[g] # <<>>}
  BY DEF NewReport
<1>2. IsGroups(in)
  BY AreGroups
<1>3. Flatten(in) \subseteq Finding
  BY <1>2, FlattenFinite
<1>4. \A g \in orderedGroups :
         /\ in[g] \in Seq(Finding) /\ ToSet(in[g]) \subseteq Finding
         /\ ToSet(in[g]) = {in[g][i] : i \in 1 .. Len(in[g])}
  BY LenProperties, ElementOfSeq DEF ToSet
<1>5. \A f \in Finding : f.severity \in 1 .. 5
  BY DEF Finding, Severities
<1>6. ASSUME NEW f \in AtLeast(Flatten(in), t) PROVE ReachesThreshold(r, t)
  <2>1. f \in Flatten(in) /\ f.severity >= t /\ f.severity \in 1 .. 5
    BY <1>3, <1>5 DEF AtLeast
  <2>2. PICK g \in orderedGroups : \E i \in 1 .. Len(in[g]) : f = in[g][i]
    BY <1>2, <2>1, FlattenIs
  <2>3. f \in ToSet(in[g]) /\ in[g] # <<>>
    BY <1>4, <2>2, EmptySeq
  <2>4. MaxSeverity(ToSet(in[g])) \in 0 .. 5 /\ f.severity <= MaxSeverity(ToSet(in[g]))
    BY <1>4, <2>3, MaxIs
  <2>5. MaxSeverity(Flatten(in)) \in 0 .. 5 /\ f.severity <= MaxSeverity(Flatten(in))
    BY <1>3, <2>1, MaxIs
  <2>6. MaxSeverity(ToSet(in[g])) >= t /\ MaxSeverity(Flatten(in)) # 0
    BY <2>1, <2>4, <2>5
  <2>7. r.highest # 0 /\ g \in r.categories /\ MaxSeverity(ToSet(r.groups[g])) >= t
    BY <1>1, <2>3, <2>6
  <2> HIDE DEF r
  <2> QED  BY <2>7 DEF ReachesThreshold
<1>7. ASSUME ReachesThreshold(r, t) PROVE AtLeast(Flatten(in), t) # {}
  <2>1. PICK g \in orderedGroups : MaxSeverity(ToSet(in[g])) >= t
    <3>1. \E g \in r.categories : MaxSeverity(ToSet(r.groups[g])) >= t
      BY <1>7 DEF ReachesThreshold
    <3> HIDE DEF r
    <3> QED  BY <1>1, <3>1
  <2>2. MaxSeverity(ToSet(in[g])) \in 0 .. 5
    BY <1>4, MaxIs
  <2>3. MaxSeverity(ToSet(in[g])) # 0
    BY <2>1, <2>2
  <2>4. PICK f \in ToSet(in[g]) : f.severity = MaxSeverity(ToSet(in[g]))
    BY <1>4, <2>3, MaxIs
  <2>5. PICK i \in 1 .. Len(in[g]) : f = in[g][i]
    BY <1>4, <2>4
  <2>6. f \in Flatten(in)
    BY <1>2, <2>5, FlattenIs
  <2> QED  BY <2>1, <2>4, <2>6 DEF AtLeast
<1> QED  BY <1>6, <1>7

(* The numbers of a report lie where they belong.                          *)
LEMMA ReportIs ==
    ASSUME NEW in \in [orderedGroups -> Seq(Finding)], NEW c, c.indexable \in Nat
    PROVE  LET r == NewReport(c, in) IN
           /\ r.counts \in [Severities -> Nat] /\ r.highest \in 0 .. 5
           /\ r.scores.seo \in -1 .. 100 /\ r.scores.hygiene \in -1 .. 100
<1> DEFINE r == NewReport(c, in)
           n == c.indexable
<1>1. IsGroups(in) /\ IsGroups(Technical(in)) /\ IsGroups(Hygiene(in))
  <2>1. IsGroups(in)
    BY AreGroups
  <2>2. IsGroups([g \in DOMAIN in \ {"web-hygiene"} |-> in[g]])
    BY <2>1, PartIs
  <2>3. IsGroups([g \in DOMAIN in \cap {"web-hygiene"} |-> in[g]])
    BY <2>1, PartIs
  <2> QED  BY <2>1, <2>2, <2>3 DEF Technical, Hygiene
<1>2. r.counts \in [Severities -> Nat]
  BY <1>1, CountsType DEF NewReport
<1>3. r.highest \in 0 .. 5
  BY <1>1, FlattenFinite, MaxIs DEF NewReport
<1>4. r.scores = IF n = 0 THEN NoScores
                 ELSE [seo |-> Score(Penalty(Technical(in)), n), hygiene |-> Score(Penalty(Hygiene(in)), n)]
  BY DEF NewReport
<1>5. n # 0 => Score(Penalty(Technical(in)), n) \in 0 .. 100 /\ Score(Penalty(Hygiene(in)), n) \in 0 .. 100
  BY <1>1, PenaltyIs, ScoreIs
<1>6. r.scores.seo \in -1 .. 100 /\ r.scores.hygiene \in -1 .. 100
  <2> HIDE DEF r
  <2>1. CASE n = 0
    <3>1. r.scores = NoScores
      BY <1>4, <2>1
    <3> QED  BY <3>1 DEF NoScores
  <2>2. CASE n # 0
    <3> DEFINE x == Score(Penalty(Technical(in)), n)
               y == Score(Penalty(Hygiene(in)), n)
    <3>1. r.scores = [seo |-> x, hygiene |-> y] /\ x \in 0 .. 100 /\ y \in 0 .. 100
      BY <1>4, <1>5, <2>2
    <3> HIDE DEF x, y
    <3> QED  BY <3>1
  <2> QED  BY <2>1, <2>2
<1> QED  BY <1>2, <1>3, <1>6
-----------------------------------------------------------------------------
(* The invariant. *)

\* A crawl is there; a report is there and was not given up.
Late == phase \in {"check", "asked", "report", "render", "write", "exit"} \/ code \in {0, 1, 3, 4}
Reporting == phase \in {"render", "write", "exit"} \/ code \in {0, 1, 3, 4}
Cut == {"interrupted", "max-duration"}

\* The URLs that checks were reported for; those that are to be checked.
Told(in) == {f.url : f \in {x \in Flatten(in) : x.id = "check"}}
Asked ==
    (IF opts.external THEN ToSet(site.external) ELSE {})
    \cup (IF opts.https /\ crawl.pages > 0 THEN {HTTPStart} ELSE {})

\* Where the command is, and what belongs to where it is.
Shape ==
    /\ opts \in Options /\ site \in Crawls /\ file \in Files
    /\ phase \in {"validate", "discover", "crawl", "check", "asked", "report", "render", "write", "exit", "done"}
    /\ interrupted \in BOOLEAN /\ expired \in BOOLEAN /\ resErr \in BOOLEAN /\ written \in BOOLEAN
    /\ code \in {0, 1, 2, 3, 4, 5, Running} /\ (code = Running <=> phase # "done")
    /\ written <=> (phase = "exit" \/ code \in {0, 1, 3, 4})
    /\ phase \notin {"write", "exit", "done"} => diff = None

\* A crawl that is not the site's is one that was cut short.
CrawlHolds ==
    Late =>
        /\ crawl.stop \in {"completed", "max-pages", "start-disallowed"} \cup Cut
        /\ crawl.first \in {"ok", "blocked", "failed"}
        /\ crawl.pages \in Nat /\ crawl.indexable \in Nat
        /\ crawl.stop \in Cut => Done
        /\ crawl.pages = 0 => crawl.first = "failed"
        /\ ~Done => crawl = site

\* As long as the context lives, every link that was to be checked is
\* reported or ahead, and only those that are down are reported.
ChecksGoOn ==
    Late =>
        /\ groups \in [orderedGroups -> Seq(Finding)] /\ rest \in Seq(Texts)
        /\ phase = "asked" => rest # <<>>
        /\ phase = "report" /\ ~Done => rest = <<>>
        /\ phase \in {"check", "asked", "report"} /\ ~Done =>
               Told(groups) \cup (ToSet(rest) \cap site.down) = Asked \cap site.down

\* A report without an error is that of a whole audit.
ReportHolds ==
    Reporting =>
        /\ report = NewReport(crawl, groups)
        /\ resErr => Done
        /\ expired \/ crawl.stop \in Cut => resErr
        /\ ~resErr => crawl = site /\ Told(groups) = Asked \cap site.down
ReportTyped ==
    report # None => report.counts \in [Severities -> Nat] /\ report.highest \in 0 .. 5
                     /\ report.scores.seo \in -1 .. 100 /\ report.scores.hygiene \in -1 .. 100

DiffHolds ==
    phase = "write" /\ diff # None => Readable /\ diff = Compare(report, file)

\* What the codes of an audit stand for.
CodeHolds ==
    /\ code \in {0, 1} => ~resErr /\ crawl.pages > 0
    /\ CodeTellsOutcome

-----------------------------------------------------------------------------
(* The URLs that checks are made for. *)

(* The elements of a sequence are its first and those of the rest.         *)
LEMMA SetOfRest ==
    ASSUME NEW s \in Seq(Texts), s # <<>>
    PROVE  /\ Head(s) \in Texts /\ Tail(s) \in Seq(Texts)
           /\ ToSet(s) = {Head(s)} \cup ToSet(Tail(s))
<1>1. /\ Head(s) \in Texts /\ Tail(s) \in Seq(Texts) /\ Len(Tail(s)) = Len(s) - 1
      /\ \A i \in 1 .. Len(Tail(s)) : Tail(s)[i] = s[i + 1]
  BY HeadTailProperties
<1>2. Len(s) \in Nat \ {0} /\ Head(s) = s[1]
  BY EmptySeq
<1>3. ToSet(s) = {s[i] : i \in 1 .. Len(s)} /\ ToSet(Tail(s)) = {Tail(s)[i] : i \in 1 .. Len(Tail(s))}
  BY <1>1, LenProperties DEF ToSet
<1>4. ASSUME NEW x \in ToSet(s) PROVE x \in {Head(s)} \cup ToSet(Tail(s))
  <2>1. PICK i \in 1 .. Len(s) : x = s[i]
    BY <1>3
  <2>2. CASE i = 1
    BY <1>2, <2>1, <2>2
  <2>3. CASE i # 1
    <3>1. i - 1 \in 1 .. Len(Tail(s)) /\ Tail(s)[i - 1] = s[i]
      BY <1>1, <1>2, <2>1, <2>3
    <3> QED  BY <1>3, <2>1, <3>1
  <2> QED  BY <2>2, <2>3
<1>5. ASSUME NEW x \in {Head(s)} \cup ToSet(Tail(s)) PROVE x \in ToSet(s)
  <2>1. CASE x = Head(s)
    BY <1>2, <1>3, <2>1
  <2>2. CASE x \in ToSet(Tail(s))
    <3>1. PICK i \in 1 .. Len(Tail(s)) : x = s[i + 1]
      BY <1>1, <1>3, <2>2
    <3>2. i + 1 \in 1 .. Len(s)
      BY <1>1, <1>2, <3>1
    <3> QED  BY <1>3, <3>1, <3>2
  <2> QED  BY <1>5, <2>1, <2>2
<1> QED  BY <1>1, <1>4, <1>5

(* The elements of two sequences, one after the other, are those of both.  *)
LEMMA SetOfBoth ==
    ASSUME NEW s \in Seq(Texts), NEW t \in Seq(Texts)
    PROVE  s \o t \in Seq(Texts) /\ ToSet(s \o t) = ToSet(s) \cup ToSet(t)
<1> DEFINE b == s \o t
<1>1. /\ b \in Seq(Texts) /\ Len(b) = Len(s) + Len(t)
      /\ \A i \in 1 .. Len(s) + Len(t) : b[i] = IF i <= Len(s) THEN s[i] ELSE t[i - Len(s)]
  BY ConcatProperties
<1> HIDE DEF b
<1>2. Len(s) \in Nat /\ Len(t) \in Nat
  BY LenProperties
<1>3. /\ ToSet(s) = {s[i] : i \in 1 .. Len(s)} /\ ToSet(t) = {t[i] : i \in 1 .. Len(t)}
      /\ ToSet(b) = {b[i] : i \in 1 .. Len(b)}
  BY <1>1, LenProperties DEF ToSet
<1>4. ASSUME NEW x \in ToSet(b) PROVE x \in ToSet(s) \cup ToSet(t)
  <2>1. PICK i \in 1 .. Len(b) : x = b[i]
    BY <1>3
  <2>2. CASE i <= Len(s)
    BY <1>1, <1>2, <1>3, <2>1, <2>2
  <2>3. CASE ~(i <= Len(s))
    <3>1. i - Len(s) \in 1 .. Len(t) /\ x = t[i - Len(s)]
      BY <1>1, <1>2, <2>1, <2>3
    <3> QED  BY <1>3, <3>1
  <2> QED  BY <2>2, <2>3
<1>5. ASSUME NEW x \in ToSet(s) PROVE x \in ToSet(b)
  <2>1. PICK i \in 1 .. Len(s) : x = s[i]
    BY <1>3, <1>5
  <2>2. i \in 1 .. Len(b) /\ b[i] = x
    BY <1>1, <1>2, <2>1
  <2> QED  BY <1>3, <2>2
<1>6. ASSUME NEW x \in ToSet(t) PROVE x \in ToSet(b)
  <2>1. PICK i \in 1 .. Len(t) : x = t[i]
    BY <1>3, <1>6
  <2>2. i + Len(s) \in 1 .. Len(b) /\ i + Len(s) \in 1 .. Len(s) + Len(t)
        /\ ~(i + Len(s) <= Len(s)) /\ (i + Len(s)) - Len(s) = i
    BY <1>1, <1>2, <2>1
  <2>3. b[i + Len(s)] = x
    BY <1>1, <2>1, <2>2
  <2> QED  BY <1>3, <2>2, <2>3
<1> QED  BY <1>1, <1>4, <1>5, <1>6 DEF b

(* A failed check adds its URL to those reported, and nothing else.        *)
LEMMA FoundIs ==
    ASSUME groups \in [orderedGroups -> Seq(Finding)], NEW url \in Texts
    PROVE  /\ Found(url) \in [orderedGroups -> Seq(Finding)]
           /\ Told(Found(url)) = Told(groups) \cup {url}
<1> DEFINE g == IF url = HTTPStart THEN "web-hygiene" ELSE "internal-linking"
           f == [id |-> "check", url |-> url, severity |-> 2, evidence |-> ""]
           then == Found(url)
<1>1. g \in orderedGroups
  BY DEF orderedGroups
<1>2. f \in Finding /\ f.id = "check" /\ f.url = url
  <2>1. f.id = "check" /\ f.url = url
    OBVIOUS
  <2>2. f \in Finding
    <3>1. "check" \in Texts /\ "" \in Texts
      BY CrawlsAssumption
    <3>2. 2 \in Severities
      BY DEF Severities
    <3> QED  BY <3>1, <3>2 DEF Finding
  <2> QED  BY <2>1, <2>2
<1>3. then = [groups EXCEPT ![g] = Append(@, f)]
  BY DEF Found
<1> HIDE DEF g, f, then
<1>4. /\ groups[g] \in Seq(Finding) /\ Append(groups[g], f) \in Seq(Finding)
      /\ Len(Append(groups[g], f)) = Len(groups[g]) + 1
      /\ \A i \in 1 .. Len(groups[g]) : Append(groups[g], f)[i] = groups[g][i]
      /\ Append(groups[g], f)[Len(groups[g]) + 1] = f
  <2>1. groups[g] \in Seq(Finding)
    BY <1>1
  <2> QED  BY <1>2, <2>1, AppendProperties
<1>5. /\ then \in [orderedGroups -> Seq(Finding)]
      /\ then[g] = Append(groups[g], f) /\ \A k \in orderedGroups \ {g} : then[k] = groups[k]
  <2> DEFINE a == Append(groups[g], f)
  <2>1. then = [groups EXCEPT ![g] = a] /\ a \in Seq(Finding)
    BY <1>3, <1>4
  <2> HIDE DEF a
  <2>2. then \in [orderedGroups -> Seq(Finding)] /\ then[g] = a /\ \A k \in orderedGroups \ {g} : then[k] = groups[k]
    BY <1>1, <2>1
  <2> QED  BY <2>2 DEF a
<1>6. IsGroups(groups) /\ IsGroups(then) /\ DOMAIN groups = orderedGroups /\ DOMAIN then = orderedGroups
  BY <1>5, AreGroups
<1>7. \A k \in orderedGroups : Len(groups[k]) \in Nat
  BY <1>6, PlaceIs
<1>8. ASSUME NEW x \in Flatten(groups) PROVE x \in Flatten(then)
  <2>1. PICK k \in orderedGroups : \E i \in 1 .. Len(groups[k]) : x = groups[k][i]
    BY <1>6, FlattenIs
  <2>2. PICK i \in 1 .. Len(groups[k]) : x = groups[k][i]
    BY <2>1
  <2>3. CASE k = g
    <3>1. Len(then[g]) = Len(groups[g]) + 1 /\ then[g][i] = x
      BY <1>4, <1>5, <2>2, <2>3
    <3>2. i \in 1 .. Len(then[g])
      BY <1>1, <1>7, <2>2, <2>3, <3>1
    <3> QED  BY <1>1, <1>6, <3>1, <3>2, FlattenIs
  <2>4. CASE k # g
    <3>1. then[k] = groups[k]
      BY <1>5, <2>4
    <3> QED  BY <1>6, <2>2, <3>1, FlattenIs
  <2> QED  BY <2>3, <2>4
<1>9. f \in Flatten(then)
  <2>1. Len(groups[g]) \in Nat
    BY <1>1, <1>7
  <2>2. Len(then[g]) = Len(groups[g]) + 1 /\ then[g][Len(groups[g]) + 1] = f
    BY <1>4, <1>5
  <2>3. Len(groups[g]) + 1 \in 1 .. Len(then[g])
    BY <2>1, <2>2
  <2> QED  BY <1>1, <1>6, <2>2, <2>3, FlattenIs
<1>10. ASSUME NEW x \in Flatten(then) PROVE x \in Flatten(groups) \/ x = f
  <2>1. PICK k \in orderedGroups : \E i \in 1 .. Len(then[k]) : x = then[k][i]
    BY <1>6, FlattenIs
  <2>2. PICK i \in 1 .. Len(then[k]) : x = then[k][i]
    BY <2>1
  <2>3. CASE i \in 1 .. Len(groups[k])
    <3>1. x = groups[k][i]
      BY <1>4, <1>5, <2>2, <2>3
    <3> QED  BY <1>6, <2>3, <3>1, FlattenIs
  <2>4. CASE i \notin 1 .. Len(groups[k])
    <3>1. k = g
      BY <1>5, <2>2, <2>4
    <3>2. i = Len(groups[g]) + 1
      BY <1>1, <1>4, <1>5, <1>7, <2>2, <2>4, <3>1
    <3> QED  BY <1>4, <1>5, <2>2, <3>1, <3>2
  <2> QED  BY <2>3, <2>4
<1>11. Told(then) = Told(groups) \cup {url}
  BY <1>2, <1>8, <1>9, <1>10 DEF Told
<1> QED  BY <1>5, <1>11 DEF then

-----------------------------------------------------------------------------
(* The steps. *)

(* Where the command is stays sound.                                       *)
LEMMA ShapeStep == Shape /\ [Next]_vars => Shape'
<1> SUFFICES ASSUME Shape, [Next]_vars PROVE Shape'
  OBVIOUS
<1> USE DEF Shape, Running
<1>1. CASE Validate
  BY <1>1 DEF Validate, world, Exit, Go
<1>2. CASE Discover
  BY <1>2 DEF Discover, world, Go
<1>3. CASE Crawl
  BY <1>3 DEF Crawl, world, Go
<1>4. CASE Check
  BY <1>4 DEF Check, world, Go
<1>5. CASE Answer
  BY <1>5 DEF Answer, world, Go
<1>6. CASE Report
  BY <1>6 DEF Report, Err, Done, world, Go
<1>7. CASE Render
  BY <1>7 DEF Render, world, Exit, Go
<1>8. CASE Write
  <2>1. /\ phase = "write" /\ UNCHANGED <<opts, site, file, interrupted, expired, resErr, report, diff>>
        /\ \/ phase' = "exit" /\ code' = code /\ written' = TRUE
           \/ phase' = "done" /\ code' = 5 /\ written' = written
    BY <1>8 DEF Write, NotWritten, world, Exit, Go
  <2>2. CASE phase' = "exit" /\ code' = code /\ written' = TRUE
    BY <2>1, <2>2
  <2>3. CASE phase' = "done" /\ code' = 5 /\ written' = written
    BY <2>1, <2>3
  <2> QED  BY <2>1, <2>2, <2>3
<1>9. CASE ExitCode
  BY <1>9 DEF ExitCode, world, Exit
<1>10. CASE Interrupt
  BY <1>10 DEF Interrupt
<1>11. CASE Expire
  BY <1>11 DEF Expire
<1>12. CASE ChangeBaseline
  BY <1>12 DEF ChangeBaseline
<1>13. CASE UNCHANGED vars
  BY <1>13 DEF vars
<1> QED
  BY <1>1, <1>2, <1>3, <1>4, <1>5, <1>6, <1>7, <1>8, <1>9, <1>10, <1>11, <1>12, <1>13 DEF Next, Step

(* The context does not come back to life, and the command line and the    *)
(* site stay.                                                              *)
LEMMA WorldStep == Shape /\ [Next]_vars => UNCHANGED <<opts, site>> /\ (Done => Done')
<1> SUFFICES ASSUME Shape, [Next]_vars PROVE UNCHANGED <<opts, site>> /\ (Done => Done')
  OBVIOUS
<1> USE DEF Done
<1>1. CASE Validate
  BY <1>1 DEF Validate, world
<1>2. CASE Discover
  BY <1>2 DEF Discover, world
<1>3. CASE Crawl
  BY <1>3 DEF Crawl, world
<1>4. CASE Check
  BY <1>4 DEF Check, world
<1>5. CASE Answer
  BY <1>5 DEF Answer, world
<1>6. CASE Report
  BY <1>6 DEF Report, world
<1>7. CASE Render
  BY <1>7 DEF Render, world
<1>8. CASE Write
  BY <1>8 DEF Write, world
<1>9. CASE ExitCode
  BY <1>9 DEF ExitCode, world
<1>10. CASE Interrupt
  BY <1>10 DEF Interrupt
<1>11. CASE Expire
  BY <1>11 DEF Expire
<1>12. CASE ChangeBaseline
  BY <1>12 DEF ChangeBaseline
<1>13. CASE UNCHANGED vars
  BY <1>13 DEF vars
<1> QED
  BY <1>1, <1>2, <1>3, <1>4, <1>5, <1>6, <1>7, <1>8, <1>9, <1>10, <1>11, <1>12, <1>13 DEF Next, Step

(* A crawl that was cut short has its types, and a first page only if it   *)
(* has pages.                                                              *)
LEMMA CutShortIs ==
    ASSUME Shape, NEW c \in CutShort
    PROVE  /\ c.stop \in {"completed", "max-pages", "start-disallowed"} \cup Cut
           /\ c.first \in {"ok", "blocked", "failed"} /\ c.pages \in Nat /\ c.indexable \in Nat
           /\ c.pages = 0 => c.first = "failed"
           /\ c.groups \in [orderedGroups -> Seq(Finding)]
<1>1. /\ site.first \in {"ok", "blocked", "failed"} /\ site.pages \in Nat /\ site.indexable \in Nat
      /\ site.groups \in [orderedGroups -> Seq(Finding)]
      /\ DOMAIN site = {"stop", "first", "pages", "indexable", "groups", "external", "down"}
  BY CrawlsAssumption DEF Shape
<1>2. CASE c = NoPages
  <2>1. c.stop = "start-disallowed" /\ c.first = "failed" /\ c.pages = 0 /\ c.indexable = 0
    BY <1>1, <1>2 DEF NoPages
  <2>2. c.groups = [g \in orderedGroups |-> <<>>] /\ <<>> \in Seq(Finding)
    BY <1>1, <1>2, EmptySeq DEF NoPages
  <2> QED  BY <2>1, <2>2
<1>3. CASE c # NoPages
  <2>1. PICK n \in 1 .. site.pages, e \in Ends :
           c = EndedAfter(n, e)
    BY <1>3 DEF CutShort
  <2>2. /\ c.stop = e[1] /\ c.first = e[2] /\ c.pages = n /\ c.indexable = Smaller(site.indexable, n)
        /\ c.groups = site.groups
    BY <1>1, <2>1 DEF EndedAfter
  <2>3. e[1] \in {"completed", "max-pages"} \cup Cut /\ e[2] \in {"ok", "blocked", "failed"}
    BY <1>1 DEF Ends, Cut
  <2>4. n \in Nat \ {0} /\ Smaller(site.indexable, n) \in Nat
    BY <1>1 DEF Smaller
  <2> QED  BY <1>1, <2>2, <2>3, <2>4
<1> QED  BY <1>2, <1>3

(* A crawl is not changed after it ended.                                  *)
LEMMA CrawlStep == Shape /\ CrawlHolds /\ [Next]_vars => CrawlHolds'
<1> SUFFICES ASSUME Shape, CrawlHolds, [Next]_vars PROVE CrawlHolds'
  OBVIOUS
<1>0. UNCHANGED <<opts, site>> /\ (Done => Done')
  BY WorldStep
<1>a. ASSUME UNCHANGED crawl, Late' => Late PROVE CrawlHolds'
  <2> HIDE DEF Done
  <2> QED  BY <1>0, <1>a DEF CrawlHolds
<1> USE DEF Shape, Running, Late
<1>1. CASE Validate
  BY <1>1 DEF Validate, Exit, Go, CrawlHolds
<1>2. CASE Discover
  BY <1>2 DEF Discover, Go, CrawlHolds
<1>3. CASE Crawl
  <2>1. /\ site.stop \in {"completed", "max-pages", "start-disallowed"} /\ site.first \in {"ok", "blocked", "failed"}
        /\ site.pages \in Nat /\ site.indexable \in Nat /\ (site.pages = 0 => site.first = "failed")
    BY CrawlsAssumption
  <2>2. CASE ~Done /\ crawl' = site
    <3>1. crawl'.stop \notin Cut
      BY <2>1, <2>2 DEF Cut
    <3> QED  BY <1>0, <2>1, <2>2, <3>1 DEF CrawlHolds
  <2>3. CASE Done /\ crawl' \in CutShort
    <3>1. Done'
      BY <1>0, <2>3
    <3>2. /\ crawl'.stop \in {"completed", "max-pages", "start-disallowed"} \cup Cut
          /\ crawl'.first \in {"ok", "blocked", "failed"} /\ crawl'.pages \in Nat /\ crawl'.indexable \in Nat
          /\ crawl'.pages = 0 => crawl'.first = "failed"
      BY <2>1, <2>3, CutShortIs
    <3> HIDE DEF Done
    <3> QED  BY <3>1, <3>2 DEF CrawlHolds
  <2> QED  BY <1>3, <2>2, <2>3 DEF Crawl
<1>4. CASE Check
  BY <1>a, <1>4 DEF Check, world, Go
<1>5. CASE Answer
  BY <1>a, <1>5 DEF Answer, world, Go
<1>6. CASE Report
  BY <1>a, <1>6 DEF Report, Err, world, Go
<1>7. CASE Render
  BY <1>a, <1>7 DEF Render, world, Exit, Go
<1>8. CASE Write
  BY <1>a, <1>8 DEF Write, NotWritten, world, Exit, Go
<1>9. CASE ExitCode
  BY <1>a, <1>9 DEF ExitCode, world, Exit
<1>10. CASE Interrupt
  BY <1>a, <1>10 DEF Interrupt
<1>11. CASE Expire
  BY <1>a, <1>11 DEF Expire
<1>12. CASE ChangeBaseline
  BY <1>a, <1>12 DEF ChangeBaseline
<1>13. CASE UNCHANGED vars
  BY <1>a, <1>13 DEF vars
<1> QED
  BY <1>1, <1>2, <1>3, <1>4, <1>5, <1>6, <1>7, <1>8, <1>9, <1>10, <1>11, <1>12, <1>13 DEF Next, Step

(* The checks go on through the URLs, as long as the context lives.        *)
LEMMA ChecksStep == Shape /\ CrawlHolds /\ ChecksGoOn /\ [Next]_vars => ChecksGoOn'
<1> SUFFICES ASSUME Shape, CrawlHolds, ChecksGoOn, [Next]_vars PROVE ChecksGoOn'
  OBVIOUS
<1>0. UNCHANGED <<opts, site>> /\ (Done => Done')
  BY WorldStep
<1>a. ASSUME UNCHANGED <<crawl, groups, rest>>, Late' => Late,
             phase' = phase \/ phase' \notin {"check", "asked", "report"}
      PROVE  ChecksGoOn'
  <2>1. Asked' = Asked /\ Told(groups)' = Told(groups)
    BY <1>0, <1>a DEF Asked, Told
  <2> HIDE DEF Done
  <2>2. CASE phase' = phase
    BY <1>0, <1>a, <2>1, <2>2 DEF ChecksGoOn
  <2>3. CASE phase' \notin {"check", "asked", "report"}
    BY <1>0, <1>a, <2>1, <2>3 DEF ChecksGoOn
  <2> QED  BY <1>a, <2>2, <2>3
<1> USE DEF Shape, Running, Late
<1>1. CASE Validate
  BY <1>1 DEF Validate, Exit, Go, ChecksGoOn
<1>2. CASE Discover
  BY <1>2 DEF Discover, Go, ChecksGoOn
<1>3. CASE Crawl
  <2> DEFINE links == IF opts.external THEN site.external ELSE <<>>
             start == IF opts.https /\ crawl'.pages > 0 THEN <<HTTPStart>> ELSE <<>>
  <2>1. phase' = "check" /\ groups' = crawl'.groups /\ rest' = links \o start
    BY <1>3 DEF Crawl, Go
  <2>2. site.external \in Seq(Texts) /\ site.groups \in [orderedGroups -> Seq(Finding)]
        /\ DOMAIN site = {"stop", "first", "pages", "indexable", "groups", "external", "down"}
    BY CrawlsAssumption
  <2>3. <<>> \in Seq(Texts) /\ ToSet(<<>>) = {}
    BY EmptySeq DEF ToSet
  <2>4. <<HTTPStart>> \in Seq(Texts) /\ ToSet(<<HTTPStart>>) = {HTTPStart}
    <3>1. HTTPStart \in Texts
      BY CrawlsAssumption
    <3>2. Len(<<HTTPStart>>) = 1 /\ <<HTTPStart>>[1] = HTTPStart /\ DOMAIN <<HTTPStart>> = 1 .. 1
      OBVIOUS
    <3>3. ToSet(<<HTTPStart>>) = {<<HTTPStart>>[i] : i \in {1}}
      BY <3>2 DEF ToSet
    <3> QED  BY <3>1, <3>2, <3>3
  <2>5. links \in Seq(Texts) /\ start \in Seq(Texts)
    BY <2>2, <2>3, <2>4
  <2>6. rest' \in Seq(Texts) /\ ToSet(rest') = ToSet(links) \cup ToSet(start)
    <3> HIDE DEF links, start
    <3> QED  BY <2>1, <2>5, SetOfBoth
  <2>7. groups' \in [orderedGroups -> Seq(Finding)]
    <3>1. CASE crawl' = site
      BY <2>1, <2>2, <3>1
    <3>2. CASE crawl' \in CutShort
      BY <2>1, <3>2, CutShortIs
    <3> QED  BY <1>3, <3>1, <3>2 DEF Crawl
  <2>8. ASSUME ~Done' PROVE Told(groups)' \cup (ToSet(rest') \cap site.down) = Asked' \cap site.down
    <3>1. crawl' = site
      BY <1>0, <1>3, <2>8 DEF Crawl
    <3>2. Told(groups)' = {}
      <4>1. \A f \in Flatten(site.groups) : f.id # "check"
        BY CrawlsAssumption
      <4> QED  BY <2>1, <3>1, <4>1 DEF Told
    <3>3. ToSet(links) = IF opts.external THEN ToSet(site.external) ELSE {}
      BY <2>3
    <3>4. ToSet(start) = IF opts.https /\ crawl'.pages > 0 THEN {HTTPStart} ELSE {}
      BY <2>3, <2>4
    <3>5. Asked' = ToSet(links) \cup ToSet(start)
      BY <1>0, <3>3, <3>4 DEF Asked
    <3> QED  BY <2>6, <3>2, <3>5
  <2> HIDE DEF links, start, Done
  <2> QED  BY <1>0, <2>1, <2>6, <2>7, <2>8 DEF ChecksGoOn
<1>4. CASE Check
  <2>1. /\ UNCHANGED <<crawl, groups, rest, interrupted, expired>> /\ phase = "check"
        /\ phase' = IF rest = <<>> \/ Done THEN "report" ELSE "asked"
    BY <1>4 DEF Check, Go, world
  <2>2. Asked' = Asked /\ Told(groups)' = Told(groups) /\ (Done' <=> Done)
    BY <1>0, <2>1 DEF Asked, Told, Done
  <2> HIDE DEF Done
  <2> QED  BY <1>0, <2>1, <2>2 DEF ChecksGoOn
<1>5. CASE Answer
  <2>1. /\ UNCHANGED <<crawl, interrupted, expired>> /\ phase = "asked" /\ phase' = "check" /\ rest' = Tail(rest)
        /\ \E fails \in {Head(rest) \in site.down} \cup (IF Done THEN {TRUE} ELSE {}) :
               groups' = IF fails THEN Found(Head(rest)) ELSE groups
    BY <1>5 DEF Answer, Go, world
  <2>2. Asked' = Asked /\ (Done' <=> Done)
    BY <1>0, <2>1 DEF Asked, Done
  <2>3. groups \in [orderedGroups -> Seq(Finding)] /\ rest \in Seq(Texts) /\ rest # <<>>
    BY <2>1 DEF ChecksGoOn
  <2>4. Head(rest) \in Texts /\ rest' \in Seq(Texts) /\ ToSet(rest) = {Head(rest)} \cup ToSet(rest')
    BY <2>1, <2>3, SetOfRest
  <2>5. /\ Found(Head(rest)) \in [orderedGroups -> Seq(Finding)]
        /\ Told(Found(Head(rest))) = Told(groups) \cup {Head(rest)}
    BY <2>3, <2>4, FoundIs
  <2>6. groups' = groups \/ groups' = Found(Head(rest))
    BY <2>1
  <2>7. groups' \in [orderedGroups -> Seq(Finding)]
    BY <2>3, <2>5, <2>6
  <2>8. ASSUME ~Done PROVE Told(groups)' \cup (ToSet(rest') \cap site.down) = Asked \cap site.down
    <3>1. Told(groups) \cup (ToSet(rest) \cap site.down) = Asked \cap site.down
      BY <2>1, <2>8 DEF ChecksGoOn
    <3>2. groups' = IF Head(rest) \in site.down THEN Found(Head(rest)) ELSE groups
      BY <2>1, <2>8
    <3>3. CASE Head(rest) \in site.down
      <4>1. Told(groups)' = Told(groups) \cup {Head(rest)}
        BY <2>5, <3>2, <3>3 DEF Told
      <4> QED  BY <2>4, <3>1, <3>3, <4>1
    <3>4. CASE Head(rest) \notin site.down
      <4>1. Told(groups)' = Told(groups)
        BY <3>2, <3>4 DEF Told
      <4> QED  BY <2>4, <3>1, <3>4, <4>1
    <3> QED  BY <3>3, <3>4
  <2> HIDE DEF Done
  <2> QED  BY <1>0, <2>1, <2>2, <2>4, <2>7, <2>8 DEF ChecksGoOn
<1>6. CASE Report
  BY <1>a, <1>6 DEF Report, Err, world, Go
<1>7. CASE Render
  BY <1>a, <1>7 DEF Render, world, Exit, Go
<1>8. CASE Write
  BY <1>a, <1>8 DEF Write, NotWritten, world, Exit, Go
<1>9. CASE ExitCode
  BY <1>a, <1>9 DEF ExitCode, world, Exit
<1>10. CASE Interrupt
  BY <1>a, <1>10 DEF Interrupt
<1>11. CASE Expire
  BY <1>a, <1>11 DEF Expire
<1>12. CASE ChangeBaseline
  BY <1>a, <1>12 DEF ChangeBaseline
<1>13. CASE UNCHANGED vars
  BY <1>a, <1>13 DEF vars
<1> QED
  BY <1>1, <1>2, <1>3, <1>4, <1>5, <1>6, <1>7, <1>8, <1>9, <1>10, <1>11, <1>12, <1>13 DEF Next, Step

(* A report stays that of the crawl and of its checks.                     *)
LEMMA ReportStep == Shape /\ CrawlHolds /\ ChecksGoOn /\ ReportHolds /\ [Next]_vars => ReportHolds'
<1> SUFFICES ASSUME Shape, CrawlHolds, ChecksGoOn, ReportHolds, [Next]_vars PROVE ReportHolds'
  OBVIOUS
<1>0. UNCHANGED <<opts, site>> /\ (Done => Done')
  BY WorldStep
<1>a. ASSUME UNCHANGED <<crawl, groups, report, resErr, expired>>, Reporting' => Reporting
      PROVE  ReportHolds'
  <2>1. Asked' = Asked /\ Told(groups)' = Told(groups) /\ NewReport(crawl, groups)' = NewReport(crawl, groups)
    BY <1>0, <1>a DEF Asked, Told
  <2> HIDE DEF Done
  <2> QED  BY <1>0, <1>a, <2>1 DEF ReportHolds
<1> USE DEF Shape, Running, Reporting
<1>1. CASE Validate
  BY <1>1 DEF Validate, world, Exit, Go, ReportHolds
<1>2. CASE Discover
  BY <1>2 DEF Discover, world, Go, ReportHolds
<1>3. CASE Crawl
  <2>1. phase = "crawl" /\ phase' = "check" /\ code' = code
    BY <1>3 DEF Crawl, Go
  <2> QED  BY <2>1 DEF ReportHolds
<1>4. CASE Check
  BY <1>4 DEF Check, world, Go, ReportHolds
<1>5. CASE Answer
  BY <1>5 DEF Answer, world, Go, ReportHolds
<1>6. CASE Report
  <2>1. /\ phase = "report" /\ report' = NewReport(crawl, groups) /\ resErr' = Done
        /\ UNCHANGED <<crawl, groups, rest, interrupted, expired>>
    BY <1>6 DEF Report, Err, world
  <2>2. Asked' = Asked /\ Told(groups)' = Told(groups) /\ (Done' <=> Done)
        /\ NewReport(crawl, groups)' = NewReport(crawl, groups)
    BY <1>0, <2>1 DEF Asked, Told, Done
  <2>3. expired \/ crawl.stop \in Cut => Done
    BY <2>1 DEF CrawlHolds, Late, Done
  <2>4. ASSUME ~Done PROVE crawl = site /\ Told(groups) = Asked \cap site.down
    <3>1. crawl = site /\ rest = <<>> /\ Told(groups) \cup (ToSet(rest) \cap site.down) = Asked \cap site.down
      BY <2>1, <2>4 DEF CrawlHolds, ChecksGoOn, Late
    <3>2. ToSet(<<>>) = {}
      BY DEF ToSet
    <3> QED  BY <3>1, <3>2
  <2> HIDE DEF Done
  <2> QED  BY <1>0, <2>1, <2>2, <2>3, <2>4 DEF ReportHolds
<1>7. CASE Render
  BY <1>a, <1>7 DEF Render, world, Exit, Go
<1>8. CASE Write
  BY <1>a, <1>8 DEF Write, NotWritten, world, Exit, Go
<1>9. CASE ExitCode
  BY <1>a, <1>9 DEF ExitCode, world, Exit
<1>10. CASE Interrupt
  BY <1>a, <1>10 DEF Interrupt
<1>11. CASE Expire
  <2>1. phase \notin {"render", "write", "exit", "done"} /\ phase' = phase /\ code' = code
    BY <1>11 DEF Expire
  <2> QED  BY <2>1 DEF ReportHolds
<1>12. CASE ChangeBaseline
  BY <1>a, <1>12 DEF ChangeBaseline
<1>13. CASE UNCHANGED vars
  BY <1>a, <1>13 DEF vars
<1> QED
  BY <1>1, <1>2, <1>3, <1>4, <1>5, <1>6, <1>7, <1>8, <1>9, <1>10, <1>11, <1>12, <1>13 DEF Next, Step

(* The numbers of a report lie where they belong.                          *)
LEMMA TypedStep == Shape /\ CrawlHolds /\ ChecksGoOn /\ ReportTyped /\ [Next]_vars => ReportTyped'
<1> SUFFICES ASSUME Shape, CrawlHolds, ChecksGoOn, ReportTyped, [Next]_vars PROVE ReportTyped'
  OBVIOUS
<1>a. ASSUME UNCHANGED report PROVE ReportTyped'
  BY <1>a DEF ReportTyped
<1>1. CASE Validate
  BY <1>a, <1>1 DEF Validate
<1>2. CASE Discover
  BY <1>a, <1>2 DEF Discover
<1>3. CASE Crawl
  BY <1>a, <1>3 DEF Crawl
<1>4. CASE Check
  BY <1>a, <1>4 DEF Check
<1>5. CASE Answer
  BY <1>a, <1>5 DEF Answer
<1>6. CASE Report
  <2>1. phase = "report" /\ report' = NewReport(crawl, groups)
    BY <1>6 DEF Report
  <2>2. groups \in [orderedGroups -> Seq(Finding)] /\ crawl.indexable \in Nat
    BY <2>1 DEF CrawlHolds, ChecksGoOn, Late
  <2> QED  BY <2>1, <2>2, ReportIs DEF ReportTyped
<1>7. CASE Render
  BY <1>a, <1>7 DEF Render
<1>8. CASE Write
  BY <1>a, <1>8 DEF Write
<1>9. CASE ExitCode
  BY <1>a, <1>9 DEF ExitCode
<1>10. CASE Interrupt
  BY <1>a, <1>10 DEF Interrupt
<1>11. CASE Expire
  BY <1>a, <1>11 DEF Expire
<1>12. CASE ChangeBaseline
  BY <1>a, <1>12 DEF ChangeBaseline
<1>13. CASE UNCHANGED vars
  BY <1>a, <1>13 DEF vars
<1> QED
  BY <1>1, <1>2, <1>3, <1>4, <1>5, <1>6, <1>7, <1>8, <1>9, <1>10, <1>11, <1>12, <1>13 DEF Next, Step

(* A comparison is one of the report with the baseline that is there.      *)
LEMMA DiffStep == Shape /\ DiffHolds /\ [Next]_vars => DiffHolds'
<1> SUFFICES ASSUME Shape, DiffHolds, [Next]_vars PROVE DiffHolds'
  OBVIOUS
<1>a. ASSUME phase' # "write" PROVE DiffHolds'
  BY <1>a DEF DiffHolds
<1>b. ASSUME phase = "write", UNCHANGED <<report, diff, file>> PROVE DiffHolds'
  BY <1>b DEF DiffHolds, Readable
<1> USE DEF Shape, Running
<1>1. CASE Validate
  BY <1>a, <1>1 DEF Validate, Exit, Go
<1>2. CASE Discover
  BY <1>a, <1>2 DEF Discover, Go
<1>3. CASE Crawl
  BY <1>a, <1>3 DEF Crawl, Go
<1>4. CASE Check
  BY <1>a, <1>4 DEF Check, Go
<1>5. CASE Answer
  BY <1>a, <1>5 DEF Answer, Go
<1>6. CASE Report
  BY <1>a, <1>6 DEF Report, Go
<1>7. CASE Render
  <2>1. CASE ~opts.baseline
    BY <1>7, <2>1 DEF Render, DiffHolds, Go
  <2>2. CASE opts.baseline /\ ~Readable
    BY <1>a, <1>7, <2>2 DEF Render, Exit
  <2>3. CASE opts.baseline /\ Readable
    <3>1. diff' = Compare(report, file) /\ UNCHANGED <<report, file>>
      BY <1>7, <2>3 DEF Render, world
    <3>2. Readable' /\ Compare(report, file)' = Compare(report, file)
      BY <2>3, <3>1 DEF Readable
    <3> QED  BY <3>1, <3>2 DEF DiffHolds
  <2> QED  BY <2>1, <2>2, <2>3
<1>8. CASE Write
  BY <1>a, <1>8 DEF Write, NotWritten, Exit, Go
<1>9. CASE ExitCode
  BY <1>a, <1>9 DEF ExitCode, Exit
<1>10. CASE Interrupt
  BY <1>a, <1>b, <1>10 DEF Interrupt
<1>11. CASE Expire
  BY <1>a, <1>11 DEF Expire
<1>12. CASE ChangeBaseline
  BY <1>a, <1>12 DEF ChangeBaseline
<1>13. CASE UNCHANGED vars
  BY <1>a, <1>b, <1>13 DEF vars
<1> QED
  BY <1>1, <1>2, <1>3, <1>4, <1>5, <1>6, <1>7, <1>8, <1>9, <1>10, <1>11, <1>12, <1>13 DEF Next, Step

(* A code is given for what it stands for.                                 *)
LEMMA CodeStep ==
    Shape /\ CrawlHolds /\ ChecksGoOn /\ ReportHolds /\ CodeHolds /\ [Next]_vars => CodeHolds'
<1> SUFFICES ASSUME Shape, CrawlHolds, ChecksGoOn, ReportHolds, CodeHolds, [Next]_vars PROVE CodeHolds'
  OBVIOUS
<1>a. ASSUME code' = Running \/ (code' \in {2, 5} /\ ~written') PROVE CodeHolds'
  BY <1>a DEF CodeHolds, CodeTellsOutcome, Running
<1> USE DEF Shape, Running
<1>1. CASE Validate
  BY <1>a, <1>1 DEF Validate, Exit, Go
<1>2. CASE Discover
  BY <1>a, <1>2 DEF Discover, Go
<1>3. CASE Crawl
  BY <1>a, <1>3 DEF Crawl, Go
<1>4. CASE Check
  BY <1>a, <1>4 DEF Check, Go
<1>5. CASE Answer
  BY <1>a, <1>5 DEF Answer, Go
<1>6. CASE Report
  BY <1>a, <1>6 DEF Report, Go
<1>7. CASE Render
  BY <1>a, <1>7 DEF Render, Exit, Go
<1>8. CASE Write
  BY <1>a, <1>8 DEF Write, NotWritten, Exit, Go
<1>9. CASE ExitCode
  <2> DEFINE c == IF interrupted \/ resErr THEN 4
                  ELSE IF crawl.stop = "start-disallowed" THEN 3
                  ELSE IF crawl.pages = 0 THEN 4
                  ELSE IF crawl.first = "blocked" THEN 3
                  ELSE IF crawl.first = "failed" \/ crawl.stop \in {"interrupted", "max-duration"} THEN 4
                  ELSE IF Findings THEN 1 ELSE 0
  <2>1. /\ phase = "exit" /\ code' = c
        /\ UNCHANGED <<opts, interrupted, expired, crawl, groups, resErr, report, written>>
    BY <1>9 DEF ExitCode, Exit, world
  <2>2. /\ crawl.stop \in {"completed", "max-pages", "start-disallowed"} \cup Cut
        /\ crawl.first \in {"ok", "blocked", "failed"} /\ crawl.pages \in Nat
        /\ crawl.pages = 0 => crawl.first = "failed"
        /\ expired \/ crawl.stop \in Cut => resErr
        /\ resErr => Done
        /\ report = NewReport(crawl, groups) /\ groups \in [orderedGroups -> Seq(Finding)]
    BY <2>1 DEF CrawlHolds, ReportHolds, ChecksGoOn, Late, Reporting
  <2>3. report.groups = groups /\ report.stop = crawl.stop
    <3>1. report = NewReport(crawl, groups)
      BY <2>2
    <3> QED  BY <3>1 DEF NewReport
  <2>4. opts.failOn \in 0 .. 6
    BY OptionsAssumption
  <2>5. Findings <=> opts.failOn # 0 /\ AtLeast(Flatten(report.groups), opts.failOn) # {}
    <3>1. CASE opts.failOn = 0
      BY <3>1 DEF Findings
    <3>2. CASE opts.failOn # 0
      <4>1. opts.failOn \in 1 .. 6
        BY <2>4, <3>2
      <4>2. ReachesThreshold(report, opts.failOn) <=> AtLeast(Flatten(groups), opts.failOn) # {}
        BY <2>2, <4>1, ThresholdIs
      <4> QED  BY <2>3, <3>2, <4>2 DEF Findings
    <3> QED  BY <3>1, <3>2
  <2>6. (AtLeast(Flatten(report.groups), opts.failOn))' = AtLeast(Flatten(report.groups), opts.failOn)
    BY <2>1
  <2>7. Done' <=> Done
    BY <2>1 DEF Done
  <2>8. interrupted => Done
    BY DEF Done
  <2>9a. code' \in {0, 1, 3} => ~Done'
    BY <2>1, <2>2, <2>7 DEF Done
  <2>9. code' \in {0, 1} => /\ ~resErr' /\ crawl'.pages > 0
                            /\ crawl'.first = "ok" /\ crawl'.stop \in {"completed", "max-pages"}
    BY <2>1, <2>2 DEF Cut
  <2>10. ASSUME code' \in {0, 1}
         PROVE  (code' = 1) = (opts'.failOn # 0 /\ (AtLeast(Flatten(report.groups), opts.failOn))' # {})
    <3>1. code' = 1 <=> Findings
      BY <2>1, <2>10
    <3>2. opts' = opts
      BY <2>1
    <3> HIDE DEF c
    <3> QED  BY <2>5, <2>6, <3>1, <3>2
  <2>11. code' = 3 => crawl'.first = "blocked" \/ crawl'.stop = "start-disallowed"
    BY <2>1
  <2>12. code' = 4 => Done' \/ crawl'.first = "failed"
    BY <2>1, <2>2, <2>7, <2>8 DEF Cut
  <2>13. report'.stop \in {"interrupted", "max-duration"} => code' = 4
    BY <2>1, <2>2, <2>3 DEF Cut
  <2> HIDE DEF c, Done
  <2> QED  BY <2>9, <2>9a, <2>10, <2>11, <2>12, <2>13 DEF CodeHolds, CodeTellsOutcome
<1>10. CASE Interrupt
  BY <1>a, <1>10 DEF Interrupt
<1>11. CASE Expire
  BY <1>a, <1>11 DEF Expire
<1>12. CASE ChangeBaseline
  BY <1>a, <1>12 DEF ChangeBaseline
<1>13. CASE UNCHANGED vars
  <2>1. UNCHANGED <<code, resErr, crawl, opts, report, written, interrupted, expired>>
    BY <1>13 DEF vars
  <2> QED  BY <2>1 DEF CodeHolds, CodeTellsOutcome, Done
<1> QED
  BY <1>1, <1>2, <1>3, <1>4, <1>5, <1>6, <1>7, <1>8, <1>9, <1>10, <1>11, <1>12, <1>13 DEF Next, Step

-----------------------------------------------------------------------------
(* The theorems. *)

(* The parts of the invariant hold at every step.                          *)
LEMMA PartsHold ==
    Spec => [](Shape /\ CrawlHolds /\ ChecksGoOn /\ ReportHolds /\ ReportTyped /\ DiffHolds /\ CodeHolds)
<1>1. Init => Shape /\ CrawlHolds /\ ChecksGoOn /\ ReportHolds /\ ReportTyped /\ DiffHolds /\ CodeHolds
  <2> SUFFICES ASSUME Init
               PROVE  Shape /\ CrawlHolds /\ ChecksGoOn /\ ReportHolds /\ ReportTyped /\ DiffHolds /\ CodeHolds
    OBVIOUS
  <2>1. /\ opts \in Options /\ site \in Crawls /\ phase = "validate" /\ code = Running
        /\ interrupted = FALSE /\ expired = FALSE /\ resErr = FALSE /\ written = FALSE
        /\ report = None /\ diff = None
    BY DEF Init
  <2>2. file \in Files
    BY DEF Init, Files
  <2>3. Shape
    <3>1. /\ interrupted \in BOOLEAN /\ expired \in BOOLEAN /\ resErr \in BOOLEAN /\ written \in BOOLEAN
          /\ ~written
      BY <2>1
    <3> QED  BY <2>1, <2>2, <3>1 DEF Shape, Running
  <2>4. CrawlHolds /\ ChecksGoOn
    BY <2>1 DEF CrawlHolds, ChecksGoOn, Late, Running
  <2>5. ReportHolds
    BY <2>1 DEF ReportHolds, Reporting, Running
  <2>7. ReportTyped /\ DiffHolds
    BY <2>1 DEF ReportTyped, DiffHolds
  <2>6. CodeHolds
    BY <2>1 DEF CodeHolds, CodeTellsOutcome, Running
  <2> QED  BY <2>3, <2>4, <2>5, <2>6, <2>7
<1> QED
  BY <1>1, ShapeStep, CrawlStep, ChecksStep, ReportStep, TypedStep, DiffStep, CodeStep, PTL DEF Spec

(* The exit code tells the outcome, for any command line, site, baseline   *)
(* and threshold, whatever is interrupted or changed on the way.           *)
THEOREM CodeIsRight == Spec => []CodeTellsOutcome
<1>1. CodeHolds => CodeTellsOutcome
  BY DEF CodeHolds
<1> QED  BY <1>1, PartsHold, PTL

(* An audit that ended well checked all links and reports exactly those    *)
(* that are broken, however many links there are.                          *)
THEOREM ChecksAreRight == Spec => []ChecksAreTrue
<1>1. ASSUME Shape, CrawlHolds, ReportHolds, ChecksGoOn, CodeHolds PROVE ChecksAreTrue
  <2> SUFFICES ASSUME code \in {0, 1}
               PROVE  {f.url : f \in {x \in Flatten(report.groups) : x.id = "check"}}
                      = ((IF opts.external THEN ToSet(site.external) ELSE {})
                         \cup (IF opts.https THEN {HTTPStart} ELSE {})) \cap site.down
    BY DEF ChecksAreTrue
  <2>1. ~resErr /\ crawl.pages > 0
    BY <1>1 DEF CodeHolds
  <2>2. report = NewReport(crawl, groups) /\ Told(groups) = Asked \cap site.down
    BY <1>1, <2>1 DEF ReportHolds, Reporting
  <2>3. report.groups = groups
    BY <2>2 DEF NewReport
  <2>4. Asked = (IF opts.external THEN ToSet(site.external) ELSE {}) \cup (IF opts.https THEN {HTTPStart} ELSE {})
    BY <2>1 DEF Asked
  <2> QED  BY <2>2, <2>3, <2>4 DEF Told
<1> QED  BY <1>1, PartsHold, PTL

(* The comparison with the baseline adds up for any two reports, however   *)
(* many findings they have.                                                *)
THEOREM DiffIsRight == Spec => []DiffAddsUp
<1>1. ASSUME Shape, ChecksGoOn, ReportHolds, DiffHolds PROVE DiffAddsUp
  <2> SUFFICES ASSUME diff # None, phase = "write", Readable
               PROVE  /\ \A f \in diff.new : Times(f, report.groups) > 0 /\ Times(f, file.groups) = 0
                      /\ \A f \in diff.resolved : Times(f, report.groups) = 0 /\ Times(f, file.groups) > 0
                      /\ Distinct(report.groups) /\ Distinct(file.groups) =>
                             diff.findings = Cardinality(diff.new) - Cardinality(diff.resolved)
                      /\ Equal(diff) => KeysOf(report.groups) = KeysOf(file.groups)
    BY DEF DiffAddsUp
  <2> DEFINE now == report.groups
             then == file.groups
  <2>1. diff = Compare(report, file)
    BY <1>1 DEF DiffHolds
  <2>2. IsGroups(now)
    <3>1. report = NewReport(crawl, groups) /\ groups \in [orderedGroups -> Seq(Finding)]
      BY <1>1 DEF ReportHolds, ChecksGoOn, Reporting, Late
    <3>2. now = groups
      BY <3>1 DEF NewReport
    <3> QED  BY <3>1, <3>2, AreGroups
  <2>3. IsGroups(then)
    <3>1. file \in Baselines
      BY <1>1 DEF Shape, Files, Readable
    <3> QED  BY <3>1, BaselinesAssumption
  <2>4. /\ diff.new = Absent(Flatten(now), Flatten(then))
        /\ diff.resolved = Absent(Flatten(then), Flatten(now))
        /\ diff.findings = Cardinality(Places(now)) - Cardinality(Places(then))
    BY <2>1 DEF Compare
  <2> HIDE DEF now, then
  <2>5. /\ \A f \in diff.new : f \in Flatten(now) /\ Key(f) \notin KeysOf(then)
        /\ \A k \in KeysOf(now) \ KeysOf(then) : \E f \in diff.new : Key(f) = k
        /\ Cardinality(diff.new) = Cardinality(KeysOf(now) \ KeysOf(then))
    BY <2>2, <2>3, <2>4, AbsentIs
  <2>6. /\ \A f \in diff.resolved : f \in Flatten(then) /\ Key(f) \notin KeysOf(now)
        /\ \A k \in KeysOf(then) \ KeysOf(now) : \E f \in diff.resolved : Key(f) = k
        /\ Cardinality(diff.resolved) = Cardinality(KeysOf(then) \ KeysOf(now))
    BY <2>2, <2>3, <2>4, AbsentIs
  <2>7. \A f \in diff.new : Times(f, now) > 0 /\ Times(f, then) = 0
    <3> TAKE f \in diff.new
    <3>1. Key(f) \in KeysOf(now) /\ Key(f) \notin KeysOf(then)
      BY <2>5 DEF KeysOf
    <3>2. Times(f, now) \in Nat /\ Times(f, now) # 0 /\ Times(f, then) = 0
      BY <2>2, <2>3, <3>1, TimesIs
    <3> QED  BY <3>2
  <2>8. \A f \in diff.resolved : Times(f, now) = 0 /\ Times(f, then) > 0
    <3> TAKE f \in diff.resolved
    <3>1. Key(f) \in KeysOf(then) /\ Key(f) \notin KeysOf(now)
      BY <2>6 DEF KeysOf
    <3>2. Times(f, then) \in Nat /\ Times(f, then) # 0 /\ Times(f, now) = 0
      BY <2>2, <2>3, <3>1, TimesIs
    <3> QED  BY <3>2
  <2>9. ASSUME Distinct(now), Distinct(then)
        PROVE  diff.findings = Cardinality(diff.new) - Cardinality(diff.resolved)
    <3> DEFINE K == KeysOf(now)
               L == KeysOf(then)
    <3>1. Cardinality(Places(now)) = Cardinality(K) /\ Cardinality(Places(then)) = Cardinality(L)
      BY <2>2, <2>3, <2>9, DistinctCount
    <3>2. IsFiniteSet(K) /\ IsFiniteSet(L)
      BY <2>2, <2>3, FlattenFinite
    <3> HIDE DEF K, L
    <3>3. /\ Cardinality(K) \in Nat /\ Cardinality(L) \in Nat /\ Cardinality(K \cap L) \in Nat
      <4>1. IsFiniteSet(K \cap L)
        BY <3>2, FS_Intersection
      <4> QED  BY <3>2, <4>1, FS_CardinalityType
    <3>4. Cardinality(K \ L) = Cardinality(K) - Cardinality(K \cap L)
      BY <3>2, FS_Difference
    <3>5. Cardinality(L \ K) = Cardinality(L) - Cardinality(K \cap L)
      <4>1. L \cap K = K \cap L
        OBVIOUS
      <4> QED  BY <3>2, <4>1, FS_Difference
    <3>6. Cardinality(diff.new) = Cardinality(K \ L) /\ Cardinality(diff.resolved) = Cardinality(L \ K)
      BY <2>5, <2>6 DEF K, L
    <3> QED  BY <2>4, <3>1, <3>3, <3>4, <3>5, <3>6
  <2>10. ASSUME Equal(diff) PROVE KeysOf(now) = KeysOf(then)
    <3>1. diff.new = {} /\ diff.resolved = {}
      BY <2>10 DEF Equal
    <3> QED  BY <2>5, <2>6, <3>1
  <2> QED  BY <2>7, <2>8, <2>9, <2>10 DEF now, then
<1> QED  BY <1>1, PartsHold, PTL

(* The sums of the scores and of their penalties stay where they belong,   *)
(* for any number of findings, and web hygiene does not touch the other    *)
(* score: every finding of the baseline and more never make it better.     *)
THEOREM ScoresAreRight == Spec => []ScoresHold
<1>1. ASSUME Shape, ReportTyped PROVE CommandTypeOK
  BY <1>1 DEF Shape, ReportTyped, CommandTypeOK
<1>2. ASSUME Shape, CrawlHolds, ChecksGoOn, ReportHolds, DiffHolds PROVE ScoresAreSeparate
  <2> SUFFICES ASSUME diff # None, phase = "write", Readable, report.indexable = file.indexable
               PROVE  /\ Covers(Outside(report.groups), Outside(file.groups)) => diff.seo <= 0
                      /\ Covers(Outside(file.groups), Outside(report.groups)) => diff.seo >= 0
    BY DEF ScoresAreSeparate
  <2> DEFINE now == Outside(report.groups)
             then == Outside(file.groups)
             n == report.indexable
  <2>1. diff = Compare(report, file)
    BY <1>2 DEF DiffHolds
  <2>2. /\ report = NewReport(crawl, groups) /\ groups \in [orderedGroups -> Seq(Finding)]
        /\ crawl.indexable \in Nat
    BY <1>2 DEF ReportHolds, ChecksGoOn, CrawlHolds, Reporting, Late
  <2>3. report.groups = groups /\ n = crawl.indexable
    <3>1. report = NewReport(crawl, groups)
      BY <2>2
    <3> QED  BY <3>1 DEF NewReport
  <2>4. file.indexable \in Nat /\ IsGroups(file.groups) /\ file = NewReport(file, file.groups)
    <3>1. file \in Baselines
      BY <1>2 DEF Shape, Files, Readable
    <3> QED  BY <3>1, BaselinesAssumption
  <2>5. IsGroups(now) /\ now = Technical(groups)
    <3>1. IsGroups(groups)
      BY <2>2, AreGroups
    <3>2. IsGroups([g \in DOMAIN groups \ {"web-hygiene"} |-> groups[g]])
      BY <3>1, PartIs
    <3> QED  BY <2>3, <3>2 DEF Outside, Technical
  <2>6. IsGroups(then) /\ then = Technical(file.groups)
    <3>1. IsGroups([g \in DOMAIN file.groups \ {"web-hygiene"} |-> file.groups[g]])
      BY <2>4, PartIs
    <3> QED  BY <3>1 DEF Outside, Technical
  <2>7. report.scores = IF n = 0 THEN NoScores
                        ELSE [seo |-> Score(Penalty(now), n), hygiene |-> Score(Penalty(Hygiene(groups)), n)]
    <3>1. report.scores = NewReport(crawl, groups).scores
      BY <2>2
    <3> QED  BY <2>3, <2>5, <3>1 DEF NewReport
  <2>8. file.scores = IF n = 0 THEN NoScores
                      ELSE [seo |-> Score(Penalty(then), n), hygiene |-> Score(Penalty(Hygiene(file.groups)), n)]
    <3>1. file.scores = NewReport(file, file.groups).scores
      BY <2>4
    <3> QED  BY <2>6, <3>1 DEF NewReport
  <2>9. diff.seo = IF report.scores # NoScores /\ file.scores # NoScores
                   THEN report.scores.seo - file.scores.seo ELSE 0
    BY <2>1 DEF Compare
  <2>10. n \in Nat
    BY <2>2, <2>3
  <2>11. CASE n = 0
    <3>1. diff.seo = 0
      BY <2>7, <2>9, <2>11
    <3> QED  BY <3>1
  <2>12. CASE n # 0
    <3> DEFINE p == Penalty(now)
               q == Penalty(then)
    <3>1. p \in Nat /\ q \in Nat
      BY <2>5, <2>6, PenaltyIs
    <3>2. /\ Covers(now, then) => q <= p
          /\ Covers(then, now) => p <= q
      BY <2>5, <2>6, CoversCosts
    <3>3. report.scores.seo = Score(p, n) /\ file.scores.seo = Score(q, n)
      <4>1. report.scores = [seo |-> Score(p, n), hygiene |-> Score(Penalty(Hygiene(groups)), n)]
        BY <2>7, <2>12
      <4>2. file.scores = [seo |-> Score(q, n), hygiene |-> Score(Penalty(Hygiene(file.groups)), n)]
        BY <2>8, <2>12
      <4> HIDE DEF p, q, n
      <4> QED  BY <4>1, <4>2
    <3> HIDE DEF now, then, p, q, n
    <3>4. n \in Nat \ {0}
      BY <2>10, <2>12
    <3>5. Score(p, n) \in 0 .. 100 /\ Score(q, n) \in 0 .. 100
      BY <3>1, <3>4, ScoreIs
    <3>6. /\ q <= p => Score(p, n) <= Score(q, n)
          /\ p <= q => Score(q, n) <= Score(p, n)
      BY <3>1, <3>4, ScoreIs
    <3>7. diff.seo = Score(p, n) - Score(q, n) \/ diff.seo = 0
      BY <2>9, <3>3
    <3> DEFINE x == Score(p, n)
               y == Score(q, n)
    <3>8. /\ x \in 0 .. 100 /\ y \in 0 .. 100 /\ (diff.seo = x - y \/ diff.seo = 0)
          /\ Covers(now, then) => x <= y
          /\ Covers(then, now) => y <= x
      BY <3>2, <3>5, <3>6, <3>7
    <3> HIDE DEF x, y
    <3>9. (Covers(now, then) => diff.seo <= 0) /\ (Covers(then, now) => diff.seo >= 0)
      BY <3>8
    <3> QED  BY <3>9 DEF now, then
  <2> QED  BY <2>10, <2>11, <2>12
<1> QED  BY <1>1, <1>2, PartsHold, PTL DEF ScoresHold

(* The safety of the promise to scripts: a report is published once and    *)
(* before the code, and the codes of an audit come with one, those of an   *)
(* error without.  (That the command ends is checked by TLC.)              *)
THEOREM PromiseIsKept ==
    Spec => P!Init /\ [][P!Next]_<<IF written THEN "written" ELSE "none", code>>
<1>1. Init => P!Init
  BY DEF Init, P!Init, P!Running, Running
<1>2. ASSUME Shape, [Next]_vars PROVE [P!Next]_<<IF written THEN "written" ELSE "none", code>>
  <2> USE DEF Running, P!Running, Shape
  <2>a. ASSUME UNCHANGED <<written, code>> PROVE [P!Next]_<<IF written THEN "written" ELSE "none", code>>
    BY <2>a
  <2>b. ASSUME code = Running, ~written, code' \in {2, 5}, ~written' PROVE P!Next
    BY <2>b DEF P!Next, P!Fail, P!ErrorCodes
  <2>1. CASE Validate
    BY <1>2, <2>1, <2>a, <2>b DEF Validate, Exit, Go
  <2>2. CASE Discover \/ Crawl \/ Check \/ Answer \/ Report
    BY <2>2, <2>a DEF Discover, Crawl, Check, Answer, Report, Go
  <2>3. CASE Render
    BY <1>2, <2>3, <2>a, <2>b DEF Render, Exit, Go
  <2>4. CASE Write
    <3>1. /\ phase = "write" /\ code = Running /\ ~written
          /\ \/ code' = code /\ written' = TRUE
             \/ code' = 5 /\ written' = written
      BY <1>2, <2>4 DEF Write, NotWritten, Exit, Go
    <3>2. CASE code' = code /\ written' = TRUE
      BY <3>1, <3>2 DEF P!Next, P!Publish
    <3>3. CASE code' = 5 /\ written' = written
      BY <2>b, <3>1, <3>3
    <3> QED  BY <3>1, <3>2, <3>3
  <2>5. CASE ExitCode
    <3>1. phase = "exit" /\ code = Running /\ written /\ written' = written /\ code' \in {0, 1, 3, 4}
      BY <1>2, <2>5 DEF ExitCode, Exit
    <3> QED  BY <3>1 DEF P!Next, P!Finish, P!AuditCodes
  <2>6. CASE Interrupt \/ Expire \/ ChangeBaseline \/ UNCHANGED vars
    BY <2>6, <2>a DEF Interrupt, Expire, ChangeBaseline, vars
  <2> QED  BY <1>2, <2>1, <2>2, <2>3, <2>4, <2>5, <2>6 DEF Next, Step
<1> QED  BY <1>1, <1>2, PartsHold, PTL DEF Spec
===============================================================================
