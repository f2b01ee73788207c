----------------------------- MODULE URLsProofs -----------------------------
(***************************************************************************)
(* Proofs about URLs, for any references, bases and limits: the counters   *)
(* of the trap guard are exact and end the families of URLs they are for,  *)
(* and what normalization gives is in normal form and names the resource   *)
(* of the reference.                                                       *)
(***************************************************************************)
EXTENDS URLs, TLAPS, FiniteSetTheorems, SequenceTheorems, WellFoundedInduction

-----------------------------------------------------------------------------
(* Numbers and recursion. *)

(* The least and the greatest of a set of numbers. *)
LEMMA LeastExists ==
    ASSUME NEW S, S \subseteq Nat, S # {}
    PROVE  Min(S) \in S /\ \A x \in S : Min(S) <= x
<1>1. \E x \in S : \A y \in S : ~(<<y, x>> \in OpToRel(<, Nat))
  BY NatLessThanWellFounded, WFMin
<1>2. PICK x \in S : \A y \in S : ~(<<y, x>> \in OpToRel(<, Nat))
  BY <1>1
<1>3. \A y \in S : x <= y
  <2> SUFFICES ASSUME NEW y \in S PROVE x <= y
    OBVIOUS
  <2>1. ~(y < x)
    BY <1>2 DEF OpToRel
  <2>2. x \in Nat /\ y \in Nat
    OBVIOUS
  <2> QED  BY <2>1, <2>2
<1> QED  BY <1>2, <1>3 DEF Min

LEMMA GreatestExists ==
    ASSUME NEW K \in Nat, NEW S, S \subseteq 0 .. K, S # {}
    PROVE  Max(S) \in S /\ \A x \in S : x <= Max(S)
<1> DEFINE mirrored == {K - i : i \in S}
<1>0. \A i \in S : i \in Int /\ K - i \in Nat
  <2>1. \A i \in 0 .. K : i \in Int /\ K - i \in Nat
    OBVIOUS
  <2> QED  BY <2>1
<1>1. mirrored \subseteq Nat /\ mirrored # {}
  BY <1>0
<1>2. PICK m \in mirrored : \A x \in mirrored : m <= x
  <2> HIDE DEF mirrored
  <2> QED  BY <1>1, LeastExists
<1>3. PICK g \in S : m = K - g
  OBVIOUS
<1>4. \A y \in S : g >= y
  <2> SUFFICES ASSUME NEW y \in S PROVE g >= y
    OBVIOUS
  <2>1. K - y \in mirrored
    OBVIOUS
  <2>2. K - g <= K - y
    <3> HIDE DEF mirrored
    <3> QED  BY <1>2, <1>3, <2>1
  <2>3. y \in Int /\ g \in Int
    BY <1>0
  <2> QED  BY <2>2, <2>3
<1>5. Max(S) \in S /\ \A y \in S : Max(S) >= y
  BY <1>4 DEF Max
<1>6. \A y \in S : Max(S) >= y => y <= Max(S)
  BY <1>5
<1> QED  BY <1>5, <1>6

\* f starts at the base and takes the steps.
Along(f, K, S, base, step) == f \in [0 .. K -> S] /\ f[0] = base /\ \A n \in 1 .. K : f[n] = step[n][f[n - 1]]

(* A base and steps define a function on 0 .. K. *)
LEMMA RecursionExists ==
    ASSUME NEW K \in Nat, NEW S, NEW base \in S, NEW step \in [1 .. K -> [S -> S]]
    PROVE  \E f : Along(f, K, S, base, step)
<1> DEFINE Good(k) == \E f \in [0 .. k -> S] : f[0] = base /\ \A n \in 1 .. k : f[n] = step[n][f[n - 1]]
           Bad == {k \in 0 .. K : ~Good(k)}
<1>1. Good(0)
  <2> DEFINE f == [n \in 0 .. 0 |-> base]
  <2>1. f \in [0 .. 0 -> S] /\ f[0] = base
    OBVIOUS
  <2>2. \A n \in 1 .. 0 : f[n] = step[n][f[n - 1]]
    OBVIOUS
  <2> HIDE DEF f
  <2> QED  BY <2>1, <2>2
<1>2. ASSUME NEW k \in 1 .. K, Good(k - 1) PROVE Good(k)
  <2>1. PICK f \in [0 .. k - 1 -> S] : f[0] = base /\ \A n \in 1 .. k - 1 : f[n] = step[n][f[n - 1]]
    BY <1>2
  <2> DEFINE g == [n \in 0 .. k |-> IF n = k THEN step[k][f[k - 1]] ELSE f[n]]
  <2>2. f[k - 1] \in S /\ step[k] \in [S -> S]
    OBVIOUS
  <2>3. step[k][f[k - 1]] \in S
    BY <2>2
  <2>4. g \in [0 .. k -> S]
    BY <2>3
  <2>5. g[0] = base
    BY <2>1
  <2>6. \A n \in 1 .. k : g[n] = step[n][g[n - 1]]
    <3> TAKE n \in 1 .. k
    <3>1. CASE n = k
      <4>1. g[k] = step[k][f[k - 1]] /\ g[k - 1] = f[k - 1]
        OBVIOUS
      <4> QED  BY <3>1, <4>1
    <3>2. CASE n # k
      <4>1. n \in 1 .. k - 1 /\ g[n] = f[n] /\ g[n - 1] = f[n - 1]
        BY <3>2
      <4> QED  BY <2>1, <4>1
    <3> QED  BY <3>1, <3>2
  <2> HIDE DEF g
  <2> QED  BY <2>4, <2>5, <2>6
<1>3. Bad = {}
  <2> SUFFICES ASSUME Bad # {} PROVE FALSE
    OBVIOUS
  <2>1. Bad \subseteq Nat
    OBVIOUS
  <2>2. Min(Bad) \in Bad /\ \A x \in Bad : Min(Bad) <= x
    BY <2>1, LeastExists
  <2>3. PICK k \in Bad : \A x \in Bad : k <= x
    BY <2>2
  <2>4. k \in 0 .. K /\ ~Good(k)
    OBVIOUS
  <2>5. k # 0
    BY <1>1, <2>4
  <2>6. k \in 1 .. K /\ k - 1 \in 0 .. K /\ ~(k <= k - 1)
    BY <2>4, <2>5
  <2>7. Good(k - 1)
    <3>1. k - 1 \notin Bad
      BY <2>3, <2>6
    <3> HIDE DEF Good
    <3> QED  BY <2>6, <3>1
  <2> HIDE DEF Good
  <2> QED  BY <1>2, <2>4, <2>6, <2>7
<1> QED
  <2>1. K \in 0 .. K
    OBVIOUS
  <2>2. Good(K)
    <3> HIDE DEF Good
    <3>1. K \notin Bad
      <4> HIDE DEF Bad
      <4> QED  BY <1>3
    <3> QED  BY <2>1, <3>1
  <2> QED  BY <2>2 DEF Along

(* What holds at 0 and is handed on holds everywhere. *)
LEMMA UpTo ==
    ASSUME NEW K \in Nat, NEW T, 0 \in T, \A n \in 1 .. K : n - 1 \in T => n \in T
    PROVE  0 .. K \subseteq T
<1> DEFINE Bad == {n \in 0 .. K : n \notin T}
<1> SUFFICES ASSUME Bad # {} PROVE FALSE
  OBVIOUS
<1>1. Bad \subseteq Nat
  OBVIOUS
<1>2. Min(Bad) \in Bad /\ \A x \in Bad : Min(Bad) <= x
  BY <1>1, LeastExists
<1>3. PICK k \in Bad : \A x \in Bad : k <= x
  BY <1>2
<1>4. k \in 0 .. K /\ k \notin T /\ k # 0
  OBVIOUS
<1>5. k \in 1 .. K /\ k - 1 \in 0 .. K /\ ~(k <= k - 1)
  BY <1>4
<1>6. k - 1 \in T
  BY <1>3, <1>5
<1> QED  BY <1>4, <1>5, <1>6

-----------------------------------------------------------------------------
(* Sequences. *)

(* What holds for a sequence if it does for the shorter ones holds for all. *)
LEMMA ByLength ==
    ASSUME NEW S, NEW T,
           \A s \in Seq(S) : (\A t \in Seq(S) : Len(t) < Len(s) => t \in T) => s \in T
    PROVE  Seq(S) \subseteq T
<1> DEFINE N == {n \in Nat : \A s \in Seq(S) : Len(s) <= n => s \in T}
<1>1. 0 \in N
  <2> SUFFICES ASSUME NEW s \in Seq(S), Len(s) <= 0 PROVE s \in T
    OBVIOUS
  <2>1. \A t \in Seq(S) : ~(Len(t) < Len(s))
    BY LenProperties
  <2> QED  BY <2>1
<1>2. ASSUME NEW K \in Nat, NEW n \in 1 .. K, n - 1 \in N PROVE n \in N
  <2> SUFFICES ASSUME NEW s \in Seq(S), Len(s) <= n PROVE s \in T
    OBVIOUS
  <2>1. \A t \in Seq(S) : Len(t) < Len(s) => Len(t) <= n - 1
    BY LenProperties
  <2> QED  BY <1>2, <2>1
<1>3. ASSUME NEW s \in Seq(S) PROVE s \in T
  <2>1. Len(s) \in Nat
    BY LenProperties
  <2>2. 0 .. Len(s) \subseteq N
    <3> HIDE DEF N
    <3> QED  BY <1>1, <1>2, <2>1, UpTo
  <2>3. Len(s) \in N
    <3> HIDE DEF N
    <3> QED  BY <2>1, <2>2
  <2> QED  BY <2>1, <2>3
<1> QED  BY <1>3

(* A sequence that is not empty is its first element and the rest, or the  *)
(* others and its last.                                                    *)
LEMMA HeadAndTail ==
    ASSUME NEW S, NEW s \in Seq(S), s # <<>>
    PROVE  /\ Head(s) \in S /\ Tail(s) \in Seq(S) /\ s = <<Head(s)>> \o Tail(s)
           /\ Len(Tail(s)) = Len(s) - 1 /\ Len(s) \in Nat \ {0}
<1>1. /\ Head(s) \in S /\ Tail(s) \in Seq(S) /\ Len(Tail(s)) = Len(s) - 1
      /\ \A i \in 1 .. Len(Tail(s)) : Tail(s)[i] = s[i + 1]
  BY HeadTailProperties
<1>2. Len(s) \in Nat \ {0} /\ Head(s) = s[1]
  BY EmptySeq, LenProperties
<1>3. <<Head(s)>> \in Seq(S) /\ Len(<<Head(s)>>) = 1 /\ <<Head(s)>>[1] = Head(s)
  BY <1>1
<1>4. /\ <<Head(s)>> \o Tail(s) \in Seq(S) /\ Len(<<Head(s)>> \o Tail(s)) = Len(s)
      /\ \A i \in 1 .. Len(s) : (<<Head(s)>> \o Tail(s))[i] = s[i]
  BY <1>1, <1>2, <1>3, ConcatProperties
<1> QED  BY <1>1, <1>2, <1>4, SeqEqual

LEMMA FrontAndLast ==
    ASSUME NEW S, NEW s \in Seq(S), s # <<>>
    PROVE  /\ Front(s) \in Seq(S) /\ Last(s) \in S /\ s = Append(Front(s), Last(s))
           /\ Len(Front(s)) = Len(s) - 1 /\ Len(s) \in Nat \ {0}
<1>1. Len(s) \in Nat \ {0} /\ \A i \in 1 .. Len(s) : s[i] \in S
  BY EmptySeq, LenProperties, ElementOfSeq
<1>2. /\ Front(s) \in Seq(S) /\ Len(Front(s)) = Len(s) - 1
      /\ \A i \in 1 .. Len(s) - 1 : Front(s)[i] = s[i]
  <2> DEFINE n == Len(s) - 1
  <2>1. n \in Int /\ 1 \in Int /\ n \in Nat /\ \A i \in 1 .. n : s[i] \in S
    BY <1>1
  <2>2. Front(s) = SubSeq(s, 1, n)
    BY DEF Front
  <2> HIDE DEF n
  <2>3. /\ Front(s) \in Seq(S) /\ Len(Front(s)) = IF 1 <= n THEN n - 1 + 1 ELSE 0
        /\ \A i \in 1 .. n - 1 + 1 : Front(s)[i] = s[1 + i - 1]
    BY <2>1, <2>2, SubSeqProperties
  <2>4. Len(Front(s)) = n /\ \A i \in 1 .. n : Front(s)[i] = s[i]
    BY <2>1, <2>3
  <2> QED  BY <2>3, <2>4 DEF n
<1>3. Last(s) \in S
  BY <1>1 DEF Last
<1>4. /\ Append(Front(s), Last(s)) \in Seq(S) /\ Len(Append(Front(s), Last(s))) = Len(s)
      /\ \A i \in 1 .. Len(s) : Append(Front(s), Last(s))[i] = s[i]
  BY <1>1, <1>2, <1>3, AppendProperties DEF Last
<1> QED  BY <1>1, <1>2, <1>3, <1>4, SeqEqual

(* Induction from the end and from the beginning. *)
LEMMA ByHead ==
    ASSUME NEW S, NEW T, <<>> \in T, \A c \in S, s \in Seq(S) : s \in T => <<c>> \o s \in T
    PROVE  Seq(S) \subseteq T
<1>1. ASSUME NEW s \in Seq(S), \A t \in Seq(S) : Len(t) < Len(s) => t \in T
      PROVE  s \in T
  <2>1. CASE s # <<>>
    <3>1. Head(s) \in S /\ Tail(s) \in Seq(S) /\ s = <<Head(s)>> \o Tail(s) /\ Len(Tail(s)) < Len(s)
      BY <2>1, HeadAndTail
    <3> QED  BY <1>1, <3>1
  <2> QED  BY <2>1
<1> QED  BY <1>1, ByLength

LEMMA ByLast ==
    ASSUME NEW S, NEW T, <<>> \in T, \A c \in S, s \in Seq(S) : s \in T => Append(s, c) \in T
    PROVE  Seq(S) \subseteq T
<1>1. ASSUME NEW s \in Seq(S), \A t \in Seq(S) : Len(t) < Len(s) => t \in T
      PROVE  s \in T
  <2>1. CASE s # <<>>
    <3>1. Last(s) \in S /\ Front(s) \in Seq(S) /\ s = Append(Front(s), Last(s)) /\ Len(Front(s)) < Len(s)
      BY <2>1, FrontAndLast
    <3> QED  BY <1>1, <3>1
  <2> QED  BY <2>1
<1> QED  BY <1>1, ByLength

(* Sequences of one, and what comes before others. *)
LEMMA Single ==
    ASSUME NEW S, NEW c \in S
    PROVE  <<c>> \in Seq(S) /\ Len(<<c>>) = 1 /\ <<c>>[1] = c /\ <<c>> # <<>>
OBVIOUS

LEMMA Prefixed ==
    ASSUME NEW S, NEW c \in S, NEW s \in Seq(S)
    PROVE  /\ <<c>> \o s \in Seq(S) /\ Len(<<c>> \o s) = Len(s) + 1 /\ <<c>> \o s # <<>>
           /\ (<<c>> \o s)[1] = c /\ \A i \in 1 .. Len(s) : (<<c>> \o s)[i + 1] = s[i]
           /\ Head(<<c>> \o s) = c /\ Tail(<<c>> \o s) = s
<1>1. <<c>> \in Seq(S) /\ Len(<<c>>) = 1 /\ <<c>>[1] = c /\ Len(s) \in Nat
  BY Single, LenProperties
<1> DEFINE t == <<c>> \o s
<1>2. /\ t \in Seq(S) /\ Len(t) = 1 + Len(s)
      /\ \A i \in 1 .. 1 + Len(s) : t[i] = IF i <= 1 THEN <<c>>[i] ELSE s[i - 1]
  BY <1>1, ConcatProperties
<1> HIDE DEF t
<1>3. t[1] = c /\ \A i \in 1 .. Len(s) : t[i + 1] = s[i]
  BY <1>1, <1>2
<1>4. t # <<>>
  BY <1>1, <1>2, EmptySeq
<1>5. Head(t) = c
  BY <1>2, <1>3, <1>4, HeadTailProperties
<1>6. /\ Tail(t) \in Seq(S) /\ Len(Tail(t)) = Len(t) - 1
      /\ \A i \in 1 .. Len(Tail(t)) : Tail(t)[i] = t[i + 1]
  BY <1>2, <1>4, HeadTailProperties
<1>7. Tail(t) = s
  BY <1>1, <1>2, <1>3, <1>6, SeqEqual
<1> QED  BY <1>1, <1>2, <1>3, <1>4, <1>5, <1>7 DEF t

-----------------------------------------------------------------------------
(* Sequences put together. *)

\* g[n] is what the first n of the sequences in ss give.
Flattens(g, ss, S) ==
    g \in [0 .. Len(ss) -> Seq(S)] /\ g[0] = <<>> /\ \A n \in 1 .. Len(ss) : g[n] = g[n - 1] \o ss[n]

LEMMA FlattensExist ==
    ASSUME NEW S, NEW ss \in Seq(Seq(S))
    PROVE  \E g : Flattens(g, ss, S)
<1> DEFINE step == [n \in 1 .. Len(ss) |-> [s \in Seq(S) |-> s \o ss[n]]]
<1>1. Len(ss) \in Nat /\ <<>> \in Seq(S)
  BY LenProperties, EmptySeq
<1>2. \A n \in 1 .. Len(ss), s \in Seq(S) : s \o ss[n] \in Seq(S)
  BY ElementOfSeq, ConcatProperties
<1>3. step \in [1 .. Len(ss) -> [Seq(S) -> Seq(S)]]
  BY <1>2
<1>4. PICK g : Along(g, Len(ss), Seq(S), <<>>, step)
  <2> HIDE DEF step
  <2> QED  BY <1>1, <1>3, RecursionExists
<1>5. Flattens(g, ss, S)
  <2>1. g \in [0 .. Len(ss) -> Seq(S)] /\ g[0] = <<>> /\ \A n \in 1 .. Len(ss) : g[n] = step[n][g[n - 1]]
    <3> HIDE DEF step
    <3> QED  BY <1>4 DEF Along
  <2>2. ASSUME NEW n \in 1 .. Len(ss) PROVE g[n] = g[n - 1] \o ss[n]
    <3>1. n - 1 \in 0 .. Len(ss)
      BY <1>1
    <3>2. g[n - 1] \in Seq(S)
      BY <2>1, <3>1
    <3>3. step[n][g[n - 1]] = g[n - 1] \o ss[n]
      BY <3>2
    <3> HIDE DEF step
    <3> QED  BY <2>1, <3>3
  <2> HIDE DEF step
  <2> QED  BY <2>1, <2>2 DEF Flattens
<1> QED  BY <1>5

LEMMA FlattensSteps ==
    ASSUME NEW S, NEW ss \in Seq(Seq(S)), NEW g, Flattens(g, ss, S)
    PROVE  /\ Len(ss) \in Nat /\ g[0] = <<>> /\ \A n \in 0 .. Len(ss) : g[n] \in Seq(S)
           /\ \A n \in 1 .. Len(ss) : ss[n] \in Seq(S) /\ n - 1 \in 0 .. Len(ss) /\ g[n] = g[n - 1] \o ss[n]
<1>1. Len(ss) \in Nat /\ \A n \in 1 .. Len(ss) : ss[n] \in Seq(S)
  BY LenProperties, ElementOfSeq
<1>2. \A n \in 1 .. Len(ss) : n - 1 \in 0 .. Len(ss)
  BY <1>1
<1> QED  BY <1>1, <1>2 DEF Flattens

LEMMA FlattenIs ==
    ASSUME NEW S, NEW ss \in Seq(Seq(S)), NEW g, Flattens(g, ss, S)
    PROVE  FlattenSeq(ss) = g[Len(ss)] /\ FlattenSeq(ss) \in Seq(S)
<1>1. /\ Len(ss) \in Nat /\ g[0] = <<>> /\ \A n \in 0 .. Len(ss) : g[n] \in Seq(S)
      /\ \A n \in 1 .. Len(ss) : ss[n] \in Seq(S) /\ n - 1 \in 0 .. Len(ss) /\ g[n] = g[n - 1] \o ss[n]
  BY FlattensSteps
<1>2. CASE Len(ss) = 0
  <2>1. ss = <<>>
    BY <1>2, EmptySeq
  <2> QED  BY <1>1, <1>2, <2>1 DEF FlattenSeq
<1>3. CASE Len(ss) # 0
  <2> DEFINE K == Len(ss)
             h == [i \in 1 .. K |-> g[i]]
             flatten == CHOOSE f : f = [i \in 1 .. K |-> IF i = 1 THEN ss[i] ELSE f[i - 1] \o ss[i]]
  <2>1. K \in Nat /\ K \in 1 .. K /\ 1 \in 1 .. K
    BY <1>1, <1>3
  <2>2. g[1] = ss[1]
    <3>1. 1 \in 1 .. Len(ss) /\ 1 - 1 = 0
      BY <2>1
    <3>2. ss[1] \in Seq(S) /\ g[1] = g[1 - 1] \o ss[1]
      <4> HIDE DEF h, flatten
      <4> QED  BY <1>1, <3>1
    <3>3. g[1] = <<>> \o ss[1]
      BY <1>1, <3>1, <3>2
    <3> QED  BY <3>2, <3>3, ConcatEmptySeq
  <2>3. h = [i \in 1 .. K |-> IF i = 1 THEN ss[i] ELSE h[i - 1] \o ss[i]]
    <3>1. ASSUME NEW i \in 1 .. K, i # 1 PROVE h[i] = h[i - 1] \o ss[i]
      <4>1. i - 1 \in 1 .. K
        BY <2>1, <3>1
      <4>2. h[i] = g[i] /\ h[i - 1] = g[i - 1]
        BY <4>1
      <4> QED  BY <1>1, <4>2
    <3>2. h[1] = ss[1]
      BY <2>1, <2>2
    <3>3. h = [i \in 1 .. K |-> h[i]]
      OBVIOUS
    <3>4. \A i \in 1 .. K : h[i] = IF i = 1 THEN ss[i] ELSE h[i - 1] \o ss[i]
      <4> HIDE DEF h
      <4> QED  BY <3>1, <3>2
    <3> HIDE DEF h
    <3> QED  BY <3>3, <3>4
  <2>4. flatten = [i \in 1 .. K |-> IF i = 1 THEN ss[i] ELSE flatten[i - 1] \o ss[i]]
    <3> HIDE DEF K, h
    <3> QED  BY <2>3
  <2>5. FlattenSeq(ss) = flatten[K]
    BY <1>3 DEF FlattenSeq
  <2>6. \A i \in 1 .. K : flatten[i] = IF i = 1 THEN ss[i] ELSE flatten[i - 1] \o ss[i]
    <3> DEFINE f == [i \in 1 .. K |-> IF i = 1 THEN ss[i] ELSE flatten[i - 1] \o ss[i]]
    <3>1. flatten = f
      BY <2>4
    <3>2. \A i \in 1 .. K : f[i] = IF i = 1 THEN ss[i] ELSE flatten[i - 1] \o ss[i]
      OBVIOUS
    <3> HIDE DEF f, flatten
    <3> QED  BY <3>1, <3>2
  <2> HIDE DEF flatten, h
  <2> DEFINE T == {n \in 0 .. K : n = 0 \/ flatten[n] = g[n]}
  <2>7. 0 \in T
    BY <2>1
  <2>8. ASSUME NEW n \in 1 .. K, n - 1 \in T PROVE n \in T
    <3>1. CASE n = 1
      BY <2>1, <2>2, <2>6, <3>1
    <3>2. CASE n # 1
      <4>1. n - 1 # 0
        BY <2>1, <3>2
      <4>2. flatten[n] = flatten[n - 1] \o ss[n] /\ flatten[n - 1] = g[n - 1]
        BY <2>6, <2>8, <3>2, <4>1
      <4>3. flatten[n] = g[n]
        BY <1>1, <4>2
      <4> QED  BY <2>1, <4>3
    <3> QED  BY <3>1, <3>2
  <2>9. 0 .. K \subseteq T
    <3> HIDE DEF T, K
    <3> QED  BY <2>1, <2>7, <2>8, UpTo
  <2>10. flatten[K] = g[K] /\ g[K] \in Seq(S)
    <3>1. K \in 0 .. K /\ K # 0
      BY <2>1
    <3>2. K \in T
      <4> HIDE DEF T
      <4> QED  BY <2>9, <3>1
    <3> QED  BY <1>1, <3>1, <3>2
  <2> HIDE DEF T
  <2> QED  BY <2>5, <2>10
<1> QED  BY <1>2, <1>3

(* What Flatten gives, from the end and from the beginning. *)
LEMMA FlattenTyped ==
    ASSUME NEW S, NEW ss \in Seq(Seq(S))
    PROVE  FlattenSeq(ss) \in Seq(S)
BY FlattensExist, FlattenIs

LEMMA FlattenEmpty == FlattenSeq(<<>>) = <<>>
<1>1. Len(<<>>) = 0
  OBVIOUS
<1> QED  BY <1>1 DEF FlattenSeq

LEMMA FlattenAppend ==
    ASSUME NEW S, NEW ss \in Seq(Seq(S)), NEW s \in Seq(S)
    PROVE  FlattenSeq(Append(ss, s)) = FlattenSeq(ss) \o s
<1> DEFINE K == Len(ss)
           tt == Append(ss, s)
<1>1. K \in Nat /\ tt \in Seq(Seq(S)) /\ Len(tt) = K + 1 /\ tt[K + 1] = s /\ \A i \in 1 .. K : tt[i] = ss[i]
  BY LenProperties, AppendProperties
<1> HIDE DEF tt
<1>2. PICK g : Flattens(g, tt, S)
  BY <1>1, FlattensExist
<1> DEFINE h == [n \in 0 .. K |-> g[n]]
<1>3. /\ g[0] = <<>> /\ \A n \in 0 .. K + 1 : g[n] \in Seq(S)
      /\ \A n \in 1 .. K + 1 : tt[n] \in Seq(S) /\ n - 1 \in 0 .. K + 1 /\ g[n] = g[n - 1] \o tt[n]
  <2>1. /\ g[0] = <<>> /\ \A n \in 0 .. Len(tt) : g[n] \in Seq(S)
        /\ \A n \in 1 .. Len(tt) : tt[n] \in Seq(S) /\ n - 1 \in 0 .. Len(tt) /\ g[n] = g[n - 1] \o tt[n]
    BY <1>1, <1>2, FlattensSteps
  <2>2. Len(tt) = K + 1
    BY <1>1
  <2> HIDE DEF K
  <2> QED  BY <2>1, <2>2
<1>7. Flattens(h, ss, S)
  <2>1. h \in [0 .. K -> Seq(S)] /\ h[0] = <<>>
    BY <1>1, <1>3, SMTT(30)
  <2>2. ASSUME NEW n \in 1 .. K PROVE h[n] = h[n - 1] \o ss[n]
    <3>1. n \in 1 .. K + 1 /\ n \in 0 .. K /\ n - 1 \in 0 .. K
      BY <1>1
    <3>2. h[n] = g[n] /\ h[n - 1] = g[n - 1]
      BY <3>1
    <3> HIDE DEF h, K
    <3> QED  BY <1>1, <1>3, <3>1, <3>2
  <2> HIDE DEF h
  <2> QED  BY <2>1, <2>2 DEF Flattens
<1>4. FlattenSeq(ss) = g[K]
  <2>1. h[K] = g[K]
    BY <1>1
  <2> HIDE DEF h
  <2> QED  BY <1>7, <2>1, FlattenIs
<1>5. FlattenSeq(tt) = g[K + 1]
  BY <1>1, <1>2, FlattenIs
<1>6. g[K + 1] = g[K] \o s
  <2>1. K + 1 \in 1 .. K + 1 /\ K + 1 - 1 = K
    BY <1>1
  <2> DEFINE n == K + 1
  <2>2. g[n] = g[n - 1] \o tt[n]
    <3>1. n \in 1 .. K + 1
      BY <2>1
    <3> HIDE DEF K, n
    <3> QED  BY <1>3, <3>1
  <2> HIDE DEF K
  <2> QED  BY <1>1, <2>1, <2>2
<1> QED  BY <1>4, <1>5, <1>6 DEF tt

(* Three sequences, and one in front of the others. *)
LEMMA Associative ==
    ASSUME NEW S, NEW r \in Seq(S), NEW s \in Seq(S), NEW t \in Seq(S)
    PROVE  (r \o s) \o t = r \o (s \o t) /\ s \o t \in Seq(S) /\ r \o s \in Seq(S) /\ r \o (s \o t) \in Seq(S)
BY ConcatAssociative, ConcatProperties, SMTT(30)

LEMMA PrefixedAppend ==
    ASSUME NEW S, NEW r \in S, NEW s \in Seq(S), NEW c \in S
    PROVE  <<r>> \o Append(s, c) = Append(<<r>> \o s, c)
<1>1. <<r>> \in Seq(S) /\ <<c>> \in Seq(S) /\ <<r>> \o s \in Seq(S)
  BY Single, Prefixed
<1>2. Append(s, c) = s \o <<c>> /\ Append(<<r>> \o s, c) = (<<r>> \o s) \o <<c>>
  BY <1>1, AppendIsConcat
<1> DEFINE q == <<r>>
           e == <<c>>
<1> HIDE DEF q, e
<1>3. (q \o s) \o e = q \o (s \o e)
  BY <1>1, Associative, SMTT(30) DEF q, e
<1> QED  BY <1>2, <1>3 DEF q, e

LEMMA FlattenCons ==
    ASSUME NEW S, NEW s \in Seq(S), NEW ss \in Seq(Seq(S))
    PROVE  FlattenSeq(<<s>> \o ss) = s \o FlattenSeq(ss)
<1> DEFINE T == {tt \in Seq(Seq(S)) : FlattenSeq(<<s>> \o tt) = s \o FlattenSeq(tt)}
<1>0. <<>> \in Seq(S) /\ <<>> \in Seq(Seq(S))
  OBVIOUS
<1>1. <<>> \in T
  <2>1. <<s>> = Append(<<>>, s) /\ <<s>> \in Seq(Seq(S))
    BY Single
  <2>2. <<s>> \o <<>> = <<s>> /\ s \o <<>> = s /\ <<>> \o s = s
    BY <2>1, ConcatEmptySeq
  <2>3. FlattenSeq(<<s>>) = FlattenSeq(<<>>) \o s
    BY <1>0, <2>1, FlattenAppend
  <2> QED  BY <1>0, <2>2, <2>3, FlattenEmpty
<1>2. ASSUME NEW t \in Seq(S), NEW tt \in Seq(Seq(S)), tt \in T PROVE Append(tt, t) \in T
  <2>1. <<s>> \in Seq(Seq(S)) /\ <<t>> \in Seq(Seq(S)) /\ Append(tt, t) = tt \o <<t>> /\ Append(tt, t) \in Seq(Seq(S))
    BY Single, AppendIsConcat, AppendProperties
  <2>2. <<s>> \o tt \in Seq(Seq(S)) /\ FlattenSeq(tt) \in Seq(S)
    BY <2>1, ConcatProperties, FlattenTyped
  <2>3. <<s>> \o Append(tt, t) = Append(<<s>> \o tt, t)
    <3> DEFINE Y == Seq(S)
    <3>1. s \in Y /\ t \in Y /\ tt \in Seq(Y)
      OBVIOUS
    <3> HIDE DEF Y
    <3> QED  BY <3>1, PrefixedAppend, SMTT(30)
  <2>4. FlattenSeq(<<s>> \o Append(tt, t)) = (s \o FlattenSeq(tt)) \o t
    BY <1>2, <2>2, <2>3, FlattenAppend
  <2>5. FlattenSeq(Append(tt, t)) = FlattenSeq(tt) \o t
    BY FlattenAppend
  <2>6. (s \o FlattenSeq(tt)) \o t = s \o (FlattenSeq(tt) \o t)
    <3> DEFINE flat == FlattenSeq(tt)
    <3>1. flat \in Seq(S)
      BY <2>2
    <3> HIDE DEF flat
    <3>2. (s \o flat) \o t = s \o (flat \o t)
      BY <3>1, ConcatAssociative, SMTT(30)
    <3> QED  BY <3>2 DEF flat
  <2> QED  BY <2>1, <2>4, <2>5, <2>6
<1>3. Seq(Seq(S)) \subseteq T
  <2> HIDE DEF T
  <2> QED  BY <1>1, <1>2, ByLast
<1> QED  BY <1>3

-----------------------------------------------------------------------------
(* Text in units. *)

LEMMA FunctionIsSeq ==
    ASSUME NEW S, NEW n \in Nat, NEW f \in [1 .. n -> S]
    PROVE  f \in Seq(S) /\ Len(f) = n
<1>1. f \in Seq(S)
  BY SeqDef
<1>2. Len(f) \in Nat /\ 1 .. Len(f) = 1 .. n
  BY <1>1, LenProperties
<1>3. /\ n # 0 => n \in 1 .. Len(f)
      /\ Len(f) # 0 => Len(f) \in 1 .. n
  BY <1>2
<1> QED  BY <1>1, <1>2, <1>3

\* u begins a text that goes on with s.
Begins(u, s) == u \in Unit /\ (u \in Escapes \/ ~Escape(u \o s, 1))

LEMMA EscapeIs ==
    ASSUME NEW u \in Escapes
    PROVE  /\ u \in Seq(Byte) /\ Len(u) = 3 /\ u[1] = percent /\ u[2] \in HexDigits /\ u[3] \in HexDigits
           /\ u = <<percent, u[2], u[3]>> /\ u # <<>>
<1>1. HexDigits \subseteq Byte /\ percent \in Byte
  BY DEF HexDigits, Byte, Digits, percent
<1>2. PICK h \in HexDigits, l \in HexDigits : u = <<percent, h, l>>
  BY DEF Escapes
<1>3. h \in Byte /\ l \in Byte
  BY <1>1
<1>4. u[1] = percent /\ u[2] = h /\ u[3] = l /\ Len(u) = 3 /\ u \in Seq(Byte) /\ u # <<>>
  BY <1>1, <1>2, <1>3
<1> QED  BY <1>2, <1>4

LEMMA UnitIs ==
    ASSUME NEW u \in Unit
    PROVE  /\ u \in Seq(Byte) /\ u # <<>> /\ Len(u) \in 1 .. 3 /\ u[1] \in Byte
           /\ u \notin Escapes => Len(u) = 1 /\ u = <<u[1]>>
<1>1. CASE u \in Escapes
  <2>1. u[1] \in Byte /\ Len(u) \in 1 .. 3
    BY <1>1, EscapeIs DEF percent, Byte
  <2> QED  BY <1>1, <2>1, EscapeIs
<1>2. CASE u \notin Escapes
  <2>1. PICK c \in Byte : u = <<c>>
    BY <1>2 DEF Unit
  <2> QED  BY <1>2, <2>1, Single
<1> QED  BY <1>1, <1>2

LEMMA UnitAtIs ==
    ASSUME NEW s \in Seq(Byte), NEW i \in 1 .. Len(s)
    PROVE  UnitAt(s, i) \in Unit
<1>1. s[i] \in Byte /\ Len(s) \in Nat
  BY ElementOfSeq, LenProperties
<1>2. CASE Escape(s, i)
  <2>1. s[i + 1] \in HexDigits /\ s[i + 2] \in HexDigits
    BY <1>2 DEF Escape
  <2>2. <<percent, s[i + 1], s[i + 2]>> \in Escapes
    BY <2>1 DEF Escapes
  <2> QED  BY <1>2, <2>2 DEF UnitAt, Unit
<1>3. CASE ~Escape(s, i)
  BY <1>1, <1>3 DEF UnitAt, Unit
<1> QED  BY <1>2, <1>3

\* The texts of the units of s, each where its unit begins.
Texts(s, f) == [i \in DOMAIN s |-> IF Escaped(s, i) THEN <<>> ELSE f[UnitAt(s, i)]]

LEMMA TextsTyped ==
    ASSUME NEW S, NEW f \in [Unit -> Seq(S)], NEW s \in Seq(Byte)
    PROVE  /\ Texts(s, f) \in Seq(Seq(S)) /\ Len(Texts(s, f)) = Len(s)
           /\ \A i \in 1 .. Len(s) : Texts(s, f)[i] = IF Escaped(s, i) THEN <<>> ELSE f[UnitAt(s, i)]
<1>1. Len(s) \in Nat /\ DOMAIN s = 1 .. Len(s) /\ <<>> \in Seq(S)
  BY LenProperties, EmptySeq
<1>2. \A i \in 1 .. Len(s) : f[UnitAt(s, i)] \in Seq(S)
  BY UnitAtIs
<1>3. Texts(s, f) \in [1 .. Len(s) -> Seq(S)]
  BY <1>1, <1>2 DEF Texts
<1>4. \A i \in 1 .. Len(s) : Texts(s, f)[i] = IF Escaped(s, i) THEN <<>> ELSE f[UnitAt(s, i)]
  BY <1>1 DEF Texts
<1> QED  BY <1>1, <1>3, <1>4, FunctionIsSeq

LEMMA EachTyped ==
    ASSUME NEW S, NEW f \in [Unit -> Seq(S)], NEW s \in Seq(Byte)
    PROVE  Each(s, f) \in Seq(S)
BY TextsTyped, FlattenTyped DEF Each, Texts

LEMMA EachEmpty ==
    ASSUME NEW S, NEW f \in [Unit -> Seq(S)]
    PROVE  Each(<<>>, f) = <<>>
<1>1. <<>> \in Seq(Byte) /\ Len(<<>>) = 0
  OBVIOUS
<1>2. Texts(<<>>, f) \in Seq(Seq(S)) /\ Len(Texts(<<>>, f)) = 0
  BY <1>1, TextsTyped
<1>3. Texts(<<>>, f) = <<>>
  BY <1>2, EmptySeq
<1> QED  BY <1>3, FlattenEmpty DEF Each, Texts

(* The first unit and the others. *)
LEMMA UnitsShift ==
    ASSUME NEW u \in Unit, NEW s \in Seq(Byte), Begins(u, s)
    PROVE  /\ UnitAt(u \o s, 1) = u /\ ~Escaped(u \o s, 1)
           /\ \A i \in 2 .. Len(u) : Escaped(u \o s, i)
           /\ \A i \in 1 .. Len(s) : /\ Escaped(u \o s, i + Len(u)) = Escaped(s, i)
                                     /\ UnitAt(u \o s, i + Len(u)) = UnitAt(s, i)
<1> DEFINE t == u \o s
           K == Len(u)
<1>1. /\ u \in Seq(Byte) /\ K \in 1 .. 3 /\ Len(s) \in Nat /\ t \in Seq(Byte) /\ Len(t) = K + Len(s)
      /\ \A i \in 1 .. K + Len(s) : t[i] = IF i <= K THEN u[i] ELSE s[i - K]
  BY UnitIs, LenProperties, ConcatProperties
<1> HIDE DEF t
<1>2. ASSUME NEW i \in 1 .. Len(s) PROVE t[i + K] = s[i]
  <2> DEFINE j == i + K
  <2>1. j \in 1 .. K + Len(s) /\ ~(j <= K) /\ j - K = i
    BY <1>1
  <2> HIDE DEF j, K
  <2>2. t[j] = s[i]
    BY <1>1, <2>1
  <2> QED  BY <2>2 DEF j
<1>3. \A i \in 1 .. K : t[i] = u[i]
  BY <1>1
<1>4. ASSUME NEW i \in 1 .. Len(s) PROVE Escape(t, i + K) = Escape(s, i) /\ t[i + K] = s[i]
  <2>1. CASE i \in 1 .. Len(s) - 2
    <3>1. i + 1 \in 1 .. Len(s) /\ i + 2 \in 1 .. Len(s) /\ i + K \in 1 .. Len(t) - 2
      BY <1>1, <2>1
    <3>2. t[i + 1 + K] = s[i + 1] /\ t[i + 2 + K] = s[i + 2] /\ t[i + K] = s[i]
      BY <1>2, <3>1
    <3>3. i + 1 + K = i + K + 1 /\ i + 2 + K = i + K + 2
      BY <1>1
    <3> QED  BY <2>1, <3>1, <3>2, <3>3 DEF Escape
  <2>2. CASE i \notin 1 .. Len(s) - 2
    <3>1. i + K \notin 1 .. Len(t) - 2
      BY <1>1, <2>2
    <3> QED  BY <1>2, <2>2, <3>1 DEF Escape
  <2> QED  BY <2>1, <2>2
<1>9. ASSUME NEW i \in 1 .. Len(s), NEW j \in Int, j = i + K PROVE Escape(t, j) = Escape(s, i)
  BY <1>4, <1>9
<1>5. ~Escape(s, 0) /\ ~Escape(s, -1) /\ ~Escape(t, 0) /\ ~Escape(t, -1)
  BY <1>1 DEF Escape
<1>6. /\ UnitAt(t, 1) = u
      /\ \A i \in 2 .. K : Escaped(t, i)
      /\ K = 1 => ~Escape(t, 1)
      /\ K # 1 => K = 3 /\ ~Escape(t, 2) /\ ~Escape(t, 3)
  <2>1. CASE u \in Escapes
    <3>1. K = 3 /\ t[1] = percent /\ t[2] \in HexDigits /\ t[3] \in HexDigits /\ u = <<percent, t[2], t[3]>>
      BY <1>3, <2>1, EscapeIs
    <3>2. Escape(t, 1)
      BY <1>1, <3>1 DEF Escape
    <3>3. percent \notin HexDigits
      BY DEF percent, HexDigits, Digits
    <3>4. ~Escape(t, 2) /\ ~Escape(t, 3)
      BY <3>1, <3>3 DEF Escape
    <3>5. Escaped(t, 2) /\ Escaped(t, 3)
      BY <3>2 DEF Escaped
    <3>6. UnitAt(t, 1) = u
      BY <3>1, <3>2 DEF UnitAt
    <3>7. \A i \in 2 .. K : i = 2 \/ i = 3
      BY <3>1
    <3> QED  BY <3>1, <3>4, <3>5, <3>6, <3>7
  <2>2. CASE u \notin Escapes
    <3>1. K = 1 /\ u = <<u[1]>> /\ t[1] = u[1]
      BY <1>3, <2>2, UnitIs
    <3>2. ~Escape(t, 1)
      BY <2>2 DEF Begins, t
    <3>3. UnitAt(t, 1) = u
      BY <3>1, <3>2 DEF UnitAt
    <3> QED  BY <3>1, <3>2, <3>3
  <2> QED  BY <2>1, <2>2
<1>11. K = 1 \/ K = 3
  <2> HIDE DEF K
  <2> QED  BY <1>6
<1>10. /\ \A j \in Int : j <= 0 => ~Escape(s, j)
       /\ \A k \in Int : k <= K /\ (k = 1 => K = 1) => ~Escape(t, k)
  <2>1. \A k \in Int : k <= 0 => ~Escape(s, k) /\ ~Escape(t, k)
    BY <1>1 DEF Escape
  <2>2. ASSUME NEW k \in Int, k <= K, k = 1 => K = 1 PROVE ~Escape(t, k)
    <3>1. CASE k <= 0
      BY <2>1, <3>1
    <3>2. CASE ~(k <= 0)
      <4>1. K = 1 => k = 1
        BY <1>1, <2>2, <3>2
      <4>2. K # 1 => k = 2 \/ k = 3
        <5> HIDE DEF K
        <5> QED  BY <1>11, <2>2, <3>2
      <4> QED  BY <1>6, <4>1, <4>2
    <3> QED  BY <3>1, <3>2
  <2> QED  BY <2>1, <2>2
<1>7. ~Escaped(t, 1)
  BY <1>5 DEF Escaped
<1>8. ASSUME NEW i \in 1 .. Len(s) PROVE Escaped(t, i + K) = Escaped(s, i) /\ UnitAt(t, i + K) = UnitAt(s, i)
  <2>1. UnitAt(t, i + K) = UnitAt(s, i)
    <3>1. CASE Escape(s, i)
      <4>1. Escape(t, i + K) /\ i + 1 \in 1 .. Len(s) /\ i + 2 \in 1 .. Len(s)
        BY <1>1, <1>4, <3>1, SMTT(30) DEF Escape
      <4>2. t[i + 1 + K] = s[i + 1] /\ t[i + 2 + K] = s[i + 2]
        BY <1>2, <4>1
      <4>3. i + 1 + K = i + K + 1 /\ i + 2 + K = i + K + 2
        BY <1>1
      <4> QED  BY <3>1, <4>1, <4>2, <4>3 DEF UnitAt
    <3>2. CASE ~Escape(s, i)
      <4>1. ~Escape(t, i + K) /\ t[i + K] = s[i]
        BY <1>4, <3>2
      <4> QED  BY <3>2, <4>1 DEF UnitAt
    <3> QED  BY <3>1, <3>2
  <2>2. Escape(t, i + K - 1) <=> Escape(s, i - 1)
    <3>1. CASE i = 1
      <4> DEFINE j == i - 1
                 k == i + K - 1
      <4>1. j \in Int /\ j <= 0 /\ k \in Int /\ k <= K /\ (k = 1 => K = 1)
        BY <1>1, <3>1
      <4> HIDE DEF j, k
      <4>2. ~Escape(s, j) /\ ~Escape(t, k)
        BY <1>10, <4>1
      <4> QED  BY <4>2 DEF j, k
    <3>2. CASE i # 1
      <4> DEFINE j == i - 1
                 k == i + K - 1
      <4>1. j \in 1 .. Len(s) /\ k \in Int /\ k = j + K
        BY <1>1, <3>2
      <4>2. Escape(t, k) = Escape(s, j)
        <5> HIDE DEF j, k
        <5> QED  BY <1>9, <4>1
      <4> QED  BY <4>2
    <3> QED  BY <3>1, <3>2
  <2>3. Escape(t, i + K - 2) <=> Escape(s, i - 2)
    <3>1. CASE i = 1 \/ i = 2
      <4> DEFINE j == i - 2
                 k == i + K - 2
      <4>1. j \in Int /\ j <= 0 /\ k \in Int /\ k <= K /\ (k = 1 => K = 1)
        <5> HIDE DEF K
        <5> QED  BY <1>1, <1>11, <3>1
      <4> HIDE DEF j, k
      <4>2. ~Escape(s, j) /\ ~Escape(t, k)
        BY <1>10, <4>1
      <4> QED  BY <4>2 DEF j, k
    <3>2. CASE i # 1 /\ i # 2
      <4> DEFINE j == i - 2
                 k == i + K - 2
      <4>1. j \in 1 .. Len(s) /\ k \in Int /\ k = j + K
        BY <1>1, <3>2
      <4>2. Escape(t, k) = Escape(s, j)
        <5> HIDE DEF j, k
        <5> QED  BY <1>9, <4>1
      <4> QED  BY <4>2
    <3> QED  BY <3>1, <3>2
  <2> QED  BY <2>1, <2>2, <2>3 DEF Escaped
<1> QED  BY <1>6, <1>7, <1>8 DEF t

LEMMA EachUnit ==
    ASSUME NEW S, NEW f \in [Unit -> Seq(S)], NEW u \in Unit, NEW s \in Seq(Byte), Begins(u, s)
    PROVE  Each(u \o s, f) = f[u] \o Each(s, f)
<1> DEFINE t == u \o s
           rest == Texts(s, f)
<1>1. u \in Seq(Byte) /\ Len(u) \in 1 .. 3 /\ t \in Seq(Byte) /\ Len(t) = Len(u) + Len(s) /\ Len(s) \in Nat
  BY UnitIs, ConcatProperties, LenProperties
<1>2. /\ Texts(t, f) \in Seq(Seq(S)) /\ Len(Texts(t, f)) = Len(t)
      /\ \A i \in 1 .. Len(t) : Texts(t, f)[i] = IF Escaped(t, i) THEN <<>> ELSE f[UnitAt(t, i)]
  <2> HIDE DEF t
  <2> QED  BY <1>1, TextsTyped
<1>3. /\ rest \in Seq(Seq(S)) /\ Len(rest) = Len(s)
      /\ \A i \in 1 .. Len(s) : rest[i] = IF Escaped(s, i) THEN <<>> ELSE f[UnitAt(s, i)]
  BY TextsTyped
<1>4. f[u] \in Seq(S) /\ <<>> \in Seq(S) /\ FlattenSeq(rest) \in Seq(S) /\ <<>> \o FlattenSeq(rest) = FlattenSeq(rest)
  BY <1>3, EmptySeq, FlattenTyped, ConcatEmptySeq
<1>5. /\ UnitAt(t, 1) = u /\ ~Escaped(t, 1)
      /\ \A i \in 2 .. Len(u) : Escaped(t, i)
      /\ \A i \in 1 .. Len(s) : /\ Escaped(t, i + Len(u)) = Escaped(s, i)
                                /\ UnitAt(t, i + Len(u)) = UnitAt(s, i)
  BY UnitsShift
<1> HIDE DEF t, rest
<1>6. Texts(t, f)[1] = f[u]
  <2>1. Len(t) \in Nat /\ Len(t) >= 1
    <3>1. ASSUME NEW m \in Nat, NEW k \in 1 .. 3, NEW n \in Nat, n = k + m PROVE n >= 1
      BY <3>1
    <3>2. Len(t) \in Nat /\ Len(t) = Len(u) + Len(s)
      BY <1>1, LenProperties
    <3> QED  BY <1>1, <3>1, <3>2
  <2>2. 1 \in 1 .. Len(t)
    BY <2>1
  <2> QED  BY <1>2, <1>5, <2>2
<1>7. ASSUME NEW i \in 1 .. Len(s) PROVE Texts(t, f)[i + Len(u)] = rest[i]
  <2> DEFINE k == i + Len(u)
  <2>1. k \in 1 .. Len(t)
    BY <1>1
  <2>2. (Escaped(t, k) <=> Escaped(s, i)) /\ UnitAt(t, k) = UnitAt(s, i)
    BY <1>5
  <2> HIDE DEF k
  <2>3. Texts(t, f)[k] = rest[i]
    BY <1>2, <1>3, <2>1, <2>2
  <2> QED  BY <2>3 DEF k
<1>8. Len(u) = 1 \/ Len(u) = 3
  BY EscapeIs, UnitIs
<1>9. Texts(t, f) = <<f[u]>> \o rest \/ Texts(t, f) = <<f[u]>> \o (<<<<>>>> \o (<<<<>>>> \o rest))
  <2>1. CASE Len(u) = 1
    <3>1. /\ <<f[u]>> \o rest \in Seq(Seq(S)) /\ Len(<<f[u]>> \o rest) = Len(rest) + 1
          /\ (<<f[u]>> \o rest)[1] = f[u] /\ \A i \in 1 .. Len(rest) : (<<f[u]>> \o rest)[i + 1] = rest[i]
      BY <1>3, <1>4, Prefixed
    <3>2. ASSUME NEW i \in 1 .. Len(t) PROVE Texts(t, f)[i] = (<<f[u]>> \o rest)[i]
      <4>1. CASE i = 1
        BY <1>6, <3>1, <4>1
      <4>2. CASE i # 1
        <5> DEFINE j == i - 1
        <5>1. j \in 1 .. Len(s) /\ j + 1 = i /\ j + Len(u) = i
          BY <1>1, <2>1, <4>2
        <5> HIDE DEF j
        <5> QED  BY <1>3, <1>7, <2>1, <3>1, <5>1
      <4> QED  BY <4>1, <4>2
    <3>3. Len(<<f[u]>> \o rest) = Len(t)
      BY <1>1, <1>3, <2>1, <3>1
    <3> QED  BY <1>2, <3>1, <3>2, <3>3, SeqEqual
  <2>2. CASE Len(u) = 3
    <3> DEFINE Y == Seq(S)
               e == <<>>
               c == f[u]
               r1 == <<e>> \o rest
               r2 == <<e>> \o r1
               r3 == <<c>> \o r2
    <3>0. e \in Y /\ c \in Y /\ rest \in Seq(Y)
      BY <1>3, <1>4
    <3> HIDE DEF Y, e, c
    <3>1. /\ r1 \in Seq(Y) /\ Len(r1) = Len(rest) + 1
          /\ r1[1] = e /\ \A i \in 1 .. Len(rest) : r1[i + 1] = rest[i]
      BY <3>0, Prefixed
    <3> HIDE DEF r1
    <3>2. /\ r2 \in Seq(Y) /\ Len(r2) = Len(r1) + 1
          /\ r2[1] = e /\ \A i \in 1 .. Len(r1) : r2[i + 1] = r1[i]
      BY <3>0, <3>1, Prefixed
    <3> HIDE DEF r2
    <3>3. /\ r3 \in Seq(Y) /\ Len(r3) = Len(r2) + 1
          /\ r3[1] = c /\ \A i \in 1 .. Len(r2) : r3[i + 1] = r2[i]
      BY <3>0, <3>2, Prefixed
    <3> HIDE DEF r3
    <3>4. Len(r1) = Len(s) + 1 /\ Len(r2) = Len(s) + 2 /\ Len(r3) = Len(t) /\ Len(t) = Len(s) + 3
      BY <1>1, <1>3, <2>2, <3>1, <3>2, <3>3
    <3>5. ASSUME NEW i \in 1 .. Len(t) PROVE Texts(t, f)[i] = r3[i]
      <4>1. CASE i = 1
        BY <1>6, <3>3, <4>1 DEF c
      <4>2. CASE i = 2
        <5>1. r3[1 + 1] = r2[1] /\ 1 + 1 = 2
          BY <1>1, <3>3, <3>4
        <5>2. Texts(t, f)[i] = <<>>
          BY <1>2, <1>5, <2>2, <4>2
        <5> QED  BY <3>2, <4>2, <5>1, <5>2 DEF e
      <4>3. CASE i = 3
        <5>1. r3[2 + 1] = r2[2] /\ 2 + 1 = 3
          BY <1>1, <3>3, <3>4
        <5>2. r2[1 + 1] = r1[1] /\ 1 + 1 = 2
          BY <1>1, <3>2, <3>4
        <5>3. Texts(t, f)[i] = <<>>
          BY <1>2, <1>5, <2>2, <4>3
        <5> QED  BY <3>1, <4>3, <5>1, <5>2, <5>3 DEF e
      <4>4. CASE i # 1 /\ i # 2 /\ i # 3
        <5> DEFINE j == i - 3
        <5>1. j \in 1 .. Len(s) /\ j + Len(u) = i
          BY <1>1, <2>2, <3>4, <4>4
        <5>2. j \in 1 .. Len(rest) /\ j + 1 \in 1 .. Len(r1) /\ j + 1 + 1 \in 1 .. Len(r2) /\ j + 1 + 1 + 1 = i
          BY <1>1, <1>3, <3>4, <4>4
        <5> HIDE DEF j
        <5>3. r1[j + 1] = rest[j]
          BY <3>1, <5>2
        <5>4. r2[j + 1 + 1] = r1[j + 1]
          BY <3>2, <5>2
        <5>5. r3[j + 1 + 1 + 1] = r2[j + 1 + 1]
          BY <3>3, <5>2
        <5>6. Texts(t, f)[i] = rest[j]
          BY <1>7, <5>1
        <5> QED  BY <5>2, <5>3, <5>4, <5>5, <5>6
      <4> QED  BY <4>1, <4>2, <4>3, <4>4
    <3>6. Texts(t, f) = r3
      <4>1. Texts(t, f) \in Seq(Y)
        BY <1>2 DEF Y
      <4> QED  BY <1>2, <3>3, <3>4, <3>5, <4>1, SeqEqual
    <3> QED  BY <3>6 DEF r1, r2, r3, e, c
  <2> QED  BY <1>8, <2>1, <2>2
<1>10. FlattenSeq(Texts(t, f)) = f[u] \o FlattenSeq(rest)
  <2>1. CASE Texts(t, f) = <<f[u]>> \o rest
    BY <1>3, <1>4, <2>1, FlattenCons
  <2>2. CASE Texts(t, f) = <<f[u]>> \o (<<<<>>>> \o (<<<<>>>> \o rest))
    <3> DEFINE r1 == <<<<>>>> \o rest
               r2 == <<<<>>>> \o r1
    <3>1. r1 \in Seq(Seq(S)) /\ r2 \in Seq(Seq(S))
      BY <1>3, <1>4, Prefixed
    <3>2. FlattenSeq(r1) = <<>> \o FlattenSeq(rest)
      BY <1>3, <1>4, FlattenCons
    <3> HIDE DEF r1
    <3>3. FlattenSeq(r2) = <<>> \o FlattenSeq(r1)
      BY <1>4, <3>1, FlattenCons
    <3> HIDE DEF r2
    <3>4. FlattenSeq(<<f[u]>> \o r2) = f[u] \o FlattenSeq(r2)
      BY <1>4, <3>1, FlattenCons
    <3>5. FlattenSeq(r2) = FlattenSeq(rest)
      BY <1>4, <3>2, <3>3
    <3> QED  BY <2>2, <3>4, <3>5 DEF r1, r2
  <2> QED  BY <1>9, <2>1, <2>2
<1> QED  BY <1>10 DEF Each, Texts, t, rest

(* Every text is empty or begins with a unit, and the rest is shorter.     *)
LEMMA FirstUnit ==
    ASSUME NEW s \in Seq(Byte), s # <<>>
    PROVE  \E u \in Unit, t \in Seq(Byte) : s = u \o t /\ Begins(u, t) /\ Len(t) < Len(s)
<1>1. Len(s) \in Nat \ {0} /\ \A i \in 1 .. Len(s) : s[i] \in Byte
  BY EmptySeq, ElementOfSeq
<1>2. CASE Escape(s, 1)
  <2> DEFINE u == <<percent, s[2], s[3]>>
             t == SubSeq(s, 4, Len(s))
  <2>1. s[1] = percent /\ s[2] \in HexDigits /\ s[3] \in HexDigits /\ Len(s) >= 3
    <3>1. 1 \in 1 .. Len(s) - 2 /\ s[1] = percent /\ s[1 + 1] \in HexDigits /\ s[1 + 2] \in HexDigits
      BY <1>2 DEF Escape
    <3> QED  BY <1>1, <3>1
  <2>2. u \in Escapes
    BY <2>1 DEF Escapes
  <2>3. u \in Seq(Byte) /\ Len(u) = 3 /\ u[1] = s[1] /\ u[2] = s[2] /\ u[3] = s[3]
    <3>1. u[1] = percent /\ u[2] = s[2] /\ u[3] = s[3]
      OBVIOUS
    <3> HIDE DEF u
    <3>2. u \in Seq(Byte) /\ Len(u) = 3
      BY <2>2, EscapeIs
    <3> QED  BY <2>1, <3>1, <3>2
  <2>4. /\ t \in Seq(Byte) /\ Len(t) = Len(s) - 3
        /\ \A i \in 1 .. Len(s) - 3 : t[i] = s[i + 3]
    <3> DEFINE n == Len(s)
    <3>1. 4 \in Int /\ n \in Int /\ \A i \in 4 .. n : s[i] \in Byte
      BY <1>1
    <3> HIDE DEF n
    <3>2. /\ SubSeq(s, 4, n) \in Seq(Byte) /\ Len(SubSeq(s, 4, n)) = IF 4 <= n THEN n - 4 + 1 ELSE 0
          /\ \A i \in 1 .. n - 4 + 1 : SubSeq(s, 4, n)[i] = s[4 + i - 1]
      BY <3>1, SubSeqProperties
    <3>3. n - 4 + 1 = n - 3 /\ \A i \in 1 .. n - 3 : 4 + i - 1 = i + 3
      BY <3>1
    <3>4. n >= 3
      BY <2>1 DEF n
    <3>5. Len(SubSeq(s, 4, n)) = n - 3
      BY <3>1, <3>2, <3>4
    <3>6. \A i \in 1 .. n - 3 : SubSeq(s, 4, n)[i] = s[i + 3]
      BY <3>2, <3>3
    <3> QED  BY <3>2, <3>5, <3>6 DEF n
  <2> HIDE DEF u, t
  <2>5. /\ u \o t \in Seq(Byte) /\ Len(u \o t) = Len(s)
        /\ \A i \in 1 .. Len(s) : (u \o t)[i] = IF i <= 3 THEN u[i] ELSE t[i - 3]
    <3>1. /\ u \o t \in Seq(Byte) /\ Len(u \o t) = Len(u) + Len(t)
          /\ \A i \in 1 .. Len(u) + Len(t) : (u \o t)[i] = IF i <= Len(u) THEN u[i] ELSE t[i - Len(u)]
      <4> DEFINE X == Byte
      <4>1. u \in Seq(X) /\ t \in Seq(X)
        BY <2>3, <2>4
      <4> HIDE DEF X
      <4>2. /\ u \o t \in Seq(X) /\ Len(u \o t) = Len(u) + Len(t)
            /\ \A i \in 1 .. Len(u) + Len(t) : (u \o t)[i] = IF i <= Len(u) THEN u[i] ELSE t[i - Len(u)]
        BY <4>1, ConcatProperties
      <4> QED  BY <4>2 DEF X
    <3>2. Len(u) + Len(t) = Len(s) /\ Len(u) = 3
      BY <1>1, <2>1, <2>3, <2>4
    <3> QED  BY <3>1, <3>2
  <2>6. ASSUME NEW i \in 1 .. Len(s) PROVE s[i] = (u \o t)[i]
    <3>1. CASE i <= 3
      <4>1. i = 1 \/ i = 2 \/ i = 3
        BY <3>1
      <4> QED  BY <2>3, <2>5, <3>1, <4>1
    <3>2. CASE ~(i <= 3)
      <4> DEFINE j == i - 3
      <4>1. j \in 1 .. Len(s) - 3 /\ j + 3 = i
        BY <1>1, <3>2
      <4>2. (u \o t)[i] = t[j]
        BY <2>5, <3>2
      <4> HIDE DEF j
      <4> QED  BY <2>4, <4>1, <4>2
    <3> QED  BY <3>1, <3>2
  <2>7. s = u \o t
    BY <2>5, <2>6, SeqEqual
  <2>8. Len(t) < Len(s)
    BY <1>1, <2>4
  <2>9. u \in Unit /\ Begins(u, t)
    BY <2>2 DEF Begins, Unit
  <2> QED  BY <2>4, <2>7, <2>8, <2>9
<1>3. CASE ~Escape(s, 1)
  <2>1. Head(s) \in Byte /\ Tail(s) \in Seq(Byte) /\ s = <<Head(s)>> \o Tail(s) /\ Len(Tail(s)) < Len(s)
    BY HeadAndTail
  <2>2. <<Head(s)>> \in Unit
    BY <2>1 DEF Unit
  <2> QED  BY <1>3, <2>1, <2>2 DEF Begins
<1> QED  BY <1>2, <1>3

(* Induction by units. *)
LEMMA ByUnit ==
    ASSUME NEW T, <<>> \in T,
           \A u \in Unit, s \in Seq(Byte) : Begins(u, s) /\ s \in T => u \o s \in T
    PROVE  Seq(Byte) \subseteq T
<1>1. ASSUME NEW s \in Seq(Byte), \A t \in Seq(Byte) : Len(t) < Len(s) => t \in T
      PROVE  s \in T
  <2>1. CASE s # <<>>
    <3>1. PICK u \in Unit, t \in Seq(Byte) : s = u \o t /\ Begins(u, t) /\ Len(t) < Len(s)
      BY <2>1, FirstUnit
    <3> QED  BY <1>1, <3>1
  <2> QED  BY <2>1
<1> QED  BY <1>1, ByLength

(* No text that is put in for a unit is a "%" that could begin an escape   *)
(* with what follows: then two passes are one.                             *)
LEMMA EachOfEach ==
    ASSUME NEW S, NEW f \in [Unit -> Unit \ {<<percent>>}], NEW g \in [Unit -> Seq(S)], NEW s \in Seq(Byte)
    PROVE  Each(Each(s, f), g) = Each(s, [u \in Unit |-> g[f[u]]])
<1> DEFINE h == [u \in Unit |-> g[f[u]]]
           T == {t \in Seq(Byte) : Each(Each(t, f), g) = Each(t, h)}
<1>1. h \in [Unit -> Seq(S)] /\ f \in [Unit -> Seq(Byte)] /\ \A u \in Unit : h[u] = g[f[u]]
  <2>1. \A u \in Unit : u \in Seq(Byte)
    BY UnitIs
  <2> QED  BY <2>1
<1> HIDE DEF h
<1>2. <<>> \in T
  <2>1. Each(<<>>, f) = <<>> /\ Each(<<>>, g) = <<>> /\ Each(<<>>, h) = <<>>
    BY <1>1, EachEmpty
  <2>2. <<>> \in Seq(Byte)
    BY EmptySeq
  <2> QED  BY <2>1, <2>2
<1>3. ASSUME NEW u \in Unit, NEW t \in Seq(Byte), Begins(u, t), t \in T PROVE u \o t \in T
  <2>1. u \o t \in Seq(Byte)
    BY UnitIs, ConcatProperties
  <2>2. Each(u \o t, f) = f[u] \o Each(t, f) /\ Each(u \o t, h) = h[u] \o Each(t, h) /\ Each(t, f) \in Seq(Byte)
    BY <1>1, <1>3, EachUnit, EachTyped
  <2>3. Begins(f[u], Each(t, f)) /\ f[u] \in Unit
    <3>1. CASE f[u] \in Escapes
      BY <3>1 DEF Begins, Unit
    <3>2. CASE f[u] \notin Escapes
      <4>1. f[u] \in Unit /\ f[u] # <<percent>>
        OBVIOUS
      <4>2. PICK c \in Byte : f[u] = <<c>> /\ c # percent
        BY <3>2, <4>1 DEF Unit
      <4>3. (<<c>> \o Each(t, f))[1] = c
        BY <2>2, Prefixed
      <4>4. ~Escape(f[u] \o Each(t, f), 1)
        BY <4>2, <4>3 DEF Escape
      <4> QED  BY <4>1, <4>4 DEF Begins
    <3>3. f[u] \in Unit
      OBVIOUS
    <3> QED  BY <3>1, <3>2, <3>3
  <2>4. Each(f[u] \o Each(t, f), g) = g[f[u]] \o Each(Each(t, f), g)
    BY <2>2, <2>3, EachUnit
  <2> QED  BY <1>1, <1>3, <2>1, <2>2, <2>4
<1>4. Seq(Byte) \subseteq T
  <2> HIDE DEF T
  <2> QED  BY <1>2, <1>3, ByUnit
<1> QED  BY <1>4 DEF h

-----------------------------------------------------------------------------
(* Segments. *)

\* The segments of the last n of s, for each n.
SplitStep(s, at, S) ==
    [n \in 1 .. Len(s) |->
        [segs \in Seq(Seq(S)) \ {<<>>} |->
            IF s[Len(s) - n + 1] = at THEN <<<<>>>> \o segs
            ELSE <<<<s[Len(s) - n + 1]>> \o Head(segs)>> \o Tail(segs)]]

LEMMA SplitStepTyped ==
    ASSUME NEW S, NEW c \in S, NEW at, NEW segs \in Seq(Seq(S)) \ {<<>>}
    PROVE  (IF c = at THEN <<<<>>>> \o segs ELSE <<<<c>> \o Head(segs)>> \o Tail(segs)) \in Seq(Seq(S)) \ {<<>>}
<1>1. <<>> \in Seq(S) /\ Head(segs) \in Seq(S) /\ Tail(segs) \in Seq(Seq(S))
  BY EmptySeq, HeadAndTail
<1>2. <<c>> \o Head(segs) \in Seq(S)
  BY <1>1, Prefixed
<1>3. <<<<c>> \o Head(segs)>> \o Tail(segs) \in Seq(Seq(S)) \ {<<>>}
  BY <1>1, <1>2, Prefixed
<1>4. <<<<>>>> \o segs \in Seq(Seq(S)) \ {<<>>}
  BY <1>1, Prefixed
<1> QED  BY <1>3, <1>4

LEMMA SplitIs ==
    ASSUME NEW S, NEW s \in Seq(S), NEW at
    PROVE  \E g : Along(g, Len(s), Seq(Seq(S)) \ {<<>>}, <<<<>>>>, SplitStep(s, at, S)) /\ Split(s, at) = g[Len(s)]
<1> DEFINE K == Len(s)
           X == Seq(Seq(S)) \ {<<>>}
           step == SplitStep(s, at, S)
           Body(f) == [n \in 0 .. K |->
                          IF n = 0 THEN <<<<>>>>
                          ELSE LET c == s[K - n + 1]
                                   segs == f[n - 1]
                               IN IF c = at THEN <<<<>>>> \o segs ELSE <<<<c>> \o Head(segs)>> \o Tail(segs)]
           chosen == CHOOSE f : f = Body(f)
<1>1. K \in Nat /\ \A n \in 1 .. K : K - n + 1 \in 1 .. K /\ s[K - n + 1] \in S
  <2>1. K \in Nat
    BY LenProperties
  <2>2. \A n \in 1 .. K : K - n + 1 \in 1 .. K
    BY <2>1
  <2> QED  BY <2>1, <2>2, ElementOfSeq
<1>2. <<<<>>>> \in X
  BY EmptySeq, Single
<1>3. step \in [1 .. K -> [X -> X]]
  <2>1. ASSUME NEW n \in 1 .. K, NEW segs \in X
        PROVE  (IF s[K - n + 1] = at THEN <<<<>>>> \o segs
                ELSE <<<<s[K - n + 1]>> \o Head(segs)>> \o Tail(segs)) \in X
    BY <1>1, SplitStepTyped
  <2> HIDE DEF X
  <2> QED  BY <2>1 DEF SplitStep, X
<1>4. PICK g : Along(g, K, X, <<<<>>>>, step)
  <2> HIDE DEF step, X, K
  <2> QED  BY <1>1, <1>2, <1>3, RecursionExists
<1>5. g \in [0 .. K -> X] /\ g[0] = <<<<>>>> /\ \A n \in 1 .. K : g[n] = step[n][g[n - 1]]
  <2> HIDE DEF step, X, K
  <2> QED  BY <1>4 DEF Along
<1>6. ASSUME NEW n \in 1 .. K, NEW segs \in X
      PROVE  step[n][segs] = IF s[K - n + 1] = at THEN <<<<>>>> \o segs
                             ELSE <<<<s[K - n + 1]>> \o Head(segs)>> \o Tail(segs)
  BY DEF SplitStep
<1>7. g = Body(g)
  <2>1. ASSUME NEW n \in 0 .. K PROVE g[n] = Body(g)[n]
    <3>1. CASE n = 0
      BY <1>5, <3>1
    <3>2. CASE n # 0
      <4>1. n \in 1 .. K /\ g[n - 1] \in X
        <5>1. n \in 1 .. K /\ n - 1 \in 0 .. K
          BY <1>1, <3>2
        <5> HIDE DEF X, K
        <5> QED  BY <1>5, <5>1
      <4> DEFINE segs == g[n - 1]
      <4>2. g[n] = IF s[K - n + 1] = at THEN <<<<>>>> \o segs
                             ELSE <<<<s[K - n + 1]>> \o Head(segs)>> \o Tail(segs)
        <5> HIDE DEF X, K, step
        <5> QED  BY <1>5, <1>6, <4>1
      <4>3. Body(g)[n] = IF s[K - n + 1] = at THEN <<<<>>>> \o segs
                             ELSE <<<<s[K - n + 1]>> \o Head(segs)>> \o Tail(segs)
        <5> HIDE DEF X, K
        <5> QED  BY <3>2
      <4> HIDE DEF segs, Body
      <4> QED  BY <4>2, <4>3
    <3> QED  BY <3>1, <3>2
  <2>2. g = [n \in 0 .. K |-> g[n]] /\ Body(g) = [n \in 0 .. K |-> Body(g)[n]]
    BY <1>5
  <2> HIDE DEF Body, K
  <2> QED  BY <2>1, <2>2
<1>8. chosen = Body(chosen)
  <2> HIDE DEF Body
  <2> QED  BY <1>7
<1> HIDE DEF chosen, X, step
<1> DEFINE T == {n \in 0 .. K : chosen[n] = g[n]}
<1>9. ASSUME NEW n \in 0 .. K
      PROVE  chosen[n] = IF n = 0 THEN <<<<>>>>
                         ELSE IF s[K - n + 1] = at THEN <<<<>>>> \o chosen[n - 1]
                         ELSE <<<<s[K - n + 1]>> \o Head(chosen[n - 1])>> \o Tail(chosen[n - 1])
  <2> DEFINE b == Body(chosen)
  <2>1. b[n] = IF n = 0 THEN <<<<>>>>
               ELSE IF s[K - n + 1] = at THEN <<<<>>>> \o chosen[n - 1]
               ELSE <<<<s[K - n + 1]>> \o Head(chosen[n - 1])>> \o Tail(chosen[n - 1])
    <3> HIDE DEF K
    <3> QED  OBVIOUS
  <2>2. chosen = b
    BY <1>8
  <2> HIDE DEF b
  <2> QED  BY <2>1, <2>2
<1>10. 0 \in T
  <2>1. 0 \in 0 .. K
    BY <1>1
  <2> HIDE DEF K
  <2> QED  BY <1>5, <1>9, <2>1
<1>11. ASSUME NEW n \in 1 .. K, n - 1 \in T PROVE n \in T
  <2>1. n \in 0 .. K /\ n # 0 /\ n - 1 \in 0 .. K
    BY <1>1
  <2>2. g[n - 1] \in X
    <3> HIDE DEF K
    <3> QED  BY <1>5, <2>1
  <2> HIDE DEF K
  <2>3. g[n] = IF s[K - n + 1] = at THEN <<<<>>>> \o g[n - 1]
               ELSE <<<<s[K - n + 1]>> \o Head(g[n - 1])>> \o Tail(g[n - 1])
    BY <1>5, <1>6, <2>2
  <2>4. chosen[n] = IF s[K - n + 1] = at THEN <<<<>>>> \o chosen[n - 1]
                    ELSE <<<<s[K - n + 1]>> \o Head(chosen[n - 1])>> \o Tail(chosen[n - 1])
    BY <1>9, <2>1
  <2>5. chosen[n - 1] = g[n - 1]
    BY <1>11
  <2> QED  BY <2>1, <2>3, <2>4, <2>5
<1>12. 0 .. K \subseteq T
  <2> HIDE DEF T, K
  <2> QED  BY <1>1, <1>10, <1>11, UpTo
<1>13. K \in 0 .. K
  BY <1>1
<1>14. Split(s, at) = chosen[K]
  BY DEF Split, chosen
<1>15. Split(s, at) = g[K]
  <2> HIDE DEF K
  <2> QED  BY <1>12, <1>13, <1>14
<1> QED  BY <1>4, <1>15 DEF X, step

LEMMA SplitTyped ==
    ASSUME NEW S, NEW s \in Seq(S), NEW at
    PROVE  Split(s, at) \in Seq(Seq(S)) /\ Split(s, at) # <<>>
<1>1. PICK g : Along(g, Len(s), Seq(Seq(S)) \ {<<>>}, <<<<>>>>, SplitStep(s, at, S)) /\ Split(s, at) = g[Len(s)]
  BY SplitIs
<1>2. Len(s) \in 0 .. Len(s)
  BY LenProperties
<1>3. g[Len(s)] \in Seq(Seq(S)) \ {<<>>}
  BY <1>1, <1>2 DEF Along
<1> QED  BY <1>1, <1>3

LEMMA SplitEmpty == \A at : Split(<<>>, at) = <<<<>>>>
<1> SUFFICES ASSUME NEW at PROVE Split(<<>>, at) = <<<<>>>>
  OBVIOUS
<1>1. <<>> \in Seq({}) /\ Len(<<>>) = 0
  BY EmptySeq
<1>2. PICK g : Along(g, 0, Seq(Seq({})) \ {<<>>}, <<<<>>>>, SplitStep(<<>>, at, {})) /\ Split(<<>>, at) = g[0]
  BY <1>1, SplitIs
<1> QED  BY <1>2 DEF Along

\* The segments segs, with c in front.
Longer(c, segs, at) == IF c = at THEN <<<<>>>> \o segs ELSE <<<<c>> \o Head(segs)>> \o Tail(segs)

LEMMA SplitPrefixed ==
    ASSUME NEW S, NEW s \in Seq(S), NEW c \in S, NEW at
    PROVE  Split(<<c>> \o s, at) = Longer(c, Split(s, at), at)
<1> DEFINE t == <<c>> \o s
           K == Len(s)
           X == Seq(Seq(S)) \ {<<>>}
<1>1. /\ K \in Nat /\ t \in Seq(S) /\ Len(t) = K + 1 /\ t[1] = c
      /\ \A i \in 1 .. K : t[i + 1] = s[i]
  BY Prefixed, LenProperties
<1> HIDE DEF t
<1>2. PICK g : Along(g, K, X, <<<<>>>>, SplitStep(s, at, S)) /\ Split(s, at) = g[K]
  BY SplitIs
<1>3. PICK h : Along(h, K + 1, X, <<<<>>>>, SplitStep(t, at, S)) /\ Split(t, at) = h[K + 1]
  <2>1. \E h : Along(h, Len(t), X, <<<<>>>>, SplitStep(t, at, S)) /\ Split(t, at) = h[Len(t)]
    BY <1>1, SplitIs
  <2> HIDE DEF X, K
  <2> QED  BY <1>1, <2>1
<1> HIDE DEF X
<1>4. /\ \A n \in 0 .. K : g[n] \in X
      /\ g[0] = <<<<>>>>
      /\ \A n \in 1 .. K : g[n] = SplitStep(s, at, S)[n][g[n - 1]]
  BY <1>2 DEF Along
<1>5. /\ \A n \in 0 .. K + 1 : h[n] \in X
      /\ h[0] = <<<<>>>>
      /\ \A n \in 1 .. K + 1 : h[n] = SplitStep(t, at, S)[n][h[n - 1]]
  BY <1>3 DEF Along
<1>6. ASSUME NEW n \in 1 .. K, NEW segs \in X
      PROVE  SplitStep(s, at, S)[n][segs] = SplitStep(t, at, S)[n][segs]
  <2> DEFINE i == K - n + 1
  <2>1. i \in 1 .. K /\ K + 1 - n + 1 = i + 1 /\ n \in 1 .. K + 1
    BY <1>1
  <2>2. t[K + 1 - n + 1] = s[i]
    <3> HIDE DEF i
    <3> QED  BY <1>1, <2>1
  <2>3. SplitStep(s, at, S)[n][segs] = IF s[i] = at THEN <<<<>>>> \o segs
                                       ELSE <<<<s[i]>> \o Head(segs)>> \o Tail(segs)
    BY DEF SplitStep, X
  <2>4. SplitStep(t, at, S)[n][segs] = IF t[Len(t) - n + 1] = at THEN <<<<>>>> \o segs
                                       ELSE <<<<t[Len(t) - n + 1]>> \o Head(segs)>> \o Tail(segs)
    <3>1. n \in 1 .. Len(t)
      BY <1>1, <2>1
    <3> QED  BY <3>1 DEF SplitStep, X
  <2>5. t[Len(t) - n + 1] = s[i]
    BY <1>1, <2>2
  <2> QED  BY <2>3, <2>4, <2>5
<1> HIDE DEF K
<1> DEFINE T == {n \in 0 .. K : h[n] = g[n]}
<1>7. 0 \in T
  <2>1. 0 \in 0 .. K
    BY <1>1
  <2>2. h[0] = g[0]
    BY <1>4, <1>5
  <2> QED  BY <2>1, <2>2
<1>8. ASSUME NEW n \in 1 .. K, n - 1 \in T PROVE n \in T
  <2>1. n - 1 \in 0 .. K /\ n \in 0 .. K /\ n \in 1 .. K + 1
    BY <1>1
  <2>2. g[n] = SplitStep(s, at, S)[n][g[n - 1]] /\ h[n] = SplitStep(t, at, S)[n][h[n - 1]] /\ h[n - 1] = g[n - 1]
    BY <1>4, <1>5, <1>8, <2>1
  <2>3. g[n] = h[n]
    BY <1>4, <1>6, <2>1, <2>2
  <2> QED  BY <2>1, <2>3
<1>9. 0 .. K \subseteq T
  <2> HIDE DEF T
  <2> QED  BY <1>1, <1>7, <1>8, UpTo
<1>10. h[K] = g[K] /\ h[K] \in X
  <2>1. K \in 0 .. K /\ K \in 0 .. K + 1
    BY <1>1
  <2> QED  BY <1>5, <1>9, <2>1
<1>11. h[K + 1] = IF c = at THEN <<<<>>>> \o h[K] ELSE <<<<c>> \o Head(h[K])>> \o Tail(h[K])
  <2> DEFINE n == K + 1
  <2>1. n \in 1 .. K + 1 /\ n - 1 = K /\ n \in 1 .. Len(t) /\ Len(t) - n + 1 = 1
    BY <1>1
  <2> HIDE DEF n
  <2>2. h[n] = SplitStep(t, at, S)[n][h[K]]
    <3>1. h[n] = SplitStep(t, at, S)[n][h[n - 1]]
      BY <1>5, <2>1
    <3> QED  BY <2>1, <3>1
  <2>3. SplitStep(t, at, S)[n][h[K]] = IF t[Len(t) - n + 1] = at THEN <<<<>>>> \o h[K]
                                       ELSE <<<<t[Len(t) - n + 1]>> \o Head(h[K])>> \o Tail(h[K])
    BY <1>10, <2>1 DEF SplitStep, X
  <2>4. t[Len(t) - n + 1] = c
    BY <1>1, <2>1
  <2> QED  BY <2>2, <2>3, <2>4 DEF n
<1>12. h[K + 1] = Longer(c, h[K], at)
  BY <1>11 DEF Longer
<1> QED  BY <1>2, <1>3, <1>10, <1>12 DEF t

-----------------------------------------------------------------------------
(* Segments of dots. *)

\* What the first n segments leave, for each n.
LeftStep(segs, keep, S) ==
    [n \in 1 .. Len(segs) |->
        [out \in Seq(S) |->
            IF segs[n] = <<dot>> THEN out
            ELSE IF segs[n] = <<dot, dot>> THEN IF Len(out) > keep THEN Front(out) ELSE out
            ELSE Append(out, segs[n])]]
Left(segs, keep) ==
    LET left[n \in 0 .. Len(segs)] ==
            IF n = 0 THEN <<>>
            ELSE LET out == left[n - 1]
                 IN IF segs[n] = <<dot>> THEN out
                    ELSE IF segs[n] = <<dot, dot>> THEN IF Len(out) > keep THEN Front(out) ELSE out
                    ELSE Append(out, segs[n])
    IN left[Len(segs)]

LEMMA WithoutDotsIs ==
    \A segs, keep : WithoutDots(segs, keep) = IF Last(segs) \in Dots THEN Append(Left(segs, keep), <<>>) ELSE Left(segs, keep)
BY DEF WithoutDots, Left

LEMMA LeftStepTyped ==
    ASSUME NEW S, NEW seg \in S, NEW keep \in Nat, NEW out \in Seq(S)
    PROVE  (IF seg = <<dot>> THEN out
            ELSE IF seg = <<dot, dot>> THEN IF Len(out) > keep THEN Front(out) ELSE out
            ELSE Append(out, seg)) \in Seq(S)
<1>1. Append(out, seg) \in Seq(S)
  BY AppendProperties
<1>2. Len(out) > keep => Front(out) \in Seq(S)
  <2> SUFFICES ASSUME Len(out) > keep PROVE Front(out) \in Seq(S)
    OBVIOUS
  <2>1. out # <<>>
    BY EmptySeq
  <2> QED  BY <2>1, FrontAndLast
<1> QED  BY <1>1, <1>2

LEMMA LeftIs ==
    ASSUME NEW S, NEW segs \in Seq(S), NEW keep \in Nat
    PROVE  \E g : Along(g, Len(segs), Seq(S), <<>>, LeftStep(segs, keep, S)) /\ Left(segs, keep) = g[Len(segs)]
<1> DEFINE K == Len(segs)
           X == Seq(S)
           step == LeftStep(segs, keep, S)
           After(out, seg) == IF seg = <<dot>> THEN out
                              ELSE IF seg = <<dot, dot>> THEN IF Len(out) > keep THEN Front(out) ELSE out
                              ELSE Append(out, seg)
           Body(f) == [n \in 0 .. K |->
                          IF n = 0 THEN <<>>
                          ELSE LET out == f[n - 1]
                               IN IF segs[n] = <<dot>> THEN out
                                  ELSE IF segs[n] = <<dot, dot>> THEN IF Len(out) > keep THEN Front(out) ELSE out
                                  ELSE Append(out, segs[n])]
           chosen == CHOOSE f : f = Body(f)
<1>1. K \in Nat /\ \A n \in 1 .. K : segs[n] \in S
  BY LenProperties, ElementOfSeq
<1>2. <<>> \in X
  BY EmptySeq
<1>3. step \in [1 .. K -> [X -> X]]
  <2>1. ASSUME NEW n \in 1 .. K, NEW out \in X
        PROVE  After(out, segs[n]) \in X
    BY <1>1, LeftStepTyped
  <2>2. step = [n \in 1 .. K |-> [out \in X |-> After(out, segs[n])]]
    BY DEF LeftStep
  <2> HIDE DEF X, After, step, K
  <2> QED  BY <2>1, <2>2
<1>4. PICK g : Along(g, K, X, <<>>, step)
  <2> HIDE DEF step, X, K
  <2> QED  BY <1>1, <1>2, <1>3, RecursionExists
<1>5. g \in [0 .. K -> X] /\ g[0] = <<>> /\ \A n \in 1 .. K : g[n] = step[n][g[n - 1]]
  <2> HIDE DEF step, X, K
  <2> QED  BY <1>4 DEF Along
<1>6. ASSUME NEW n \in 1 .. K, NEW out \in X
      PROVE  step[n][out] = After(out, segs[n])
  BY DEF LeftStep
<1>7. g = Body(g)
  <2>1. ASSUME NEW n \in 0 .. K PROVE g[n] = Body(g)[n]
    <3>1. CASE n = 0
      BY <1>5, <3>1
    <3>2. CASE n # 0
      <4>1. n \in 1 .. K /\ g[n - 1] \in X
        <5>1. n \in 1 .. K /\ n - 1 \in 0 .. K
          BY <1>1, <3>2
        <5> HIDE DEF X, K
        <5> QED  BY <1>5, <5>1
      <4>2. g[n] = After(g[n - 1], segs[n])
        <5> HIDE DEF X, K, step, After
        <5> QED  BY <1>5, <1>6, <4>1
      <4>3. Body(g)[n] = After(g[n - 1], segs[n])
        <5> HIDE DEF X, K
        <5> QED  BY <3>2
      <4> HIDE DEF Body, After
      <4> QED  BY <4>2, <4>3
    <3> QED  BY <3>1, <3>2
  <2>2. g = [n \in 0 .. K |-> g[n]] /\ Body(g) = [n \in 0 .. K |-> Body(g)[n]]
    BY <1>5
  <2> HIDE DEF Body, K
  <2> QED  BY <2>1, <2>2
<1>8. chosen = Body(chosen)
  <2> HIDE DEF Body
  <2> QED  BY <1>7
<1> HIDE DEF chosen, X, step
<1> DEFINE T == {n \in 0 .. K : chosen[n] = g[n]}
<1>9. ASSUME NEW n \in 0 .. K
      PROVE  chosen[n] = IF n = 0 THEN <<>> ELSE After(chosen[n - 1], segs[n])
  <2> DEFINE b == Body(chosen)
  <2>1. b[n] = IF n = 0 THEN <<>> ELSE After(chosen[n - 1], segs[n])
    <3> HIDE DEF K
    <3> QED  OBVIOUS
  <2>2. chosen = b
    BY <1>8
  <2> HIDE DEF b, After
  <2> QED  BY <2>1, <2>2
<1> HIDE DEF After
<1>10. 0 \in T
  <2>1. 0 \in 0 .. K
    BY <1>1
  <2> HIDE DEF K
  <2> QED  BY <1>5, <1>9, <2>1
<1>11. ASSUME NEW n \in 1 .. K, n - 1 \in T PROVE n \in T
  <2>1. n \in 0 .. K /\ n # 0 /\ n - 1 \in 0 .. K
    BY <1>1
  <2>2. g[n - 1] \in X
    <3> HIDE DEF K
    <3> QED  BY <1>5, <2>1
  <2> HIDE DEF K
  <2>3. g[n] = After(g[n - 1], segs[n])
    BY <1>5, <1>6, <2>2
  <2>4. chosen[n] = After(chosen[n - 1], segs[n])
    BY <1>9, <2>1
  <2>5. chosen[n - 1] = g[n - 1]
    BY <1>11
  <2> QED  BY <2>1, <2>3, <2>4, <2>5
<1>12. 0 .. K \subseteq T
  <2> HIDE DEF T, K
  <2> QED  BY <1>1, <1>10, <1>11, UpTo
<1>13. K \in 0 .. K
  BY <1>1
<1>14. Left(segs, keep) = chosen[K]
  BY DEF Left, chosen
<1>15. Left(segs, keep) = g[K]
  <2> HIDE DEF K
  <2> QED  BY <1>12, <1>13, <1>14
<1> QED  BY <1>4, <1>15 DEF X, step

LEMMA LeftTyped ==
    ASSUME NEW S, NEW segs \in Seq(S), NEW keep \in Nat
    PROVE  Left(segs, keep) \in Seq(S)
<1>1. PICK g : Along(g, Len(segs), Seq(S), <<>>, LeftStep(segs, keep, S)) /\ Left(segs, keep) = g[Len(segs)]
  BY LeftIs
<1>2. Len(segs) \in 0 .. Len(segs)
  BY LenProperties
<1> QED  BY <1>1, <1>2 DEF Along

LEMMA LeftEmpty == \A keep \in Nat : Left(<<>>, keep) = <<>>
<1> SUFFICES ASSUME NEW keep \in Nat PROVE Left(<<>>, keep) = <<>>
  OBVIOUS
<1>1. <<>> \in Seq({}) /\ Len(<<>>) = 0
  BY EmptySeq
<1>2. PICK g : Along(g, 0, Seq({}), <<>>, LeftStep(<<>>, keep, {})) /\ Left(<<>>, keep) = g[0]
  BY <1>1, LeftIs
<1> QED  BY <1>2 DEF Along

LEMMA LeftAppend ==
    ASSUME NEW S, NEW segs \in Seq(S), NEW seg \in S, NEW keep \in Nat
    PROVE  Left(Append(segs, seg), keep) =
               IF seg = <<dot>> THEN Left(segs, keep)
               ELSE IF seg = <<dot, dot>> THEN IF Len(Left(segs, keep)) > keep THEN Front(Left(segs, keep)) ELSE Left(segs, keep)
               ELSE Append(Left(segs, keep), seg)
<1> DEFINE t == Append(segs, seg)
           K == Len(segs)
           X == Seq(S)
<1>1. /\ K \in Nat /\ t \in Seq(S) /\ Len(t) = K + 1 /\ t[K + 1] = seg
      /\ \A i \in 1 .. K : t[i] = segs[i]
  BY AppendProperties, LenProperties
<1> HIDE DEF t
<1>2. PICK g : Along(g, K, X, <<>>, LeftStep(segs, keep, S)) /\ Left(segs, keep) = g[K]
  BY LeftIs
<1>3. PICK h : Along(h, K + 1, X, <<>>, LeftStep(t, keep, S)) /\ Left(t, keep) = h[K + 1]
  <2>1. \E h : Along(h, Len(t), X, <<>>, LeftStep(t, keep, S)) /\ Left(t, keep) = h[Len(t)]
    BY <1>1, LeftIs
  <2> HIDE DEF X, K
  <2> QED  BY <1>1, <2>1
<1> HIDE DEF X
<1>4. /\ \A n \in 0 .. K : g[n] \in X
      /\ g[0] = <<>>
      /\ \A n \in 1 .. K : g[n] = LeftStep(segs, keep, S)[n][g[n - 1]]
  BY <1>2 DEF Along
<1>5. /\ \A n \in 0 .. K + 1 : h[n] \in X
      /\ h[0] = <<>>
      /\ \A n \in 1 .. K + 1 : h[n] = LeftStep(t, keep, S)[n][h[n - 1]]
  BY <1>3 DEF Along
<1>6. ASSUME NEW n \in 1 .. K, NEW out \in X
      PROVE  LeftStep(segs, keep, S)[n][out] = LeftStep(t, keep, S)[n][out]
  <2>1. n \in 1 .. Len(t) /\ t[n] = segs[n]
    BY <1>1
  <2> QED  BY <2>1 DEF LeftStep, X
<1> HIDE DEF K
<1> DEFINE T == {n \in 0 .. K : h[n] = g[n]}
<1>7. 0 \in T
  BY <1>1, <1>4, <1>5
<1>8. ASSUME NEW n \in 1 .. K, n - 1 \in T PROVE n \in T
  <2>1. n - 1 \in 0 .. K /\ n \in 0 .. K /\ n \in 1 .. K + 1
    BY <1>1
  <2>2. g[n] = LeftStep(segs, keep, S)[n][g[n - 1]] /\ h[n] = LeftStep(t, keep, S)[n][h[n - 1]] /\ h[n - 1] = g[n - 1]
    BY <1>4, <1>5, <1>8, <2>1
  <2>3. g[n] = h[n]
    BY <1>4, <1>6, <2>1, <2>2
  <2> QED  BY <2>1, <2>3
<1>9. 0 .. K \subseteq T
  <2> HIDE DEF T
  <2> QED  BY <1>1, <1>7, <1>8, UpTo
<1>10. h[K] = g[K] /\ h[K] \in X
  <2>1. K \in 0 .. K /\ K \in 0 .. K + 1
    BY <1>1
  <2> QED  BY <1>5, <1>9, <2>1
<1>11. h[K + 1] = IF seg = <<dot>> THEN h[K]
                  ELSE IF seg = <<dot, dot>> THEN IF Len(h[K]) > keep THEN Front(h[K]) ELSE h[K]
                  ELSE Append(h[K], seg)
  <2> DEFINE n == K + 1
  <2>1. n \in 1 .. K + 1 /\ n - 1 = K /\ n \in 1 .. Len(t) /\ t[n] = seg
    BY <1>1
  <2> HIDE DEF n
  <2>2. h[n] = LeftStep(t, keep, S)[n][h[K]]
    <3>1. h[n] = LeftStep(t, keep, S)[n][h[n - 1]]
      BY <1>5, <2>1
    <3> QED  BY <2>1, <3>1
  <2>3. LeftStep(t, keep, S)[n][h[K]] =
            IF t[n] = <<dot>> THEN h[K]
            ELSE IF t[n] = <<dot, dot>> THEN IF Len(h[K]) > keep THEN Front(h[K]) ELSE h[K]
            ELSE Append(h[K], t[n])
    BY <1>10, <2>1 DEF LeftStep, X
  <2>4. h[n] = IF seg = <<dot>> THEN h[K]
               ELSE IF seg = <<dot, dot>> THEN IF Len(h[K]) > keep THEN Front(h[K]) ELSE h[K]
               ELSE Append(h[K], seg)
    BY <2>1, <2>2, <2>3
  <2> QED  BY <2>4 DEF n
<1> QED  BY <1>2, <1>3, <1>10, <1>11 DEF t

\* Element by element.
Mapped(s, m) == [i \in DOMAIN s |-> m[s[i]]]

LEMMA MappedIs ==
    ASSUME NEW A, NEW m, NEW s \in Seq(A)
    PROVE  Len(Mapped(s, m)) = Len(s) /\ \A i \in 1 .. Len(s) : Mapped(s, m)[i] = m[s[i]]
<1> DEFINE B == {m[s[i]] : i \in 1 .. Len(s)}
<1>1. Len(s) \in Nat /\ DOMAIN s = 1 .. Len(s)
  BY LenProperties
<1>2. Mapped(s, m) \in [1 .. Len(s) -> B] /\ \A i \in 1 .. Len(s) : Mapped(s, m)[i] = m[s[i]]
  BY <1>1 DEF Mapped
<1> QED  BY <1>1, <1>2, FunctionIsSeq

LEMMA MappedTyped ==
    ASSUME NEW A, NEW B, NEW m \in [A -> B], NEW s \in Seq(A)
    PROVE  Mapped(s, m) \in Seq(B)
<1>1. Len(s) \in Nat /\ DOMAIN s = 1 .. Len(s) /\ \A i \in 1 .. Len(s) : s[i] \in A
  BY LenProperties, ElementOfSeq
<1>2. Mapped(s, m) \in [1 .. Len(s) -> B]
  BY <1>1 DEF Mapped
<1> QED  BY <1>1, <1>2, FunctionIsSeq

LEMMA MappedEmpty == \A m : Mapped(<<>>, m) = <<>>
<1> SUFFICES ASSUME NEW m PROVE Mapped(<<>>, m) = <<>>
  OBVIOUS
<1>1. DOMAIN <<>> = {}
  OBVIOUS
<1>2. Mapped(<<>>, m) \in [1 .. 0 -> {}]
  BY <1>1 DEF Mapped
<1>3. Mapped(<<>>, m) \in Seq({}) /\ Len(Mapped(<<>>, m)) = 0
  BY <1>2, FunctionIsSeq
<1> QED  BY <1>3, EmptySeq

LEMMA MappedPrefixed ==
    ASSUME NEW A, NEW B, NEW m \in [A -> B], NEW c \in A, NEW s \in Seq(A)
    PROVE  Mapped(<<c>> \o s, m) = <<m[c]>> \o Mapped(s, m)
<1> DEFINE t == <<c>> \o s
           left == Mapped(t, m)
           rest == Mapped(s, m)
           right == <<m[c]>> \o rest
<1>1. t \in Seq(A) /\ Len(t) = Len(s) + 1 /\ t[1] = c /\ (\A i \in 1 .. Len(s) : t[i + 1] = s[i]) /\ Len(s) \in Nat
  BY Prefixed, LenProperties
<1> HIDE DEF t
<1>2. left \in Seq(B) /\ Len(left) = Len(t) /\ \A i \in 1 .. Len(t) : left[i] = m[t[i]]
  <2>1. Mapped(t, m) \in Seq(B)
    BY <1>1, MappedTyped, Zenon
  <2>2. Len(Mapped(t, m)) = Len(t) /\ \A i \in 1 .. Len(t) : Mapped(t, m)[i] = m[t[i]]
    BY <1>1, MappedIs
  <2> QED  BY <2>1, <2>2
<1>3. rest \in Seq(B) /\ Len(rest) = Len(s) /\ \A i \in 1 .. Len(s) : rest[i] = m[s[i]]
  <2>1. Mapped(s, m) \in Seq(B)
    BY MappedTyped, Zenon
  <2>2. Len(Mapped(s, m)) = Len(s) /\ \A i \in 1 .. Len(s) : Mapped(s, m)[i] = m[s[i]]
    BY MappedIs
  <2> QED  BY <2>1, <2>2
<1> HIDE DEF left, rest
<1>4. right \in Seq(B) /\ Len(right) = Len(rest) + 1 /\ right[1] = m[c] /\ \A i \in 1 .. Len(rest) : right[i + 1] = rest[i]
  <2>1. m[c] \in B
    OBVIOUS
  <2> QED  BY <1>3, <2>1, Prefixed
<1> HIDE DEF right
<1>5. ASSUME NEW i \in 1 .. Len(t) PROVE left[i] = right[i]
  <2>1. CASE i = 1
    BY <1>1, <1>2, <1>4, <2>1
  <2>2. CASE i # 1
    <3> DEFINE j == i - 1
    <3>1. j \in 1 .. Len(s) /\ i = j + 1
      BY <1>1, <2>2
    <3> HIDE DEF j
    <3>2. t[i] = s[j] /\ right[i] = rest[j]
      BY <1>1, <1>3, <1>4, <3>1
    <3> QED  BY <1>2, <1>3, <3>1, <3>2
  <2> QED  BY <2>1, <2>2
<1>6. Len(left) = Len(right)
  BY <1>1, <1>2, <1>3, <1>4
<1>7. left = right
  BY <1>2, <1>4, <1>5, <1>6, SeqEqual
<1> QED  BY <1>7 DEF left, right, rest, t

LEMMA MappedAppend ==
    ASSUME NEW A, NEW B, NEW m \in [A -> B], NEW c \in A, NEW s \in Seq(A)
    PROVE  Mapped(Append(s, c), m) = Append(Mapped(s, m), m[c])
<1> DEFINE t == Append(s, c)
           left == Mapped(t, m)
           rest == Mapped(s, m)
           right == Append(rest, m[c])
<1>1. t \in Seq(A) /\ Len(t) = Len(s) + 1 /\ t[Len(s) + 1] = c /\ (\A i \in 1 .. Len(s) : t[i] = s[i]) /\ Len(s) \in Nat
  BY AppendProperties, LenProperties
<1> HIDE DEF t
<1>2. left \in Seq(B) /\ Len(left) = Len(t) /\ \A i \in 1 .. Len(t) : left[i] = m[t[i]]
  <2>1. Mapped(t, m) \in Seq(B)
    BY <1>1, MappedTyped, Zenon
  <2>2. Len(Mapped(t, m)) = Len(t) /\ \A i \in 1 .. Len(t) : Mapped(t, m)[i] = m[t[i]]
    BY <1>1, MappedIs
  <2> QED  BY <2>1, <2>2
<1>3. rest \in Seq(B) /\ Len(rest) = Len(s) /\ \A i \in 1 .. Len(s) : rest[i] = m[s[i]]
  <2>1. Mapped(s, m) \in Seq(B)
    BY MappedTyped, Zenon
  <2>2. Len(Mapped(s, m)) = Len(s) /\ \A i \in 1 .. Len(s) : Mapped(s, m)[i] = m[s[i]]
    BY MappedIs
  <2> QED  BY <2>1, <2>2
<1> HIDE DEF left, rest
<1>4. right \in Seq(B) /\ Len(right) = Len(rest) + 1 /\ right[Len(rest) + 1] = m[c] /\ \A i \in 1 .. Len(rest) : right[i] = rest[i]
  <2>1. m[c] \in B
    OBVIOUS
  <2> QED  BY <1>3, <2>1, AppendProperties
<1> HIDE DEF right
<1>5. ASSUME NEW i \in 1 .. Len(t) PROVE left[i] = right[i]
  <2>1. CASE i = Len(s) + 1
    BY <1>1, <1>2, <1>3, <1>4, <2>1
  <2>2. CASE i # Len(s) + 1
    <3>1. i \in 1 .. Len(s)
      BY <1>1, <2>2
    <3> QED  BY <1>1, <1>2, <1>3, <1>4, <3>1
  <2> QED  BY <2>1, <2>2
<1>6. Len(left) = Len(right)
  BY <1>1, <1>2, <1>3, <1>4
<1>7. left = right
  BY <1>2, <1>4, <1>5, <1>6, SeqEqual
<1> QED  BY <1>7 DEF left, right, rest, t

\* Each segment with a slash in front.
Slashed(segs) == FlattenSeq([i \in DOMAIN segs |-> <<slash>> \o segs[i]])
Slash(S) == [seg \in Seq(S) |-> <<slash>> \o seg]

LEMMA SlashedIs ==
    ASSUME NEW S, slash \in S, NEW segs \in Seq(Seq(S))
    PROVE  Slash(S) \in [Seq(S) -> Seq(S)] /\ Slashed(segs) = FlattenSeq(Mapped(segs, Slash(S))) /\ Slashed(segs) \in Seq(S)
<1>1. \A seg \in Seq(S) : <<slash>> \o seg \in Seq(S)
  BY Prefixed
<1>2. Slash(S) \in [Seq(S) -> Seq(S)] /\ \A seg \in Seq(S) : Slash(S)[seg] = <<slash>> \o seg
  BY <1>1 DEF Slash
<1>3. DOMAIN segs = 1 .. Len(segs) /\ \A i \in DOMAIN segs : segs[i] \in Seq(S)
  BY LenProperties, ElementOfSeq
<1>4. [i \in DOMAIN segs |-> <<slash>> \o segs[i]] = Mapped(segs, Slash(S))
  BY <1>2, <1>3 DEF Mapped
<1>5. Mapped(segs, Slash(S)) \in Seq(Seq(S))
  BY <1>2, MappedTyped
<1> QED  BY <1>2, <1>4, <1>5, FlattenTyped DEF Slashed

LEMMA SlashedEmpty == Slashed(<<>>) = <<>>
<1>1. DOMAIN <<>> = {} /\ <<>> \in Seq({}) /\ Len(<<>>) = 0
  OBVIOUS
<1>2. [i \in DOMAIN <<>> |-> <<slash>> \o <<>>[i]] \in [1 .. 0 -> {}]
  BY <1>1
<1>3. [i \in DOMAIN <<>> |-> <<slash>> \o <<>>[i]] = <<>>
  <2> DEFINE e == [i \in DOMAIN <<>> |-> <<slash>> \o <<>>[i]]
  <2>1. e \in Seq({}) /\ Len(e) = 0
    <3> HIDE DEF e
    <3> QED  BY <1>2, FunctionIsSeq DEF e
  <2> HIDE DEF e
  <2> QED  BY <2>1, EmptySeq DEF e
<1> QED  BY <1>3, FlattenEmpty DEF Slashed

LEMMA SlashedPrefixed ==
    ASSUME NEW S, slash \in S, NEW seg \in Seq(S), NEW segs \in Seq(Seq(S))
    PROVE  /\ Slashed(<<seg>> \o segs) = <<slash>> \o (seg \o Slashed(segs))
           /\ Join(<<seg>> \o segs) = seg \o Slashed(segs)
<1>1. <<seg>> \o segs \in Seq(Seq(S)) /\ <<slash>> \o seg \in Seq(S) /\ <<slash>> \in Seq(S)
  BY Prefixed, Single
<1>2. /\ Slash(S) \in [Seq(S) -> Seq(S)] /\ Slashed(segs) = FlattenSeq(Mapped(segs, Slash(S))) /\ Slashed(segs) \in Seq(S)
      /\ Slashed(<<seg>> \o segs) = FlattenSeq(Mapped(<<seg>> \o segs, Slash(S)))
  BY <1>1, SlashedIs
<1>3. Mapped(segs, Slash(S)) \in Seq(Seq(S)) /\ Mapped(<<seg>> \o segs, Slash(S)) = <<<<slash>> \o seg>> \o Mapped(segs, Slash(S))
  <2>1. Slash(S)[seg] = <<slash>> \o seg
    BY DEF Slash
  <2>2. Mapped(<<seg>> \o segs, Slash(S)) = <<Slash(S)[seg]>> \o Mapped(segs, Slash(S))
    BY <1>2, MappedPrefixed, ZenonT(40)
  <2> QED  BY <1>2, <2>1, <2>2, MappedTyped
<1>4. Slashed(<<seg>> \o segs) = (<<slash>> \o seg) \o Slashed(segs)
  BY <1>1, <1>2, <1>3, FlattenCons
<1>5. Slashed(<<seg>> \o segs) = <<slash>> \o (seg \o Slashed(segs))
  <2>1. (<<slash>> \o seg) \o Slashed(segs) = <<slash>> \o (seg \o Slashed(segs))
    BY <1>1, <1>2, ConcatAssociative, SMTT(30)
  <2> QED  BY <1>4, <2>1
<1>6. Join(<<seg>> \o segs) = Tail(Slashed(<<seg>> \o segs))
  BY DEF Join, Slashed
<1>7. Tail(<<slash>> \o (seg \o Slashed(segs))) = seg \o Slashed(segs)
  <2>1. seg \o Slashed(segs) \in Seq(S)
    BY <1>2, ConcatProperties
  <2> QED  BY <2>1, Prefixed
<1> QED  BY <1>5, <1>6, <1>7

LEMMA JoinTyped ==
    ASSUME NEW S, slash \in S, NEW segs \in Seq(Seq(S)), segs # <<>>
    PROVE  Join(segs) \in Seq(S)
<1>1. Head(segs) \in Seq(S) /\ Tail(segs) \in Seq(Seq(S)) /\ segs = <<Head(segs)>> \o Tail(segs)
  BY HeadAndTail
<1>2. Join(segs) = Head(segs) \o Slashed(Tail(segs))
  BY <1>1, SlashedPrefixed
<1>3. Slashed(Tail(segs)) \in Seq(S)
  BY <1>1, SlashedIs
<1> QED  BY <1>1, <1>2, <1>3, ConcatProperties

LEMMA WithoutDotsTyped ==
    ASSUME NEW S, <<>> \in S, NEW segs \in Seq(S), segs # <<>>, NEW keep \in Nat
    PROVE  WithoutDots(segs, keep) \in Seq(S) /\ WithoutDots(segs, keep) # <<>>
<1>1. Front(segs) \in Seq(S) /\ Last(segs) \in S /\ segs = Append(Front(segs), Last(segs))
  BY FrontAndLast
<1>2. Left(segs, keep) \in Seq(S) /\ Left(Front(segs), keep) \in Seq(S)
  BY <1>1, LeftTyped
<1>3. CASE Last(segs) \in Dots
  BY <1>2, <1>3, WithoutDotsIs, AppendProperties
<1>4. CASE Last(segs) \notin Dots
  <2>1. Last(segs) # <<dot>> /\ Last(segs) # <<dot, dot>>
    BY <1>4 DEF Dots
  <2>2. Left(segs, keep) = Append(Left(Front(segs), keep), Last(segs))
    <3> DEFINE front == Front(segs)
               last == Last(segs)
    <3>1. front \in Seq(S) /\ last \in S /\ last # <<dot>> /\ last # <<dot, dot>>
      BY <1>1, <2>1
    <3> HIDE DEF front, last
    <3>2. Left(Append(front, last), keep) = Append(Left(front, keep), last)
      BY <3>1, LeftAppend
    <3> QED  BY <1>1, <3>2 DEF front, last
  <2>3. WithoutDots(segs, keep) = Left(segs, keep)
    BY <1>4, WithoutDotsIs
  <2>4. Append(Left(Front(segs), keep), Last(segs)) # <<>>
    BY <1>1, <1>2, AppendProperties
  <2> QED  BY <1>2, <2>2, <2>3, <2>4
<1> QED  BY <1>3, <1>4

(* A path without segments of dots is empty or begins with a slash.        *)
LEMMA RootedTyped ==
    ASSUME NEW S, slash \in S, NEW p \in Seq(S)
    PROVE  Rooted(p) \in Seq(S) /\ Rooted(p) # <<>> /\ Rooted(p)[1] = slash
<1>1. <<slash>> \o p \in Seq(S) /\ <<slash>> \o p # <<>> /\ (<<slash>> \o p)[1] = slash
  BY Prefixed
<1> QED  BY <1>1 DEF Rooted

LEMMA WithoutDotsInPath ==
    ASSUME NEW S, slash \in S, NEW p \in Seq(S), NEW keep \in Nat
    PROVE  LET q == Rooted(Join(WithoutDots(Split(p, slash), keep)))
           IN q \in Seq(S) /\ q # <<>> /\ q[1] = slash
<1>1. Split(p, slash) \in Seq(Seq(S)) /\ Split(p, slash) # <<>> /\ <<>> \in Seq(S)
  BY SplitTyped, EmptySeq
<1>2. WithoutDots(Split(p, slash), keep) \in Seq(Seq(S)) /\ WithoutDots(Split(p, slash), keep) # <<>>
  BY <1>1, WithoutDotsTyped
<1>3. Join(WithoutDots(Split(p, slash), keep)) \in Seq(S)
  BY <1>2, JoinTyped
<1> QED  BY <1>3, RootedTyped

-----------------------------------------------------------------------------
(* Escapes. *)

LEMMA UnhexTyped ==
    ASSUME NEW h \in HexDigits
    PROVE  unhex(h) \in 0 .. 15
BY DEF HexDigits, Digits, unhex

LEMMA HexDigitsIs ==
    ASSUME NEW n \in 0 .. 15
    PROVE  hexDigits(n) \in HexDigits /\ unhex(hexDigits(n)) = n
BY DEF HexDigits, Digits, unhex, hexDigits

LEMMA ValueTyped ==
    ASSUME NEW u \in Unit
    PROVE  Value(u) \in Byte /\ (u \notin Escapes => Value(u) = u[1])
<1>1. CASE u \in Escapes
  <2>1. unhex(u[2]) \in 0 .. 15 /\ unhex(u[3]) \in 0 .. 15
    BY <1>1, EscapeIs, UnhexTyped
  <2>2. Value(u) = 16 * unhex(u[2]) + unhex(u[3])
    BY <1>1 DEF Value
  <2> QED  BY <1>1, <2>1, <2>2 DEF Byte
<1>2. CASE u \notin Escapes
  BY <1>2, UnitIs DEF Value
<1> QED  BY <1>1, <1>2

(* A byte comes back from its escape. *)
LEMMA EncodeIs ==
    ASSUME NEW c \in Byte
    PROVE  Encode(c) \in Escapes /\ Value(Encode(c)) = c /\ Encode(c) \in Unit /\ Encode(c) # <<percent>>
<1>1. c \div 16 \in 0 .. 15 /\ c % 16 \in 0 .. 15 /\ 16 * (c \div 16) + (c % 16) = c
  BY DEF Byte
<1>2. /\ hexDigits(c \div 16) \in HexDigits /\ unhex(hexDigits(c \div 16)) = c \div 16
      /\ hexDigits(c % 16) \in HexDigits /\ unhex(hexDigits(c % 16)) = c % 16
  BY <1>1, HexDigitsIs
<1>3. Encode(c) \in Escapes
  BY <1>2 DEF Encode, Escapes
<1>4. Encode(c)[2] = hexDigits(c \div 16) /\ Encode(c)[3] = hexDigits(c % 16)
  BY DEF Encode
<1>5. Value(Encode(c)) = c
  BY <1>1, <1>2, <1>3, <1>4 DEF Value
<1>6. Len(Encode(c)) = 3 /\ Len(<<percent>>) = 1
  BY <1>3, EscapeIs
<1> QED  BY <1>3, <1>5, <1>6 DEF Unit

LEMMA Sets ==
    /\ HexDigits \subseteq isUnreserved /\ isUnreserved \subseteq pathSafe /\ pathSafe \subseteq querySafe
    /\ querySafe \subseteq Byte \ {percent} /\ Digits \subseteq HexDigits /\ dot \in isUnreserved /\ slash \in pathSafe
    /\ slash \notin HexDigits /\ slash # percent /\ slash \notin isUnreserved /\ percent \in Byte /\ dot # slash
<1>1. HexDigits \subseteq isUnreserved /\ Digits \subseteq HexDigits
  BY DEF HexDigits, Digits, isUnreserved
<1>2. isUnreserved \subseteq pathSafe /\ pathSafe \subseteq querySafe /\ slash \in pathSafe /\ dot \in isUnreserved
  BY DEF isUnreserved, pathSafe, querySafe, slash, dot
<1>3. querySafe \subseteq Byte \ {percent}
  BY DEF isUnreserved, pathSafe, querySafe, Byte, percent, Digits
<1>4. slash \notin HexDigits /\ slash # percent /\ slash \notin isUnreserved /\ percent \in Byte /\ dot # slash
  BY DEF HexDigits, Digits, isUnreserved, slash, percent, Byte, dot
<1> QED  BY <1>1, <1>2, <1>3, <1>4

\* What is put in for a unit.
DecodeText == [u \in Unit |-> <<Value(u)>>]
StrayText == [u \in Unit |-> IF u = <<percent>> THEN Encode(percent) ELSE u]
NormalText(safe) ==
    [u \in Unit |-> IF Value(u) \in (IF u \in Escapes THEN isUnreserved ELSE safe) THEN <<Value(u)>> ELSE Encode(Value(u))]

LEMMA DecodeTextTyped ==
    /\ DecodeText \in [Unit -> Seq(Byte)] /\ \A u \in Unit : DecodeText[u] = <<Value(u)>> /\ <<Value(u)>> # <<>>
    /\ \A s : Decode(s) = Each(s, DecodeText)
<1>1. \A u \in Unit : <<Value(u)>> \in Seq(Byte) /\ <<Value(u)>> # <<>>
  BY ValueTyped, Single
<1>2. \A s : Decode(s) = Each(s, DecodeText)
  BY DEF Decode, DecodeText
<1> QED  BY <1>1, <1>2 DEF DecodeText

LEMMA StrayTextTyped ==
    /\ StrayText \in [Unit -> Unit \ {<<percent>>}]
    /\ \A u \in Unit : StrayText[u] = IF u = <<percent>> THEN Encode(percent) ELSE u
    /\ \A s : escapeStrayPercent(s) = Each(s, StrayText)
<1>1. Encode(percent) \in Unit \ {<<percent>>}
  BY EncodeIs, Sets
<1>2. \A s : escapeStrayPercent(s) = Each(s, StrayText)
  BY DEF escapeStrayPercent, StrayText
<1> QED  BY <1>1, <1>2 DEF StrayText

LEMMA NormalTextTyped ==
    ASSUME NEW safe \in {pathSafe, querySafe}
    PROVE  /\ NormalText(safe) \in [Unit -> Unit \ {<<percent>>}]
           /\ NormalText(safe) \in [Unit -> Seq(safe \cup {percent})]
           /\ \A u \in Unit : NormalText(safe)[u] = IF Value(u) \in (IF u \in Escapes THEN isUnreserved ELSE safe)
                                                    THEN <<Value(u)>> ELSE Encode(Value(u))
           /\ \A s : normalizePercent(s, safe) = Each(s, NormalText(safe))
<1>1. isUnreserved \subseteq safe /\ safe \subseteq Byte \ {percent} /\ HexDigits \subseteq safe
  BY Sets
<1>2. ASSUME NEW u \in Unit
      PROVE  /\ NormalText(safe)[u] \in Unit \ {<<percent>>} /\ NormalText(safe)[u] \in Seq(safe \cup {percent})
  <2> DEFINE c == Value(u)
  <2>1. c \in Byte
    BY ValueTyped
  <2>2. NormalText(safe)[u] = IF c \in (IF u \in Escapes THEN isUnreserved ELSE safe) THEN <<c>> ELSE Encode(c)
    BY DEF NormalText
  <2> HIDE DEF c
  <2>3. CASE NormalText(safe)[u] = <<c>> /\ c \in safe
    <3>1. <<c>> \in Unit /\ <<c>> \in Seq(safe \cup {percent}) /\ <<c>>[1] = c /\ <<percent>>[1] = percent /\ c # percent
      BY <1>1, <2>1, <2>3 DEF Unit
    <3> QED  BY <2>3, <3>1
  <2>4. CASE NormalText(safe)[u] = Encode(c)
    <3>1. Encode(c) \in Escapes /\ Encode(c) \in Unit /\ Encode(c) # <<percent>>
      BY <2>1, EncodeIs
    <3>2. Encode(c) \in Seq(safe \cup {percent})
      <4>1. PICK h \in HexDigits, l \in HexDigits : Encode(c) = <<percent, h, l>>
        BY <3>1 DEF Escapes
      <4>2. percent \in safe \cup {percent} /\ h \in safe \cup {percent} /\ l \in safe \cup {percent}
        BY <1>1
      <4>3. <<percent, h, l>> \in Seq(safe \cup {percent})
        BY <4>2
      <4> QED  BY <4>1, <4>3
    <3> QED  BY <2>4, <3>1, <3>2
  <2> QED  BY <1>1, <2>2, <2>3, <2>4
<1>3. \A s : normalizePercent(s, safe) = Each(s, NormalText(safe))
  BY DEF normalizePercent, NormalText
<1>4. NormalText(safe) \in [Unit -> Unit \ {<<percent>>}] /\ NormalText(safe) \in [Unit -> Seq(safe \cup {percent})]
  <2>1. NormalText(safe) = [u \in Unit |-> NormalText(safe)[u]]
    BY DEF NormalText
  <2> QED  BY <1>2, <2>1
<1> QED  BY <1>3, <1>4 DEF NormalText

LEMMA UnitTexts ==
    ASSUME NEW f \in [Unit -> Unit \ {<<percent>>}]
    PROVE  f \in [Unit -> Seq(Byte)] /\ \A u \in Unit : f[u] # <<>>
<1>1. \A u \in Unit : u \in Seq(Byte) /\ u # <<>>
  BY UnitIs
<1>2. \A u \in Unit : f[u] \in Unit
  OBVIOUS
<1> QED  BY <1>1, <1>2

LEMMA EachNotEmpty ==
    ASSUME NEW S, NEW f \in [Unit -> Seq(S)], \A u \in Unit : f[u] # <<>>, NEW s \in Seq(Byte), s # <<>>
    PROVE  Each(s, f) # <<>>
<1>1. PICK u \in Unit, t \in Seq(Byte) : s = u \o t /\ Begins(u, t)
  BY FirstUnit
<1>2. Each(s, f) = f[u] \o Each(t, f) /\ f[u] \in Seq(S) /\ f[u] # <<>> /\ Each(t, f) \in Seq(S)
  BY <1>1, EachUnit, EachTyped
<1> QED  BY <1>2, ConcatEqualIffEmpty

LEMMA DecodeTyped ==
    ASSUME NEW s \in Seq(Byte)
    PROVE  Decode(s) \in Seq(Byte) /\ (s # <<>> => Decode(s) # <<>>)
BY DecodeTextTyped, EachTyped, EachNotEmpty

LEMMA StrayTyped ==
    ASSUME NEW s \in Seq(Byte)
    PROVE  escapeStrayPercent(s) \in Seq(Byte) /\ (s # <<>> => escapeStrayPercent(s) # <<>>)
<1>1. StrayText \in [Unit -> Seq(Byte)] /\ \A u \in Unit : StrayText[u] # <<>>
  BY StrayTextTyped, UnitTexts
<1> QED  BY <1>1, StrayTextTyped, EachTyped, EachNotEmpty

LEMMA NormalTyped ==
    ASSUME NEW safe \in {pathSafe, querySafe}, NEW s \in Seq(Byte)
    PROVE  /\ normalizePercent(s, safe) \in Seq(safe \cup {percent}) /\ normalizePercent(s, safe) \in Seq(Byte)
           /\ (s # <<>> => normalizePercent(s, safe) # <<>>)
<1>1. NormalText(safe) \in [Unit -> Seq(Byte)] /\ \A u \in Unit : NormalText(safe)[u] # <<>>
  BY NormalTextTyped, UnitTexts
<1>2. /\ NormalText(safe) \in [Unit -> Seq(safe \cup {percent})] /\ normalizePercent(s, safe) = Each(s, NormalText(safe))
  BY NormalTextTyped
<1> QED  BY <1>1, <1>2, EachTyped, EachNotEmpty

-----------------------------------------------------------------------------
(* Types of what is resolved. *)

\* The second half of EscapedPath.
EncodeText == [c \in Byte |-> IF c \in pathSafe \ ({33} \cup 39 .. 42) THEN <<c>> ELSE Encode(c)]

LEMMA EscapedPathIs ==
    ASSUME NEW p \in Seq(Byte)
    PROVE  /\ EncodeText \in [Byte -> Seq(Byte)] /\ \A c \in Byte : EncodeText[c] # <<>>
           /\ EscapedPath(p) = IF ToSet(p) \subseteq pathSafe \cup {percent, 91, 93} THEN p
                               ELSE FlattenSeq(Mapped(Decode(p), EncodeText))
<1>1. \A c \in Byte : EncodeText[c] \in Seq(Byte) /\ EncodeText[c] # <<>>
  <2> SUFFICES ASSUME NEW c \in Byte PROVE EncodeText[c] \in Seq(Byte) /\ EncodeText[c] # <<>>
    OBVIOUS
  <2>1. EncodeText[c] = <<c>> \/ EncodeText[c] = Encode(c)
    BY DEF EncodeText
  <2>2. <<c>> \in Seq(Byte) /\ <<c>> # <<>>
    OBVIOUS
  <2>3. Encode(c) \in Seq(Byte) /\ Encode(c) # <<>>
    BY EncodeIs, EscapeIs
  <2> QED  BY <2>1, <2>2, <2>3
<1>2. EncodeText \in [Byte -> Seq(Byte)]
  <2>1. EncodeText = [c \in Byte |-> EncodeText[c]]
    BY DEF EncodeText
  <2> QED  BY <1>1, <2>1
<1>3. Decode(p) \in Seq(Byte)
  BY DecodeTyped
<1>4. [i \in DOMAIN Decode(p) |-> IF Decode(p)[i] \in pathSafe \ ({33} \cup 39 .. 42)
                                  THEN <<Decode(p)[i]>> ELSE Encode(Decode(p)[i])]
      = Mapped(Decode(p), EncodeText)
  <2>1. \A i \in DOMAIN Decode(p) : Decode(p)[i] \in Byte
    BY <1>3, LenProperties, ElementOfSeq
  <2> QED  BY <2>1 DEF Mapped, EncodeText
<1> QED  BY <1>1, <1>2, <1>4 DEF EscapedPath

LEMMA EscapedPathTyped ==
    ASSUME NEW p \in Seq(Byte)
    PROVE  EscapedPath(p) \in Seq(Byte) /\ (p # <<>> => EscapedPath(p) # <<>>)
<1> DEFINE d == Decode(p)
<1>1. d \in Seq(Byte) /\ (p # <<>> => d # <<>>)
  BY DecodeTyped
<1>2. EncodeText \in [Byte -> Seq(Byte)] /\ \A c \in Byte : EncodeText[c] # <<>>
  BY EscapedPathIs
<1> HIDE DEF d
<1>3. Mapped(d, EncodeText) \in Seq(Seq(Byte))
  BY <1>1, <1>2, MappedTyped
<1>4. FlattenSeq(Mapped(d, EncodeText)) \in Seq(Byte)
  BY <1>3, FlattenTyped
<1>5. ASSUME d # <<>> PROVE FlattenSeq(Mapped(d, EncodeText)) # <<>>
  <2>1. Head(d) \in Byte /\ Tail(d) \in Seq(Byte) /\ d = <<Head(d)>> \o Tail(d)
    BY <1>1, <1>5, HeadAndTail
  <2>2. Mapped(d, EncodeText) = <<EncodeText[Head(d)]>> \o Mapped(Tail(d), EncodeText) /\ Mapped(Tail(d), EncodeText) \in Seq(Seq(Byte))
    <3>1. Mapped(<<Head(d)>> \o Tail(d), EncodeText) = <<EncodeText[Head(d)]>> \o Mapped(Tail(d), EncodeText)
      BY <1>2, <2>1, MappedPrefixed
    <3>2. Mapped(Tail(d), EncodeText) \in Seq(Seq(Byte))
      BY <1>2, <2>1, MappedTyped
    <3> QED  BY <2>1, <3>1, <3>2
  <2>3. EncodeText[Head(d)] \in Seq(Byte) /\ EncodeText[Head(d)] # <<>>
    BY <1>2, <2>1
  <2>4. FlattenSeq(<<EncodeText[Head(d)]>> \o Mapped(Tail(d), EncodeText)) = EncodeText[Head(d)] \o FlattenSeq(Mapped(Tail(d), EncodeText))
    BY <2>2, <2>3, FlattenCons
  <2>5. FlattenSeq(Mapped(Tail(d), EncodeText)) \in Seq(Byte)
    BY <2>2, FlattenTyped
  <2> QED  BY <2>2, <2>3, <2>4, <2>5, ConcatEqualIffEmpty
<1>6. EscapedPath(p) = p \/ EscapedPath(p) = FlattenSeq(Mapped(d, EncodeText))
  BY EscapedPathIs DEF d
<1> QED  BY <1>1, <1>4, <1>5, <1>6

LEMMA TrimZerosIs ==
    ASSUME NEW port \in Seq(0 .. 9)
    PROVE  /\ TrimZeros(port) \in Seq(0 .. 9) /\ (TrimZeros(port) # <<>> => TrimZeros(port)[1] # 0)
           /\ (port # <<>> /\ port[1] # 0 => TrimZeros(port) = port) /\ (port = <<>> => TrimZeros(port) = port)
<1> DEFINE some == {i \in DOMAIN port : port[i] # 0}
<1>1. Len(port) \in Nat /\ DOMAIN port = 1 .. Len(port) /\ \A i \in 1 .. Len(port) : port[i] \in 0 .. 9
  BY LenProperties, ElementOfSeq
<1>2. CASE some = {}
  <2>1. TrimZeros(port) = <<>>
    BY <1>2 DEF TrimZeros
  <2>2. ~(port # <<>> /\ port[1] # 0)
    <3> SUFFICES ASSUME port # <<>> PROVE ~(port[1] # 0)
      OBVIOUS
    <3>1. 1 \in DOMAIN port
      BY <1>1, EmptySeq
    <3> QED  BY <1>2, <3>1
  <2> QED  BY <2>1, <2>2, EmptySeq
<1>3. CASE some # {}
  <2> DEFINE m == Min(some)
             n == Len(port)
  <2>1. some \subseteq Nat /\ some \subseteq 1 .. n
    BY <1>1
  <2>2. m \in some /\ \A x \in some : m <= x
    <3> HIDE DEF some
    <3> QED  BY <1>3, <2>1, LeastExists
  <2>3. m \in 1 .. n /\ port[m] # 0 /\ n \in Nat
    <3> HIDE DEF m
    <3> QED  BY <1>1, <2>1, <2>2
  <2>4. TrimZeros(port) = SubSeq(port, m, n)
    BY <1>3 DEF TrimZeros
  <2> HIDE DEF m, n, some
  <2>5. \A i \in m .. n : port[i] \in 0 .. 9
    BY <1>1, <2>3 DEF n
  <2>6. /\ SubSeq(port, m, n) \in Seq(0 .. 9) /\ Len(SubSeq(port, m, n)) = IF m <= n THEN n - m + 1 ELSE 0
        /\ \A i \in 1 .. n - m + 1 : SubSeq(port, m, n)[i] = port[m + i - 1]
    BY <2>3, <2>5, SubSeqProperties
  <2>7. SubSeq(port, m, n)[1] = port[m]
    <3>1. 1 \in 1 .. n - m + 1 /\ m + 1 - 1 = m
      BY <2>3
    <3> QED  BY <2>6, <3>1
  <2>8. ASSUME port # <<>>, port[1] # 0 PROVE SubSeq(port, m, n) = port
    <3>1. 1 \in some
      BY <1>1, <2>3, <2>8 DEF some, n
    <3>2. m <= 1
      BY <2>2, <3>1
    <3>3. m = 1
      BY <2>3, <3>2
    <3> QED  BY <3>3, SubSeqFull DEF n
  <2>9. port # <<>>
    <3>1. n # 0
      BY <2>3
    <3> QED  BY <3>1, EmptySeq DEF n
  <2> QED  BY <2>3, <2>4, <2>6, <2>7, <2>8, <2>9
<1> QED  BY <1>2, <1>3

LEMMA HostTyped ==
    ASSUME NEW host \in Seq(Labels)
    PROVE  TrimDot(host) \in Seq(Labels) /\ normalizeHost(host) \in Seq(Labels) /\ Len(normalizeHost(host)) = Len(TrimDot(host))
<1>1. TrimDot(host) \in Seq(Labels)
  BY FrontAndLast DEF TrimDot
<1>2. \A t \in Seq(Labels) : ToASCII(t) \in Seq(Labels) /\ Len(ToASCII(t)) = Len(t)
  <2> SUFFICES ASSUME NEW t \in Seq(Labels) PROVE ToASCII(t) \in Seq(Labels) /\ Len(ToASCII(t)) = Len(t)
    OBVIOUS
  <2>1. Len(t) \in Nat /\ DOMAIN t = 1 .. Len(t) /\ \A i \in 1 .. Len(t) : t[i] \in Labels
    BY LenProperties, ElementOfSeq
  <2>2. \A label \in Labels : LowerCase(label) \in Labels
    BY LabelsAssumption
  <2>3. ToASCII(t) \in [1 .. Len(t) -> Labels]
    BY <2>1, <2>2 DEF ToASCII
  <2> QED  BY <2>1, <2>3, FunctionIsSeq
<1> QED  BY <1>1, <1>2 DEF normalizeHost

\* What Normalize gives if there is no error.
Normalized(u) ==
    [u EXCEPT !.host = normalizeHost(@), !.port = normalizePort(u.scheme, @),
              !.path = IF @ = <<>> THEN <<slash>> ELSE Path(@),
              !.query = normalizePercent(@, querySafe)]

LEMMA ErrorIs ==
    /\ \A e : IsError(Error(e))
    /\ \A u \in Reference : ~IsError(u)
<1>1. \A e : DOMAIN Error(e) = {"error"}
  BY DEF Error
<1>2. \A u \in Reference : DOMAIN u = {"scheme", "user", "host", "port", "path", "query"}
  BY DEF Reference
<1> QED  BY <1>1, <1>2 DEF IsError

LEMMA NormalizeIs ==
    ASSUME NEW u, ~IsError(Normalize(u))
    PROVE  /\ u.scheme \in DOMAIN Default /\ ~u.user /\ ~HostFails(u.host) /\ ~PortFails(u.port)
           /\ Normalize(u) = Normalized(u) /\ ~(Length(Normalized(u)) > MaxURLLength)
<1>1. \A e : IsError(Error(e))
  BY ErrorIs
<1>2. u.scheme \in DOMAIN Default /\ ~u.user /\ ~(HostFails(u.host) \/ PortFails(u.port))
  BY <1>1 DEF Normalize
<1>3. Normalize(u) = IF Length(Normalized(u)) > MaxURLLength THEN Error("too long") ELSE Normalized(u)
  BY <1>2 DEF Normalize, Normalized
<1>4. ~(Length(Normalized(u)) > MaxURLLength) /\ Normalize(u) = Normalized(u)
  BY <1>1, <1>3
<1> QED  BY <1>2, <1>4

\* What all URLs of the guard are.
Accepted(u) ==
    /\ u \in Reference /\ u.scheme \in DOMAIN Default /\ ~u.user
    /\ u.path # <<>> /\ u.path[1] = slash /\ u.path \in Seq(pathSafe \cup {percent}) /\ u.query \in Seq(querySafe \cup {percent})

LEMMA PathTyped ==
    ASSUME NEW p \in Seq(Byte), p # <<>>
    PROVE  /\ Path(p) \in Seq(pathSafe \cup {percent}) /\ Path(p) # <<>> /\ Path(p)[1] = slash
           /\ normalizePercent(EscapedPath(p), pathSafe) \in Seq(pathSafe \cup {percent})
           /\ normalizePercent(EscapedPath(p), pathSafe) # <<>>
<1>1. EscapedPath(p) \in Seq(Byte) /\ EscapedPath(p) # <<>>
  BY EscapedPathTyped
<1>2. /\ normalizePercent(EscapedPath(p), pathSafe) \in Seq(pathSafe \cup {percent})
      /\ normalizePercent(EscapedPath(p), pathSafe) # <<>>
  BY <1>1, NormalTyped
<1>3. slash \in pathSafe \cup {percent} /\ 1 \in Nat
  BY Sets
<1> QED  BY <1>2, <1>3, WithoutDotsInPath DEF Path, removeDotSegments

LEMMA NormalizedTyped ==
    ASSUME NEW u \in Reference, u.scheme \in DOMAIN Default, ~u.user
    PROVE  Accepted(Normalized(u))
<1>1. u.host \in Seq(Labels) /\ u.port \in Seq(0 .. 9) /\ u.path \in Seq(Byte) /\ u.query \in Seq(Byte)
  BY DEF Reference
<1>2. normalizeHost(u.host) \in Seq(Labels)
  BY <1>1, HostTyped
<1>3. normalizePort(u.scheme, u.port) \in Seq(0 .. 9)
  BY <1>1, TrimZerosIs, EmptySeq DEF normalizePort
<1> DEFINE path == IF u.path = <<>> THEN <<slash>> ELSE Path(u.path)
<1>4. path \in Seq(pathSafe \cup {percent}) /\ path # <<>> /\ path[1] = slash
  <2>1. slash \in pathSafe \cup {percent}
    BY Sets
  <2>2. <<slash>> \in Seq(pathSafe \cup {percent}) /\ <<slash>> # <<>> /\ <<slash>>[1] = slash
    BY <2>1
  <2> QED  BY <1>1, <2>2, PathTyped
<1>5. normalizePercent(u.query, querySafe) \in Seq(querySafe \cup {percent}) /\ normalizePercent(u.query, querySafe) \in Seq(Byte)
  BY <1>1, NormalTyped
<1>6. path \in Seq(Byte)
  <2>1. pathSafe \cup {percent} \subseteq Byte
    BY Sets
  <2> HIDE DEF path
  <2> QED  BY <1>4, <2>1, SeqMonotonic
<1> HIDE DEF path
<1>7. Normalized(u) = [u EXCEPT !.host = normalizeHost(u.host), !.port = normalizePort(u.scheme, u.port),
                                !.path = path, !.query = normalizePercent(u.query, querySafe)]
  BY DEF Normalized, path
<1>8. /\ Normalized(u) \in Reference /\ Normalized(u).scheme = u.scheme /\ Normalized(u).user = u.user
      /\ Normalized(u).path = path /\ Normalized(u).query = normalizePercent(u.query, querySafe)
  BY <1>2, <1>3, <1>5, <1>6, <1>7 DEF Reference
<1> QED  BY <1>4, <1>5, <1>8 DEF Accepted

LEMMA NormalizeTyped ==
    ASSUME NEW u \in Reference, ~IsError(Normalize(u))
    PROVE  Accepted(Normalize(u))
BY NormalizeIs, NormalizedTyped

LEMMA CleanTyped ==
    ASSUME NEW r \in Reference
    PROVE  /\ Clean(r) \in Reference /\ Clean(r).scheme = r.scheme /\ Clean(r).user = r.user /\ Clean(r).host = r.host
           /\ Clean(r).port = r.port /\ Clean(r).path = escapeStrayPercent(r.path) /\ Clean(r).query = escapeStrayPercent(r.query)
<1>1. r.path \in Seq(Byte) /\ r.query \in Seq(Byte)
  BY DEF Reference
<1>2. escapeStrayPercent(r.path) \in Seq(Byte) /\ escapeStrayPercent(r.query) \in Seq(Byte)
  BY <1>1, StrayTyped
<1> QED  BY <1>2 DEF Clean, Reference

LEMMA ResolveInIs ==
    ASSUME NEW r, NEW resolved, ~IsError(ResolveIn(r, resolved))
    PROVE  ResolveIn(r, resolved) = Normalize(resolved) /\ ~ParseFails(r) /\ ~(Length(Clean(r)) > MaxURLLength)
BY ErrorIs DEF ResolveIn

LEMMA ParseTyped ==
    ASSUME NEW r \in Reference, ~IsError(Parse(r))
    PROVE  Accepted(Parse(r))
<1>1. Parse(r) = Normalize(Clean(r))
  BY ResolveInIs DEF Parse
<1> QED  BY <1>1, CleanTyped, NormalizeTyped

LEMMA BaseIs == Accepted(Base) /\ Parse(Base) = Base /\ ~IsError(Base) /\ Base \in Reference
<1>1. Base \in Reference /\ Parse(Base) = Base
  BY ReferencesAssumption
<1>2. ~IsError(Base)
  BY <1>1, ErrorIs
<1> QED  BY <1>1, <1>2, ParseTyped

LEMMA StartIs == Accepted(Parse(Start)) /\ ~IsError(Parse(Start)) /\ Start \in Reference
BY ReferencesAssumption, ParseTyped

LEMMA ResolvePathTyped ==
    ASSUME NEW p \in Seq(Byte)
    PROVE  resolvePath(p) \in Seq(Byte) /\ (p = <<>> => resolvePath(p) = <<>>)
           /\ (p # <<>> => resolvePath(p) # <<>> /\ resolvePath(p)[1] = slash)
<1>1. slash \in Byte /\ 0 \in Nat
  BY Sets
<1> QED  BY <1>1, WithoutDotsInPath DEF resolvePath

LEMMA DirectoryTyped ==
    ASSUME NEW S, NEW p \in Seq(S), p # <<>>, p[1] = slash
    PROVE  Directory(p) \in Seq(S)
<1> DEFINE all == {i \in DOMAIN p : p[i] = slash}
<1>1. Len(p) \in Nat \ {0} /\ DOMAIN p = 1 .. Len(p) /\ \A i \in 1 .. Len(p) : p[i] \in S
  BY EmptySeq, LenProperties, ElementOfSeq
<1>2. all # {} /\ all \subseteq 1 .. Len(p) /\ all \subseteq 0 .. Len(p)
  <2>1. 1 \in all
    BY <1>1
  <2>2. all \subseteq 1 .. Len(p)
    BY <1>1
  <2>3. 1 .. Len(p) \subseteq 0 .. Len(p)
    BY <1>1
  <2> HIDE DEF all
  <2> QED  BY <2>1, <2>2, <2>3
<1>6. Max(all) \in all
  <2> HIDE DEF all
  <2> QED  BY <1>1, <1>2, GreatestExists
<1>7. Max(all) \in 1 .. Len(p)
  <2> HIDE DEF all
  <2> QED  BY <1>2, <1>6
<1> DEFINE k == Max(all)
<1>8. Directory(p) = SubSeq(p, 1, k)
  BY DEF Directory
<1> HIDE DEF all
<1>9. k \in Int /\ 1 \in Int /\ \A i \in 1 .. k : p[i] \in S
  BY <1>1, <1>7
<1> HIDE DEF k
<1> QED  BY <1>8, <1>9, SubSeqProperties

LEMMA ResolveReferenceTyped ==
    ASSUME NEW base \in Reference, base.path # <<>>, base.path[1] = slash, NEW r \in Reference
    PROVE  ResolveReference(base, r) \in Reference
<1>1. r.path \in Seq(Byte) /\ r.query \in Seq(Byte) /\ base.path \in Seq(Byte) /\ base.query \in Seq(Byte)
  BY DEF Reference
<1> DEFINE path == EscapedPath(r.path)
           joined == IF path = <<>> THEN base.path ELSE IF path[1] = slash THEN path ELSE Directory(base.path) \o path
           query == IF path = <<>> /\ r.query = <<>> THEN base.query ELSE r.query
<1>2. path \in Seq(Byte)
  BY <1>1, EscapedPathTyped
<1>3. Directory(base.path) \in Seq(Byte)
  BY <1>1, DirectoryTyped
<1>4. resolvePath(path) \in Seq(Byte)
  BY <1>2, ResolvePathTyped
<1> HIDE DEF path
<1>5. joined \in Seq(Byte)
  BY <1>1, <1>2, <1>3, ConcatProperties
<1>6. resolvePath(joined) \in Seq(Byte)
  <2> HIDE DEF joined
  <2> QED  BY <1>5, ResolvePathTyped
<1>7. query \in Seq(Byte)
  BY <1>1
<1> HIDE DEF joined, query
<1>8. ResolveReference(base, r) = IF r.scheme # "" THEN [r EXCEPT !.path = resolvePath(path)]
                                  ELSE [base EXCEPT !.path = resolvePath(joined), !.query = query]
  BY DEF ResolveReference, path, joined, query
<1> QED  BY <1>4, <1>6, <1>7, <1>8 DEF Reference

LEMMA ResolveTyped ==
    ASSUME NEW r \in Reference, ~IsError(Resolve(Base, r))
    PROVE  Accepted(Resolve(Base, r))
<1>1. Resolve(Base, r) = Normalize(ResolveReference(Base, Clean(r)))
  BY ResolveInIs DEF Resolve
<1>2. Clean(r) \in Reference /\ Base \in Reference /\ Base.path # <<>> /\ Base.path[1] = slash
  BY CleanTyped, BaseIs DEF Accepted
<1> QED  BY <1>1, <1>2, ResolveReferenceTyped, NormalizeTyped

-----------------------------------------------------------------------------
(* The numbers in a path. *)

token == <<123, 110, 125>>
\* The pieces that collapseDigits and Words put together.
Shown(s) == [i \in DOMAIN s |-> IF s[i] \notin Digits THEN <<s[i]>>
                                ELSE IF i > 1 /\ s[i - 1] \in Digits THEN <<>> ELSE token]
Kept(s) == [i \in DOMAIN s |-> IF s[i] \in Digits THEN <<>> ELSE <<s[i]>>]
Others(s) == {j \in 1 .. Len(s) : s[j] \notin Digits}
\* The words with a token at each of the places in R.
Marked(w, R) == [j \in 1 .. Len(w) |-> (IF j - 1 \in R THEN token ELSE <<>>) \o <<w[j]>>]
Mark(w, R) == FlattenSeq(Marked(w, R)) \o (IF Len(w) \in R THEN token ELSE <<>>)

LEMMA PiecesTyped ==
    ASSUME NEW s \in Seq(Byte)
    PROVE  /\ Shown(s) \in Seq(Seq(Byte)) /\ Len(Shown(s)) = Len(s)
           /\ Kept(s) \in Seq(Seq(Byte)) /\ Len(Kept(s)) = Len(s)
           /\ collapseDigits(s) = FlattenSeq(Shown(s)) /\ Words(s) = FlattenSeq(Kept(s))
           /\ collapseDigits(s) \in Seq(Byte) /\ Words(s) \in Seq(Byte) /\ token \in Seq(Byte)
<1>1. Len(s) \in Nat /\ DOMAIN s = 1 .. Len(s) /\ \A i \in 1 .. Len(s) : s[i] \in Byte
  BY LenProperties, ElementOfSeq
<1>2. token \in Seq(Byte) /\ <<>> \in Seq(Byte) /\ \A c \in Byte : <<c>> \in Seq(Byte)
  <2>1. 123 \in Byte /\ 110 \in Byte /\ 125 \in Byte
    BY DEF Byte
  <2> QED  BY <2>1 DEF token
<1>3. Shown(s) \in [1 .. Len(s) -> Seq(Byte)]
  BY <1>1, <1>2 DEF Shown
<1>4. Kept(s) \in [1 .. Len(s) -> Seq(Byte)]
  BY <1>1, <1>2 DEF Kept
<1>5. /\ Shown(s) \in Seq(Seq(Byte)) /\ Len(Shown(s)) = Len(s)
      /\ Kept(s) \in Seq(Seq(Byte)) /\ Len(Kept(s)) = Len(s)
  BY <1>1, <1>3, <1>4, FunctionIsSeq
<1>6. collapseDigits(s) = FlattenSeq(Shown(s))
  BY DEF collapseDigits, Shown, token
<1>7. Words(s) = FlattenSeq(Kept(s))
  BY DEF Words, Kept
<1> QED  BY <1>2, <1>5, <1>6, <1>7, FlattenTyped

LEMMA MarkedTyped ==
    ASSUME NEW w \in Seq(Byte), NEW R
    PROVE  /\ Marked(w, R) \in Seq(Seq(Byte)) /\ Len(Marked(w, R)) = Len(w)
           /\ \A j \in 1 .. Len(w) : Marked(w, R)[j] = (IF j - 1 \in R THEN token ELSE <<>>) \o <<w[j]>>
           /\ FlattenSeq(Marked(w, R)) \in Seq(Byte)
<1>1. Len(w) \in Nat /\ \A j \in 1 .. Len(w) : <<w[j]>> \in Seq(Byte)
  BY LenProperties, ElementOfSeq, Single
<1>2. \A j \in 1 .. Len(w) : (IF j - 1 \in R THEN token ELSE <<>>) \in Seq(Byte)
  BY PiecesTyped, EmptySeq
<1>3. \A j \in 1 .. Len(w) : (IF j - 1 \in R THEN token ELSE <<>>) \o <<w[j]>> \in Seq(Byte)
  BY <1>1, <1>2, ConcatProperties
<1>4. Marked(w, R) \in [1 .. Len(w) -> Seq(Byte)]
  BY <1>3 DEF Marked
<1>5. Marked(w, R) \in Seq(Seq(Byte)) /\ Len(Marked(w, R)) = Len(w)
  BY <1>1, <1>4, FunctionIsSeq
<1> QED  BY <1>5, FlattenTyped DEF Marked

\* What is shown of s is made of its words and of where its numbers are.
Told(s) ==
    /\ Runs(s) \subseteq 0 .. Len(Words(s))
    /\ (Len(Words(s)) \in Runs(s)) <=> (s # <<>> /\ s[Len(s)] \in Digits)
    /\ Cardinality(Others(s)) = Len(Words(s)) /\ IsFiniteSet(Others(s))
    /\ collapseDigits(s) = Mark(Words(s), Runs(s))

LEMMA ToldEmpty == Told(<<>>)
<1>1. <<>> \in Seq(Byte) /\ Len(<<>>) = 0 /\ DOMAIN <<>> = {}
  OBVIOUS
<1>2. Shown(<<>>) = <<>> /\ Kept(<<>>) = <<>>
  BY <1>1, PiecesTyped, EmptySeq
<1>3. collapseDigits(<<>>) = <<>> /\ Words(<<>>) = <<>>
  BY <1>1, <1>2, PiecesTyped, FlattenEmpty
<1>4. Runs(<<>>) = {} /\ Others(<<>>) = {}
  BY <1>1 DEF Runs, Others
<1>5. Marked(<<>>, {}) = <<>>
  BY <1>1, MarkedTyped, EmptySeq
<1>6. Mark(<<>>, {}) = <<>>
  <2>1. 0 \notin {} /\ FlattenSeq(Marked(<<>>, {})) = <<>>
    BY <1>5, FlattenEmpty
  <2>2. <<>> \o <<>> = <<>>
    BY <1>1, ConcatEmptySeq
  <2> QED  BY <1>1, <2>1, <2>2 DEF Mark
<1> QED  BY <1>1, <1>3, <1>4, <1>6, FS_EmptySet DEF Told

LEMMA OthersAppend ==
    ASSUME NEW s \in Seq(Byte), NEW c \in Byte
    PROVE  /\ Others(Append(s, c)) = IF c \in Digits THEN Others(s) ELSE Others(s) \cup {Len(s) + 1}
           /\ Len(s) + 1 \notin Others(s)
           /\ Runs(Append(s, c)) = IF c \in Digits THEN Runs(s) \cup {Cardinality(Others(s))} ELSE Runs(s)
<1> DEFINE t == Append(s, c)
           K == Len(s)
           at(x, i) == {j \in 1 .. i : x[j] \notin Digits}
<1>1. K \in Nat /\ DOMAIN s = 1 .. K /\ DOMAIN t = 1 .. K + 1 /\ Len(t) = K + 1 /\ t[K + 1] = c /\ \A i \in 1 .. K : t[i] = s[i]
  <2>1. t \in Seq(Byte) /\ Len(t) = K + 1 /\ t[K + 1] = c /\ \A i \in 1 .. K : t[i] = s[i]
    BY AppendProperties
  <2>2. K \in Nat /\ DOMAIN s = 1 .. K /\ DOMAIN t = 1 .. Len(t)
    <3> HIDE DEF t
    <3> QED  BY <2>1, LenProperties
  <2> QED  BY <2>1, <2>2
<1> HIDE DEF t
<1>2. Others(t) = IF c \in Digits THEN Others(s) ELSE Others(s) \cup {K + 1}
  <2>1. \A j \in 1 .. K + 1 : j \in 1 .. K \/ j = K + 1
    BY <1>1
  <2> QED  BY <1>1, <2>1 DEF Others
<1>3. K + 1 \notin Others(s)
  BY <1>1 DEF Others
<1>4. \A i \in 1 .. K : at(t, i) = at(s, i)
  <2> TAKE i \in 1 .. K
  <2>1. \A j \in 1 .. i : j \in 1 .. K
    BY <1>1
  <2> QED  BY <1>1, <2>1
<1>5. c \in Digits => at(t, K + 1) = Others(s)
  <2>1. Others(t) = at(t, K + 1)
    BY <1>1 DEF Others
  <2> HIDE DEF at
  <2> QED  BY <1>2, <2>1
<1>6. Runs(s) = {Cardinality(at(s, i)) : i \in {k \in 1 .. K : s[k] \in Digits}}
  BY <1>1 DEF Runs
<1>7. Runs(t) = {Cardinality(at(t, i)) : i \in {k \in 1 .. K + 1 : t[k] \in Digits}}
  BY <1>1 DEF Runs
<1> HIDE DEF at
<1>8. {k \in 1 .. K + 1 : t[k] \in Digits} = {k \in 1 .. K : s[k] \in Digits} \cup (IF c \in Digits THEN {K + 1} ELSE {})
  <2>1. \A j \in 1 .. K + 1 : j \in 1 .. K \/ j = K + 1
    BY <1>1
  <2> HIDE DEF K
  <2> QED  BY <1>1, <2>1
<1>9. Runs(t) = IF c \in Digits THEN Runs(s) \cup {Cardinality(Others(s))} ELSE Runs(s)
  <2> DEFINE D == {k \in 1 .. K : s[k] \in Digits}
  <2>1. \A i \in D : Cardinality(at(t, i)) = Cardinality(at(s, i))
    BY <1>4
  <2>2. Runs(s) = {Cardinality(at(t, i)) : i \in D}
    BY <1>6, <2>1
  <2>3. Runs(t) = {Cardinality(at(t, i)) : i \in D \cup (IF c \in Digits THEN {K + 1} ELSE {})}
    BY <1>7, <1>8
  <2> HIDE DEF D, K
  <2>4. CASE c \in Digits
    <3>1. Runs(t) = Runs(s) \cup {Cardinality(at(t, K + 1))}
      BY <2>2, <2>3, <2>4
    <3> QED  BY <1>5, <2>4, <3>1
  <2>5. CASE c \notin Digits
    <3>1. D \cup {} = D
      OBVIOUS
    <3> QED  BY <2>2, <2>3, <2>5, <3>1
  <2> QED  BY <2>4, <2>5
<1> QED  BY <1>2, <1>3, <1>9 DEF t

LEMMA PiecesAppend ==
    ASSUME NEW s \in Seq(Byte), NEW c \in Byte
    PROVE  /\ Words(Append(s, c)) = IF c \in Digits THEN Words(s) ELSE Append(Words(s), c)
           /\ collapseDigits(Append(s, c)) =
                  collapseDigits(s) \o (IF c \notin Digits THEN <<c>>
                                        ELSE IF s # <<>> /\ s[Len(s)] \in Digits THEN <<>> ELSE token)
<1> DEFINE t == Append(s, c)
           K == Len(s)
           kept == IF c \in Digits THEN <<>> ELSE <<c>>
           shown == IF c \notin Digits THEN <<c>> ELSE IF s # <<>> /\ s[K] \in Digits THEN <<>> ELSE token
<1>1. K \in Nat /\ DOMAIN s = 1 .. K /\ t \in Seq(Byte) /\ Len(t) = K + 1 /\ t[K + 1] = c /\ (\A i \in 1 .. K : t[i] = s[i])
  BY AppendProperties, LenProperties
<1> HIDE DEF t
<1>2. DOMAIN t = 1 .. K + 1
  BY <1>1, LenProperties
<1>3. kept \in Seq(Byte) /\ shown \in Seq(Byte)
  BY PiecesTyped, EmptySeq, Single
<1>4. /\ Shown(s) \in Seq(Seq(Byte)) /\ Len(Shown(s)) = K /\ Kept(s) \in Seq(Seq(Byte)) /\ Len(Kept(s)) = K
      /\ Shown(t) \in Seq(Seq(Byte)) /\ Len(Shown(t)) = K + 1 /\ Kept(t) \in Seq(Seq(Byte)) /\ Len(Kept(t)) = K + 1
  BY <1>1, PiecesTyped
<1>5. s # <<>> <=> K # 0
  BY EmptySeq
<1>6. ASSUME NEW i \in 1 .. K + 1
      PROVE  /\ Kept(t)[i] = IF i = K + 1 THEN kept ELSE Kept(s)[i]
             /\ Shown(t)[i] = IF i = K + 1 THEN shown ELSE Shown(s)[i]
  <2>1. /\ Kept(t)[i] = IF t[i] \in Digits THEN <<>> ELSE <<t[i]>>
        /\ Shown(t)[i] = IF t[i] \notin Digits THEN <<t[i]>> ELSE IF i > 1 /\ t[i - 1] \in Digits THEN <<>> ELSE token
    BY <1>2 DEF Kept, Shown
  <2>2. CASE i = K + 1
    <3>1. i > 1 <=> s # <<>>
      BY <1>1, <1>5, <2>2
    <3>2. s # <<>> => t[i - 1] = s[K]
      <4>1. i - 1 = K /\ (s # <<>> => K \in 1 .. K)
        BY <1>1, <1>5, <2>2
      <4> QED  BY <1>1, <4>1
    <3> QED  BY <1>1, <2>1, <2>2, <3>1, <3>2
  <2>3. CASE i # K + 1
    <3>1. i \in 1 .. K /\ (i > 1 => i - 1 \in 1 .. K)
      BY <1>1, <2>3
    <3>2. t[i] = s[i] /\ (i > 1 => t[i - 1] = s[i - 1])
      BY <1>1, <3>1
    <3>3. /\ Kept(s)[i] = IF s[i] \in Digits THEN <<>> ELSE <<s[i]>>
          /\ Shown(s)[i] = IF s[i] \notin Digits THEN <<s[i]>> ELSE IF i > 1 /\ s[i - 1] \in Digits THEN <<>> ELSE token
      BY <1>1, <3>1 DEF Kept, Shown
    <3> QED  BY <2>1, <2>3, <3>2, <3>3
  <2> QED  BY <2>2, <2>3
<1> HIDE DEF kept, shown
<1>7. Kept(t) = Append(Kept(s), kept) /\ Shown(t) = Append(Shown(s), shown)
  <2>1. /\ Append(Kept(s), kept) \in Seq(Seq(Byte)) /\ Len(Append(Kept(s), kept)) = K + 1
        /\ Append(Kept(s), kept)[K + 1] = kept /\ \A i \in 1 .. K : Append(Kept(s), kept)[i] = Kept(s)[i]
    BY <1>3, <1>4, AppendProperties
  <2>2. /\ Append(Shown(s), shown) \in Seq(Seq(Byte)) /\ Len(Append(Shown(s), shown)) = K + 1
        /\ Append(Shown(s), shown)[K + 1] = shown /\ \A i \in 1 .. K : Append(Shown(s), shown)[i] = Shown(s)[i]
    BY <1>3, <1>4, AppendProperties
  <2>3. \A i \in 1 .. K + 1 : i = K + 1 \/ i \in 1 .. K
    BY <1>1
  <2>4. \A i \in 1 .. K + 1 : Kept(t)[i] = Append(Kept(s), kept)[i]
    BY <1>6, <2>1, <2>3
  <2>5. \A i \in 1 .. K + 1 : Shown(t)[i] = Append(Shown(s), shown)[i]
    BY <1>6, <2>2, <2>3
  <2> QED  BY <1>4, <2>1, <2>2, <2>4, <2>5, SeqEqual
<1>8. Words(t) = Words(s) \o kept /\ collapseDigits(t) = collapseDigits(s) \o shown
  <2>1. /\ FlattenSeq(Append(Kept(s), kept)) = FlattenSeq(Kept(s)) \o kept
        /\ FlattenSeq(Append(Shown(s), shown)) = FlattenSeq(Shown(s)) \o shown
    BY <1>3, <1>4, FlattenAppend
  <2>2. /\ Words(t) = FlattenSeq(Kept(t)) /\ collapseDigits(t) = FlattenSeq(Shown(t))
        /\ Words(s) = FlattenSeq(Kept(s)) /\ collapseDigits(s) = FlattenSeq(Shown(s))
    BY <1>1, PiecesTyped
  <2> QED  BY <1>7, <2>1, <2>2
<1>9. Words(s) \o kept = IF c \in Digits THEN Words(s) ELSE Append(Words(s), c)
  BY PiecesTyped, ConcatEmptySeq, AppendIsConcat DEF kept
<1> QED  BY <1>8, <1>9 DEF t, shown

LEMMA MarkWord ==
    ASSUME NEW w \in Seq(Byte), NEW c \in Byte, NEW R, R \subseteq 0 .. Len(w)
    PROVE  Mark(Append(w, c), R) = Mark(w, R) \o <<c>>
<1> DEFINE v == Append(w, c)
           K == Len(w)
           mark == IF K \in R THEN token ELSE <<>>
<1>1. K \in Nat /\ v \in Seq(Byte) /\ Len(v) = K + 1 /\ v[K + 1] = c /\ \A i \in 1 .. K : v[i] = w[i]
  BY AppendProperties, LenProperties
<1>2. mark \in Seq(Byte) /\ <<c>> \in Seq(Byte) /\ mark \o <<c>> \in Seq(Byte)
  BY PiecesTyped, EmptySeq, Single, ConcatProperties
<1>3. /\ Marked(w, R) \in Seq(Seq(Byte)) /\ Len(Marked(w, R)) = K
      /\ \A j \in 1 .. K : Marked(w, R)[j] = (IF j - 1 \in R THEN token ELSE <<>>) \o <<w[j]>>
      /\ FlattenSeq(Marked(w, R)) \in Seq(Byte)
  BY MarkedTyped
<1> HIDE DEF v
<1>4. /\ Marked(v, R) \in Seq(Seq(Byte)) /\ Len(Marked(v, R)) = K + 1
      /\ \A j \in 1 .. K + 1 : Marked(v, R)[j] = (IF j - 1 \in R THEN token ELSE <<>>) \o <<v[j]>>
  BY <1>1, MarkedTyped
<1>5. Marked(v, R)[K + 1] = mark \o <<c>>
  <2>1. K + 1 \in 1 .. K + 1 /\ K + 1 - 1 = K
    BY <1>1
  <2>2. Marked(v, R)[K + 1] = (IF K + 1 - 1 \in R THEN token ELSE <<>>) \o <<v[K + 1]>>
    BY <1>4, <2>1
  <2> QED  BY <1>1, <2>1, <2>2
<1>6. \A j \in 1 .. K : Marked(v, R)[j] = Marked(w, R)[j]
  <2>1. \A j \in 1 .. K : j \in 1 .. K + 1
    BY <1>1
  <2> QED  BY <1>1, <1>3, <1>4, <2>1
<1> HIDE DEF mark
<1>7. Marked(v, R) = Append(Marked(w, R), mark \o <<c>>)
  <2> DEFINE a == Append(Marked(w, R), mark \o <<c>>)
  <2>1. a \in Seq(Seq(Byte)) /\ Len(a) = K + 1 /\ a[K + 1] = mark \o <<c>> /\ \A i \in 1 .. K : a[i] = Marked(w, R)[i]
    BY <1>2, <1>3, AppendProperties
  <2> HIDE DEF a
  <2>2. \A i \in 1 .. K + 1 : i = K + 1 \/ i \in 1 .. K
    BY <1>1
  <2>3. \A i \in 1 .. K + 1 : Marked(v, R)[i] = a[i]
    BY <1>5, <1>6, <2>1, <2>2
  <2>4. Marked(v, R) = a
    BY <1>4, <2>1, <2>3, SeqEqual
  <2> QED  BY <2>4 DEF a
<1>8. FlattenSeq(Marked(v, R)) = FlattenSeq(Marked(w, R)) \o (mark \o <<c>>)
  BY <1>2, <1>3, <1>7, FlattenAppend
<1>9. FlattenSeq(Marked(v, R)) = (FlattenSeq(Marked(w, R)) \o mark) \o <<c>>
  BY <1>2, <1>3, <1>8, ConcatAssociative, SMTT(30)
<1>10. Len(v) \notin R
  BY <1>1
<1>11. FlattenSeq(Marked(v, R)) \o <<>> = FlattenSeq(Marked(v, R))
  BY <1>1, MarkedTyped, ConcatEmptySeq
<1> QED  BY <1>9, <1>10, <1>11 DEF Mark, mark, v

LEMMA MarkNumber ==
    ASSUME NEW w \in Seq(Byte), NEW R, R \subseteq 0 .. Len(w)
    PROVE  Mark(w, R \cup {Len(w)}) = IF Len(w) \in R THEN Mark(w, R) ELSE Mark(w, R) \o token
<1> DEFINE K == Len(w)
           Q == R \cup {K}
<1>1. CASE K \in R
  <2>1. Q = R
    BY <1>1
  <2> QED  BY <1>1, <2>1
<1>2. CASE K \notin R
  <2>1. K \in Nat
    BY LenProperties
  <2>2. \A j \in 1 .. K : j - 1 \in Q <=> j - 1 \in R
    BY <2>1
  <2> HIDE DEF Q
  <2>3. Marked(w, Q) = Marked(w, R)
    BY <2>2 DEF Marked
  <2>4. FlattenSeq(Marked(w, R)) \o <<>> = FlattenSeq(Marked(w, R))
    BY MarkedTyped, ConcatEmptySeq
  <2>5. K \in Q
    BY DEF Q
  <2> QED  BY <1>2, <2>3, <2>4, <2>5 DEF Mark, Q
<1> QED  BY <1>1, <1>2

LEMMA ToldAppend ==
    ASSUME NEW s \in Seq(Byte), NEW c \in Byte, Told(s)
    PROVE  Told(Append(s, c))
<1> DEFINE t == Append(s, c)
           w == Words(s)
           R == Runs(s)
           K == Len(w)
<1>1. /\ R \subseteq 0 .. K /\ (K \in R <=> (s # <<>> /\ s[Len(s)] \in Digits))
      /\ Cardinality(Others(s)) = K /\ IsFiniteSet(Others(s)) /\ collapseDigits(s) = Mark(w, R)
  BY DEF Told
<1>2. w \in Seq(Byte) /\ K \in Nat /\ Mark(w, R) \in Seq(Byte)
  <2>1. w \in Seq(Byte) /\ collapseDigits(s) \in Seq(Byte)
    BY PiecesTyped
  <2> QED  BY <1>1, <2>1, LenProperties
<1>3. t # <<>> /\ t[Len(t)] = c /\ t \in Seq(Byte)
  BY AppendProperties
<1>4. /\ Others(t) = IF c \in Digits THEN Others(s) ELSE Others(s) \cup {Len(s) + 1}
      /\ Len(s) + 1 \notin Others(s)
      /\ Runs(t) = IF c \in Digits THEN R \cup {K} ELSE R
  BY <1>1, OthersAppend
<1>5. /\ Words(t) = IF c \in Digits THEN w ELSE Append(w, c)
      /\ collapseDigits(t) = Mark(w, R) \o (IF c \notin Digits THEN <<c>> ELSE IF K \in R THEN <<>> ELSE token)
  BY <1>1, PiecesAppend
<1> HIDE DEF t, w, R
<1>6. CASE c \in Digits
  <2>1. /\ Words(t) = w /\ Runs(t) = R \cup {K} /\ Others(t) = Others(s)
        /\ collapseDigits(t) = Mark(w, R) \o (IF K \in R THEN <<>> ELSE token)
    BY <1>4, <1>5, <1>6
  <2>2. Mark(w, R \cup {K}) = IF K \in R THEN Mark(w, R) ELSE Mark(w, R) \o token
    BY <1>1, <1>2, MarkNumber
  <2>3. Mark(w, R) \o <<>> = Mark(w, R)
    BY <1>2, ConcatEmptySeq
  <2>4. collapseDigits(t) = Mark(Words(t), Runs(t))
    BY <2>1, <2>2, <2>3
  <2>5. Runs(t) \subseteq 0 .. K /\ K \in Runs(t)
    <3> HIDE DEF K
    <3>1. K \in 0 .. K
      BY <1>2
    <3> QED  BY <1>1, <2>1, <3>1
  <2>6. Told(t)
    BY <1>1, <1>3, <1>6, <2>1, <2>4, <2>5 DEF Told
  <2> QED  BY <2>6 DEF t
<1>7. CASE c \notin Digits
  <2>1. /\ Words(t) = Append(w, c) /\ Runs(t) = R /\ Others(t) = Others(s) \cup {Len(s) + 1}
        /\ collapseDigits(t) = Mark(w, R) \o <<c>>
    BY <1>4, <1>5, <1>7
  <2>2. Mark(Append(w, c), R) = Mark(w, R) \o <<c>>
    BY <1>1, <1>2, MarkWord
  <2>3. Len(Words(t)) = K + 1
    BY <1>2, <2>1, AppendProperties
  <2>4. Runs(t) \subseteq 0 .. K + 1 /\ K + 1 \notin Runs(t)
    BY <1>1, <1>2, <2>1
  <2>5. Cardinality(Others(t)) = K + 1 /\ IsFiniteSet(Others(t))
    <3> DEFINE O == Others(s)
               n == Len(s) + 1
    <3>1. Cardinality(O) = K /\ IsFiniteSet(O) /\ n \notin O /\ Others(t) = O \cup {n}
      BY <1>1, <1>4, <2>1
    <3> HIDE DEF O, n, K
    <3> QED  BY <3>1, FS_AddElement
  <2>6. Told(t)
    BY <1>3, <1>7, <2>1, <2>2, <2>3, <2>4, <2>5 DEF Told
  <2> QED  BY <2>6 DEF t
<1> QED  BY <1>6, <1>7

(* Paths that differ only in their numbers collapse to the same.           *)
LEMMA CollapseSame ==
    ASSUME NEW s \in Seq(Byte), NEW t \in Seq(Byte), Words(s) = Words(t), Runs(s) = Runs(t)
    PROVE  collapseDigits(s) = collapseDigits(t)
<1> DEFINE T == {x \in Seq(Byte) : Told(x)}
<1>1. <<>> \in T
  BY ToldEmpty, EmptySeq
<1>2. ASSUME NEW c \in Byte, NEW x \in Seq(Byte), x \in T PROVE Append(x, c) \in T
  BY <1>2, ToldAppend, AppendProperties
<1>3. Seq(Byte) \subseteq T
  <2> HIDE DEF T
  <2> QED  BY <1>1, <1>2, ByLast
<1>4. Told(s) /\ Told(t)
  BY <1>3
<1> QED  BY <1>4 DEF Told

-----------------------------------------------------------------------------
(* The names of the parameters. *)

NamesOf(query) == {Head(Split(part, equals)) : part \in ToSet(Split(query, ampersand))}
KeysOf(names) == [x \in {collapseDigits(n) : n \in names} |-> Cardinality({n \in names : collapseDigits(n) = x})]

(* If no two parameters have the same name, the keys are those of the names. *)
LEMMA KeysAreOfNames ==
    ASSUME NEW query \in Seq(Byte), Cardinality(NamesOf(query)) = Len(Split(query, ampersand))
    PROVE  Keys(query) = KeysOf(NamesOf(query))
<1> DEFINE parts == Split(query, ampersand)
           K == Len(parts)
           name == [i \in 1 .. K |-> Head(Split(parts[i], equals))]
           N == NamesOf(query)
           keys == [i \in DOMAIN parts |-> KeyOf(parts[i])]
<1>1. K \in Nat /\ DOMAIN parts = 1 .. K
  BY SplitTyped, LenProperties
<1>2. N = {name[i] : i \in 1 .. K}
  <2>1. ToSet(parts) = {parts[i] : i \in 1 .. K}
    BY <1>1 DEF ToSet
  <2>2. N = {Head(Split(part, equals)) : part \in ToSet(parts)}
    BY DEF NamesOf
  <2> HIDE DEF parts
  <2> QED  BY <2>1, <2>2
<1>3. keys = [i \in 1 .. K |-> collapseDigits(name[i])]
  BY <1>1 DEF KeyOf
<1>4. Keys(query) = [x \in {keys[i] : i \in DOMAIN keys} |-> Cardinality({i \in DOMAIN keys : keys[i] = x})]
  BY DEF Keys, ToBag, Range
<1> HIDE DEF parts, N, K, keys
<1>5. name \in Surjection(1 .. K, N)
  BY <1>2 DEF Surjection
<1>6. name \in Injection(1 .. K, N)
  <2>1. IsFiniteSet(1 .. K) /\ Cardinality(1 .. K) = K
    BY <1>1, FS_Interval
  <2>2. Cardinality(N) = K
    BY DEF N, K, parts
  <2> HIDE DEF name
  <2> QED  BY <1>5, <2>1, <2>2, FS_Surjection
<1>7. name \in [1 .. K -> N] /\ \A i, j \in 1 .. K : name[i] = name[j] => i = j
  <2> HIDE DEF name
  <2> QED  BY <1>6 DEF Injection, IsInjective
<1> HIDE DEF name
<1>8. DOMAIN keys = 1 .. K /\ \A i \in 1 .. K : keys[i] = collapseDigits(name[i])
  BY <1>3
<1>9. {keys[i] : i \in DOMAIN keys} = {collapseDigits(n) : n \in N}
  BY <1>2, <1>8
<1>10. ASSUME NEW x PROVE Cardinality({i \in DOMAIN keys : keys[i] = x}) = Cardinality({n \in N : collapseDigits(n) = x})
  <2> DEFINE A == {i \in 1 .. K : keys[i] = x}
             B == {n \in N : collapseDigits(n) = x}
             f == [i \in A |-> name[i]]
  <2>1. IsFiniteSet(A)
    <3>1. A \subseteq 1 .. K /\ IsFiniteSet(1 .. K)
      BY <1>1, FS_Interval
    <3> QED  BY <3>1, FS_Subset
  <2>2. f \in [A -> B]
    BY <1>7, <1>8
  <2>3. \A i, j \in A : f[i] = f[j] => i = j
    BY <1>7
  <2>4. \A n \in B : \E i \in A : f[i] = n
    <3> TAKE n \in B
    <3>1. PICK i \in 1 .. K : name[i] = n
      BY <1>2
    <3>2. i \in A /\ f[i] = n
      BY <1>8, <3>1
    <3> QED  BY <3>2
  <2> HIDE DEF A, B, f
  <2>5. f \in Bijection(A, B)
    BY <2>2, <2>3, <2>4 DEF Bijection, Injection, Surjection, IsInjective
  <2>6. ExistsBijection(A, B)
    BY <2>5 DEF ExistsBijection
  <2>7. Cardinality(B) = Cardinality(A)
    BY <2>1, <2>6, FS_Bijection
  <2> QED  BY <1>8, <2>7 DEF A, B
<1> QED  BY <1>4, <1>9, <1>10 DEF KeysOf, N

(* URLs that are alike have one pattern.                                   *)
LEMMA AlikePattern ==
    ASSUME NEW u, NEW v, Accepted(u), Accepted(v), Alike(u, v)
    PROVE  Pattern(u) = Pattern(v)
<1>1. u.path \in Seq(Byte) /\ v.path \in Seq(Byte) /\ u.query \in Seq(Byte) /\ v.query \in Seq(Byte)
  BY DEF Accepted, Reference
<1>2. collapseDigits(u.path) = collapseDigits(v.path)
  BY <1>1, CollapseSame DEF Alike
<1>3. (u.query = <<>>) = (v.query = <<>>)
  BY DEF Alike
<1>4. /\ NamesOf(u.query) = NamesOf(v.query)
      /\ Cardinality(NamesOf(u.query)) = Len(Split(u.query, ampersand))
      /\ Cardinality(NamesOf(v.query)) = Len(Split(v.query, ampersand))
  <2>1. Names(u) = NamesOf(u.query) /\ Names(v) = NamesOf(v.query)
    BY DEF Names, NamesOf
  <2> QED  BY <2>1 DEF Alike
<1>5. Keys(u.query) = Keys(v.query)
  BY <1>1, <1>4, KeysAreOfNames
<1> QED  BY <1>2, <1>3, <1>5 DEF Pattern

-----------------------------------------------------------------------------
(* The guard. *)

LEMMA SegmentsTyped ==
    ASSUME NEW u, u.path \in Seq(Byte)
    PROVE  Len(Segments(u)) \in Nat
<1> DEFINE p == u.path
           names == {i \in DOMAIN p : p[i] # slash}
<1>1. Len(p) \in Nat /\ DOMAIN p = 1 .. Len(p) /\ \A i \in 1 .. Len(p) : p[i] \in Byte
  BY LenProperties, ElementOfSeq
<1>2. CASE names = {}
  <2>1. Segments(u) = <<<<>>>>
    BY <1>2 DEF Segments
  <2>2. Len(<<<<>>>>) = 1
    OBVIOUS
  <2> QED  BY <2>1, <2>2
<1>3. CASE names # {}
  <2> DEFINE m == Min(names)
             n == Max(names)
  <2>1. names \subseteq Nat /\ names \subseteq 0 .. Len(p) /\ names \subseteq 1 .. Len(p)
    BY <1>1
  <2>2. m \in names /\ n \in names
    <3> HIDE DEF names
    <3> QED  BY <1>1, <1>3, <2>1, LeastExists, GreatestExists
  <2>3. m \in 1 .. Len(p) /\ n \in 1 .. Len(p)
    <3> HIDE DEF names, m, n
    <3> QED  BY <2>1, <2>2
  <2>4. Segments(u) = Split(SubSeq(p, m, n), slash)
    BY <1>3 DEF Segments
  <2> HIDE DEF m, n, names, p
  <2>5. m \in Int /\ n \in Int /\ \A i \in m .. n : p[i] \in Byte
    BY <1>1, <2>3
  <2>6. SubSeq(p, m, n) \in Seq(Byte)
    BY <2>5, SubSeqProperties
  <2> QED  BY <2>4, <2>6, SplitTyped, LenProperties
<1> QED  BY <1>2, <1>3

\* The counters are exact, and within their limits.
Counted ==
    /\ IsFiniteSet(seen) /\ IsABag(queries) /\ IsABag(patterns)
    /\ \A p : Count(p, queries) = Cardinality({u \in seen : u.path = p /\ u.query # <<>>})
    /\ \A p : Count(p, patterns) = Cardinality({u \in seen : Pattern(u) = p})
    /\ \A p : Count(p, queries) <= MaxQueryVariants /\ Count(p, patterns) <= MaxPatternVariants

\* The inductive invariant.
GuardInv ==
    /\ links \in Seq(Reference) /\ ref \in Reference /\ parsed \in BOOLEAN
    /\ IsError(url) = (reason = "error")
    /\ ~IsError(url) => Accepted(url)
    /\ \A u \in seen : Accepted(u) /\ InScope(u) /\ Len(Segments(u)) <= MaxPathSegments /\ ~Repeats(Segments(u))
    /\ Counted

LEMMA BagIs ==
    ASSUME NEW bag, IsABag(bag)
    PROVE  bag \in [DOMAIN bag -> Nat \ {0}] /\ \A p : Count(p, bag) \in Nat
<1>1. bag \in [DOMAIN bag -> {n \in Nat : n > 0}]
  BY DEF IsABag
<1>2. \A n \in {k \in Nat : k > 0} : n \in Nat \ {0}
  OBVIOUS
<1>3. \A p \in DOMAIN bag : bag[p] \in {n \in Nat : n > 0}
  BY <1>1
<1>4. \A p \in DOMAIN bag : bag[p] \in Nat \ {0}
  BY <1>2, <1>3
<1> QED  BY <1>1, <1>4 DEF Count

LEMMA IncrementedIs ==
    ASSUME NEW bag, NEW key, IsABag(bag)
    PROVE  /\ IsABag(Incremented(bag, key))
           /\ \A p : Count(p, Incremented(bag, key)) = Count(p, bag) + (IF p = key THEN 1 ELSE 0)
<1> DEFINE new == Incremented(bag, key)
           Pos == {n \in Nat : n > 0}
<1>1. bag \in [DOMAIN bag -> Nat \ {0}] /\ \A p : Count(p, bag) \in Nat
  BY BagIs
<1>2. DOMAIN new = DOMAIN bag \cup {key} /\ \A p \in DOMAIN new : new[p] = Count(p, bag) + (IF p = key THEN 1 ELSE 0)
  BY DEF Incremented
<1>3. \A p \in DOMAIN bag : Count(p, bag) \in Nat \ {0}
  BY <1>1 DEF Count
<1>4. \A p \in DOMAIN bag \cup {key} : Count(p, bag) + (IF p = key THEN 1 ELSE 0) \in Pos
  <2> SUFFICES ASSUME NEW p \in DOMAIN bag \cup {key} PROVE Count(p, bag) + (IF p = key THEN 1 ELSE 0) \in Pos
    OBVIOUS
  <2>1. CASE p = key
    BY <1>1, <2>1
  <2>2. CASE p # key
    <3>1. Count(p, bag) \in Nat \ {0}
      BY <1>3, <2>2
    <3> QED  BY <2>2, <3>1
  <2> QED  BY <2>1, <2>2
<1>5. new = [p \in DOMAIN new |-> new[p]]
  BY DEF Incremented
<1> HIDE DEF new
<1>6. new \in [DOMAIN new -> Pos]
  BY <1>2, <1>4, <1>5
<1>7. ASSUME NEW p PROVE Count(p, new) = Count(p, bag) + (IF p = key THEN 1 ELSE 0)
  <2>1. CASE p \in DOMAIN new
    BY <1>2, <2>1 DEF Count
  <2>2. CASE p \notin DOMAIN new
    <3>1. p # key /\ p \notin DOMAIN bag
      BY <1>2, <2>2
    <3>2. Count(p, new) = 0 /\ Count(p, bag) = 0
      BY <2>2, <3>1 DEF Count
    <3> QED  BY <3>1, <3>2
  <2> QED  BY <2>1, <2>2
<1> QED  BY <1>6, <1>7 DEF IsABag, new

LEMMA LimitsTyped ==
    /\ MaxURLLength \in Nat /\ MaxPathSegments \in Nat /\ MaxSegmentRepeats \in Nat
    /\ MaxQueryVariants \in Nat /\ MaxPatternVariants \in Nat
BY URLLimitsAssumption

LEMMA GuardInit == Init => GuardInv
<1> SUFFICES ASSUME Init PROVE GuardInv
  OBVIOUS
<1>1. /\ links \in Links /\ ref = Start /\ parsed = TRUE /\ url = Parse(Start) /\ reason = "start"
      /\ queries = EmptyBag /\ patterns = EmptyBag /\ seen = {}
  BY DEF Init
<1>2. links \in Seq(Reference)
  BY <1>1, ReferencesAssumption
<1>3. Accepted(url) /\ ~IsError(url) /\ ref \in Reference
  BY <1>1, StartIs
<1>4. IsABag(EmptyBag) /\ DOMAIN EmptyBag = {}
  BY DEF IsABag, EmptyBag, SetToBag
<1>5. IsFiniteSet(seen) /\ Cardinality({}) = 0
  BY <1>1, FS_EmptySet
<1>6. \A p : Count(p, queries) = 0 /\ Count(p, patterns) = 0
  BY <1>1, <1>4 DEF Count
<1>7. \A p : {u \in seen : u.path = p /\ u.query # <<>>} = {} /\ {u \in seen : Pattern(u) = p} = {}
  BY <1>1
<1>8. Counted
  BY <1>1, <1>4, <1>5, <1>6, <1>7, LimitsTyped DEF Counted
<1>9. IsError(url) = (reason = "error")
  BY <1>1, <1>3 DEF IsError
<1> QED  BY <1>1, <1>2, <1>3, <1>8, <1>9 DEF GuardInv

LEMMA VerdictNone ==
    ASSUME NEW u, Verdict(u) = "none"
    PROVE  /\ ~(Len(Segments(u)) > MaxPathSegments) /\ ~Repeats(Segments(u))
           /\ ~(u.query # <<>> /\ Count(u.path, queries) >= MaxQueryVariants)
           /\ ~(Count(Pattern(u), patterns) >= MaxPatternVariants)
BY DEF Verdict

LEMMA VerdictIs == \A u : Verdict(u) # "error"
BY DEF Verdict

(* A URL that is new to the guard is counted, or changes nothing.          *)
LEMMA AdmitKeeps ==
    ASSUME GuardInv, NEW u, Accepted(u), InScope(u), Admit(u)
    PROVE  /\ Counted' /\ reason' # "error"
           /\ \A v \in seen' : Accepted(v) /\ InScope(v) /\ Len(Segments(v)) <= MaxPathSegments /\ ~Repeats(Segments(v))
<1>1. Counted /\ \A v \in seen : Accepted(v) /\ InScope(v) /\ Len(Segments(v)) <= MaxPathSegments /\ ~Repeats(Segments(v))
  BY DEF GuardInv
<1>2. CASE u \in seen \/ Verdict(u) # "none"
  <2>1. queries' = queries /\ patterns' = patterns /\ seen' = seen /\ reason' # "error"
    BY <1>2, VerdictIs DEF Admit, Queries
  <2> QED  BY <1>1, <2>1 DEF Counted
<1>3. CASE u \notin seen /\ Verdict(u) = "none"
  <2>1. /\ queries' = (IF u.query # <<>> THEN Incremented(queries, u.path) ELSE queries)
        /\ patterns' = Incremented(patterns, Pattern(u)) /\ seen' = seen \cup {u} /\ reason' = "none"
    BY <1>3 DEF Admit, Queries
  <2>2. /\ IsFiniteSet(seen) /\ IsABag(queries) /\ IsABag(patterns)
        /\ \A p : Count(p, queries) = Cardinality({v \in seen : v.path = p /\ v.query # <<>>})
        /\ \A p : Count(p, patterns) = Cardinality({v \in seen : Pattern(v) = p})
        /\ \A p : Count(p, queries) <= MaxQueryVariants /\ Count(p, patterns) <= MaxPatternVariants
    BY <1>1 DEF Counted
  <2>3. IsFiniteSet(seen')
    BY <2>1, <2>2, FS_AddElement
  <2>4. /\ IsABag(queries') /\ IsABag(patterns')
        /\ \A p : Count(p, queries') = Count(p, queries) + (IF p = u.path /\ u.query # <<>> THEN 1 ELSE 0)
        /\ \A p : Count(p, patterns') = Count(p, patterns) + (IF p = Pattern(u) THEN 1 ELSE 0)
        /\ \A p : Count(p, queries) \in Nat /\ Count(p, patterns) \in Nat
    BY <2>1, <2>2, IncrementedIs, BagIs
  <2>5. ASSUME NEW p PROVE Count(p, queries') = Cardinality({v \in seen' : v.path = p /\ v.query # <<>>})
    <3> DEFINE M == {v \in seen : v.path = p /\ v.query # <<>>}
    <3>1. {v \in seen' : v.path = p /\ v.query # <<>>} = IF p = u.path /\ u.query # <<>> THEN M \cup {u} ELSE M
      BY <2>1
    <3>2. IsFiniteSet(M) /\ u \notin M
      BY <1>3, <2>2, FS_Subset
    <3>3. Count(p, queries) = Cardinality(M)
      BY <2>2
    <3> HIDE DEF M
    <3>4. Cardinality(M \cup {u}) = Cardinality(M) + 1
      BY <3>2, FS_AddElement
    <3>5. CASE p = u.path /\ u.query # <<>>
      <4>1. Count(p, queries') = Count(p, queries) + 1
        BY <2>4, <3>5
      <4> QED  BY <3>1, <3>3, <3>4, <3>5, <4>1
    <3>6. CASE ~(p = u.path /\ u.query # <<>>)
      <4>1. Count(p, queries') = Count(p, queries) + 0 /\ Count(p, queries) \in Nat
        BY <2>4, <3>6
      <4> QED  BY <3>1, <3>3, <3>6, <4>1
    <3> QED  BY <3>5, <3>6
  <2>6. ASSUME NEW p PROVE Count(p, patterns') = Cardinality({v \in seen' : Pattern(v) = p})
    <3> DEFINE M == {v \in seen : Pattern(v) = p}
    <3>1. {v \in seen' : Pattern(v) = p} = IF p = Pattern(u) THEN M \cup {u} ELSE M
      BY <2>1
    <3>2. IsFiniteSet(M) /\ u \notin M
      BY <1>3, <2>2, FS_Subset
    <3>3. Count(p, patterns) = Cardinality(M)
      BY <2>2
    <3> HIDE DEF M
    <3>4. Cardinality(M \cup {u}) = Cardinality(M) + 1
      BY <3>2, FS_AddElement
    <3>5. CASE p = Pattern(u)
      <4>1. Count(p, patterns') = Count(p, patterns) + 1
        BY <2>4, <3>5
      <4> QED  BY <3>1, <3>3, <3>4, <3>5, <4>1
    <3>6. CASE p # Pattern(u)
      <4>1. Count(p, patterns') = Count(p, patterns) + 0 /\ Count(p, patterns) \in Nat
        BY <2>4, <3>6
      <4> QED  BY <3>1, <3>3, <3>6, <4>1
    <3> QED  BY <3>5, <3>6
  <2>7. ASSUME NEW p PROVE Count(p, queries') <= MaxQueryVariants /\ Count(p, patterns') <= MaxPatternVariants
    <3>1. /\ ~(u.query # <<>> /\ Count(u.path, queries) >= MaxQueryVariants)
          /\ ~(Count(Pattern(u), patterns) >= MaxPatternVariants)
      BY <1>3, VerdictNone
    <3>2. Count(p, queries) <= MaxQueryVariants /\ Count(p, patterns) <= MaxPatternVariants
      BY <2>2
    <3>3. Count(p, queries) \in Nat /\ Count(p, patterns) \in Nat
      BY <2>4
    <3>4. Count(p, queries') <= MaxQueryVariants
      BY <2>4, <3>1, <3>2, <3>3, LimitsTyped
    <3>5. Count(p, patterns') <= MaxPatternVariants
      BY <2>4, <3>1, <3>2, <3>3, LimitsTyped
    <3> QED  BY <3>4, <3>5
  <2>8. Len(Segments(u)) <= MaxPathSegments /\ ~Repeats(Segments(u))
    <3>1. ~(Len(Segments(u)) > MaxPathSegments) /\ ~Repeats(Segments(u))
      BY <1>3, VerdictNone
    <3>2. Len(Segments(u)) \in Nat
      BY SegmentsTyped DEF Accepted, Reference
    <3> QED  BY <3>1, <3>2, LimitsTyped
  <2>9. Counted'
    BY <2>3, <2>4, <2>5, <2>6, <2>7 DEF Counted
  <2> QED  BY <1>1, <2>1, <2>8, <2>9
<1> QED  BY <1>2, <1>3

(* What is resolved is an error or is accepted.                            *)
LEMMA TakenIs ==
    ASSUME links \in Seq(Reference), Next
    PROVE  /\ links' \in Seq(Reference) /\ ref' \in Reference /\ parsed' \in BOOLEAN
           /\ Follow(url') /\ (IsError(url') \/ Accepted(url'))
<1>1. Take /\ parsed' \in BOOLEAN
  BY DEF Next, Link, Entry
<1>2. links # <<>> /\ links' = Tail(links) /\ ref' = Head(links)
  BY <1>1 DEF Take
<1>3. Head(links) \in Reference /\ Tail(links) \in Seq(Reference)
  BY <1>2, HeadAndTail
<1>4. \/ url' = Resolve(Base, Head(links)) /\ Follow(Resolve(Base, Head(links)))
      \/ url' = Parse(Head(links)) /\ Follow(Parse(Head(links)))
  BY DEF Next, Link, Entry, Follow
<1>5. IsError(url') \/ Accepted(url')
  BY <1>3, <1>4, ResolveTyped, ParseTyped
<1> QED  BY <1>1, <1>2, <1>3, <1>4, <1>5

LEMMA GuardNext == GuardInv /\ [Next]_vars => GuardInv'
<1> SUFFICES ASSUME GuardInv, [Next]_vars PROVE GuardInv'
  OBVIOUS
<1>1. CASE Next
  <2>1. /\ links' \in Seq(Reference) /\ ref' \in Reference /\ parsed' \in BOOLEAN
        /\ Follow(url') /\ (IsError(url') \/ Accepted(url'))
    BY <1>1, TakenIs DEF GuardInv
  <2>2. CASE IsError(url')
    <3>1. reason' = "error" /\ UNCHANGED <<queries, patterns, seen>>
      BY <2>1, <2>2 DEF Follow
    <3>2. IsError(url') = (reason' = "error")
      BY <2>2, <3>1 DEF IsError
    <3> QED  BY <2>1, <2>2, <3>1, <3>2 DEF GuardInv, Counted
  <2>3. CASE ~IsError(url') /\ ~InScope(url')
    <3>1. reason' = "external" /\ UNCHANGED <<queries, patterns, seen>>
      BY <2>1, <2>3 DEF Follow
    <3>2. IsError(url') = (reason' = "error")
      BY <2>3, <3>1 DEF IsError
    <3> QED  BY <2>1, <2>3, <3>1, <3>2 DEF GuardInv, Counted
  <2>4. CASE ~IsError(url') /\ InScope(url')
    <3>1. Admit(url') /\ Accepted(url')
      BY <2>1, <2>4 DEF Follow
    <3>2. /\ Counted' /\ reason' # "error"
          /\ \A v \in seen' : Accepted(v) /\ InScope(v) /\ Len(Segments(v)) <= MaxPathSegments /\ ~Repeats(Segments(v))
      BY <2>4, <3>1, AdmitKeeps
    <3>3. IsError(url') = (reason' = "error")
      BY <2>4, <3>2 DEF IsError
    <3> QED  BY <2>1, <3>1, <3>2, <3>3 DEF GuardInv
  <2> QED  BY <2>2, <2>3, <2>4
<1>2. CASE UNCHANGED vars
  BY <1>2 DEF vars, GuardInv, Counted
<1> QED  BY <1>1, <1>2

LEMMA GuardImplies == GuardInv => GuardHolds
<1> SUFFICES ASSUME GuardInv PROVE GuardHolds
  OBVIOUS
<1>1. /\ links \in Seq(Reference) /\ ref \in Reference /\ parsed \in BOOLEAN
      /\ IsError(url) = (reason = "error") /\ (~IsError(url) => Accepted(url))
      /\ \A u \in seen : Accepted(u) /\ InScope(u) /\ Len(Segments(u)) <= MaxPathSegments /\ ~Repeats(Segments(u))
  BY DEF GuardInv
<1>2. /\ IsFiniteSet(seen) /\ IsABag(queries) /\ IsABag(patterns)
      /\ \A p : Count(p, queries) = Cardinality({u \in seen : u.path = p /\ u.query # <<>>})
      /\ \A p : Count(p, patterns) = Cardinality({u \in seen : Pattern(u) = p})
      /\ \A p : Count(p, queries) <= MaxQueryVariants /\ Count(p, patterns) <= MaxPatternVariants
  BY DEF GuardInv, Counted
<1>3. URLsTypeOK
  <2>1. ASSUME NEW u, Accepted(u)
        PROVE  /\ u \in Reference /\ u.scheme \in DOMAIN Default /\ ~u.user
               /\ u.path # <<>> /\ u.path[1] = slash /\ ToSet(u.path) \subseteq pathSafe \cup {percent}
    <3>1. u.path \in Seq(pathSafe \cup {percent})
      BY <2>1 DEF Accepted
    <3>2. ToSet(u.path) \subseteq pathSafe \cup {percent}
      BY <3>1, LenProperties, ElementOfSeq DEF ToSet
    <3> QED  BY <2>1, <3>2 DEF Accepted
  <2>2. \A u \in seen \cup (IF IsError(url) THEN {} ELSE {url}) : Accepted(u)
    BY <1>1
  <2> QED  BY <1>1, <1>2, <2>1, <2>2 DEF URLsTypeOK
<1>4. CountersTrue
  BY <1>2 DEF CountersTrue
<1>5. TrapsEnd
  <2> SUFFICES ASSUME NEW u \in seen PROVE Cardinality({v \in seen : Alike(u, v)}) <= MaxPatternVariants
    BY <1>1 DEF TrapsEnd
  <2> DEFINE A == {v \in seen : Alike(u, v)}
             P == {v \in seen : Pattern(v) = Pattern(u)}
  <2>1. A \subseteq P
    BY <1>1, AlikePattern
  <2>2. IsFiniteSet(P)
    BY <1>2, FS_Subset
  <2>3. Cardinality(A) <= Cardinality(P) /\ IsFiniteSet(A)
    <3> HIDE DEF A, P
    <3> QED  BY <2>1, <2>2, FS_Subset
  <2>4. Cardinality(P) <= MaxPatternVariants
    <3>1. Count(Pattern(u), patterns) = Cardinality(P) /\ Count(Pattern(u), patterns) <= MaxPatternVariants
      BY <1>2
    <3> QED  BY <3>1
  <2>5. Cardinality(A) \in Nat /\ Cardinality(P) \in Nat
    <3> HIDE DEF A, P
    <3> QED  BY <2>2, <2>3, FS_CardinalityType
  <2> HIDE DEF A, P
  <2>6. Cardinality(A) <= MaxPatternVariants
    BY <2>3, <2>4, <2>5, LimitsTyped
  <2> QED  BY <2>6 DEF A
<1> QED  BY <1>3, <1>4, <1>5 DEF GuardHolds

(* TrapGuard (trap.go:50, 68, 113): for any references and limits, the     *)
(* guard counts each admitted URL once, under its path and its pattern, no *)
(* counter passes its limit, and of the URLs that differ only in numbers,  *)
(* in the values or in the order of their parameters no more are admitted  *)
(* than a pattern may have.                                                *)
THEOREM GuardCorrect == Spec => []GuardHolds
<1>1. Spec => []GuardInv
  BY GuardInit, GuardNext, PTL DEF Spec
<1> QED  BY <1>1, GuardImplies, PTL

-----------------------------------------------------------------------------
(* Segments, put together and taken apart. *)

LEMMA ConcatEmpty ==
    ASSUME NEW S, NEW s \in Seq(S)
    PROVE  s \o <<>> = s /\ <<>> \o s = s
OBVIOUS

(* Split, byte by byte. *)
LEMMA SplitAt ==
    ASSUME NEW S, NEW s \in Seq(S), NEW at \in S
    PROVE  Head(Split(<<at>> \o s, at)) = <<>> /\ Tail(Split(<<at>> \o s, at)) = Split(s, at)
<1> DEFINE segs == Split(s, at)
           all == Split(<<at>> \o s, at)
<1>1. segs \in Seq(Seq(S)) /\ <<>> \in Seq(S)
  BY SplitTyped, EmptySeq
<1>2. all = <<<<>>>> \o segs
  <2>1. all = Longer(at, segs, at)
    BY SplitPrefixed
  <2> QED  BY <2>1 DEF Longer
<1> HIDE DEF segs, all
<1>3. Head(all) = <<>> /\ Tail(all) = segs
  BY <1>1, <1>2, Prefixed
<1> QED  BY <1>3 DEF segs, all

LEMMA SplitOther ==
    ASSUME NEW S, NEW s \in Seq(S), NEW c \in S, NEW at, c # at
    PROVE  /\ Head(Split(<<c>> \o s, at)) = <<c>> \o Head(Split(s, at))
           /\ Tail(Split(<<c>> \o s, at)) = Tail(Split(s, at))
<1> DEFINE segs == Split(s, at)
           all == Split(<<c>> \o s, at)
           h == <<c>> \o Head(segs)
<1>1. all = <<<<c>> \o Head(segs)>> \o Tail(segs)
  <2>1. all = Longer(c, segs, at)
    BY SplitPrefixed
  <2> QED  BY <2>1 DEF Longer
<1>2. segs \in Seq(Seq(S)) /\ segs # <<>>
  BY SplitTyped
<1> HIDE DEF segs, all
<1>3. Head(segs) \in Seq(S) /\ Tail(segs) \in Seq(Seq(S))
  BY <1>2, HeadAndTail
<1>4. h \in Seq(S)
  BY <1>3, Prefixed
<1>5. all = <<h>> \o Tail(segs)
  BY <1>1
<1> HIDE DEF h
<1>6. Head(all) = h /\ Tail(all) = Tail(segs)
  <2> DEFINE Y == Seq(S)
             rest == Tail(segs)
  <2>1. h \in Y /\ rest \in Seq(Y) /\ all = <<h>> \o rest
    BY <1>3, <1>4, <1>5
  <2> HIDE DEF Y, rest
  <2> QED  BY <2>1, Prefixed DEF rest
<1> QED  BY <1>6 DEF segs, all, h

(* No segment has a separator in it. *)
LEMMA SplitParts ==
    ASSUME NEW S, NEW s \in Seq(S), NEW at
    PROVE  Split(s, at) \in Seq(Seq(S \ {at})) \ {<<>>}
<1> DEFINE X == Seq(Seq(S \ {at})) \ {<<>>}
           T == {t \in Seq(S) : Split(t, at) \in X}
<1>1. <<>> \in T
  <2>1. <<>> \in Seq(S \ {at}) /\ <<>> \in Seq(S)
    BY EmptySeq
  <2>2. <<<<>>>> \in X
    BY <2>1, Single
  <2> HIDE DEF X
  <2> QED  BY <2>1, <2>2, SplitEmpty
<1>2. ASSUME NEW c \in S, NEW t \in Seq(S), t \in T PROVE <<c>> \o t \in T
  <2> DEFINE segs == Split(t, at)
  <2>1. segs \in Seq(Seq(S \ {at})) /\ segs # <<>>
    BY <1>2
  <2>2. <<c>> \o t \in Seq(S)
    BY Prefixed
  <2> DEFINE all == Split(<<c>> \o t, at)
  <2>3. /\ all \in Seq(Seq(S)) /\ all # <<>>
        /\ c = at => Head(all) = <<>> /\ Tail(all) = segs
        /\ c # at => Head(all) = <<c>> \o Head(segs) /\ Tail(all) = Tail(segs)
    <3> HIDE DEF T, X
    <3>1. all \in Seq(Seq(S)) /\ all # <<>>
      BY <2>2, SplitTyped
    <3>2. ASSUME c = at PROVE Head(all) = <<>> /\ Tail(all) = segs
      <4>1. Head(Split(<<at>> \o t, at)) = <<>> /\ Tail(Split(<<at>> \o t, at)) = Split(t, at)
        BY <3>2, SplitAt
      <4> QED  BY <3>2, <4>1
    <3>3. ASSUME c # at PROVE Head(all) = <<c>> \o Head(segs) /\ Tail(all) = Tail(segs)
      BY <3>3, SplitOther
    <3> HIDE DEF all, segs
    <3> QED  BY <3>1, <3>2, <3>3
  <2> HIDE DEF segs, all
  <2>4. Head(segs) \in Seq(S \ {at}) /\ Tail(segs) \in Seq(Seq(S \ {at}))
    BY <2>1, HeadAndTail
  <2>5. Head(all) \in Seq(S \ {at}) /\ Tail(all) \in Seq(Seq(S \ {at}))
    <3>1. CASE c = at
      BY <2>1, <2>3, <3>1, EmptySeq
    <3>2. CASE c # at
      <4>1. c \in S \ {at}
        BY <3>2
      <4>2. <<c>> \o Head(segs) \in Seq(S \ {at})
        BY <2>4, <4>1, Prefixed
      <4> QED  BY <2>3, <2>4, <3>2, <4>2
    <3> QED  BY <3>1, <3>2
  <2>6. all = <<Head(all)>> \o Tail(all)
    BY <2>3, HeadAndTail
  <2>7. all \in X
    <3>1. <<Head(all)>> \o Tail(all) \in Seq(Seq(S \ {at}))
      BY <2>5, Prefixed
    <3> QED  BY <2>3, <2>6, <3>1
  <2> HIDE DEF X
  <2> QED  BY <2>2, <2>7 DEF all
<1>3. Seq(S) \subseteq T
  <2> HIDE DEF T
  <2> QED  BY <1>1, <1>2, ByHead
<1> QED  BY <1>3

(* Join puts together what Split took apart. *)
LEMMA JoinSplit ==
    ASSUME NEW S, slash \in S, NEW s \in Seq(S)
    PROVE  /\ Join(Split(s, slash)) = s /\ Slashed(Split(s, slash)) = <<slash>> \o s
           /\ s = Head(Split(s, slash)) \o Slashed(Tail(Split(s, slash)))
<1> DEFINE T == {t \in Seq(S) : Head(Split(t, slash)) \o Slashed(Tail(Split(t, slash))) = t}
<1>1. ASSUME NEW t \in Seq(S)
      PROVE  /\ Head(Split(t, slash)) \in Seq(S) /\ Tail(Split(t, slash)) \in Seq(Seq(S))
             /\ Split(t, slash) = <<Head(Split(t, slash))>> \o Tail(Split(t, slash))
             /\ Split(t, slash) \in Seq(Seq(S)) /\ Slashed(Tail(Split(t, slash))) \in Seq(S)
             /\ Join(Split(t, slash)) = Head(Split(t, slash)) \o Slashed(Tail(Split(t, slash)))
             /\ Slashed(Split(t, slash)) = <<slash>> \o (Head(Split(t, slash)) \o Slashed(Tail(Split(t, slash))))
  <2> DEFINE segs == Split(t, slash)
  <2>1. segs \in Seq(Seq(S)) /\ segs # <<>>
    BY SplitTyped
  <2> HIDE DEF segs
  <2>2. Head(segs) \in Seq(S) /\ Tail(segs) \in Seq(Seq(S)) /\ segs = <<Head(segs)>> \o Tail(segs)
    BY <2>1, HeadAndTail
  <2>3. /\ Join(<<Head(segs)>> \o Tail(segs)) = Head(segs) \o Slashed(Tail(segs))
        /\ Slashed(<<Head(segs)>> \o Tail(segs)) = <<slash>> \o (Head(segs) \o Slashed(Tail(segs)))
    BY <2>2, SlashedPrefixed
  <2>4. Slashed(Tail(segs)) \in Seq(S)
    BY <2>2, SlashedIs
  <2> QED  BY <2>1, <2>2, <2>3, <2>4 DEF segs
<1>2. <<>> \in T
  <2>1. <<>> \in Seq(S) /\ <<>> \in Seq(Seq(S))
    BY EmptySeq
  <2>2. Head(<<<<>>>>) = <<>> /\ Tail(<<<<>>>>) = <<>>
    OBVIOUS
  <2>3. Head(Split(<<>>, slash)) = <<>> /\ Slashed(Tail(Split(<<>>, slash))) = <<>>
    BY <2>2, SplitEmpty, SlashedEmpty
  <2>4. <<>> \o <<>> = <<>>
    OBVIOUS
  <2> QED  BY <2>1, <2>3, <2>4
<1>3. ASSUME NEW c \in S, NEW t \in Seq(S), t \in T PROVE <<c>> \o t \in T
  <2> DEFINE segs == Split(t, slash)
             all == Split(<<c>> \o t, slash)
             rest == Slashed(Tail(segs))
  <2>1. <<c>> \o t \in Seq(S) /\ <<c>> \in Seq(S)
    BY Prefixed
  <2>2. /\ Head(segs) \in Seq(S) /\ Tail(segs) \in Seq(Seq(S)) /\ segs \in Seq(Seq(S)) /\ rest \in Seq(S)
        /\ Slashed(segs) = <<slash>> \o (Head(segs) \o rest) /\ Head(segs) \o rest = t
    BY <1>1, <1>3
  <2>3. /\ c = slash => Head(all) = <<>> /\ Tail(all) = segs
        /\ c # slash => Head(all) = <<c>> \o Head(segs) /\ Tail(all) = Tail(segs)
    <3> HIDE DEF T
    <3>1. ASSUME c = slash PROVE Head(all) = <<>> /\ Tail(all) = segs
      <4>1. Head(Split(<<slash>> \o t, slash)) = <<>> /\ Tail(Split(<<slash>> \o t, slash)) = Split(t, slash)
        BY SplitAt
      <4> QED  BY <3>1, <4>1
    <3>2. ASSUME c # slash PROVE Head(all) = <<c>> \o Head(segs) /\ Tail(all) = Tail(segs)
      BY <3>2, SplitOther
    <3> HIDE DEF all, segs
    <3> QED  BY <3>1, <3>2
  <2> HIDE DEF segs, all, rest
  <2>4. CASE c = slash
    <3>1. Head(all) \o Slashed(Tail(all)) = <<>> \o (<<slash>> \o t)
      BY <2>2, <2>3, <2>4
    <3>2. <<>> \o (<<slash>> \o t) = <<slash>> \o t
      BY <2>1, <2>4, ConcatEmpty
    <3> QED  BY <2>1, <2>4, <3>1, <3>2 DEF all
  <2>5. CASE c # slash
    <3>1. Head(all) \o Slashed(Tail(all)) = (<<c>> \o Head(segs)) \o rest
      BY <2>3, <2>5 DEF rest
    <3>2. (<<c>> \o Head(segs)) \o rest = <<c>> \o (Head(segs) \o rest)
      <4> DEFINE h == Head(segs)
      <4>1. <<c>> \in Seq(S) /\ h \in Seq(S) /\ rest \in Seq(S)
        BY <2>1, <2>2
      <4> HIDE DEF T, h
      <4>2. (<<c>> \o h) \o rest = <<c>> \o (h \o rest)
        BY <4>1, Associative, SMTT(30)
      <4> QED  BY <4>2 DEF h
    <3> QED  BY <2>1, <2>2, <3>1, <3>2 DEF all
  <2> QED  BY <2>4, <2>5
<1>4. Seq(S) \subseteq T
  <2> HIDE DEF T
  <2> QED  BY <1>2, <1>3, ByHead
<1> QED  BY <1>1, <1>4

(* Split takes apart what Join put together of segments without a slash. *)
LEMMA SplitSegment ==
    ASSUME NEW S, slash \in S, NEW seg \in Seq(S \ {slash}), NEW s \in Seq(S)
    PROVE  /\ Head(Split(seg \o s, slash)) = seg \o Head(Split(s, slash))
           /\ Tail(Split(seg \o s, slash)) = Tail(Split(s, slash))
<1> DEFINE h == Head(Split(s, slash))
           r == Tail(Split(s, slash))
           T == {t \in Seq(S \ {slash}) : Head(Split(t \o s, slash)) = t \o h /\ Tail(Split(t \o s, slash)) = r}
<1>1. h \in Seq(S) /\ r \in Seq(Seq(S))
  BY SplitTyped, HeadAndTail
<1>2. <<>> \in T
  <2>1. <<>> \o s = s /\ <<>> \o h = h
    <3> HIDE DEF h
    <3> QED  BY <1>1, ConcatEmpty
  <2>2. Head(Split(<<>> \o s, slash)) = <<>> \o h /\ Tail(Split(<<>> \o s, slash)) = r
    BY <2>1
  <2> HIDE DEF h, r
  <2> QED  BY <2>2, EmptySeq
<1> HIDE DEF h, r
<1>3. ASSUME NEW c \in S \ {slash}, NEW t \in Seq(S \ {slash}), t \in T PROVE <<c>> \o t \in T
  <2> DEFINE q == t \o s
  <2>1. <<c>> \o t \in Seq(S \ {slash}) /\ <<c>> \in Seq(S) /\ t \in Seq(S)
    <3>1. S \ {slash} \subseteq S
      OBVIOUS
    <3> QED  BY <3>1, Prefixed, SeqMonotonic, Single
  <2>2. Head(Split(q, slash)) = t \o h /\ Tail(Split(q, slash)) = r
    BY <1>3
  <2>3. (<<c>> \o t) \o s = <<c>> \o q /\ q \in Seq(S)
    <3> HIDE DEF T
    <3> QED  BY <2>1, Associative, SMTT(30)
  <2>4. (<<c>> \o t) \o h = <<c>> \o (t \o h)
    <3> HIDE DEF T
    <3> QED  BY <1>1, <2>1, Associative, SMTT(30)
  <2>5. Head(Split(<<c>> \o q, slash)) = <<c>> \o Head(Split(q, slash)) /\ Tail(Split(<<c>> \o q, slash)) = Tail(Split(q, slash))
    <3>1. c \in S /\ c # slash
      OBVIOUS
    <3> HIDE DEF T, q
    <3> QED  BY <2>3, <3>1, SplitOther
  <2> HIDE DEF q
  <2> QED  BY <2>1, <2>2, <2>3, <2>4, <2>5
<1>4. Seq(S \ {slash}) \subseteq T
  <2> HIDE DEF T
  <2> QED  BY <1>2, <1>3, ByHead
<1> QED  BY <1>4 DEF h, r

LEMMA SplitJoin ==
    ASSUME NEW S, slash \in S, NEW segs \in Seq(Seq(S \ {slash})), segs # <<>>
    PROVE  Split(Join(segs), slash) = segs
<1> DEFINE P == Seq(S \ {slash})
           T == {t \in Seq(P) : t # <<>> => Split(Join(t), slash) = t}
<1>1. P \subseteq Seq(S)
  <2>1. S \ {slash} \subseteq S
    OBVIOUS
  <2> QED  BY <2>1, SeqMonotonic
<1>2. <<>> \in T
  BY EmptySeq
<1>3. ASSUME NEW seg \in P, NEW t \in Seq(P), t \in T PROVE <<seg>> \o t \in T
  <2> DEFINE q == Slashed(t)
             all == Split(seg \o q, slash)
  <2>1. <<seg>> \o t \in Seq(P) /\ seg \in Seq(S) /\ t \in Seq(Seq(S))
    <3> HIDE DEF P, T
    <3>1. t \in Seq(Seq(S))
      BY <1>1, SeqMonotonic
    <3> QED  BY <1>1, <3>1, Prefixed
  <2>2. Join(<<seg>> \o t) = seg \o q /\ q \in Seq(S)
    BY <2>1, SlashedPrefixed, SlashedIs
  <2>3. Head(all) = seg \o Head(Split(q, slash)) /\ Tail(all) = Tail(Split(q, slash)) /\ all \in Seq(Seq(S)) /\ all # <<>>
    <3>1. seg \o q \in Seq(S)
      BY <2>1, <2>2, ConcatProperties
    <3>2. all \in Seq(Seq(S)) /\ all # <<>>
      BY <3>1, SplitTyped
    <3> HIDE DEF T, q
    <3> QED  BY <2>2, <3>2, SplitSegment
  <2>4. Head(Split(q, slash)) = <<>> /\ Tail(Split(q, slash)) = t
    <3>1. CASE t = <<>>
      <4>1. Split(q, slash) = <<<<>>>>
        BY <3>1, SlashedEmpty, SplitEmpty
      <4>2. Head(<<<<>>>>) = <<>> /\ Tail(<<<<>>>>) = <<>>
        OBVIOUS
      <4> QED  BY <3>1, <4>1, <4>2
    <3>2. CASE t # <<>>
      <4>1. Head(t) \in Seq(S) /\ Tail(t) \in Seq(Seq(S)) /\ t = <<Head(t)>> \o Tail(t)
        BY <2>1, <3>2, HeadAndTail
      <4>2. q = <<slash>> \o Join(t) /\ Join(t) \in Seq(S)
        <5>1. /\ Slashed(<<Head(t)>> \o Tail(t)) = <<slash>> \o (Head(t) \o Slashed(Tail(t)))
              /\ Join(<<Head(t)>> \o Tail(t)) = Head(t) \o Slashed(Tail(t))
          BY <4>1, SlashedPrefixed
        <5>2. Join(t) \in Seq(S)
          BY <2>1, <3>2, JoinTyped
        <5> QED  BY <4>1, <5>1, <5>2
      <4>3. Split(Join(t), slash) = t
        BY <1>3, <3>2
      <4>4. Head(Split(<<slash>> \o Join(t), slash)) = <<>> /\ Tail(Split(<<slash>> \o Join(t), slash)) = Split(Join(t), slash)
        <5> HIDE DEF T, P, q
        <5> QED  BY <4>2, SplitAt
      <4> QED  BY <4>2, <4>3, <4>4
    <3> QED  BY <3>1, <3>2
  <2>5. seg \o <<>> = seg
    BY <2>1, ConcatEmpty
  <2>6. all = <<Head(all)>> \o Tail(all)
    <3> HIDE DEF all
    <3> QED  BY <2>3, HeadAndTail
  <2>7. Split(Join(<<seg>> \o t), slash) = <<seg>> \o t
    <3>1. Head(all) = seg /\ Tail(all) = t
      BY <2>3, <2>4, <2>5
    <3>2. Split(Join(<<seg>> \o t), slash) = all
      BY <2>2
    <3> HIDE DEF all
    <3> QED  BY <2>6, <3>1, <3>2
  <2> QED  BY <2>1, <2>7
<1>4. Seq(P) \subseteq T
  <2> HIDE DEF T, P
  <2> QED  BY <1>2, <1>3, ByHead
<1> QED  BY <1>4

-----------------------------------------------------------------------------
(* What dots leave. *)

(* Without dots everything is left. *)
LEMMA LeftSame ==
    ASSUME NEW S, NEW segs \in Seq(S \ Dots), NEW keep \in Nat
    PROVE  Left(segs, keep) = segs /\ (segs # <<>> => WithoutDots(segs, keep) = segs)
<1> DEFINE T == {t \in Seq(S \ Dots) : Left(t, keep) = t}
<1>1. <<>> \in T
  BY LeftEmpty, EmptySeq
<1>2. ASSUME NEW seg \in S \ Dots, NEW t \in Seq(S \ Dots), t \in T PROVE Append(t, seg) \in T
  <2>1. seg # <<dot>> /\ seg # <<dot, dot>>
    BY DEF Dots
  <2>2. Left(Append(t, seg), keep) = Append(Left(t, keep), seg)
    <3> HIDE DEF T
    <3> QED  BY <2>1, LeftAppend
  <2>3. Append(t, seg) \in Seq(S \ Dots)
    BY AppendProperties
  <2> QED  BY <1>2, <2>2, <2>3
<1>3. Seq(S \ Dots) \subseteq T
  <2> HIDE DEF T
  <2> QED  BY <1>1, <1>2, ByLast
<1>4. ASSUME segs # <<>> PROVE Last(segs) \notin Dots
  <2>1. Last(segs) \in S \ Dots
    BY <1>4, FrontAndLast
  <2> QED  BY <2>1
<1> QED  BY <1>3, <1>4, WithoutDotsIs

(* No dots are left. *)
LEMMA LeftDotless ==
    ASSUME NEW S, NEW segs \in Seq(S), NEW keep \in Nat
    PROVE  Left(segs, keep) \in Seq(S \ Dots)
<1> DEFINE T == {t \in Seq(S) : Left(t, keep) \in Seq(S \ Dots)}
<1>1. <<>> \in T
  BY LeftEmpty, EmptySeq
<1>2. ASSUME NEW seg \in S, NEW t \in Seq(S), t \in T PROVE Append(t, seg) \in T
  <2> DEFINE out == Left(t, keep)
  <2>1. out \in Seq(S \ Dots) /\ Append(t, seg) \in Seq(S)
    BY <1>2, AppendProperties
  <2>2. Left(Append(t, seg), keep) = IF seg = <<dot>> THEN out
                                     ELSE IF seg = <<dot, dot>> THEN IF Len(out) > keep THEN Front(out) ELSE out
                                     ELSE Append(out, seg)
    <3> HIDE DEF T
    <3> QED  BY LeftAppend
  <2> HIDE DEF out
  <2>3. CASE seg = <<dot>>
    BY <2>1, <2>2, <2>3
  <2>4. CASE seg = <<dot, dot>> /\ seg # <<dot>>
    <3>1. CASE Len(out) > keep
      <4>1. out # <<>>
        BY <3>1, EmptySeq
      <4>2. Front(out) \in Seq(S \ Dots)
        BY <2>1, <4>1, FrontAndLast
      <4> QED  BY <2>1, <2>2, <2>4, <3>1, <4>2
    <3>2. CASE ~(Len(out) > keep)
      BY <2>1, <2>2, <2>4, <3>2
    <3> QED  BY <3>1, <3>2
  <2>5. CASE seg # <<dot>> /\ seg # <<dot, dot>>
    <3>1. seg \in S \ Dots
      BY <2>5 DEF Dots
    <3>2. Append(out, seg) \in Seq(S \ Dots)
      BY <2>1, <3>1, AppendProperties
    <3> QED  BY <2>1, <2>2, <2>5, <3>2
  <2> QED  BY <2>3, <2>4, <2>5
<1>3. Seq(S) \subseteq T
  <2> HIDE DEF T
  <2> QED  BY <1>1, <1>2, ByLast
<1> QED  BY <1>3

LEMMA WithoutDotsDotless ==
    ASSUME NEW S, <<>> \in S, NEW segs \in Seq(S), segs # <<>>, NEW keep \in Nat
    PROVE  WithoutDots(segs, keep) \in Seq(S \ Dots) /\ WithoutDots(segs, keep) # <<>>
<1>1. Left(segs, keep) \in Seq(S \ Dots)
  BY LeftDotless
<1>2. <<>> \in S \ Dots
  BY DEF Dots
<1>3. Append(Left(segs, keep), <<>>) \in Seq(S \ Dots)
  BY <1>1, <1>2, AppendProperties
<1> QED  BY <1>1, <1>3, WithoutDotsIs, WithoutDotsTyped

(* Dots leave the same of texts that tell dots as well. *)
TellsDots(m, A) == \A seg \in A : (m[seg] = <<dot>> <=> seg = <<dot>>) /\ (m[seg] = <<dot, dot>> <=> seg = <<dot, dot>>)

LEMMA FrontOfAppend ==
    ASSUME NEW S, NEW s \in Seq(S), NEW c \in S
    PROVE  Front(Append(s, c)) = s /\ Last(Append(s, c)) = c /\ Append(s, c) # <<>> /\ Append(s, c) \in Seq(S)
<1> DEFINE t == Append(s, c)
<1>1. t \in Seq(S) /\ Len(t) = Len(s) + 1 /\ Len(s) \in Nat
  BY AppendProperties, LenProperties
<1>2. t # <<>>
  BY <1>1, EmptySeq
<1> HIDE DEF t
<1>3. Front(t) \in Seq(S) /\ Last(t) \in S /\ t = Append(Front(t), Last(t))
  BY <1>1, <1>2, FrontAndLast
<1>4. s = Front(t) /\ c = Last(t)
  BY <1>3, AppendInjective DEF t
<1> QED  BY <1>1, <1>2, <1>4 DEF t

LEMMA MappedFront ==
    ASSUME NEW A, NEW B, NEW m \in [A -> B], NEW s \in Seq(A), s # <<>>
    PROVE  Front(Mapped(s, m)) = Mapped(Front(s), m) /\ Last(Mapped(s, m)) = m[Last(s)] /\ Mapped(s, m) # <<>>
<1> DEFINE r == Mapped(Front(s), m)
           e == m[Last(s)]
<1>1. Front(s) \in Seq(A) /\ Last(s) \in A /\ s = Append(Front(s), Last(s))
  BY FrontAndLast
<1>2. Mapped(Append(Front(s), Last(s)), m) = Append(r, e)
  BY <1>1, MappedAppend
<1>3. r \in Seq(B) /\ e \in B
  <2>1. Mapped(Front(s), m) \in Seq(B)
    BY <1>1, MappedTyped, Zenon
  <2> QED  BY <1>1, <2>1
<1> HIDE DEF r, e
<1>4. Mapped(s, m) = Append(r, e)
  BY <1>1, <1>2
<1>5. Append(r, e) \in Seq(B) /\ Len(Append(r, e)) = Len(r) + 1 /\ Append(r, e)[Len(r) + 1] = e /\ Len(r) \in Nat
  BY <1>3, AppendProperties, LenProperties
<1>6. Append(r, e) # <<>>
  BY <1>5, EmptySeq
<1>7. Front(Append(r, e)) = r /\ Last(Append(r, e)) = e
  BY <1>3, FrontOfAppend
<1> QED  BY <1>4, <1>6, <1>7 DEF r, e

LEMMA LeftMapped ==
    ASSUME NEW A, NEW B, NEW m \in [A -> B], TellsDots(m, A), NEW segs \in Seq(A), NEW keep \in Nat
    PROVE  Left(Mapped(segs, m), keep) = Mapped(Left(segs, keep), m)
<1> DEFINE T == {t \in Seq(A) : Left(Mapped(t, m), keep) = Mapped(Left(t, keep), m)}
<1>1. <<>> \in T
  BY LeftEmpty, MappedEmpty, EmptySeq
<1>2. ASSUME NEW seg \in A, NEW t \in Seq(A), t \in T PROVE Append(t, seg) \in T
  <2> DEFINE out == Left(t, keep)
             texts == Mapped(t, m)
             e == m[seg]
  <2>1. out \in Seq(A) /\ Append(t, seg) \in Seq(A)
    <3> HIDE DEF T
    <3> QED  BY LeftTyped, AppendProperties
  <2>2. texts \in Seq(B) /\ e \in B
    <3> HIDE DEF T
    <3>1. Mapped(t, m) \in Seq(B)
      BY MappedTyped, Zenon
    <3> QED  BY <3>1
  <2>3. Mapped(Append(t, seg), m) = Append(texts, e)
    <3> HIDE DEF T
    <3> QED  BY MappedAppend
  <2>4. Left(Append(t, seg), keep) = IF seg = <<dot>> THEN out
                                     ELSE IF seg = <<dot, dot>> THEN IF Len(out) > keep THEN Front(out) ELSE out
                                     ELSE Append(out, seg)
    <3> HIDE DEF T
    <3> QED  BY LeftAppend
  <2>5. Left(texts, keep) = Mapped(out, m)
    BY <1>2
  <2> HIDE DEF out, texts, e
  <2>6. Left(Append(texts, e), keep) = IF e = <<dot>> THEN Mapped(out, m)
                                       ELSE IF e = <<dot, dot>> THEN IF Len(Mapped(out, m)) > keep THEN Front(Mapped(out, m)) ELSE Mapped(out, m)
                                       ELSE Append(Mapped(out, m), e)
    <3> HIDE DEF T
    <3>1. Left(Append(texts, e), keep) = IF e = <<dot>> THEN Left(texts, keep)
              ELSE IF e = <<dot, dot>> THEN IF Len(Left(texts, keep)) > keep THEN Front(Left(texts, keep)) ELSE Left(texts, keep)
              ELSE Append(Left(texts, keep), e)
      BY <2>2, LeftAppend
    <3> QED  BY <2>5, <3>1
  <2>7. (e = <<dot>> <=> seg = <<dot>>) /\ (e = <<dot, dot>> <=> seg = <<dot, dot>>)
    BY DEF TellsDots, e
  <2>8. Len(Mapped(out, m)) = Len(out) /\ Len(out) \in Nat
    BY <2>1, MappedIs, LenProperties
  <2>9. Left(Append(texts, e), keep) = Mapped(Left(Append(t, seg), keep), m)
    <3>1. CASE seg = <<dot>>
      BY <2>4, <2>6, <2>7, <3>1
    <3>2. CASE seg # <<dot>> /\ seg = <<dot, dot>>
      <4>1. CASE Len(out) > keep
        <5>1. out # <<>>
          BY <4>1, EmptySeq
        <5>2. Front(Mapped(out, m)) = Mapped(Front(out), m)
          BY <2>1, <5>1, MappedFront
        <5> QED  BY <2>4, <2>6, <2>7, <2>8, <3>2, <4>1, <5>2
      <4>2. CASE ~(Len(out) > keep)
        BY <2>4, <2>6, <2>7, <2>8, <3>2, <4>2
      <4> QED  BY <4>1, <4>2
    <3>3. CASE seg # <<dot>> /\ seg # <<dot, dot>>
      <4>1. Mapped(Append(out, seg), m) = Append(Mapped(out, m), e)
        <5> HIDE DEF T
        <5> QED  BY <2>1, MappedAppend DEF e
      <4> QED  BY <2>4, <2>6, <2>7, <3>3, <4>1
    <3> QED  BY <3>1, <3>2, <3>3
  <2> QED  BY <2>1, <2>3, <2>9
<1>3. Seq(A) \subseteq T
  <2> HIDE DEF T
  <2> QED  BY <1>1, <1>2, ByLast
<1> QED  BY <1>3

LEMMA WithoutDotsMapped ==
    ASSUME NEW A, NEW B, NEW m \in [A -> B], TellsDots(m, A), <<>> \in A, m[<<>>] = <<>>,
           NEW segs \in Seq(A), segs # <<>>, NEW keep \in Nat
    PROVE  WithoutDots(Mapped(segs, m), keep) = Mapped(WithoutDots(segs, keep), m)
<1>1. Last(Mapped(segs, m)) = m[Last(segs)] /\ Last(segs) \in A
  BY MappedFront, FrontAndLast, ZenonT(40)
<1>2. Last(Mapped(segs, m)) \in Dots <=> Last(segs) \in Dots
  BY <1>1 DEF TellsDots, Dots
<1>3. Left(Mapped(segs, m), keep) = Mapped(Left(segs, keep), m)
  BY LeftMapped
<1>4. Mapped(Append(Left(segs, keep), <<>>), m) = Append(Mapped(Left(segs, keep), m), <<>>)
  <2>1. Left(segs, keep) \in Seq(A)
    BY LeftTyped
  <2>2. Mapped(Append(Left(segs, keep), <<>>), m) = Append(Mapped(Left(segs, keep), m), m[<<>>])
    BY <2>1, MappedAppend
  <2> QED  BY <2>2
<1> QED  BY <1>2, <1>3, <1>4, WithoutDotsIs

(* ".." takes at most the root. *)
LEMMA LeftNoParent ==
    ASSUME NEW S, NEW segs \in Seq(S \ {<<dot, dot>>})
    PROVE  Left(segs, 0) = Left(segs, 1)
<1> DEFINE P == S \ {<<dot, dot>>}
           T == {t \in Seq(P) : Left(t, 0) = Left(t, 1)}
<1>1. <<>> \in T
  BY LeftEmpty, EmptySeq
<1>2. ASSUME NEW seg \in P, NEW t \in Seq(P), t \in T PROVE Append(t, seg) \in T
  <2>1. Append(t, seg) \in Seq(P) /\ seg # <<dot, dot>>
    <3>1. seg # <<dot, dot>>
      OBVIOUS
    <3> HIDE DEF P
    <3> QED  BY <3>1, AppendProperties
  <2>2. ASSUME NEW keep \in {0, 1}
        PROVE  Left(Append(t, seg), keep) = IF seg = <<dot>> THEN Left(t, keep) ELSE Append(Left(t, keep), seg)
    <3>1. keep \in Nat
      OBVIOUS
    <3> HIDE DEF P, T
    <3>2. Left(Append(t, seg), keep) = IF seg = <<dot>> THEN Left(t, keep)
              ELSE IF seg = <<dot, dot>> THEN IF Len(Left(t, keep)) > keep THEN Front(Left(t, keep)) ELSE Left(t, keep)
              ELSE Append(Left(t, keep), seg)
      BY <3>1, LeftAppend
    <3> QED  BY <2>1, <3>2
  <2> QED  BY <1>2, <2>1, <2>2
<1>3. Seq(P) \subseteq T
  <2> HIDE DEF T, P
  <2> QED  BY <1>1, <1>2, ByLast
<1> QED  BY <1>3

FromRoot(L, segs) ==
    /\ Left(<<<<>>>> \o segs, 1) = <<<<>>>> \o L
    /\ Left(<<<<>>>> \o segs, 0) = L \/ Left(<<<<>>>> \o segs, 0) = <<<<>>>> \o L

LEMMA LeftFromRoot ==
    ASSUME NEW S, NEW segs \in Seq(S)
    PROVE  \E L \in Seq(S) : FromRoot(L, segs)
<1> DEFINE P == S \cup {<<>>}
           T == {t \in Seq(S) : \E L \in Seq(S) : FromRoot(L, t)}
<1>1. \A t \in Seq(S) : t \in Seq(P) /\ <<<<>>>> \o t \in Seq(P)
  <2>1. S \subseteq P /\ <<>> \in P
    OBVIOUS
  <2> HIDE DEF P
  <2> QED  BY <2>1, SeqMonotonic, Prefixed
<1>2. <<>> \in T
  <2>1. <<>> \in Seq(P) /\ <<>> \in P /\ <<>> \in Seq(S)
    BY EmptySeq
  <2>2. <<<<>>>> \o <<>> = <<<<>>>> /\ <<<<>>>> = Append(<<>>, <<>>)
    OBVIOUS
  <2>3. <<>> # <<dot>> /\ <<>> # <<dot, dot>>
    OBVIOUS
  <2>4. \A keep \in Nat : Left(Append(<<>>, <<>>), keep) = Append(Left(<<>>, keep), <<>>)
    <3> HIDE DEF P, T
    <3> QED  BY <2>1, <2>3, LeftAppend
  <2>5. Left(<<<<>>>> \o <<>>, 1) = <<<<>>>> \o <<>> /\ Left(<<<<>>>> \o <<>>, 0) = <<<<>>>> \o <<>>
    BY <2>2, <2>4, LeftEmpty
  <2> QED  BY <2>1, <2>5 DEF FromRoot
<1>3. ASSUME NEW seg \in S, NEW t \in Seq(S), t \in T PROVE Append(t, seg) \in T
  <2> DEFINE r == <<>>
             q == <<r>> \o t
             out1 == Left(q, 1)
             out0 == Left(q, 0)
             all == <<r>> \o Append(t, seg)
  <2>1. PICK L \in Seq(S) : FromRoot(L, t)
    BY <1>3
  <2>2. out1 = <<r>> \o L /\ (out0 = L \/ out0 = <<r>> \o L)
    BY <2>1 DEF FromRoot
  <2>3. r \in P /\ q \in Seq(P) /\ seg \in P /\ t \in Seq(P) /\ L \in Seq(P) /\ Append(t, seg) \in Seq(S)
    BY <1>1, AppendProperties
  <2>4. all = Append(q, seg)
    <3> HIDE DEF r, P, T
    <3> QED  BY <2>3, PrefixedAppend
  <2>5. ASSUME NEW keep \in Nat
        PROVE  Left(all, keep) = IF seg = <<dot>> THEN Left(q, keep)
                   ELSE IF seg = <<dot, dot>> THEN IF Len(Left(q, keep)) > keep THEN Front(Left(q, keep)) ELSE Left(q, keep)
                   ELSE Append(Left(q, keep), seg)
    <3> HIDE DEF q, P, T, all
    <3> QED  BY <2>3, <2>4, LeftAppend
  <2>6. SUFFICES \E M \in Seq(S) : Left(all, 1) = <<r>> \o M /\ (Left(all, 0) = M \/ Left(all, 0) = <<r>> \o M)
    BY <2>3 DEF FromRoot
  <2> DEFINE rL == <<r>> \o L
             next1 == Left(all, 1)
             next0 == Left(all, 0)
  <2> HIDE DEF r, q, P, T, all
  <2>7. /\ next1 = IF seg = <<dot>> THEN out1
                   ELSE IF seg = <<dot, dot>> THEN IF Len(out1) > 1 THEN Front(out1) ELSE out1
                   ELSE Append(out1, seg)
        /\ next0 = IF seg = <<dot>> THEN out0
                   ELSE IF seg = <<dot, dot>> THEN IF Len(out0) > 0 THEN Front(out0) ELSE out0
                   ELSE Append(out0, seg)
    BY <2>5
  <2>11. Len(rL) = Len(L) + 1 /\ Len(L) \in Nat /\ rL \in Seq(P) /\ out1 = rL /\ (out0 = L \/ out0 = rL)
    BY <2>2, <2>3, Prefixed, LenProperties
  <2> HIDE DEF out1, out0, next1, next0
  <2>8. CASE seg = <<dot>>
    <3>1. next1 = <<r>> \o L /\ (next0 = L \/ next0 = <<r>> \o L)
      BY <2>7, <2>8, <2>11
    <3> QED  BY <3>1 DEF next1, next0
  <2>9. CASE seg # <<dot>> /\ seg = <<dot, dot>>
    <3>1. CASE L = <<>>
      <4>1. Len(L) = 0 /\ Len(rL) = 1
        BY <2>11, <3>1, EmptySeq
      <4>2. Front(rL) = L
        <5>1. rL = Append(<<>>, r)
          BY <3>1
        <5> QED  BY <2>3, <3>1, <5>1, EmptySeq, FrontOfAppend
      <4> HIDE DEF rL
      <4>3. next1 = rL
        <5>1. out1 = rL
          BY <2>11
        <5>2. Len(out1) = 1
          BY <4>1, <5>1
        <5>3. ~(Len(out1) > 1)
          BY <5>2
        <5> QED  BY <2>7, <2>9, <5>1, <5>3
      <4>4. next0 = L
        BY <2>7, <2>9, <2>11, <4>1, <4>2
      <4> QED  BY <4>3, <4>4 DEF next1, next0, rL
    <3>2. CASE L # <<>>
      <4> DEFINE F == Front(L)
                 e == Last(L)
                 rF == <<r>> \o F
      <4>1. F \in Seq(S) /\ e \in S /\ L = Append(F, e) /\ Len(L) # 0
        BY <3>2, FrontAndLast, EmptySeq
      <4>2. F \in Seq(P) /\ e \in P
        BY <1>1, <4>1 DEF P
      <4>3. rF \in Seq(P)
        BY <2>3, <4>2, Prefixed
      <4> HIDE DEF F, e
      <4>4. <<r>> \o Append(F, e) = Append(rF, e)
        BY <2>3, <4>2, PrefixedAppend
      <4>5. rL = Append(rF, e)
        BY <4>1, <4>4
      <4> HIDE DEF rF, rL
      <4>6. Front(rL) = rF
        BY <4>2, <4>3, <4>5, FrontOfAppend
      <4>7. Front(L) = F
        BY DEF F
      <4>8. next1 = rF
        BY <2>7, <2>9, <2>11, <4>1, <4>6
      <4>9. next0 = F \/ next0 = rF
        <5>1. Len(out0) > 0
          BY <2>11, <4>1
        <5>2. next0 = Front(out0)
          BY <2>7, <2>9, <5>1
        <5> QED  BY <2>11, <4>6, <4>7, <5>2
      <4> QED  BY <4>1, <4>8, <4>9 DEF next1, next0, rF
    <3> QED  BY <3>1, <3>2
  <2>10. CASE seg # <<dot>> /\ seg # <<dot, dot>>
    <3>1. Append(L, seg) \in Seq(S)
      BY AppendProperties
    <3>2. <<r>> \o Append(L, seg) = Append(<<r>> \o L, seg)
      BY <2>3, PrefixedAppend
    <3>3. next1 = Append(out1, seg) /\ next0 = Append(out0, seg)
      BY <2>7, <2>10
    <3>4. next1 = <<r>> \o Append(L, seg) /\ (next0 = Append(L, seg) \/ next0 = <<r>> \o Append(L, seg))
      BY <2>11, <3>2, <3>3
    <3> QED  BY <3>1, <3>4 DEF next1, next0
  <2> QED  BY <2>8, <2>9, <2>10
<1>4. Seq(S) \subseteq T
  <2> HIDE DEF T, P
  <2> QED  BY <1>2, <1>3, ByLast
<1> QED  BY <1>4

-----------------------------------------------------------------------------
(* Escapes that are needed. *)

\* Every escape is of a byte that needs it, with capital digits.
Neat(s) ==
    \A i \in DOMAIN s : s[i] = percent =>
        /\ Escape(s, i) /\ Value(UnitAt(s, i)) \notin isUnreserved
        /\ UnitAt(s, i) = Encode(Value(UnitAt(s, i)))
NeatUnit(u) == u # <<percent>> /\ (u \in Escapes => Value(u) \notin isUnreserved /\ u = Encode(Value(u)))

LEMMA BeginsIs ==
    ASSUME NEW u \in Unit, u # <<percent>>, NEW s \in Seq(Byte)
    PROVE  Begins(u, s)
<1>1. CASE u \in Escapes
  BY <1>1 DEF Begins
<1>2. CASE u \notin Escapes
  <2>1. PICK c \in Byte : u = <<c>> /\ c # percent
    BY <1>2 DEF Unit
  <2>2. (<<c>> \o s)[1] = c
    BY Prefixed
  <2>3. ~Escape(u \o s, 1)
    BY <2>1, <2>2 DEF Escape
  <2> QED  BY <2>3 DEF Begins
<1> QED  BY <1>1, <1>2

LEMMA NeatEmpty == Neat(<<>>)
<1>1. DOMAIN <<>> = {}
  OBVIOUS
<1> QED  BY <1>1 DEF Neat

(* At the i-th byte a unit of three bytes is an escape. *)
LEMMA LongUnit ==
    ASSUME NEW s, NEW i
    PROVE  Escape(s, i) <=> Len(UnitAt(s, i)) = 3
<1>1. Len(<<percent, s[i + 1], s[i + 2]>>) = 3 /\ Len(<<s[i]>>) = 1
  OBVIOUS
<1> QED  BY <1>1 DEF UnitAt

LEMMA NeatIs ==
    ASSUME NEW u \in Unit, NEW s \in Seq(Byte), Begins(u, s)
    PROVE  Neat(u \o s) <=> NeatUnit(u) /\ Neat(s)
<1> DEFINE t == u \o s
           n == Len(u)
           At(r, i) == /\ Escape(r, i) /\ Value(UnitAt(r, i)) \notin isUnreserved
                       /\ UnitAt(r, i) = Encode(Value(UnitAt(r, i)))
<1>1. /\ u \in Seq(Byte) /\ n \in 1 .. 3 /\ Len(s) \in Nat /\ t \in Seq(Byte) /\ Len(t) = n + Len(s)
      /\ \A i \in 1 .. n : t[i] = u[i]
      /\ \A i \in 1 .. Len(s) : t[i + n] = s[i]
  <2>1. u \in Seq(Byte) /\ n \in 1 .. 3 /\ Len(s) \in Nat
    BY UnitIs, LenProperties
  <2>2. /\ t \in Seq(Byte) /\ Len(t) = n + Len(s)
        /\ \A i \in 1 .. Len(u) + Len(s) : t[i] = IF i <= Len(u) THEN u[i] ELSE s[i - Len(u)]
    BY <2>1, ConcatProperties
  <2> HIDE DEF t, n
  <2>3. ASSUME NEW i \in 1 .. n PROVE t[i] = u[i]
    <3>1. i \in 1 .. n + Len(s) /\ i <= n
      BY <2>1
    <3> QED  BY <2>2, <3>1 DEF n
  <2>4. ASSUME NEW i \in 1 .. Len(s) PROVE t[i + n] = s[i]
    <3>1. i + n \in 1 .. n + Len(s) /\ ~(i + n <= n) /\ i + n - n = i
      BY <2>1
    <3> QED  BY <2>2, <3>1 DEF n
  <2> QED  BY <2>1, <2>2, <2>3, <2>4
<1>2. /\ UnitAt(t, 1) = u
      /\ \A i \in 1 .. Len(s) : UnitAt(t, i + n) = UnitAt(s, i)
  BY UnitsShift
<1>3. DOMAIN t = 1 .. Len(t) /\ DOMAIN s = 1 .. Len(s)
  BY <1>1, LenProperties
<1> HIDE DEF t, n
<1>4. \A i \in 1 .. Len(s) : At(t, i + n) <=> At(s, i)
  BY <1>2, LongUnit
<1> HIDE DEF At
<1>5. Neat(t) <=> \A i \in 1 .. Len(t) : t[i] = percent => At(t, i)
  BY <1>3 DEF Neat, At
<1>6. Neat(s) <=> \A i \in 1 .. Len(s) : s[i] = percent => At(s, i)
  BY <1>3 DEF Neat, At
<1>7. (t[1] = percent => At(t, 1)) <=> NeatUnit(u)
  <2>1. t[1] = u[1]
    BY <1>1
  <2>2. CASE u \in Escapes
    <3>1. u[1] = percent /\ Len(u) = 3 /\ u # <<percent>>
      <4>1. Len(u) = 3 /\ Len(<<percent>>) = 1 /\ u[1] = percent
        BY <2>2, EscapeIs
      <4> QED  BY <4>1
    <3>2. At(t, 1) <=> Value(u) \notin isUnreserved /\ u = Encode(Value(u))
      BY <1>2, <3>1, LongUnit DEF At
    <3> QED  BY <2>1, <2>2, <3>1, <3>2 DEF NeatUnit
  <2>3. CASE u \notin Escapes
    <3>1. u = <<u[1]>> /\ Len(u) = 1
      BY <2>3, UnitIs
    <3>2. u = <<percent>> <=> u[1] = percent
      BY <3>1
    <3>3. ~At(t, 1)
      <4>1. Len(UnitAt(t, 1)) # 3
        <5>1. Len(u) # 3
          BY <3>1
        <5>2. UnitAt(t, 1) = u
          BY <1>2
        <5> QED  BY <5>1, <5>2, Zenon
      <4>2. ~Escape(t, 1)
        BY <4>1, LongUnit
      <4> QED  BY <4>2 DEF At
    <3> QED  BY <2>1, <2>3, <3>2, <3>3 DEF NeatUnit
  <2> QED  BY <2>2, <2>3
<1>8. \A i \in 2 .. n : t[i] # percent
  <2>1. CASE u \in Escapes
    <3>1. n = 3 /\ u[2] \in HexDigits /\ u[3] \in HexDigits
      BY <2>1, EscapeIs DEF n
    <3>2. \A i \in 2 .. n : i = 2 \/ i = 3
      BY <3>1
    <3>3. percent \notin HexDigits
      BY DEF percent, HexDigits, Digits
    <3> QED  BY <1>1, <3>1, <3>2, <3>3
  <2>2. CASE u \notin Escapes
    <3>1. n = 1
      BY <2>2, UnitIs DEF n
    <3> QED  BY <3>1
  <2> QED  BY <2>1, <2>2
<1>9. ASSUME Neat(t) PROVE NeatUnit(u) /\ Neat(s)
  <2>1. NeatUnit(u)
    <3>1. 1 \in 1 .. Len(t)
      BY <1>1
    <3> QED  BY <1>5, <1>7, <1>9, <3>1
  <2>2. ASSUME NEW i \in 1 .. Len(s), s[i] = percent PROVE At(s, i)
    <3>1. i + n \in 1 .. Len(t)
      BY <1>1
    <3>2. t[i + n] = percent
      BY <1>1, <2>2
    <3>3. At(t, i + n)
      BY <1>5, <1>9, <3>1, <3>2
    <3> QED  BY <1>4, <3>3
  <2> QED  BY <1>6, <2>1, <2>2
<1>10. ASSUME NeatUnit(u), Neat(s) PROVE Neat(t)
  <2>1. ASSUME NEW i \in 1 .. Len(t), t[i] = percent PROVE At(t, i)
    <3>1. CASE i = 1
      BY <1>7, <1>10, <2>1, <3>1
    <3>2. CASE i \in 2 .. n
      BY <1>8, <2>1, <3>2
    <3>3. CASE i # 1 /\ i \notin 2 .. n
      <4>1. i - n \in 1 .. Len(s) /\ (i - n) + n = i
        BY <1>1, <3>3
      <4>2. s[i - n] = percent
        BY <1>1, <2>1, <4>1
      <4>3. At(s, i - n)
        BY <1>6, <1>10, <4>1, <4>2
      <4> QED  BY <1>4, <4>1, <4>3
    <3> QED  BY <3>1, <3>2, <3>3
  <2> QED  BY <1>5, <2>1
<1> QED  BY <1>9, <1>10 DEF t

LEMMA NeatByte ==
    ASSUME NEW c \in Byte \ {percent}, NEW s \in Seq(Byte), Neat(s)
    PROVE  Neat(<<c>> \o s)
<1>1. <<c>> \in Unit /\ <<c>> # <<percent>>
  BY DEF Unit
<1>2. <<c>> \notin Escapes
  <2>1. Len(<<c>>) = 1
    OBVIOUS
  <2> QED  BY <2>1, EscapeIs
<1>3. NeatUnit(<<c>>) /\ Begins(<<c>>, s)
  BY <1>1, <1>2, BeginsIs DEF NeatUnit
<1> QED  BY <1>1, <1>3, NeatIs

LEMMA NeatConcat ==
    ASSUME NEW s \in Seq(Byte), NEW t \in Seq(Byte), Neat(s), Neat(t)
    PROVE  Neat(s \o t)
<1> DEFINE T == {r \in Seq(Byte) : Neat(r) => Neat(r \o t)}
<1>1. <<>> \in T
  <2>1. <<>> \o t = t
    BY ConcatEmpty
  <2> QED  BY <2>1, EmptySeq
<1>2. ASSUME NEW u \in Unit, NEW r \in Seq(Byte), Begins(u, r), r \in T PROVE u \o r \in T
  <2>1. u \in Seq(Byte)
    BY UnitIs
  <2>2. u \o r \in Seq(Byte) /\ r \o t \in Seq(Byte) /\ (u \o r) \o t = u \o (r \o t)
    <3> HIDE DEF T
    <3> QED  BY <2>1, Associative, SMTT(30)
  <2>3. ASSUME Neat(u \o r) PROVE Neat(u \o (r \o t))
    <3>1. NeatUnit(u) /\ Neat(r)
      BY <1>2, <2>3, NeatIs
    <3>2. Neat(r \o t)
      BY <1>2, <3>1
    <3>3. Begins(u, r \o t)
      BY <2>2, <3>1, BeginsIs DEF NeatUnit
    <3> QED  BY <2>2, <3>1, <3>2, <3>3, NeatIs
  <2> QED  BY <2>2, <2>3
<1>3. Seq(Byte) \subseteq T
  <2> HIDE DEF T
  <2> QED  BY <1>1, <1>2, ByUnit
<1> QED  BY <1>3

(* What normalization puts in is neat, and neat text comes out the same. *)
LEMMA NormalIsNeat ==
    ASSUME NEW safe \in {pathSafe, querySafe}, NEW s \in Seq(Byte)
    PROVE  Neat(Each(s, NormalText(safe)))
<1> DEFINE f == NormalText(safe)
           T == {t \in Seq(Byte) : Neat(Each(t, f))}
<1>1. /\ f \in [Unit -> Unit \ {<<percent>>}] /\ f \in [Unit -> Seq(Byte)]
      /\ \A u \in Unit : f[u] = IF Value(u) \in (IF u \in Escapes THEN isUnreserved ELSE safe) THEN <<Value(u)>> ELSE Encode(Value(u))
  BY NormalTextTyped, UnitTexts
<1>2. ASSUME NEW u \in Unit PROVE NeatUnit(f[u])
  <2> DEFINE c == Value(u)
  <2>1. c \in Byte
    BY ValueTyped
  <2>2. /\ Encode(c) \in Escapes /\ Value(Encode(c)) = c
        /\ \A b \in Byte : <<b>> \notin Escapes
    <3>1. \A b \in Byte : Len(<<b>>) = 1
      OBVIOUS
    <3> QED  BY <2>1, <3>1, EncodeIs, EscapeIs
  <2>3. f[u] = IF c \in (IF u \in Escapes THEN isUnreserved ELSE safe) THEN <<c>> ELSE Encode(c)
    BY <1>1
  <2>4. f[u] # <<percent>>
    BY <1>1
  <2>5. isUnreserved \subseteq safe
    BY Sets
  <2>6. u \notin Escapes /\ c \notin safe => c \notin isUnreserved
    BY <2>5
  <2> HIDE DEF c, f
  <2>7. CASE c \in (IF u \in Escapes THEN isUnreserved ELSE safe)
    BY <2>1, <2>2, <2>3, <2>4, <2>7 DEF NeatUnit
  <2>8. CASE c \notin (IF u \in Escapes THEN isUnreserved ELSE safe)
    <3>1. c \notin isUnreserved /\ f[u] = Encode(c)
      BY <2>3, <2>6, <2>8
    <3> QED  BY <2>2, <2>4, <3>1 DEF NeatUnit
  <2> QED  BY <2>7, <2>8
<1> HIDE DEF f
<1>3. <<>> \in T
  BY <1>1, EachEmpty, NeatEmpty, EmptySeq
<1>4. ASSUME NEW u \in Unit, NEW t \in Seq(Byte), Begins(u, t), t \in T PROVE u \o t \in T
  <2>1. u \o t \in Seq(Byte)
    BY UnitIs, ConcatProperties
  <2>2. Each(u \o t, f) = f[u] \o Each(t, f) /\ Each(t, f) \in Seq(Byte)
    BY <1>1, <1>4, EachUnit, EachTyped
  <2>3. f[u] \in Unit /\ NeatUnit(f[u]) /\ Neat(Each(t, f))
    BY <1>1, <1>2, <1>4
  <2>4. Begins(f[u], Each(t, f))
    BY <2>2, <2>3, BeginsIs DEF NeatUnit
  <2>5. Neat(f[u] \o Each(t, f))
    BY <2>2, <2>3, <2>4, NeatIs
  <2> QED  BY <2>1, <2>2, <2>5
<1>5. Seq(Byte) \subseteq T
  <2> HIDE DEF T
  <2> QED  BY <1>3, <1>4, ByUnit
<1> QED  BY <1>5 DEF f

LEMMA NeatStays ==
    ASSUME NEW safe \in {pathSafe, querySafe}, NEW s \in Seq(safe \cup {percent}), Neat(s)
    PROVE  normalizePercent(s, safe) = s /\ escapeStrayPercent(s) = s /\ s \in Seq(Byte)
<1> DEFINE f == NormalText(safe)
           g == StrayText
           Plain(t) == \A i \in 1 .. Len(t) : t[i] \in safe \cup {percent}
           T == {t \in Seq(Byte) : Neat(t) /\ Plain(t) => Each(t, f) = t /\ Each(t, g) = t}
<1>1. /\ f \in [Unit -> Seq(Byte)] /\ g \in [Unit -> Seq(Byte)]
      /\ \A u \in Unit : f[u] = IF Value(u) \in (IF u \in Escapes THEN isUnreserved ELSE safe) THEN <<Value(u)>> ELSE Encode(Value(u))
      /\ \A u \in Unit : g[u] = IF u = <<percent>> THEN Encode(percent) ELSE u
  BY NormalTextTyped, StrayTextTyped, UnitTexts
<1>2. \A t : normalizePercent(t, safe) = Each(t, f) /\ escapeStrayPercent(t) = Each(t, g)
  BY NormalTextTyped, StrayTextTyped
<1> HIDE DEF f, g
<1>3. ASSUME NEW u \in Unit, NeatUnit(u), u[1] \in safe \cup {percent} PROVE f[u] = u /\ g[u] = u
  <2>1. g[u] = u
    BY <1>1, <1>3 DEF NeatUnit
  <2>2. CASE u \in Escapes
    BY <1>1, <1>3, <2>1, <2>2 DEF NeatUnit
  <2>3. CASE u \notin Escapes
    <3>1. u = <<u[1]>> /\ Value(u) = u[1]
      BY <2>3, UnitIs, ValueTyped
    <3>2. u[1] \in safe
      BY <1>3, <3>1 DEF NeatUnit
    <3>3. f[u] = <<Value(u)>>
      BY <1>1, <2>3, <3>1, <3>2
    <3> QED  BY <2>1, <3>1, <3>3
  <2> QED  BY <2>2, <2>3
<1>4. <<>> \in T
  BY <1>1, EachEmpty, EmptySeq
<1>5. ASSUME NEW u \in Unit, NEW t \in Seq(Byte), Begins(u, t), t \in T PROVE u \o t \in T
  <2>1. u \in Seq(Byte) /\ Len(u) \in 1 .. 3 /\ Len(t) \in Nat
    BY UnitIs, LenProperties
  <2>2. /\ u \o t \in Seq(Byte) /\ Len(u \o t) = Len(u) + Len(t)
        /\ \A i \in 1 .. Len(u) + Len(t) : (u \o t)[i] = IF i <= Len(u) THEN u[i] ELSE t[i - Len(u)]
    BY <2>1, ConcatProperties
  <2>3. ASSUME Neat(u \o t), Plain(u \o t) PROVE Each(u \o t, f) = u \o t /\ Each(u \o t, g) = u \o t
    <3>1. NeatUnit(u) /\ Neat(t)
      BY <1>5, <2>3, NeatIs
    <3>2. u[1] \in safe \cup {percent}
      <4>1. 1 \in 1 .. Len(u) + Len(t) /\ 1 <= Len(u)
        <5> HIDE DEF T, Plain
        <5>1. \A a \in 1 .. 3, b \in Nat : 1 \in 1 .. a + b /\ 1 <= a
          OBVIOUS
        <5> QED  BY <2>1, <5>1
      <4> QED  BY <2>2, <2>3, <4>1
    <3>3. Plain(t)
      <4> SUFFICES ASSUME NEW i \in 1 .. Len(t) PROVE t[i] \in safe \cup {percent}
        OBVIOUS
      <4>1. i + Len(u) \in 1 .. Len(u) + Len(t) /\ ~(i + Len(u) <= Len(u)) /\ i + Len(u) - Len(u) = i
        BY <2>1
      <4>2. (u \o t)[i + Len(u)] = t[i]
        BY <2>2, <4>1
      <4> QED  BY <2>2, <2>3, <4>1, <4>2
    <3>4. Each(t, f) = t /\ Each(t, g) = t
      BY <1>5, <3>1, <3>3
    <3>5. Each(u \o t, f) = f[u] \o Each(t, f) /\ Each(u \o t, g) = g[u] \o Each(t, g)
      <4> HIDE DEF T
      <4> QED  BY <1>1, <1>5, EachUnit
    <3> QED  BY <1>3, <3>1, <3>2, <3>4, <3>5
  <2> HIDE DEF Plain
  <2> QED  BY <2>2, <2>3
<1>6. Seq(Byte) \subseteq T
  <2> HIDE DEF T
  <2> QED  BY <1>4, <1>5, ByUnit
<1>7. s \in Seq(Byte) /\ Plain(s)
  <2>1. safe \cup {percent} \subseteq Byte
    BY Sets
  <2>2. s \in Seq(Byte)
    BY <2>1, SeqMonotonic
  <2> QED  BY <2>2, ElementOfSeq
<1> QED  BY <1>2, <1>6, <1>7

-----------------------------------------------------------------------------
(* Units and segments: to put in a text for each unit and to take a path   *)
(* apart can be done in either order.                                      *)

LEMMA SameHeadAndTail ==
    ASSUME NEW S, NEW s \in Seq(S), s # <<>>, NEW t \in Seq(S), t # <<>>, Head(s) = Head(t), Tail(s) = Tail(t)
    PROVE  s = t
<1>1. s = <<Head(s)>> \o Tail(s) /\ t = <<Head(t)>> \o Tail(t)
  BY HeadAndTail
<1> QED  BY <1>1

LEMMA MappedSingle ==
    ASSUME NEW m, NEW c
    PROVE  Mapped(<<c>>, m) = <<m[c]>>
<1>1. DOMAIN <<c>> = 1 .. 1 /\ <<c>>[1] = c
  OBVIOUS
<1>2. Mapped(<<c>>, m) = [i \in 1 .. 1 |-> m[c]]
  BY <1>1 DEF Mapped
<1> QED  BY <1>2

MapsParts(s, m, B) ==
    /\ Mapped(s, m) \in Seq(B) /\ Mapped(s, m) # <<>>
    /\ Head(Mapped(s, m)) = m[Head(s)] /\ Tail(Mapped(s, m)) = Mapped(Tail(s), m)

LEMMA MappedHead ==
    ASSUME NEW A, NEW B, NEW m \in [A -> B], NEW s \in Seq(A), s # <<>>
    PROVE  MapsParts(s, m, B)
<1> DEFINE h == Head(s)
           r == Tail(s)
           e == m[h]
           q == Mapped(r, m)
<1>1. h \in A /\ r \in Seq(A) /\ s = <<h>> \o r
  BY HeadAndTail
<1> HIDE DEF h, r
<1>2. Mapped(<<h>> \o r, m) = <<e>> \o q
  BY <1>1, MappedPrefixed, ZenonT(40)
<1>3. q \in Seq(B) /\ e \in B
  <2>1. Mapped(r, m) \in Seq(B)
    BY <1>1, MappedTyped, Zenon
  <2> QED  BY <1>1, <2>1
<1> HIDE DEF e, q
<1>4. Mapped(s, m) = <<e>> \o q
  BY <1>1, <1>2
<1>5. /\ <<e>> \o q \in Seq(B) /\ <<e>> \o q # <<>> /\ Head(<<e>> \o q) = e /\ Tail(<<e>> \o q) = q
  BY <1>3, Prefixed
<1> QED  BY <1>4, <1>5 DEF h, r, e, q, MapsParts

LEMMA EscapeLonger ==
    ASSUME NEW s \in Seq(Byte), NEW t \in Seq(Byte), Escape(s, 1)
    PROVE  Escape(s \o t, 1)
<1>1. Len(s) \in Nat /\ Len(t) \in Nat /\ 1 \in 1 .. Len(s) - 2 /\ s[1] = percent /\ {s[1 + 1], s[1 + 2]} \subseteq HexDigits
  BY LenProperties DEF Escape
<1>2. /\ Len(s \o t) = Len(s) + Len(t)
      /\ \A i \in 1 .. Len(s) + Len(t) : (s \o t)[i] = IF i <= Len(s) THEN s[i] ELSE t[i - Len(s)]
  BY ConcatProperties
<1>3. \A i \in {1, 1 + 1, 1 + 2} : i \in 1 .. Len(s) + Len(t) /\ i <= Len(s)
  BY <1>1
<1>4. (s \o t)[1] = s[1] /\ (s \o t)[1 + 1] = s[1 + 1] /\ (s \o t)[1 + 2] = s[1 + 2]
  BY <1>2, <1>3
<1>5. 1 \in 1 .. Len(s \o t) - 2
  BY <1>1, <1>2
<1> QED  BY <1>1, <1>4, <1>5 DEF Escape

LEMMA BeginsPart ==
    ASSUME NEW u \in Unit, NEW s \in Seq(Byte), NEW t \in Seq(Byte), Begins(u, s \o t)
    PROVE  Begins(u, s)
<1>1. u \in Seq(Byte)
  BY UnitIs
<1>2. u \o s \in Seq(Byte) /\ (u \o s) \o t = u \o (s \o t)
  BY <1>1, Associative, SMTT(30)
<1>3. Escape(u \o s, 1) => Escape(u \o (s \o t), 1)
  BY <1>2, EscapeLonger
<1> QED  BY <1>3 DEF Begins

LEMMA UnitSlash ==
    ASSUME NEW u \in Unit, u # <<slash>>
    PROVE  u \in Seq(Byte \ {slash})
<1>1. CASE u \in Escapes
  <2>1. u = <<percent, u[2], u[3]>> /\ u[2] \in HexDigits /\ u[3] \in HexDigits
    BY <1>1, EscapeIs
  <2>2. HexDigits \subseteq Byte \ {slash} /\ percent \in Byte \ {slash}
    BY Sets
  <2>3. \A a \in Byte \ {slash}, b \in Byte \ {slash}, c \in Byte \ {slash} : <<a, b, c>> \in Seq(Byte \ {slash})
    OBVIOUS
  <2> QED  BY <2>1, <2>2, <2>3
<1>2. CASE u \notin Escapes
  <2>1. u = <<u[1]>> /\ u[1] \in Byte
    BY <1>2, UnitIs
  <2>2. PICK c \in Byte : u = <<c>>
    BY <2>1
  <2>3. c \in Byte \ {slash}
    BY <2>2
  <2> QED  BY <2>2, <2>3, Single
<1> QED  BY <1>1, <1>2

LEMMA SplitUnit ==
    ASSUME NEW u \in Unit, NEW s \in Seq(Byte)
    PROVE  /\ Split(u \o s, slash) \in Seq(Seq(Byte)) /\ Split(u \o s, slash) # <<>>
           /\ u = <<slash>> => Head(Split(u \o s, slash)) = <<>> /\ Tail(Split(u \o s, slash)) = Split(s, slash)
           /\ u # <<slash>> => /\ Head(Split(u \o s, slash)) = u \o Head(Split(s, slash))
                               /\ Tail(Split(u \o s, slash)) = Tail(Split(s, slash))
<1>1. slash \in Byte /\ u \in Seq(Byte)
  BY Sets, UnitIs
<1>2. Split(u \o s, slash) \in Seq(Seq(Byte)) /\ Split(u \o s, slash) # <<>>
  <2>1. u \o s \in Seq(Byte)
    BY <1>1, Associative, SMTT(30)
  <2> QED  BY <2>1, SplitTyped
<1>3. ASSUME u = <<slash>> PROVE Head(Split(u \o s, slash)) = <<>> /\ Tail(Split(u \o s, slash)) = Split(s, slash)
  <2>1. Head(Split(<<slash>> \o s, slash)) = <<>> /\ Tail(Split(<<slash>> \o s, slash)) = Split(s, slash)
    BY <1>1, SplitAt
  <2> QED  BY <1>3, <2>1
<1>4. ASSUME u # <<slash>>
      PROVE  /\ Head(Split(u \o s, slash)) = u \o Head(Split(s, slash))
             /\ Tail(Split(u \o s, slash)) = Tail(Split(s, slash))
  <2>1. u \in Seq(Byte \ {slash})
    BY <1>4, UnitSlash
  <2> QED  BY <1>1, <2>1, SplitSegment
<1> QED  BY <1>2, <1>3, <1>4

EachText(f) == [s \in Seq(Byte) |-> Each(s, f)]

LEMMA SplitOfEach ==
    ASSUME NEW f \in [Unit -> Unit], \A u \in Unit : f[u] = <<slash>> <=> u = <<slash>>, NEW s \in Seq(Byte)
    PROVE  /\ EachText(f) \in [Seq(Byte) -> Seq(Byte)] /\ Split(Each(s, f), slash) = Mapped(Split(s, slash), EachText(f))
           /\ Each(s, f) \in Seq(Byte)
<1> DEFINE m == EachText(f)
           T == {t \in Seq(Byte) : Split(Each(t, f), slash) = Mapped(Split(t, slash), m)}
<1>1. f \in [Unit -> Seq(Byte)] /\ \A u \in Unit : f[u] \in Unit
  BY UnitIs
<1>2. m \in [Seq(Byte) -> Seq(Byte)] /\ \A t \in Seq(Byte) : m[t] = Each(t, f) /\ Each(t, f) \in Seq(Byte)
  BY <1>1, EachTyped DEF EachText
<1>3. m[<<>>] = <<>>
  BY <1>1, <1>2, EachEmpty, EmptySeq
<1> HIDE DEF m
<1>4. <<>> \in T
  <2>1. Each(<<>>, f) = <<>> /\ <<>> \in Seq(Byte) /\ <<>> \in Seq(Seq(Byte))
    BY <1>1, EachEmpty, EmptySeq
  <2>4. Mapped(<<<<>>>>, m) = <<<<>>>>
    <3> DEFINE e == <<>>
    <3>1. e \in Seq(Byte) /\ m[e] = e
      BY <1>3, <2>1
    <3> HIDE DEF e
    <3>2. Mapped(<<e>>, m) = <<e>>
      BY <3>1, MappedSingle
    <3> QED  BY <3>2 DEF e
  <2> QED  BY <2>1, <2>4, SplitEmpty
<1>5. ASSUME NEW u \in Unit, NEW t \in Seq(Byte), Begins(u, t), t \in T PROVE u \o t \in T
  <2> DEFINE z == Each(t, f)
             v == f[u]
             segs == Split(t, slash)
             all == Split(u \o t, slash)
             outs == Split(z, slash)
             out == Split(v \o z, slash)
             h == Head(segs)
  <2>1. u \o t \in Seq(Byte) /\ z \in Seq(Byte) /\ v \in Unit
    <3>1. u \o t \in Seq(Byte)
      BY UnitIs, ConcatProperties
    <3> QED  BY <1>1, <1>2, <3>1
  <2>2. Each(u \o t, f) = v \o z
    BY <1>1, <1>5, EachUnit
  <2>3. segs \in Seq(Seq(Byte)) /\ segs # <<>> /\ h \in Seq(Byte)
    BY SplitTyped, HeadAndTail
  <2>4. /\ all \in Seq(Seq(Byte)) /\ all # <<>>
        /\ u = <<slash>> => Head(all) = <<>> /\ Tail(all) = segs
        /\ u # <<slash>> => Head(all) = u \o Head(segs) /\ Tail(all) = Tail(segs)
    BY SplitUnit
  <2>5. /\ out \in Seq(Seq(Byte)) /\ out # <<>>
        /\ v = <<slash>> => Head(out) = <<>> /\ Tail(out) = outs
        /\ v # <<slash>> => Head(out) = v \o Head(outs) /\ Tail(out) = Tail(outs)
    <3> HIDE DEF z, v
    <3> QED  BY <2>1, SplitUnit
  <2>6. outs = Mapped(segs, m)
    BY <1>5
  <2>7. v = <<slash>> <=> u = <<slash>>
    OBVIOUS
  <2>8. u # <<slash>> => m[u \o h] = v \o m[h]
    <3>1. t = h \o Slashed(Tail(segs)) /\ Slashed(Tail(segs)) \in Seq(Byte)
      <4>1. slash \in Byte
        BY Sets
      <4>2. Tail(segs) \in Seq(Seq(Byte))
        <5> HIDE DEF segs, h
        <5> QED  BY <2>3, HeadAndTail
      <4> QED  BY <4>1, <4>2, JoinSplit, SlashedIs
    <3> HIDE DEF segs, h, v
    <3>2. Begins(u, h)
      BY <1>5, <2>3, <3>1, BeginsPart
    <3>3. Each(u \o h, f) = f[u] \o Each(h, f)
      BY <1>1, <2>3, <3>2, EachUnit
    <3>4. u \o h \in Seq(Byte)
      BY <2>3, UnitIs, ConcatProperties
    <3> QED  BY <1>2, <2>3, <3>3, <3>4 DEF v
  <2> HIDE DEF z, v, segs, all, outs, out, h, T
  <2>9. /\ Mapped(all, m) \in Seq(Seq(Byte)) /\ Mapped(all, m) # <<>>
        /\ Head(Mapped(all, m)) = m[Head(all)] /\ Tail(Mapped(all, m)) = Mapped(Tail(all), m)
    <3> DEFINE X == Seq(Byte)
    <3>1. m \in [X -> X] /\ all \in Seq(X) /\ all # <<>>
      BY <1>2, <2>4
    <3> HIDE DEF X
    <3>2. MapsParts(all, m, X)
      BY <3>1, MappedHead
    <3> QED  BY <3>2 DEF MapsParts, X
  <2>10. Head(outs) = m[h] /\ Tail(outs) = Mapped(Tail(segs), m)
    <3> DEFINE X == Seq(Byte)
    <3>1. m \in [X -> X] /\ segs \in Seq(X) /\ segs # <<>>
      BY <1>2, <2>3
    <3> HIDE DEF X
    <3>2. MapsParts(segs, m, X)
      BY <3>1, MappedHead
    <3> QED  BY <2>6, <3>2 DEF MapsParts, h
  <2>11. Head(out) = Head(Mapped(all, m)) /\ Tail(out) = Tail(Mapped(all, m))
    <3>1. CASE u = <<slash>>
      <4>1. Head(out) = <<>> /\ Tail(out) = outs /\ Head(all) = <<>> /\ Tail(all) = segs
        BY <2>4, <2>5, <2>7, <3>1
      <4> QED  BY <1>3, <2>6, <2>9, <4>1
    <3>2. CASE u # <<slash>>
      <4>1. Head(out) = v \o Head(outs) /\ Tail(out) = Tail(outs) /\ Head(all) = u \o h /\ Tail(all) = Tail(segs)
        BY <2>4, <2>5, <2>7, <3>2 DEF h
      <4>2. m[u \o h] = v \o m[h]
        BY <2>8, <3>2
      <4> QED  BY <2>9, <2>10, <4>1, <4>2
    <3> QED  BY <3>1, <3>2
  <2>12. out = Mapped(all, m)
    BY <2>5, <2>9, <2>11, SameHeadAndTail
  <2> QED  BY <2>1, <2>2, <2>12 DEF T, all, out
<1>6. Seq(Byte) \subseteq T
  <2> HIDE DEF T
  <2> QED  BY <1>4, <1>5, ByUnit
<1> QED  BY <1>2, <1>6 DEF m

-----------------------------------------------------------------------------
(* The path of a normal form is neat and has no dots, and a path that is   *)
(* so comes out the same.                                                  *)

Segment == {s \in Seq(Byte \ {slash}) : Neat(s)}

LEMMA SegmentIs == Segment \subseteq Seq(Byte) /\ <<>> \in Segment /\ \A s \in Segment : Neat(s)
<1>1. Seq(Byte \ {slash}) \subseteq Seq(Byte)
  BY SeqMonotonic
<1> QED  BY <1>1, EmptySeq, NeatEmpty DEF Segment

(* A slash stays a slash, and nothing else becomes one. *)
LEMMA SlashesStay ==
    /\ \A u \in Unit : StrayText[u] = <<slash>> <=> u = <<slash>>
    /\ \A safe \in {pathSafe, querySafe} : \A u \in Unit : NormalText(safe)[u] = <<slash>> <=> u = <<slash>>
<1>1. \A c \in Byte : Encode(c) # <<slash>>
  <2>1. \A c \in Byte : Len(Encode(c)) = 3
    BY EncodeIs, EscapeIs
  <2>2. Len(<<slash>>) = 1
    OBVIOUS
  <2> QED  BY <2>1, <2>2
<1>2. percent \in Byte /\ slash # percent /\ slash \notin isUnreserved /\ slash \in pathSafe /\ slash \in querySafe
  BY Sets
<1>3. <<slash>> \notin Escapes /\ <<percent>> # <<slash>>
  <2>1. Len(<<slash>>) = 1 /\ <<slash>>[1] = slash /\ <<percent>>[1] = percent
    OBVIOUS
  <2> QED  BY <1>2, <2>1, EscapeIs
<1>4. ASSUME NEW u \in Unit PROVE StrayText[u] = <<slash>> <=> u = <<slash>>
  <2>1. StrayText[u] = IF u = <<percent>> THEN Encode(percent) ELSE u
    BY StrayTextTyped
  <2> QED  BY <1>1, <1>2, <1>3, <2>1
<1>5. ASSUME NEW safe \in {pathSafe, querySafe}, NEW u \in Unit
      PROVE  NormalText(safe)[u] = <<slash>> <=> u = <<slash>>
  <2>1. NormalText(safe)[u] = IF Value(u) \in (IF u \in Escapes THEN isUnreserved ELSE safe)
                              THEN <<Value(u)>> ELSE Encode(Value(u))
    BY NormalTextTyped
  <2>2. Value(u) \in Byte /\ (u \notin Escapes => u = <<u[1]>> /\ Value(u) = u[1])
    BY UnitIs, ValueTyped
  <2>3. <<Value(u)>> = <<slash>> <=> Value(u) = slash
    OBVIOUS
  <2>4. CASE u \in Escapes
    BY <1>1, <1>2, <1>3, <2>1, <2>2, <2>3, <2>4
  <2>5. CASE u \notin Escapes
    <3>1. u = <<slash>> <=> Value(u) = slash
      BY <2>2, <2>3, <2>5
    <3>2. slash \in safe
      BY <1>2
    <3> QED  BY <1>1, <2>1, <2>2, <2>3, <2>5, <3>1, <3>2
  <2> QED  BY <2>4, <2>5
<1> QED  BY <1>4, <1>5

LEMMA NormalSplits ==
    ASSUME NEW safe \in {pathSafe, querySafe}, NEW s \in Seq(Byte)
    PROVE  /\ EachText(NormalText(safe)) \in [Seq(Byte) -> Seq(Byte)]
           /\ Split(normalizePercent(s, safe), slash) = Mapped(Split(s, slash), EachText(NormalText(safe)))
           /\ normalizePercent(s, safe) \in Seq(Byte)
<1>1. NormalText(safe) \in [Unit -> Unit] /\ normalizePercent(s, safe) = Each(s, NormalText(safe))
  BY NormalTextTyped
<1>2. \A u \in Unit : NormalText(safe)[u] = <<slash>> <=> u = <<slash>>
  BY SlashesStay
<1> QED  BY <1>1, <1>2, SplitOfEach

LEMMA NormalSegments ==
    ASSUME NEW safe \in {pathSafe, querySafe}, NEW s \in Seq(Byte)
    PROVE  Split(normalizePercent(s, safe), slash) \in Seq(Segment) \ {<<>>}
<1> DEFINE f == NormalText(safe)
           segs == Split(s, slash)
           outs == Split(normalizePercent(s, safe), slash)
<1>1. outs = Mapped(segs, EachText(f)) /\ normalizePercent(s, safe) \in Seq(Byte)
  BY NormalSplits
<1>2. segs \in Seq(Seq(Byte)) /\ outs \in Seq(Seq(Byte \ {slash})) /\ outs # <<>>
  BY <1>1, SplitTyped, SplitParts
<1>3. \A t \in Seq(Byte) : Neat(EachText(f)[t])
  BY NormalIsNeat DEF EachText
<1> HIDE DEF f, segs, outs
<1>4. Len(outs) = Len(segs) /\ \A i \in 1 .. Len(segs) : outs[i] = EachText(f)[segs[i]]
  BY <1>1, <1>2, MappedIs
<1>5. Len(segs) \in Nat /\ \A i \in 1 .. Len(segs) : segs[i] \in Seq(Byte) /\ outs[i] \in Seq(Byte \ {slash})
  BY <1>2, <1>4, LenProperties, ElementOfSeq
<1>6. \A i \in 1 .. Len(segs) : outs[i] \in Segment
  BY <1>3, <1>4, <1>5 DEF Segment
<1>7. outs \in [1 .. Len(segs) -> Segment]
  BY <1>2, <1>4, <1>6, LenProperties
<1>8. outs \in Seq(Segment)
  BY <1>5, <1>7, FunctionIsSeq
<1> QED  BY <1>2, <1>8 DEF outs

LEMMA SlashedNeat ==
    ASSUME NEW segs \in Seq(Segment)
    PROVE  Slashed(segs) \in Seq(Byte) /\ Neat(Slashed(segs))
<1> DEFINE T == {t \in Seq(Segment) : Slashed(t) \in Seq(Byte) /\ Neat(Slashed(t))}
<1>1. <<>> \in T
  BY SlashedEmpty, EmptySeq, NeatEmpty
<1>2. ASSUME NEW seg \in Segment, NEW t \in Seq(Segment), t \in T PROVE <<seg>> \o t \in T
  <2>1. <<seg>> \o t \in Seq(Segment)
    <3> HIDE DEF T
    <3> QED  BY Prefixed
  <2>2. seg \in Seq(Byte) /\ Neat(seg) /\ slash \in Byte /\ slash \in Byte \ {percent}
    BY SegmentIs, Sets
  <2>3. t \in Seq(Seq(Byte))
    BY SegmentIs, SeqMonotonic
  <2>4. Slashed(<<seg>> \o t) = <<slash>> \o (seg \o Slashed(t))
    BY <2>2, <2>3, SlashedPrefixed
  <2>5. Slashed(t) \in Seq(Byte) /\ Neat(Slashed(t))
    BY <1>2
  <2>6. seg \o Slashed(t) \in Seq(Byte) /\ Neat(seg \o Slashed(t))
    BY <2>2, <2>5, NeatConcat, ConcatProperties
  <2>7. <<slash>> \o (seg \o Slashed(t)) \in Seq(Byte)
    BY <2>2, <2>6, Prefixed
  <2>8. Neat(<<slash>> \o (seg \o Slashed(t)))
    BY <2>2, <2>6, NeatByte
  <2> QED  BY <2>1, <2>4, <2>7, <2>8
<1>3. Seq(Segment) \subseteq T
  <2> HIDE DEF T
  <2> QED  BY <1>1, <1>2, ByHead
<1> QED  BY <1>3

LEMMA JoinNeat ==
    ASSUME NEW segs \in Seq(Segment), segs # <<>>
    PROVE  Join(segs) \in Seq(Byte) /\ Neat(Join(segs))
<1> DEFINE h == Head(segs)
           t == Tail(segs)
<1>1. h \in Segment /\ t \in Seq(Segment) /\ segs = <<h>> \o t
  BY HeadAndTail
<1> HIDE DEF h, t
<1>2. h \in Seq(Byte) /\ Neat(h) /\ t \in Seq(Seq(Byte)) /\ slash \in Byte
  BY <1>1, SegmentIs, SeqMonotonic, Sets
<1>3. Join(<<h>> \o t) = h \o Slashed(t)
  BY <1>2, SlashedPrefixed
<1>4. Slashed(t) \in Seq(Byte) /\ Neat(Slashed(t))
  BY <1>1, SlashedNeat
<1>5. h \o Slashed(t) \in Seq(Byte) /\ Neat(h \o Slashed(t))
  BY <1>2, <1>4, NeatConcat, ConcatProperties
<1> QED  BY <1>1, <1>3, <1>5

(* The slash that is put in front puts an empty segment in front. *)
LEMMA RootedIs ==
    ASSUME NEW p \in Seq(Byte), Neat(p)
    PROVE  /\ Rooted(p) \in Seq(Byte) /\ Neat(Rooted(p))
           /\ Split(Rooted(p), slash) = Split(p, slash) \/ Split(Rooted(p), slash) = <<<<>>>> \o Split(p, slash)
<1>1. slash \in Byte /\ slash \in Byte \ {percent}
  BY Sets
<1>2. CASE Rooted(p) = p
  BY <1>2
<1>3. CASE Rooted(p) = <<slash>> \o p
  <2> DEFINE q == <<slash>> \o p
  <2>1. q \in Seq(Byte) /\ Neat(q)
    BY <1>1, Prefixed, NeatByte
  <2>2. Head(Split(q, slash)) = <<>> /\ Tail(Split(q, slash)) = Split(p, slash)
    BY <1>1, SplitAt
  <2>3. Split(q, slash) \in Seq(Seq(Byte)) /\ Split(q, slash) # <<>>
    <3> HIDE DEF q
    <3> QED  BY <2>1, SplitTyped
  <2>4. Split(q, slash) = <<Head(Split(q, slash))>> \o Tail(Split(q, slash))
    <3> HIDE DEF q
    <3> QED  BY <2>3, HeadAndTail
  <2> QED  BY <1>3, <2>1, <2>2, <2>4
<1> QED  BY <1>2, <1>3 DEF Rooted

LEMMA PathInForm ==
    ASSUME NEW p \in Seq(Byte), p # <<>>
    PROVE  /\ Path(p) \in Seq(Byte) /\ Neat(Path(p))
           /\ Split(Path(p), slash) \in Seq(Seq(Byte) \ Dots)
<1> DEFINE x == normalizePercent(EscapedPath(p), pathSafe)
           segs == Split(x, slash)
           w == WithoutDots(segs, 1)
           j == Join(w)
<1>1. EscapedPath(p) \in Seq(Byte) /\ x # <<>>
  BY PathTyped, EscapedPathTyped
<1>2. segs \in Seq(Segment) /\ segs # <<>>
  BY <1>1, NormalSegments
<1>3. Path(p) = Rooted(j)
  BY <1>1 DEF Path, removeDotSegments
<1> HIDE DEF x, segs
<1>4. w \in Seq(Segment \ Dots) /\ w # <<>>
  <2>1. <<>> \in Segment /\ 1 \in Nat
    BY SegmentIs
  <2> QED  BY <1>2, <2>1, WithoutDotsDotless
<1> HIDE DEF w
<1>5. w \in Seq(Segment) /\ w \in Seq(Seq(Byte \ {slash})) /\ w \in Seq(Seq(Byte) \ Dots)
  <2>1. Segment \ Dots \subseteq Segment /\ Segment \ Dots \subseteq Seq(Byte \ {slash}) /\ Segment \ Dots \subseteq Seq(Byte) \ Dots
    BY SegmentIs DEF Segment
  <2> QED  BY <1>4, <2>1, SeqMonotonic
<1>6. j \in Seq(Byte) /\ Neat(j)
  BY <1>4, <1>5, JoinNeat
<1>7. Split(j, slash) = w
  BY <1>4, <1>5, SplitJoin, Sets
<1> HIDE DEF j
<1>8. /\ Rooted(j) \in Seq(Byte) /\ Neat(Rooted(j))
      /\ Split(Rooted(j), slash) = w \/ Split(Rooted(j), slash) = <<<<>>>> \o w
  BY <1>6, <1>7, RootedIs
<1>9. <<<<>>>> \o w \in Seq(Seq(Byte) \ Dots)
  <2> DEFINE e == <<>>
             S == Seq(Byte) \ Dots
  <2>1. e \in S
    BY EmptySeq DEF Dots
  <2>2. w \in Seq(S)
    BY <1>5
  <2> HIDE DEF e, S
  <2>3. <<e>> \o w \in Seq(S)
    BY <2>1, <2>2, Prefixed
  <2> QED  BY <2>3 DEF e, S
<1> QED  BY <1>3, <1>5, <1>8, <1>9

LEMMA PathStays ==
    ASSUME NEW p \in Seq(pathSafe \cup {percent}), p # <<>>, p[1] = slash, Neat(p),
           Split(p, slash) \in Seq(Seq(Byte) \ Dots)
    PROVE  Path(p) = p /\ EscapedPath(p) = p /\ resolvePath(p) = p /\ escapeStrayPercent(p) = p
<1>1. normalizePercent(p, pathSafe) = p /\ escapeStrayPercent(p) = p /\ p \in Seq(Byte)
  BY NeatStays
<1>2. EscapedPath(p) = p
  <2>1. ToSet(p) \subseteq pathSafe \cup {percent, 91, 93}
    <3>1. \A i \in DOMAIN p : p[i] \in pathSafe \cup {percent}
      BY LenProperties, ElementOfSeq
    <3> QED  BY <3>1 DEF ToSet
  <2> QED  BY <2>1 DEF EscapedPath
<1>3. Split(p, slash) # <<>> /\ Join(Split(p, slash)) = p
  BY <1>1, SplitTyped, JoinSplit, Sets
<1>4. \A keep \in {0, 1} : WithoutDots(Split(p, slash), keep) = Split(p, slash)
  <2> DEFINE X == Seq(Byte)
             segs == Split(p, slash)
  <2>1. segs \in Seq(X \ Dots) /\ segs # <<>> /\ 0 \in Nat /\ 1 \in Nat
    BY <1>3
  <2> HIDE DEF X, segs
  <2> SUFFICES ASSUME NEW keep \in {0, 1} PROVE WithoutDots(segs, keep) = segs
    BY DEF segs
  <2>2. keep \in Nat
    OBVIOUS
  <2> QED  BY <2>1, <2>2, LeftSame
<1>5. Rooted(p) = p
  BY DEF Rooted
<1>6. resolvePath(p) = p /\ removeDotSegments(p) = p
  BY <1>3, <1>4, <1>5 DEF resolvePath, removeDotSegments
<1> QED  BY <1>1, <1>2, <1>6 DEF Path

-----------------------------------------------------------------------------
(* The normal form, and that it comes out the same.                        *)

InForm(u) ==
    /\ Accepted(u) /\ ~(Length(u) > MaxURLLength)
    /\ Neat(u.path) /\ Neat(u.query) /\ Split(u.path, slash) \in Seq(Seq(Byte) \ Dots)
    /\ u.port # Default[u.scheme] /\ (u.port # <<>> => u.port[1] # 0)
    /\ TrimZeros(u.port) = u.port /\ ~PortFails(u.port)
    /\ Last(u.host) # "." => normalizeHost(u.host) = u.host /\ ~HostFails(u.host)

LEMMA PortInForm ==
    ASSUME NEW scheme \in DOMAIN Default, NEW port \in Seq(0 .. 9), ~PortFails(port)
    PROVE  LET out == normalizePort(scheme, port)
           IN /\ out # Default[scheme] /\ (out # <<>> => out[1] # 0)
              /\ TrimZeros(out) = out /\ ~PortFails(out)
<1> DEFINE t == TrimZeros(port)
           d == Default[scheme]
<1>1. t \in Seq(0 .. 9) /\ (t # <<>> => t[1] # 0)
  BY TrimZerosIs
<1>2. TrimZeros(t) = t
  <2> HIDE DEF t
  <2> QED  BY <1>1, TrimZerosIs
<1>3. TrimZeros(<<>>) = <<>> /\ ~PortFails(<<>>)
  <2> DEFINE e == <<>>
  <2>1. e \in Seq(0 .. 9) /\ e = <<>>
    BY EmptySeq
  <2> HIDE DEF e
  <2>2. TrimZeros(e) = e
    BY <2>1, TrimZerosIs
  <2> QED  BY <2>1, <2>2 DEF PortFails
<1>4. d # <<>>
  <2>1. <<8, 0>> # <<>> /\ <<4, 4, 3>> # <<>>
    OBVIOUS
  <2>2. DOMAIN Default = {"http", "https"} /\ Default["http"] = <<8, 0>> /\ Default["https"] = <<4, 4, 3>>
    BY DEF Default
  <2> QED  BY <2>1, <2>2
<1>5. port = <<>> => t = <<>>
  BY TrimZerosIs
<1>6. ~PortFails(t)
  BY <1>2, <1>5 DEF PortFails
<1>7. normalizePort(scheme, port) = IF t = d THEN <<>> ELSE t
  BY DEF normalizePort
<1> HIDE DEF t, d
<1>8. CASE t = d
  BY <1>3, <1>4, <1>7, <1>8 DEF d
<1>9. CASE t # d
  BY <1>1, <1>2, <1>6, <1>7, <1>9 DEF d
<1> QED  BY <1>8, <1>9

LEMMA HostInForm ==
    ASSUME NEW host \in Seq(Labels), ~HostFails(host), Last(normalizeHost(host)) # "."
    PROVE  normalizeHost(normalizeHost(host)) = normalizeHost(host) /\ ~HostFails(normalizeHost(host))
<1> DEFINE t == TrimDot(host)
           n == normalizeHost(host)
<1>1. t \in Seq(Labels) /\ n \in Seq(Labels) /\ Len(n) = Len(t) /\ t # <<>>
  BY HostTyped DEF HostFails
<1>2. ToSet(t) \subseteq ToSet(host)
  <2>1. CASE t = host
    BY <2>1
  <2>2. CASE t = Front(host) /\ host # <<>>
    <3>1. Front(host) \in Seq(Labels) /\ host = Append(Front(host), Last(host)) /\ Len(Front(host)) = Len(host) - 1
      BY <2>2, FrontAndLast
    <3>2. \A i \in 1 .. Len(t) : i \in 1 .. Len(host) /\ host[i] = t[i]
      <4> DEFINE f == Front(host)
                 c == Last(host)
      <4>1. f \in Seq(Labels) /\ Len(f) \in Nat /\ host = Append(f, c) /\ Len(host) = Len(f) + 1
        BY <3>1, LenProperties
      <4> HIDE DEF f, c
      <4>2. \A i \in 1 .. Len(f) : i \in 1 .. Len(host) /\ Append(f, c)[i] = f[i]
        BY <4>1, AppendProperties
      <4> QED  BY <2>2, <4>1, <4>2 DEF f
    <3> QED  BY <1>1, <3>2, LenProperties DEF ToSet
  <2> QED  BY <2>1, <2>2 DEF TrimDot
<1>3. Len(t) \in Nat /\ DOMAIN t = 1 .. Len(t) /\ DOMAIN n = 1 .. Len(t) /\ n = ToASCII(t)
  BY <1>1, LenProperties DEF normalizeHost
<1> HIDE DEF t
<1>4. \A i \in 1 .. Len(t) : n[i] = LowerCase(t[i])
  BY <1>3 DEF ToASCII
<1> HIDE DEF n
<1>5. n # <<>> /\ TrimDot(n) = n
  <2>1. n # <<>>
    BY <1>1, <1>3, EmptySeq
  <2> QED  BY <2>1 DEF TrimDot, n
<1>6. \A label : LowerCase(LowerCase(label)) = LowerCase(label)
  BY DEF LowerCase
<1>7. ToASCII(n) = n
  <2>1. \A i \in DOMAIN n : LowerCase(n[i]) = n[i]
    BY <1>3, <1>4, <1>6
  <2>2. ToASCII(n) = [i \in DOMAIN n |-> n[i]]
    BY <2>1 DEF ToASCII
  <2>3. n = [i \in DOMAIN n |-> n[i]]
    BY <1>1
  <2> QED  BY <2>2, <2>3
<1>8. "%" \notin ToSet(n) /\ "bad" \notin ToSet(n)
  <2>1. "%" \notin ToSet(t) /\ "bad" \notin ToSet(t)
    BY <1>2 DEF HostFails
  <2>2. \A label : (LowerCase(label) = "%" => label = "%") /\ (LowerCase(label) = "bad" => label = "bad")
    BY DEF LowerCase
  <2> QED  BY <1>3, <1>4, <2>1, <2>2 DEF ToSet
<1> QED  BY <1>5, <1>7, <1>8 DEF normalizeHost, HostFails, n

LEMMA NormalizeInForm ==
    ASSUME NEW u \in Reference, ~IsError(Normalize(u))
    PROVE  InForm(Normalize(u))
<1> DEFINE n == Normalize(u)
<1>1. /\ u.scheme \in DOMAIN Default /\ ~u.user /\ ~HostFails(u.host) /\ ~PortFails(u.port)
      /\ n = Normalized(u) /\ ~(Length(n) > MaxURLLength) /\ Accepted(n)
  BY NormalizeIs, NormalizeTyped
<1>2. u.host \in Seq(Labels) /\ u.port \in Seq(0 .. 9) /\ u.path \in Seq(Byte) /\ u.query \in Seq(Byte)
  BY DEF Reference
<1>3. /\ n.scheme = u.scheme /\ n.host = normalizeHost(u.host) /\ n.port = normalizePort(u.scheme, u.port)
      /\ n.path = IF u.path = <<>> THEN <<slash>> ELSE Path(u.path)
      /\ n.query = normalizePercent(u.query, querySafe)
  BY <1>1 DEF Normalized, Reference
<1> HIDE DEF n
<1>4. Neat(n.query)
  BY <1>2, <1>3, NormalIsNeat, NormalTextTyped
<1>5. Neat(n.path) /\ Split(n.path, slash) \in Seq(Seq(Byte) \ Dots)
  <2>1. CASE u.path # <<>>
    BY <1>2, <1>3, <2>1, PathInForm
  <2>2. CASE u.path = <<>>
    <3> DEFINE e == <<>>
               S == Seq(Byte) \ Dots
    <3>1. e \in S /\ e \in Seq(Byte) /\ e \in Seq(S) /\ slash \in Byte /\ slash \in Byte \ {percent}
      BY EmptySeq, Sets DEF Dots
    <3>2. <<slash>> = <<slash>> \o e
      OBVIOUS
    <3>3. Neat(<<slash>> \o e)
      BY <3>1, NeatByte, NeatEmpty
    <3>4. Split(<<slash>> \o e, slash) \in Seq(Seq(Byte)) /\ Split(<<slash>> \o e, slash) # <<>>
      <4>1. <<slash>> \o e \in Seq(Byte)
        <5> HIDE DEF e
        <5> QED  BY <3>1, Prefixed
      <4> HIDE DEF e
      <4> QED  BY <4>1, SplitTyped
    <3>5. Head(Split(<<slash>> \o e, slash)) = e /\ Tail(Split(<<slash>> \o e, slash)) = Split(e, slash)
      <4> HIDE DEF S
      <4>1. Head(Split(<<slash>> \o e, slash)) = <<>> /\ Tail(Split(<<slash>> \o e, slash)) = Split(e, slash)
        <5> HIDE DEF e
        <5> QED  BY <3>1, SplitAt
      <4> QED  BY <4>1
    <3>6. Split(e, slash) = <<e>>
      BY SplitEmpty
    <3> HIDE DEF e, S
    <3>7. Split(<<slash>> \o e, slash) = <<e>> \o <<e>>
      BY <3>4, <3>5, <3>6, HeadAndTail
    <3>8. <<e>> \o <<e>> \in Seq(S)
      <4>1. <<e>> \in Seq(S)
        BY <3>1, Single
      <4> QED  BY <3>1, <4>1, Prefixed
    <3> QED  BY <1>3, <2>2, <3>2, <3>3, <3>7, <3>8 DEF S
  <2> QED  BY <2>1, <2>2
<1>6. /\ n.port # Default[n.scheme] /\ (n.port # <<>> => n.port[1] # 0)
      /\ TrimZeros(n.port) = n.port /\ ~PortFails(n.port)
  BY <1>1, <1>2, <1>3, PortInForm
<1>7. Last(n.host) # "." => normalizeHost(n.host) = n.host /\ ~HostFails(n.host)
  BY <1>1, <1>2, <1>3, HostInForm
<1>8. InForm(n)
  BY <1>1, <1>4, <1>5, <1>6, <1>7 DEF InForm
<1> QED  BY <1>8 DEF n

LEMMA NoControl ==
    ASSUME NEW u, Accepted(u)
    PROVE  ~ParseFails(u)
<1>1. pathSafe \cup {percent} \subseteq querySafe \cup {percent}
  BY Sets
<1>2. u.path \in Seq(querySafe \cup {percent}) /\ u.query \in Seq(querySafe \cup {percent})
  BY <1>1, SeqMonotonic DEF Accepted
<1>3. ToSet(u.path) \subseteq querySafe \cup {percent} /\ ToSet(u.query) \subseteq querySafe \cup {percent}
  BY <1>2, LenProperties, ElementOfSeq DEF ToSet
<1>4. (querySafe \cup {percent}) \cap (0 .. 31 \cup {127}) = {}
  BY DEF querySafe, pathSafe, isUnreserved, Digits, percent
<1> QED  BY <1>3, <1>4 DEF ParseFails

LEMMA FormStays ==
    ASSUME NEW u, InForm(u), Last(u.host) # "."
    PROVE  Parse(u) = u /\ Resolve(Base, u) = u
<1>1. /\ Accepted(u) /\ u \in Reference /\ u.scheme \in DOMAIN Default /\ ~u.user
      /\ u.path \in Seq(pathSafe \cup {percent}) /\ u.path # <<>> /\ u.path[1] = slash
      /\ u.query \in Seq(querySafe \cup {percent}) /\ u.port \in Seq(0 .. 9)
  BY DEF InForm, Accepted, Reference
<1>2. Path(u.path) = u.path /\ EscapedPath(u.path) = u.path /\ resolvePath(u.path) = u.path /\ escapeStrayPercent(u.path) = u.path
  BY <1>1, PathStays DEF InForm
<1>3. normalizePercent(u.query, querySafe) = u.query /\ escapeStrayPercent(u.query) = u.query
  BY <1>1, NeatStays DEF InForm
<1>4. normalizeHost(u.host) = u.host /\ ~HostFails(u.host) /\ ~PortFails(u.port) /\ ~(Length(u) > MaxURLLength)
  BY DEF InForm
<1>5. normalizePort(u.scheme, u.port) = u.port
  BY DEF InForm, normalizePort
<1>6. Clean(u) = u
  BY <1>1, <1>2, <1>3 DEF Clean, Reference
<1>7. ResolveReference(Base, Clean(u)) = u
  <2>1. u.scheme # ""
    BY <1>1 DEF Default
  <2>2. [u EXCEPT !.path = u.path] = u
    BY <1>1 DEF Reference
  <2> QED  BY <1>2, <1>6, <2>1, <2>2 DEF ResolveReference
<1>8. Normalized(u) = u
  BY <1>1, <1>2, <1>3, <1>4, <1>5 DEF Normalized, Reference
<1>9. Normalize(u) = u
  <2>1. Normalize(u) = IF Length(Normalized(u)) > MaxURLLength THEN Error("too long") ELSE Normalized(u)
    BY <1>1, <1>4 DEF Normalize, Normalized
  <2> QED  BY <1>4, <1>8, <2>1
<1> QED  BY <1>1, <1>4, <1>6, <1>7, <1>9, NoControl DEF Parse, Resolve, ResolveIn

FormInv == GuardInv /\ (~IsError(url) => InForm(url))

LEMMA ParseInForm ==
    ASSUME NEW r \in Reference, ~IsError(Parse(r))
    PROVE  InForm(Parse(r))
<1>1. Parse(r) = Normalize(Clean(r))
  BY ResolveInIs DEF Parse
<1> QED  BY <1>1, CleanTyped, NormalizeInForm

LEMMA ResolveInForm ==
    ASSUME NEW r \in Reference, ~IsError(Resolve(Base, r))
    PROVE  InForm(Resolve(Base, r))
<1>1. Resolve(Base, r) = Normalize(ResolveReference(Base, Clean(r)))
  BY ResolveInIs DEF Resolve
<1>2. Clean(r) \in Reference /\ Base \in Reference /\ Base.path # <<>> /\ Base.path[1] = slash
  BY CleanTyped, BaseIs DEF Accepted
<1> QED  BY <1>1, <1>2, ResolveReferenceTyped, NormalizeInForm

LEMMA FormInit == Init => FormInv
<1> SUFFICES ASSUME Init PROVE FormInv
  OBVIOUS
<1>1. url = Parse(Start)
  BY DEF Init
<1> QED  BY <1>1, GuardInit, StartIs, ParseInForm DEF FormInv

LEMMA FormNext == FormInv /\ [Next]_vars => FormInv'
<1> SUFFICES ASSUME FormInv, [Next]_vars PROVE FormInv'
  OBVIOUS
<1>1. GuardInv'
  BY GuardNext DEF FormInv
<1>2. CASE Next
  <2>1. links # <<>> /\ links \in Seq(Reference)
    BY <1>2 DEF Next, Link, Entry, Take, FormInv, GuardInv
  <2>2. Head(links) \in Reference
    BY <2>1, HeadAndTail
  <2>3. url' = Resolve(Base, Head(links)) \/ url' = Parse(Head(links))
    BY <1>2 DEF Next, Link, Entry, Follow
  <2>4. ~IsError(url') => InForm(url')
    BY <2>2, <2>3, ParseInForm, ResolveInForm
  <2> QED  BY <1>1, <2>4 DEF FormInv, InForm
<1>3. CASE UNCHANGED vars
  BY <1>1, <1>3 DEF vars, FormInv, InForm
<1> QED  BY <1>2, <1>3

LEMMA FormImplies == FormInv => NormalForm
<1> SUFFICES ASSUME FormInv, ~IsError(url)
             PROVE  /\ Neat(url.path) /\ Neat(url.query)
                    /\ ToSet(Split(url.path, slash)) \cap Dots = {}
                    /\ url.port # Default[url.scheme] /\ (url.port # <<>> => url.port[1] # 0)
                    /\ Last(url.host) # "." => Resolve(Base, url) = url /\ Parse(url) = url
  BY DEF NormalForm, Neat
<1>1. InForm(url)
  BY DEF FormInv
<1>2. ToSet(Split(url.path, slash)) \cap Dots = {}
  <2> DEFINE segs == Split(url.path, slash)
             S == Seq(Byte)
  <2>1. segs \in Seq(S \ Dots)
    BY <1>1 DEF InForm
  <2> HIDE DEF segs, S
  <2>2. \A i \in DOMAIN segs : segs[i] \in S \ Dots
    BY <2>1, LenProperties, ElementOfSeq
  <2> QED  BY <2>2 DEF ToSet, segs
<1> QED  BY <1>1, <1>2, FormStays DEF InForm

(* Normalize (urlnorm.go:4-8, 79): for any references, limits and base,    *)
(* what comes out has escapes only of bytes that need them, with capital   *)
(* digits, no segment of dots, no default port and no zero in front of     *)
(* one, and comes out the same when it goes in again, with a base or       *)
(* without, but for a host that still ends in a dot.                       *)
THEOREM NormalFormIsStable == Spec => []NormalForm
<1>1. Init => FormInv
  BY FormInit
<1>2. FormInv /\ [Next]_vars => FormInv'
  BY FormNext
<1>3. FormInv => NormalForm
  BY FormImplies
<1> QED  BY <1>1, <1>2, <1>3, PTL DEF Spec

-----------------------------------------------------------------------------
(* What escapes stand for. *)

Decoded == EachText(DecodeText)
Strayed == EachText(StrayText)

LEMMA DecodedIs ==
    /\ Decoded \in [Seq(Byte) -> Seq(Byte)] /\ Decoded[<<>>] = <<>>
    /\ \A s \in Seq(Byte) : Decoded[s] = Decode(s) /\ Decode(s) \in Seq(Byte)
<1>1. DecodeText \in [Unit -> Seq(Byte)] /\ \A s : Decode(s) = Each(s, DecodeText)
  BY DecodeTextTyped
<1>2. \A s \in Seq(Byte) : Decode(s) \in Seq(Byte)
  BY DecodeTyped
<1>3. <<>> \in Seq(Byte) /\ Each(<<>>, DecodeText) = <<>>
  BY <1>1, EachEmpty, EmptySeq
<1> QED  BY <1>1, <1>2, <1>3 DEF Decoded, EachText

LEMMA StrayedIs ==
    /\ Strayed \in [Seq(Byte) -> Seq(Byte)]
    /\ \A s \in Seq(Byte) : Strayed[s] = escapeStrayPercent(s) /\ escapeStrayPercent(s) \in Seq(Byte)
<1>1. \A s : escapeStrayPercent(s) = Each(s, StrayText)
  BY StrayTextTyped
<1>2. \A s \in Seq(Byte) : escapeStrayPercent(s) \in Seq(Byte)
  BY StrayTyped
<1> QED  BY <1>1, <1>2 DEF Strayed, EachText

(* What is put in for a unit stands for the same byte. *)
LEMMA SameValues ==
    ASSUME NEW f \in [Unit -> Unit \ {<<percent>>}], \A u \in Unit : Value(f[u]) = Value(u), NEW s \in Seq(Byte)
    PROVE  Decode(Each(s, f)) = Decode(s)
<1>1. DecodeText \in [Unit -> Seq(Byte)] /\ \A u \in Unit : DecodeText[u] = <<Value(u)>>
  BY DecodeTextTyped
<1>2. \A t : Decode(t) = Each(t, DecodeText)
  BY DecodeTextTyped
<1>3. Each(Each(s, f), DecodeText) = Each(s, [u \in Unit |-> DecodeText[f[u]]])
  <2> DEFINE g == DecodeText
             X == Byte
             F == [Unit -> Unit \ {<<percent>>}]
             G == [Unit -> Seq(X)]
             T == Seq(Byte)
  <2>1. g \in G /\ f \in F /\ s \in T
    BY <1>1
  <2>2. \A x \in F, y \in G, z \in T : Each(Each(z, x), y) = Each(z, [u \in Unit |-> y[x[u]]])
    BY EachOfEach
  <2> HIDE DEF F, G, T
  <2>3. Each(Each(s, f), g) = Each(s, [u \in Unit |-> g[f[u]]])
    <3> HIDE DEF g
    <3> QED  BY <2>1, <2>2
  <2> QED  BY <2>3
<1>4. [u \in Unit |-> DecodeText[f[u]]] = DecodeText
  <2>1. \A u \in Unit : DecodeText[f[u]] = DecodeText[u]
    BY <1>1
  <2> QED  BY <1>1, <2>1
<1> QED  BY <1>2, <1>3, <1>4

LEMMA ByteUnit ==
    ASSUME NEW c \in Byte
    PROVE  <<c>> \in Unit /\ <<c>> \notin Escapes /\ Value(<<c>>) = c
<1>1. Len(<<c>>) = 1 /\ <<c>>[1] = c
  OBVIOUS
<1>2. <<c>> \in Unit /\ <<c>> \notin Escapes
  BY <1>1, EscapeIs DEF Unit
<1> QED  BY <1>1, <1>2, ValueTyped

LEMMA NormalDecodes ==
    ASSUME NEW safe \in {pathSafe, querySafe}, NEW s \in Seq(Byte)
    PROVE  Decode(normalizePercent(s, safe)) = Decode(s)
<1>1. NormalText(safe) \in [Unit -> Unit \ {<<percent>>}] /\ normalizePercent(s, safe) = Each(s, NormalText(safe))
  BY NormalTextTyped
<1>2. \A u \in Unit : Value(NormalText(safe)[u]) = Value(u)
  <2> SUFFICES ASSUME NEW u \in Unit PROVE Value(NormalText(safe)[u]) = Value(u)
    OBVIOUS
  <2>1. NormalText(safe)[u] = <<Value(u)>> \/ NormalText(safe)[u] = Encode(Value(u))
    BY NormalTextTyped
  <2>2. Value(u) \in Byte
    BY ValueTyped
  <2> QED  BY <2>1, <2>2, ByteUnit, EncodeIs
<1> QED  BY <1>1, <1>2, SameValues

LEMMA StrayDecodes ==
    ASSUME NEW s \in Seq(Byte)
    PROVE  Decode(escapeStrayPercent(s)) = Decode(s)
<1>1. StrayText \in [Unit -> Unit \ {<<percent>>}] /\ escapeStrayPercent(s) = Each(s, StrayText)
  BY StrayTextTyped
<1>2. \A u \in Unit : Value(StrayText[u]) = Value(u)
  <2> SUFFICES ASSUME NEW u \in Unit PROVE Value(StrayText[u]) = Value(u)
    OBVIOUS
  <2>1. StrayText[u] = IF u = <<percent>> THEN Encode(percent) ELSE u
    BY StrayTextTyped
  <2>2. percent \in Byte
    BY Sets
  <2> QED  BY <2>1, <2>2, ByteUnit, EncodeIs
<1> QED  BY <1>1, <1>2, SameValues

(* Text without "%" stands for itself. *)
LEMMA PlainStays ==
    ASSUME NEW f \in [Unit -> Seq(Byte)], \A c \in Byte \ {percent} : f[<<c>>] = <<c>>, NEW s \in Seq(Byte \ {percent})
    PROVE  Each(s, f) = s /\ s \in Seq(Byte)
<1> DEFINE T == {t \in Seq(Byte) : Each(t, f) = t}
           S == Byte \ {percent}
<1>1. <<>> \in T
  BY EachEmpty, EmptySeq
<1>2. ASSUME NEW c \in S, NEW t \in Seq(S), t \in T PROVE <<c>> \o t \in T
  <2>1. c \in Byte /\ <<c>> \in Unit /\ <<c>> # <<percent>> /\ t \in Seq(Byte) /\ Each(t, f) = t
    <3>1. c \in Byte /\ c # percent
      OBVIOUS
    <3>2. <<c>> # <<percent>>
      BY <3>1
    <3> QED  BY <1>2, <3>1, <3>2, ByteUnit
  <2>2. Begins(<<c>>, t)
    BY <2>1, BeginsIs
  <2>3. Each(<<c>> \o t, f) = f[<<c>>] \o Each(t, f)
    BY <2>1, <2>2, EachUnit
  <2>4. <<c>> \o t \in Seq(Byte)
    BY <2>1, Prefixed
  <2>5. f[<<c>>] = <<c>>
    OBVIOUS
  <2> QED  BY <2>1, <2>3, <2>4, <2>5
<1>3. Seq(S) \subseteq T
  <2> HIDE DEF T, S
  <2> QED  BY <1>1, <1>2, ByHead
<1> QED  BY <1>3

LEMMA DotsStay ==
    /\ \A s \in Dots : s \in Seq(isUnreserved) /\ s \in Seq(Byte) /\ Decode(s) = s /\ escapeStrayPercent(s) = s
<1>1. dot \in isUnreserved /\ dot \in Byte \ {percent}
  BY Sets
<1>2. \A s \in Dots : s \in Seq(isUnreserved) /\ s \in Seq(Byte \ {percent})
  <2>1. \A S : dot \in S => <<dot>> \in Seq(S) /\ <<dot, dot>> \in Seq(S)
    OBVIOUS
  <2> QED  BY <1>1, <2>1 DEF Dots
<1>3. DecodeText \in [Unit -> Seq(Byte)] /\ \A c \in Byte \ {percent} : DecodeText[<<c>>] = <<c>>
  <2>1. \A c \in Byte : <<c>> \in Unit /\ Value(<<c>>) = c
    BY ByteUnit
  <2> QED  BY <2>1, DecodeTextTyped
<1>4. StrayText \in [Unit -> Seq(Byte)] /\ \A c \in Byte \ {percent} : StrayText[<<c>>] = <<c>>
  <2>1. \A c \in Byte : <<c>> \in Unit
    BY ByteUnit
  <2>2. \A c \in Byte \ {percent} : <<c>> # <<percent>>
    OBVIOUS
  <2> QED  BY <2>1, <2>2, StrayTextTyped, UnitTexts
<1>5. \A s : Decode(s) = Each(s, DecodeText) /\ escapeStrayPercent(s) = Each(s, StrayText)
  BY DecodeTextTyped, StrayTextTyped
<1> QED  BY <1>2, <1>3, <1>4, <1>5, PlainStays

(* Neat text that stands for bytes that need no escape has none. *)
LEMMA NeatUnreserved ==
    ASSUME NEW s \in Seq(Byte), Neat(s), Decode(s) \in Seq(isUnreserved)
    PROVE  Decode(s) = s
<1> DEFINE T == {t \in Seq(Byte) : Neat(t) /\ Decode(t) \in Seq(isUnreserved) => Decode(t) = t}
<1>1. <<>> \in T
  BY DecodedIs, EmptySeq
<1>2. ASSUME NEW u \in Unit, NEW t \in Seq(Byte), Begins(u, t), t \in T PROVE u \o t \in T
  <2> DEFINE d == Decode(t)
             c == Value(u)
  <2>1. u \o t \in Seq(Byte)
    BY UnitIs, ConcatProperties
  <2>2. Decode(u \o t) = <<c>> \o d /\ d \in Seq(Byte) /\ c \in Byte
    <3>1. DecodeText \in [Unit -> Seq(Byte)] /\ DecodeText[u] = <<Value(u)>> /\ \A r : Decode(r) = Each(r, DecodeText)
      BY DecodeTextTyped
    <3>2. Each(u \o t, DecodeText) = DecodeText[u] \o Each(t, DecodeText)
      <4> HIDE DEF T
      <4> QED  BY <1>2, <3>1, EachUnit
    <3> QED  BY <3>1, <3>2, DecodeTyped, ValueTyped
  <2>3. ASSUME Neat(u \o t), <<c>> \o d \in Seq(isUnreserved) PROVE <<c>> \o d = u \o t
    <3>1. NeatUnit(u) /\ Neat(t)
      BY <1>2, <2>3, NeatIs
    <3> HIDE DEF c, d
    <3>2. <<c>> \o d # <<>> /\ Head(<<c>> \o d) = c /\ Tail(<<c>> \o d) = d
      BY <2>2, Prefixed
    <3>3. c \in isUnreserved /\ d \in Seq(isUnreserved)
      BY <2>3, <3>2, HeadAndTail
    <3>4. d = t
      BY <1>2, <3>1, <3>3 DEF d
    <3>5. u = <<c>>
      <4>1. u \notin Escapes
        BY <3>1, <3>3 DEF NeatUnit, c
      <4> QED  BY <4>1, UnitIs, ValueTyped DEF c
    <3> QED  BY <3>4, <3>5
  <2> QED  BY <2>1, <2>2, <2>3
<1>3. Seq(Byte) \subseteq T
  <2> HIDE DEF T
  <2> QED  BY <1>1, <1>2, ByUnit
<1> QED  BY <1>3

(* Segments whose dots are not escaped. *)
Open == {s \in Seq(Byte \ {slash}) : Decode(s) \in Dots => s \in Dots}

LEMMA OpenIs ==
    /\ Open \subseteq Seq(Byte) /\ <<>> \in Open /\ Segment \subseteq Open /\ TellsDots(Decoded, Open)
<1>1. Open \subseteq Seq(Byte) /\ Segment \subseteq Seq(Byte)
  BY SeqMonotonic, SegmentIs DEF Open
<1>2. <<>> \in Open
  <2>1. <<>> \notin Dots /\ Decode(<<>>) = <<>>
    BY DecodedIs, EmptySeq DEF Dots
  <2> QED  BY <2>1, EmptySeq DEF Open
<1>3. Segment \subseteq Open
  <2> SUFFICES ASSUME NEW s \in Segment, Decode(s) \in Dots PROVE s \in Dots
    BY DEF Open, Segment
  <2> QED  BY <1>1, NeatUnreserved, DotsStay, SegmentIs
<1>4. ASSUME NEW s \in Open PROVE (Decoded[s] = <<dot>> <=> s = <<dot>>) /\ (Decoded[s] = <<dot, dot>> <=> s = <<dot, dot>>)
  <2>1. Decoded[s] = Decode(s) /\ (Decode(s) \in Dots => s \in Dots)
    BY <1>1, DecodedIs DEF Open
  <2>2. s \in Dots => Decode(s) = s
    BY DotsStay
  <2>3. <<dot>> \in Dots /\ <<dot, dot>> \in Dots
    BY DEF Dots
  <2> QED  BY <2>1, <2>2, <2>3
<1> QED  BY <1>1, <1>2, <1>3, <1>4 DEF TellsDots

-----------------------------------------------------------------------------
(* Paths that begin with a slash, and the segments that they name.         *)

LEMMA MappedTwice ==
    ASSUME NEW A, NEW segs \in Seq(A), NEW m, NEW n, NEW k, \A a \in A : m[n[a]] = k[a]
    PROVE  Mapped(Mapped(segs, n), m) = Mapped(segs, k)
<1>1. \A i \in DOMAIN segs : segs[i] \in A
  BY LenProperties, ElementOfSeq
<1> QED  BY <1>1 DEF Mapped

LEMMA MappedInto ==
    ASSUME NEW A, NEW B, NEW segs \in Seq(A), NEW m, \A a \in A : m[a] \in B
    PROVE  Mapped(segs, m) \in Seq(B)
<1>1. Len(segs) \in Nat /\ DOMAIN segs = 1 .. Len(segs) /\ \A i \in 1 .. Len(segs) : segs[i] \in A
  BY LenProperties, ElementOfSeq
<1>2. Mapped(segs, m) \in [1 .. Len(segs) -> B]
  BY <1>1 DEF Mapped
<1> QED  BY <1>1, <1>2, FunctionIsSeq

(* The segment after the last slash stays, whatever dots take of the rest. *)
Kernel(L, y, segs) ==
    /\ WithoutDots(segs, 1) = <<<<>>>> \o Append(L, y)
    /\ WithoutDots(segs, 0) = Append(L, y) \/ WithoutDots(segs, 0) = <<<<>>>> \o Append(L, y)

LEMMA KernelExists ==
    ASSUME NEW S, NEW mid \in Seq(S), NEW z, z \in Dots => z \in S
    PROVE  \E L \in Seq(S), y \in {z, <<>>} : Kernel(L, y, <<<<>>>> \o Append(mid, z))
<1> DEFINE e == <<>>
           X == S \cup {z, e}
           front == <<e>> \o mid
           segs == <<e>> \o Append(mid, z)
<1>1. S \subseteq X /\ z \in X /\ e \in X /\ 0 \in Nat /\ 1 \in Nat
  OBVIOUS
<1>2. mid \in Seq(X)
  <2> HIDE DEF X
  <2> QED  BY <1>1, SeqMonotonic
<1>3. front \in Seq(X) /\ segs = Append(front, z)
  <2> HIDE DEF X, e
  <2> QED  BY <1>1, <1>2, Prefixed, PrefixedAppend
<1>4. Last(segs) = z /\ segs \in Seq(X)
  <2> HIDE DEF X, e, front, segs
  <2> QED  BY <1>1, <1>3, FrontOfAppend
<1>5. CASE z \in Dots
  <2>1. Append(mid, z) \in Seq(S)
    BY <1>5, AppendProperties
  <2>2. PICK L \in Seq(S) : FromRoot(L, Append(mid, z))
    BY <2>1, LeftFromRoot
  <2>3. Left(segs, 1) = <<e>> \o L /\ (Left(segs, 0) = L \/ Left(segs, 0) = <<e>> \o L)
    BY <2>2 DEF FromRoot
  <2>4. L \in Seq(X)
    <3> HIDE DEF X
    <3> QED  BY <1>1, SeqMonotonic
  <2>5. \A keep : WithoutDots(segs, keep) = Append(Left(segs, keep), e)
    <3> HIDE DEF segs
    <3> QED  BY <1>4, <1>5, WithoutDotsIs DEF e
  <2>6. <<e>> \o Append(L, e) = Append(<<e>> \o L, e)
    <3> HIDE DEF X, e
    <3> QED  BY <1>1, <2>4, PrefixedAppend
  <2>7. Kernel(L, e, segs)
    <3> HIDE DEF segs
    <3> QED  BY <2>3, <2>5, <2>6 DEF Kernel
  <2> QED  BY <2>7
<1>6. CASE z \notin Dots
  <2>1. PICK L \in Seq(S) : FromRoot(L, mid)
    BY LeftFromRoot
  <2>2. Left(front, 1) = <<e>> \o L /\ (Left(front, 0) = L \/ Left(front, 0) = <<e>> \o L)
    BY <2>1 DEF FromRoot
  <2>3. L \in Seq(X)
    <3> HIDE DEF X
    <3> QED  BY <1>1, SeqMonotonic
  <2>4. z # <<dot>> /\ z # <<dot, dot>>
    BY <1>6 DEF Dots
  <2>5. \A keep \in {0, 1} : WithoutDots(segs, keep) = Append(Left(front, keep), z)
    <3> HIDE DEF segs, front, X
    <3> SUFFICES ASSUME NEW keep \in {0, 1} PROVE WithoutDots(segs, keep) = Append(Left(front, keep), z)
      OBVIOUS
    <3>1. keep \in Nat
      OBVIOUS
    <3>2. Left(Append(front, z), keep) = Append(Left(front, keep), z)
      BY <1>1, <1>3, <2>4, <3>1, LeftAppend
    <3>3. WithoutDots(segs, keep) = Left(segs, keep)
      BY <1>4, <1>6, WithoutDotsIs
    <3> QED  BY <1>3, <3>2, <3>3
  <2>6. <<e>> \o Append(L, z) = Append(<<e>> \o L, z)
    <3> HIDE DEF X, e
    <3> QED  BY <1>1, <2>3, PrefixedAppend
  <2>7. Kernel(L, z, segs)
    <3> HIDE DEF segs, front
    <3> QED  BY <2>2, <2>5, <2>6 DEF Kernel
  <2> QED  BY <2>7
<1> QED  BY <1>5, <1>6

(* A path is the slash in front and what comes after it. *)
LEMMA SlashFirst ==
    ASSUME NEW S, slash \in S, NEW p \in Seq(S), p # <<>>, p[1] = slash
    PROVE  \E r \in Seq(S) : p = <<slash>> \o r
<1>1. Head(p) = slash /\ Tail(p) \in Seq(S) /\ p = <<Head(p)>> \o Tail(p)
  BY HeadAndTail
<1> QED  BY <1>1

LEMMA SplitPath ==
    ASSUME NEW p \in Seq(Byte), p # <<>>, p[1] = slash
    PROVE  /\ Split(p, slash) \in Seq(Seq(Byte \ {slash})) /\ Split(p, slash) # <<>> /\ Head(Split(p, slash)) = <<>>
           /\ Tail(Split(p, slash)) \in Seq(Seq(Byte \ {slash})) /\ Tail(Split(p, slash)) # <<>>
<1>1. slash \in Byte
  BY Sets
<1>2. PICK r \in Seq(Byte) : p = <<slash>> \o r
  BY <1>1, SlashFirst
<1>3. Head(Split(<<slash>> \o r, slash)) = <<>> /\ Tail(Split(<<slash>> \o r, slash)) = Split(r, slash)
  BY <1>1, SplitAt
<1>4. Split(p, slash) \in Seq(Seq(Byte \ {slash})) \ {<<>>} /\ Split(r, slash) \in Seq(Seq(Byte \ {slash})) \ {<<>>}
  BY SplitParts
<1> QED  BY <1>2, <1>3, <1>4

(* Segments of a path: the one before the slash, those between and the last. *)
Sectioned(segs, mid, z) ==
    /\ segs = <<<<>>>> \o Append(mid, z) /\ Len(segs) = Len(mid) + 2
    /\ \A i \in 1 .. Len(mid) : segs[i + 1] = mid[i]

LEMMA Sections ==
    ASSUME NEW A, NEW segs \in Seq(A), segs # <<>>, Head(segs) = <<>>, Tail(segs) # <<>>
    PROVE  \E mid \in Seq(A), z \in A : Sectioned(segs, mid, z)
<1> DEFINE e == Head(segs)
           t == Tail(segs)
           mid == Front(t)
           z == Last(t)
<1>1. t \in Seq(A) /\ segs = <<e>> \o t /\ Len(t) = Len(segs) - 1 /\ Len(segs) \in Nat /\ e = <<>> /\ e \in A /\ t # <<>>
  BY HeadAndTail
<1> HIDE DEF e, t
<1>2. mid \in Seq(A) /\ z \in A /\ t = Append(mid, z) /\ Len(mid) = Len(t) - 1
  BY <1>1, FrontAndLast
<1> HIDE DEF mid, z
<1>3. segs = <<<<>>>> \o Append(mid, z) /\ Len(segs) = Len(mid) + 2
  BY <1>1, <1>2
<1>4. \A i \in 1 .. Len(t) : (<<e>> \o t)[i + 1] = t[i]
  BY <1>1, Prefixed
<1>5. \A i \in 1 .. Len(mid) : i \in 1 .. Len(t) /\ Append(mid, z)[i] = mid[i]
  BY <1>1, <1>2, AppendProperties
<1>6. \A i \in 1 .. Len(mid) : segs[i + 1] = mid[i]
  BY <1>1, <1>2, <1>4, <1>5
<1> QED  BY <1>2, <1>3, <1>6 DEF Sectioned

\* The segments that a path names.
Meaning(p) == WithoutDots(Mapped(Split(p, slash), Decoded), 1)

LEMMA OpenMapped ==
    ASSUME NEW segs \in Seq(Open), segs # <<>>
    PROVE  WithoutDots(Mapped(segs, Decoded), 1) = Mapped(WithoutDots(segs, 1), Decoded)
<1> DEFINE m == [s \in Open |-> Decoded[s]]
           A == Open
           X == Seq(Byte)
           w == WithoutDots(segs, 1)
<1>1. Decoded \in [X -> X] /\ Decoded[<<>>] = <<>> /\ A \subseteq X /\ <<>> \in A /\ TellsDots(Decoded, A)
  BY DecodedIs, OpenIs
<1>2. m \in [A -> X] /\ m[<<>>] = <<>> /\ TellsDots(m, A)
  <2> HIDE DEF X
  <2> QED  BY <1>1 DEF TellsDots
<1>3. \A t \in Seq(A) : Mapped(t, m) = Mapped(t, Decoded)
  <2> SUFFICES ASSUME NEW t \in Seq(A) PROVE Mapped(t, m) = Mapped(t, Decoded)
    OBVIOUS
  <2>1. \A i \in DOMAIN t : t[i] \in A
    BY LenProperties, ElementOfSeq
  <2> QED  BY <2>1 DEF Mapped
<1> HIDE DEF m, A, X
<1>4. WithoutDots(Mapped(segs, m), 1) = Mapped(w, m)
  <2>1. segs \in Seq(A) /\ 1 \in Nat
    BY DEF A
  <2> QED  BY <1>1, <1>2, <2>1, WithoutDotsMapped
<1>5. segs \in Seq(A) /\ w \in Seq(A)
  <2>1. segs \in Seq(A) /\ 1 \in Nat
    BY DEF A
  <2> QED  BY <1>1, <2>1, WithoutDotsTyped
<1> HIDE DEF w
<1>6. Mapped(segs, m) = Mapped(segs, Decoded) /\ Mapped(w, m) = Mapped(w, Decoded)
  BY <1>3, <1>5
<1> QED  BY <1>4, <1>6 DEF w

(* A first segment that is empty is the slash in front of the others. *)
LEMMA JoinRoot ==
    ASSUME NEW segs \in Seq(Seq(Byte)), segs # <<>>
    PROVE  /\ Join(<<<<>>>> \o segs) = <<slash>> \o Join(segs) /\ Join(segs) \in Seq(Byte)
           /\ Join(segs) = Head(segs) \o Slashed(Tail(segs))
<1> DEFINE h == Head(segs)
           t == Tail(segs)
           e == <<>>
           g == h \o Slashed(t)
           X == Seq(Byte)
<1>1. h \in X /\ t \in Seq(X) /\ segs = <<h>> \o t /\ e \in X /\ slash \in Byte
  BY HeadAndTail, EmptySeq, Sets
<1> HIDE DEF h, t, e
<1>2. Join(<<h>> \o t) = g /\ Slashed(<<h>> \o t) = <<slash>> \o g
  BY <1>1, SlashedPrefixed DEF X
<1>3. Join(<<e>> \o segs) = e \o Slashed(segs)
  BY <1>1, SlashedPrefixed DEF X
<1>4. Slashed(t) \in Seq(Byte)
  BY <1>1, SlashedIs
<1>5. g \in Seq(Byte)
  BY <1>1, <1>4, ConcatProperties
<1> HIDE DEF g
<1>6. <<slash>> \o g \in Seq(Byte)
  BY <1>1, <1>5, Prefixed
<1>7. e \o (<<slash>> \o g) = <<slash>> \o g
  BY <1>6, ConcatEmpty DEF e
<1>8. Join(<<e>> \o segs) = <<slash>> \o g /\ Join(segs) = g
  BY <1>1, <1>2, <1>3, <1>7
<1> QED  BY <1>5, <1>8 DEF e, g, h, t

LEMMA JoinMeaning ==
    ASSUME NEW segs \in Seq(Open), segs # <<>>, Head(segs) = <<>>, Tail(segs) # <<>>
    PROVE  /\ Rooted(Join(WithoutDots(segs, 1))) = Join(WithoutDots(segs, 1))
           /\ Meaning(Join(WithoutDots(segs, 1))) = WithoutDots(Mapped(segs, Decoded), 1)
<1> DEFINE w == WithoutDots(segs, 1)
<1>1. /\ Open \subseteq Seq(Byte) /\ <<>> \in Open /\ Open \subseteq Seq(Byte \ {slash})
      /\ 1 \in Nat /\ slash \in Byte
  BY OpenIs, Sets DEF Open
<1>2. \E L \in Seq(Open), y \in Open : w = <<<<>>>> \o Append(L, y)
  <2>1. PICK mid \in Seq(Open), z \in Open : Sectioned(segs, mid, z)
    BY Sections
  <2>2. PICK L \in Seq(Open), y \in {z, <<>>} : Kernel(L, y, <<<<>>>> \o Append(mid, z))
    BY KernelExists
  <2>3. y \in Open
    BY <1>1
  <2> QED  BY <2>1, <2>2, <2>3 DEF Kernel, Sectioned
<1>3. PICK L \in Seq(Open), y \in Open : w = <<<<>>>> \o Append(L, y)
  BY <1>2
<1> DEFINE V == Append(L, y)
<1>4. V \in Seq(Open) /\ V # <<>> /\ V \in Seq(Seq(Byte))
  <2>1. V \in Seq(Open) /\ V # <<>>
    BY FrontOfAppend
  <2> HIDE DEF V
  <2> QED  BY <1>1, <2>1, SeqMonotonic
<1>5. w = <<<<>>>> \o V
  BY <1>3
<1> HIDE DEF V
<1>6. Join(w) = <<slash>> \o Join(V) /\ Join(V) \in Seq(Byte)
  BY <1>4, <1>5, JoinRoot
<1>7. Rooted(Join(w)) = Join(w)
  <2>1. \A s \in Seq(Byte) : <<slash>> \o s # <<>> /\ (<<slash>> \o s)[1] = slash
    BY <1>1, Prefixed
  <2> QED  BY <1>6, <2>1 DEF Rooted
<1>8. w \in Seq(Open \ Dots) /\ w # <<>>
  BY <1>1, WithoutDotsDotless
<1> DEFINE d == WithoutDots(Mapped(segs, Decoded), 1)
<1>9. d = Mapped(w, Decoded)
  BY OpenMapped
<1> HIDE DEF w, d
<1>10. w \in Seq(Open) /\ w \in Seq(Seq(Byte \ {slash}))
  <2>1. Open \ Dots \subseteq Open /\ Open \ Dots \subseteq Seq(Byte \ {slash})
    BY <1>1
  <2> QED  BY <1>8, <2>1, SeqMonotonic
<1>11. Split(Join(w), slash) = w
  BY <1>1, <1>8, <1>10, SplitJoin
<1>12. WithoutDots(w, 1) = w
  BY <1>1, <1>8, LeftSame
<1>13. Meaning(Join(w)) = Mapped(w, Decoded)
  BY <1>8, <1>10, <1>11, <1>12, OpenMapped DEF Meaning
<1> QED  BY <1>7, <1>9, <1>13 DEF w, d

LEMMA EscapedSame ==
    ASSUME NEW p \in Seq(pathSafe \cup {percent})
    PROVE  EscapedPath(p) = p /\ p \in Seq(Byte)
<1>1. \A i \in DOMAIN p : p[i] \in pathSafe \cup {percent}
  BY LenProperties, ElementOfSeq
<1>2. ToSet(p) \subseteq pathSafe \cup {percent, 91, 93}
  BY <1>1 DEF ToSet
<1>3. pathSafe \cup {percent} \subseteq Byte
  BY Sets
<1> QED  BY <1>2, <1>3, SeqMonotonic DEF EscapedPath

LEMMA PathMeaning ==
    ASSUME NEW q \in Seq(pathSafe \cup {percent}), q # <<>>, q[1] = slash
    PROVE  Meaning(Path(q)) = Meaning(q)
<1> DEFINE x == normalizePercent(q, pathSafe)
           n == EachText(NormalText(pathSafe))
           parts == Split(q, slash)
           segs == Split(x, slash)
           X == Seq(Byte)
<1>1. EscapedPath(q) = q /\ q \in Seq(Byte)
  BY EscapedSame
<1>2. /\ n \in [X -> X] /\ segs = Mapped(parts, n) /\ x \in X /\ x # <<>>
      /\ segs \in Seq(Segment) /\ segs # <<>>
  BY <1>1, NormalSplits, NormalSegments, NormalTyped
<1>3. parts \in Seq(X) /\ parts # <<>> /\ Head(parts) = <<>> /\ Tail(parts) \in Seq(X) /\ Tail(parts) # <<>>
  <2>1. Seq(Byte \ {slash}) \subseteq X
    BY SeqMonotonic
  <2>2. /\ parts \in Seq(Seq(Byte \ {slash})) /\ parts # <<>> /\ Head(parts) = <<>>
        /\ Tail(parts) \in Seq(Seq(Byte \ {slash})) /\ Tail(parts) # <<>>
    BY <1>1, SplitPath
  <2> HIDE DEF parts, X
  <2> QED  BY <2>1, <2>2, SeqMonotonic
<1>4. n[<<>>] = <<>>
  <2>1. NormalText(pathSafe) \in [Unit -> Seq(Byte)]
    BY NormalTextTyped, UnitTexts
  <2> QED  BY <2>1, EachEmpty, EmptySeq DEF EachText
<1>5. \A a \in X : Decoded[n[a]] = Decoded[a]
  <2> SUFFICES ASSUME NEW a \in X PROVE Decoded[n[a]] = Decoded[a]
    OBVIOUS
  <2>1. n[a] = normalizePercent(a, pathSafe)
    BY NormalTextTyped DEF EachText
  <2>2. normalizePercent(a, pathSafe) \in Seq(Byte) /\ Decode(normalizePercent(a, pathSafe)) = Decode(a)
    BY NormalTyped, NormalDecodes
  <2> QED  BY <2>1, <2>2, DecodedIs
<1>6. Path(q) = Rooted(Join(WithoutDots(segs, 1)))
  BY <1>1, <1>2 DEF Path, removeDotSegments
<1>7. Meaning(q) = WithoutDots(Mapped(parts, Decoded), 1)
  BY DEF Meaning
<1> HIDE DEF x, n, parts, segs, X
<1>8. Mapped(segs, Decoded) = Mapped(parts, Decoded)
  BY <1>2, <1>3, <1>5, MappedTwice
<1>9. Head(segs) = <<>> /\ Tail(segs) # <<>>
  <2>1. MapsParts(parts, n, X)
    BY <1>2, <1>3, MappedHead
  <2> DEFINE t == Tail(parts)
  <2>2. t \in Seq(X) /\ t # <<>>
    BY <1>3
  <2> HIDE DEF t
  <2>3. MapsParts(t, n, X)
    BY <1>2, <2>2, MappedHead
  <2> QED  BY <1>2, <1>3, <1>4, <2>1, <2>3 DEF MapsParts, t
<1>10. segs \in Seq(Open)
  BY <1>2, OpenIs, SeqMonotonic
<1> QED  BY <1>2, <1>6, <1>7, <1>8, <1>9, <1>10, JoinMeaning

(* Where no segment but the last is empty, ".." that takes the slash in    *)
(* front takes nothing that is not put back.                               *)
LEMMA RootRestored ==
    ASSUME NEW L \in Seq(Open \ {<<>>}), NEW y \in Open
    PROVE  Rooted(Join(Append(L, y))) = Join(<<<<>>>> \o Append(L, y))
<1> DEFINE V == Append(L, y)
<1>1. Open \subseteq Seq(Byte) /\ Open \subseteq Seq(Byte \ {slash}) /\ Open \ {<<>>} \subseteq Open
  BY OpenIs DEF Open
<1>2. L \in Seq(Open)
  BY <1>1, SeqMonotonic
<1>3. V \in Seq(Open) /\ V # <<>>
  BY <1>2, FrontOfAppend
<1>4. Head(V) # <<>> \/ Tail(V) = <<>>
  <2>1. CASE L = <<>>
    <3>1. V = <<y>>
      BY <2>1
    <3> QED  BY <3>1
  <2>2. CASE L # <<>>
    <3>1. Head(L) \in Open \ {<<>>} /\ Len(L) \in Nat \ {0}
      BY <2>2, HeadAndTail
    <3>2. L[1] = Head(L) /\ V[1] = L[1] /\ Head(V) = V[1]
      BY <1>2, <2>2, <3>1
    <3> QED  BY <3>1, <3>2
  <2> QED  BY <2>1, <2>2
<1> HIDE DEF V
<1>5. V \in Seq(Seq(Byte)) /\ Head(V) \in Open /\ Tail(V) \in Seq(Seq(Byte))
  BY <1>1, <1>3, SeqMonotonic, HeadAndTail
<1> DEFINE h == Head(V)
           r == Slashed(Tail(V))
<1>6. Join(<<<<>>>> \o V) = <<slash>> \o Join(V) /\ Join(V) = h \o r
  BY <1>3, <1>5, JoinRoot
<1>7. r \in Seq(Byte) /\ h \in Seq(Byte) /\ h \in Seq(Byte \ {slash}) /\ (Tail(V) = <<>> => r = <<>>)
  BY <1>1, <1>5, SlashedIs, SlashedEmpty, Sets
<1>8. h \o r = <<>> \/ (h \o r)[1] # slash
  <2> HIDE DEF h, r
  <2>1. CASE h = <<>>
    <3>1. r = <<>>
      BY <1>4, <1>7, <2>1 DEF h
    <3> QED  BY <2>1, <3>1
  <2>2. CASE h # <<>>
    <3>1. Head(h) \in Byte \ {slash} /\ Len(h) \in Nat \ {0}
      BY <1>7, <2>2, HeadAndTail
    <3>2. h[1] = Head(h)
      BY <1>7, <2>2
    <3>3. (h \o r)[1] = h[1]
      BY <1>7, <3>1, ConcatProperties
    <3> QED  BY <3>1, <3>2, <3>3
  <2> QED  BY <2>1, <2>2
<1>9. Rooted(Join(V)) = <<slash>> \o Join(V)
  <2> HIDE DEF h, r
  <2> QED  BY <1>6, <1>8 DEF Rooted
<1> QED  BY <1>6, <1>9 DEF V

LEMMA ResolveMeaning ==
    ASSUME NEW q \in Seq(pathSafe \cup {percent}), q # <<>>, q[1] = slash, Split(q, slash) \in Seq(Open),
           <<dot, dot>> \in ToSet(Split(q, slash)) => \A i \in 2 .. Len(Split(q, slash)) - 1 : Split(q, slash)[i] # <<>>
    PROVE  /\ resolvePath(q) \in Seq(pathSafe \cup {percent}) /\ resolvePath(q) # <<>> /\ resolvePath(q)[1] = slash
           /\ Meaning(resolvePath(q)) = Meaning(q)
<1> DEFINE segs == Split(q, slash)
           w == WithoutDots(segs, 0)
           p == Join(WithoutDots(segs, 1))
<1>1. q \in Seq(Byte) /\ slash \in pathSafe \cup {percent} /\ 0 \in Nat
  BY EscapedSame, Sets
<1>2. resolvePath(q) = Rooted(Join(w))
  BY DEF resolvePath
<1>3. /\ resolvePath(q) \in Seq(pathSafe \cup {percent}) /\ resolvePath(q) # <<>> /\ resolvePath(q)[1] = slash
  <2> DEFINE S == pathSafe \cup {percent}
  <2>1. slash \in S /\ q \in Seq(S)
    BY <1>1
  <2> HIDE DEF S
  <2> DEFINE out == Rooted(Join(WithoutDots(Split(q, slash), 0)))
  <2>2. out \in Seq(S) /\ out # <<>> /\ out[1] = slash
    BY <1>1, <2>1, WithoutDotsInPath
  <2> QED  BY <1>2, <2>2 DEF S
<1>4. segs \in Seq(Open) /\ segs # <<>> /\ Head(segs) = <<>> /\ Tail(segs) # <<>>
  BY <1>1, SplitPath
<1>5. Meaning(q) = WithoutDots(Mapped(segs, Decoded), 1)
  BY DEF Meaning
<1>6. \A i \in DOMAIN segs : segs[i] \in Open
  <2> HIDE DEF segs
  <2> QED  BY <1>4, LenProperties, ElementOfSeq
<1>7. <<dot, dot>> \in ToSet(segs) => \A i \in 2 .. Len(segs) - 1 : segs[i] # <<>>
  OBVIOUS
<1> HIDE DEF segs
<1>8. Rooted(p) = p /\ Meaning(p) = Meaning(q)
  BY <1>4, <1>5, JoinMeaning
<1>9. Rooted(Join(w)) = p
  <2>1. CASE <<dot, dot>> \notin ToSet(segs)
    <3>1. segs \in Seq(Open \ {<<dot, dot>>})
      <4>1. \A i \in DOMAIN segs : segs[i] \in Open \ {<<dot, dot>>}
        BY <1>6, <2>1 DEF ToSet
      <4>2. Len(segs) \in Nat /\ segs \in [1 .. Len(segs) -> Open \ {<<dot, dot>>}]
        BY <1>4, <4>1, LenProperties
      <4> QED  BY <4>2, FunctionIsSeq
    <3>2. Left(segs, 0) = Left(segs, 1)
      BY <3>1, LeftNoParent
    <3>3. w = WithoutDots(segs, 1)
      BY <3>2, WithoutDotsIs
    <3> QED  BY <1>8, <3>3
  <2>2. CASE <<dot, dot>> \in ToSet(segs)
    <3> DEFINE S == Open \ {<<>>}
    <3> HIDE DEF S
    <3>0. PICK mid \in Seq(Open), z \in Open : Sectioned(segs, mid, z)
      BY <1>4, Sections
    <3>1. /\ segs = <<<<>>>> \o Append(mid, z) /\ Len(segs) = Len(mid) + 2
          /\ \A i \in 1 .. Len(mid) : segs[i + 1] = mid[i]
      BY <3>0 DEF Sectioned
    <3> USE DEF S
    <3>2. Len(mid) \in Nat /\ \A i \in 1 .. Len(mid) : mid[i] \in Open
      BY LenProperties, ElementOfSeq
    <3>3. \A i \in 1 .. Len(mid) : mid[i] # <<>>
      <4>1. \A i \in 1 .. Len(mid) : i + 1 \in 2 .. Len(segs) - 1
        BY <3>1, <3>2
      <4> QED  BY <1>7, <2>2, <3>1, <4>1
    <3>4. mid \in Seq(S)
      <4>1. mid \in [1 .. Len(mid) -> S]
        BY <3>2, <3>3, LenProperties
      <4> QED  BY <3>2, <4>1, FunctionIsSeq
    <3>5. z \in Dots => z \in S
      <4>1. <<>> \notin Dots
        BY DEF Dots
      <4> QED  BY <4>1
    <3> HIDE DEF S
    <3>6. PICK L \in Seq(S), y \in {z, <<>>} : Kernel(L, y, <<<<>>>> \o Append(mid, z))
      BY <3>4, <3>5, KernelExists
    <3>7. y \in Open
      BY OpenIs
    <3>8. WithoutDots(segs, 1) = <<<<>>>> \o Append(L, y) /\ (w = Append(L, y) \/ w = <<<<>>>> \o Append(L, y))
      BY <3>1, <3>6 DEF Kernel
    <3>9. Rooted(Join(Append(L, y))) = Join(<<<<>>>> \o Append(L, y))
      BY <3>7, RootRestored DEF S
    <3> QED  BY <1>8, <3>8, <3>9
  <2> QED  BY <2>1, <2>2
<1> QED  BY <1>2, <1>3, <1>8, <1>9

-----------------------------------------------------------------------------
(* What a reference and its normal form identify.                          *)

LEMMA StraySafe ==
    ASSUME NEW p \in Seq(pathSafe \cup {percent})
    PROVE  /\ escapeStrayPercent(p) \in Seq(pathSafe \cup {percent}) /\ (p = <<>> => escapeStrayPercent(p) = <<>>)
           /\ p # <<>> /\ p[1] = slash => escapeStrayPercent(p) # <<>> /\ escapeStrayPercent(p)[1] = slash
<1> DEFINE S == pathSafe \cup {percent}
           f == StrayText
           q == escapeStrayPercent(p)
<1>1. p \in Seq(Byte) /\ S \subseteq Byte /\ slash \in S /\ slash \in Byte \ {percent}
  <2>1. S \subseteq Byte /\ slash \in S /\ slash \in Byte \ {percent}
    BY Sets
  <2> QED  BY <2>1, EscapedSame
<1>2. /\ f \in [Unit -> Seq(Byte)] /\ q = Each(p, f) /\ f \in [Unit -> Unit \ {<<percent>>}]
      /\ \A u \in Unit : f[u] = IF u = <<percent>> THEN Encode(percent) ELSE u
  BY StrayTextTyped, UnitTexts
<1>3. q \in Seq(S)
  <2>1. Len(p) \in Nat /\ \A i \in 1 .. Len(p) : p[i] \in S
    BY LenProperties, ElementOfSeq
  <2>2. Encode(percent) \in Seq(S)
    <3>1. Encode(percent) \in Escapes /\ percent \in S
      BY EncodeIs, Sets
    <3>2. Encode(percent) = <<percent, Encode(percent)[2], Encode(percent)[3]>>
          /\ Encode(percent)[2] \in HexDigits /\ Encode(percent)[3] \in HexDigits
      BY <3>1, EscapeIs
    <3>3. HexDigits \subseteq S
      BY Sets
    <3>4. \A a \in S, b \in S, c \in S : <<a, b, c>> \in Seq(S)
      OBVIOUS
    <3> QED  BY <3>1, <3>2, <3>3, <3>4
  <2>3. ASSUME NEW i \in 1 .. Len(p) PROVE UnitAt(p, i) \in Seq(S)
    <3>1. CASE Escape(p, i)
      <4>1. i + 1 \in 1 .. Len(p) /\ i + 2 \in 1 .. Len(p)
        BY <2>1, <3>1 DEF Escape
      <4>2. \A a \in S, b \in S : <<percent, a, b>> \in Seq(S)
        OBVIOUS
      <4>3. p[i + 1] \in S /\ p[i + 2] \in S
        BY <2>1, <4>1
      <4> QED  BY <3>1, <4>2, <4>3 DEF UnitAt
    <3>2. CASE ~Escape(p, i)
      <4>1. p[i] \in S
        BY <2>1
      <4>2. \A a \in S : <<a>> \in Seq(S)
        OBVIOUS
      <4> QED  BY <3>2, <4>1, <4>2 DEF UnitAt
    <3> QED  BY <3>1, <3>2
  <2> HIDE DEF S, f
  <2>4. /\ Len(Texts(p, f)) = Len(p) /\ Texts(p, f) \in Seq(Seq(Byte))
        /\ \A i \in 1 .. Len(p) : Texts(p, f)[i] = IF Escaped(p, i) THEN <<>> ELSE f[UnitAt(p, i)]
    <3> DEFINE X == Byte
    <3>1. f \in [Unit -> Seq(X)] /\ p \in Seq(Byte)
      BY <1>1, <1>2
    <3> HIDE DEF X
    <3>2. /\ Texts(p, f) \in Seq(Seq(X)) /\ Len(Texts(p, f)) = Len(p)
          /\ \A i \in 1 .. Len(p) : Texts(p, f)[i] = IF Escaped(p, i) THEN <<>> ELSE f[UnitAt(p, i)]
      BY <3>1, TextsTyped
    <3> QED  BY <3>2 DEF X
  <2>5. \A i \in 1 .. Len(p) : Texts(p, f)[i] \in Seq(S)
    <3> SUFFICES ASSUME NEW i \in 1 .. Len(p) PROVE Texts(p, f)[i] \in Seq(S)
      OBVIOUS
    <3>1. UnitAt(p, i) \in Unit /\ UnitAt(p, i) \in Seq(S)
      BY <1>1, <2>3, UnitAtIs
    <3> QED  BY <1>2, <2>2, <2>4, <3>1, EmptySeq
  <2>6. Texts(p, f) \in [1 .. Len(p) -> Seq(S)]
    BY <2>4, <2>5, LenProperties
  <2>7. Texts(p, f) \in Seq(Seq(S))
    BY <2>1, <2>6, FunctionIsSeq
  <2>8. Each(p, f) = FlattenSeq(Texts(p, f))
    BY DEF Each, Texts
  <2> QED  BY <1>2, <2>7, <2>8, FlattenTyped
<1>4. ASSUME p # <<>>, p[1] = slash PROVE q # <<>> /\ q[1] = slash
  <2>1. PICK r \in Seq(Byte) : p = <<slash>> \o r
    BY <1>1, <1>4, SlashFirst
  <2>2. <<slash>> \in Unit /\ <<slash>> # <<percent>>
    <3>1. \A c \in Byte \ {percent} : <<c>> # <<percent>>
      OBVIOUS
    <3> QED  BY <1>1, <3>1, ByteUnit
  <2>3. Each(<<slash>> \o r, f) = <<slash>> \o Each(r, f) /\ Each(r, f) \in Seq(Byte)
    <3> HIDE DEF f
    <3>1. Begins(<<slash>>, r) /\ f[<<slash>>] = <<slash>>
      BY <1>2, <2>2, BeginsIs
    <3> QED  BY <1>2, <2>2, <3>1, EachUnit, EachTyped
  <2>4. <<slash>> \o Each(r, f) # <<>> /\ (<<slash>> \o Each(r, f))[1] = slash
    <3> DEFINE t == Each(r, f)
    <3>1. t \in Seq(Byte) /\ slash \in Byte
      BY <1>1, <2>3
    <3> HIDE DEF t
    <3>2. <<slash>> \o t # <<>> /\ (<<slash>> \o t)[1] = slash
      BY <3>1, Prefixed
    <3> QED  BY <3>2 DEF t
  <2> QED  BY <1>2, <2>1, <2>3, <2>4
<1>5. p = <<>> => q = <<>>
  BY <1>2, EachEmpty
<1> QED  BY <1>3, <1>4, <1>5

Clear(segs) ==
    /\ \A s \in ToSet(segs) : Decode(s) \in Dots => s \in Dots
    /\ <<dot, dot>> \in ToSet(segs) => \A i \in 2 .. Len(segs) - 1 : segs[i] # <<>>

(* An escaped "%" makes and unmakes no dots and no empty segment. *)
LEMMA StrayClear ==
    ASSUME NEW p \in Seq(Byte), Clear(Split(p, slash))
    PROVE  LET segs == Split(escapeStrayPercent(p), slash)
           IN /\ segs \in Seq(Open)
              /\ <<dot, dot>> \in ToSet(segs) => \A i \in 2 .. Len(segs) - 1 : segs[i] # <<>>
<1> DEFINE parts == Split(p, slash)
           segs == Split(escapeStrayPercent(p), slash)
<1>1. escapeStrayPercent(p) = Each(p, StrayText) /\ StrayText \in [Unit -> Unit]
  BY StrayTextTyped
<1>2. segs = Mapped(parts, Strayed) /\ escapeStrayPercent(p) \in Seq(Byte)
  <2> DEFINE f == StrayText
  <2>1. f \in [Unit -> Unit] /\ \A u \in Unit : f[u] = <<slash>> <=> u = <<slash>>
    BY <1>1, SlashesStay
  <2> HIDE DEF f
  <2>2. Split(Each(p, f), slash) = Mapped(Split(p, slash), EachText(f)) /\ Each(p, f) \in Seq(Byte)
    BY <2>1, SplitOfEach
  <2> QED  BY <1>1, <2>2 DEF Strayed, f
<1>3. parts \in Seq(Seq(Byte)) /\ segs \in Seq(Seq(Byte \ {slash}))
  BY <1>2, SplitTyped, SplitParts
<1>4. Clear(parts)
  OBVIOUS
<1> HIDE DEF parts, segs
<1>5. Len(segs) = Len(parts) /\ \A i \in 1 .. Len(parts) : segs[i] = Strayed[parts[i]]
  BY <1>2, <1>3, MappedIs
<1>6. /\ Len(parts) \in Nat /\ DOMAIN parts = 1 .. Len(parts) /\ DOMAIN segs = 1 .. Len(parts)
      /\ \A i \in 1 .. Len(parts) : parts[i] \in Seq(Byte) /\ segs[i] \in Seq(Byte \ {slash})
  BY <1>3, <1>5, LenProperties, ElementOfSeq
<1>7. ASSUME NEW i \in 1 .. Len(parts)
      PROVE  /\ segs[i] \in Open /\ (segs[i] = <<dot, dot>> => parts[i] = <<dot, dot>>)
             /\ (parts[i] # <<>> => segs[i] # <<>>)
  <2> DEFINE s == parts[i]
             t == segs[i]
  <2>1. s \in Seq(Byte) /\ t = escapeStrayPercent(s) /\ Decode(t) = Decode(s) /\ t \in Seq(Byte \ {slash})
    BY <1>5, <1>6, StrayedIs, StrayDecodes
  <2>2. Decode(s) \in Dots => s \in Dots
    BY <1>4, <1>6 DEF Clear, ToSet
  <2>3. s \in Dots => t = s
    BY <2>1, DotsStay
  <2>4. t \in Open
    BY <2>1, <2>2, <2>3 DEF Open
  <2>5. t = <<dot, dot>> => s = t
    <3>1. <<dot, dot>> \in Dots
      BY DEF Dots
    <3> HIDE DEF s, t
    <3>2. t = <<dot, dot>> => Decode(t) \in Dots
      BY <3>1, DotsStay
    <3> QED  BY <2>1, <2>2, <2>3, <3>2
  <2>6. s # <<>> => t # <<>>
    BY <2>1, StrayTyped
  <2> QED  BY <2>4, <2>5, <2>6
<1>8. segs \in Seq(Open)
  <2>1. segs \in [1 .. Len(parts) -> Open]
    BY <1>3, <1>6, <1>7, LenProperties
  <2> QED  BY <1>6, <2>1, FunctionIsSeq
<1>9. ASSUME <<dot, dot>> \in ToSet(segs) PROVE \A i \in 2 .. Len(segs) - 1 : segs[i] # <<>>
  <2>1. <<dot, dot>> \in ToSet(parts)
    BY <1>6, <1>7, <1>9 DEF ToSet
  <2>2. \A i \in 2 .. Len(parts) - 1 : i \in 1 .. Len(parts) /\ parts[i] # <<>>
    BY <1>4, <1>6, <2>1 DEF Clear
  <2> QED  BY <1>5, <1>7, <2>2
<1> QED  BY <1>8, <1>9 DEF segs

LEMMA ResourceIs ==
    ASSUME NEW u \in Reference
    PROVE  Resource(u) = <<IF u.path = <<>> THEN <<<<>>, <<>>>> ELSE Meaning(u.path), Decode(u.query)>>
<1> DEFINE segs == Split(u.path, slash)
<1>1. segs \in Seq(Seq(Byte))
  BY SplitTyped DEF Reference
<1>2. [i \in DOMAIN segs |-> Decode(segs[i])] = Mapped(segs, Decoded)
  <2> HIDE DEF segs
  <2>1. \A i \in DOMAIN segs : segs[i] \in Seq(Byte)
    BY <1>1, LenProperties, ElementOfSeq
  <2>2. \A i \in DOMAIN segs : Decode(segs[i]) = Decoded[segs[i]]
    BY <2>1, DecodedIs
  <2> QED  BY <2>2 DEF Mapped
<1> QED  BY <1>2 DEF Resource, Meaning

LEMMA RootMeaning == Meaning(<<slash>>) = <<<<>>, <<>>>>
<1> DEFINE e == <<>>
<1>1. e \in Seq(Byte) /\ e \in Open /\ e \notin Dots /\ Decoded[e] = e /\ slash \in Byte
  BY EmptySeq, OpenIs, DecodedIs, Sets DEF Dots
<1>2. Join(<<e>> \o <<e>>) = <<slash>> \o Join(<<e>>) /\ Join(<<e>>) = e
  <2> HIDE DEF e
  <2>1. <<e>> \in Seq(Seq(Byte)) /\ <<e>> # <<>>
    BY <1>1, Single
  <2>2. Join(<<<<>>>> \o <<e>>) = <<slash>> \o Join(<<e>>) /\ Join(<<e>>) = Head(<<e>>) \o Slashed(Tail(<<e>>))
    BY <2>1, JoinRoot
  <2>3. Head(<<e>>) = e /\ Tail(<<e>>) = <<>>
    OBVIOUS
  <2>4. e \o <<>> = e
    BY <1>1, ConcatEmpty
  <2> QED  BY <2>2, <2>3, <2>4, SlashedEmpty DEF e
<1>3. <<slash>> \o e = <<slash>>
  OBVIOUS
<1> HIDE DEF e
<1> DEFINE w == <<e, e>>
<1>4. w \in Seq(Open) /\ w # <<>> /\ w \in Seq(Open \ Dots) /\ w \in Seq(Seq(Byte \ {slash}))
  <2>1. \A S : e \in S => w \in Seq(S)
    OBVIOUS
  <2>2. e \in Open \ Dots /\ e \in Seq(Byte \ {slash})
    BY <1>1 DEF Open
  <2> QED  BY <1>1, <2>1, <2>2
<1>5. Mapped(w, Decoded) = w
  <2>1. DOMAIN w = {1, 2} /\ \A i \in DOMAIN w : w[i] = e
    OBVIOUS
  <2>2. w = [i \in DOMAIN w |-> e]
    OBVIOUS
  <2> QED  BY <1>1, <2>1, <2>2 DEF Mapped
<1>6. w = <<e>> \o <<e>>
  <2>1. Head(w) = e /\ Tail(w) = <<e>>
    OBVIOUS
  <2> HIDE DEF w
  <2> QED  BY <1>4, <2>1, HeadAndTail
<1>7. <<slash>> = Join(w)
  BY <1>2, <1>3, <1>6
<1> HIDE DEF w
<1>8. Split(Join(w), slash) = w
  BY <1>1, <1>4, SplitJoin
<1>9. WithoutDots(w, 1) = w
  BY <1>4, LeftSame
<1> QED  BY <1>5, <1>7, <1>8, <1>9 DEF Meaning, e, w

\* A path that may be empty, and begins with a slash if it is not.
Plain(p) == p \in Seq(pathSafe \cup {percent}) /\ (p # <<>> => p[1] = slash)

LEMMA NormalizeResource ==
    ASSUME NEW u \in Reference, ~IsError(Normalize(u)), Plain(u.path)
    PROVE  Resource(Normalize(u)) = Resource(u)
<1> DEFINE n == Normalize(u)
<1>1. n = Normalized(u) /\ Accepted(n) /\ n \in Reference
  BY NormalizeIs, NormalizeTyped DEF Accepted
<1>2. n.path = (IF u.path = <<>> THEN <<slash>> ELSE Path(u.path)) /\ n.query = normalizePercent(u.query, querySafe)
  BY <1>1 DEF Normalized, Reference
<1>3. n.path # <<>>
  BY <1>1 DEF Accepted
<1> HIDE DEF n
<1>4. Decode(n.query) = Decode(u.query)
  BY <1>2, NormalDecodes DEF Reference
<1>5. Meaning(n.path) = IF u.path = <<>> THEN <<<<>>, <<>>>> ELSE Meaning(u.path)
  BY <1>2, RootMeaning, PathMeaning DEF Plain
<1>6. Resource(n) = <<Meaning(n.path), Decode(n.query)>>
  BY <1>1, <1>3, ResourceIs
<1>7. Resource(u) = <<IF u.path = <<>> THEN <<<<>>, <<>>>> ELSE Meaning(u.path), Decode(u.query)>>
  BY ResourceIs
<1> QED  BY <1>4, <1>5, <1>6, <1>7 DEF n

LEMMA CleanPlain ==
    ASSUME NEW r \in Reference, r.scheme # "", HasPath(r), ToSet(r.path) \subseteq pathSafe \cup {percent}
    PROVE  Plain(Clean(r).path)
<1> DEFINE S == pathSafe \cup {percent}
           p == r.path
<1>1. p \in Seq(Byte) /\ (p # <<>> => p[1] = slash)
  BY DEF Reference, HasPath
<1>2. p \in Seq(S)
  <2>1. Len(p) \in Nat /\ DOMAIN p = 1 .. Len(p) /\ \A i \in DOMAIN p : p[i] \in S
    BY <1>1, LenProperties DEF ToSet
  <2> HIDE DEF p, S
  <2>2. p \in [1 .. Len(p) -> S]
    BY <1>1, <2>1, LenProperties
  <2> QED  BY <2>1, <2>2, FunctionIsSeq
<1>3. /\ escapeStrayPercent(p) \in Seq(S) /\ (p = <<>> => escapeStrayPercent(p) = <<>>)
      /\ p # <<>> /\ p[1] = slash => escapeStrayPercent(p) # <<>> /\ escapeStrayPercent(p)[1] = slash
  BY <1>2, StraySafe
<1>4. Clean(r).path = escapeStrayPercent(p)
  BY CleanTyped
<1> QED  BY <1>1, <1>3, <1>4 DEF Plain

LEMMA ParseResource ==
    ASSUME NEW r \in Reference, r.scheme # "", HasPath(r), ToSet(r.path) \subseteq pathSafe \cup {percent},
           ~IsError(Parse(r))
    PROVE  Resource(Parse(r)) = Resource(Clean(r))
<1>1. Parse(r) = Normalize(Clean(r))
  BY ResolveInIs DEF Parse
<1> QED  BY <1>1, CleanTyped, CleanPlain, NormalizeResource

LEMMA ResolveResource ==
    ASSUME NEW r \in Reference, r.scheme # "", HasPath(r), ToSet(r.path) \subseteq pathSafe \cup {percent},
           Clear(Split(r.path, slash)), ~IsError(Resolve(Base, r))
    PROVE  Resource(Resolve(Base, r)) = Resource(Clean(r))
<1> DEFINE c == Clean(r)
           q == c.path
           v == ResolveReference(Base, c)
<1>1. Resolve(Base, r) = Normalize(v)
  BY ResolveInIs DEF Resolve
<1>2. c \in Reference /\ c.scheme # "" /\ Plain(q) /\ q = escapeStrayPercent(r.path) /\ r.path \in Seq(Byte)
  BY CleanTyped, CleanPlain DEF Reference
<1> HIDE DEF c
<1>3. EscapedPath(q) = q /\ q \in Seq(Byte)
  BY <1>2, EscapedSame DEF Plain
<1>4. v = [c EXCEPT !.path = resolvePath(q)]
  BY <1>2, <1>3 DEF ResolveReference
<1>5. Plain(resolvePath(q)) /\ (q = <<>> <=> resolvePath(q) = <<>>) /\ (q # <<>> => Meaning(resolvePath(q)) = Meaning(q))
  <2>1. CASE q = <<>>
    <3>1. resolvePath(q) = <<>>
      BY <2>1 DEF resolvePath
    <3> QED  BY <1>2, <2>1, <3>1
  <2>2. CASE q # <<>>
    <3>1. q \in Seq(pathSafe \cup {percent}) /\ q[1] = slash
      BY <1>2, <2>2 DEF Plain
    <3>2. /\ Split(q, slash) \in Seq(Open)
          /\ <<dot, dot>> \in ToSet(Split(q, slash)) => \A i \in 2 .. Len(Split(q, slash)) - 1 : Split(q, slash)[i] # <<>>
      BY <1>2, StrayClear
    <3> HIDE DEF q
    <3>3. /\ resolvePath(q) \in Seq(pathSafe \cup {percent}) /\ resolvePath(q) # <<>> /\ resolvePath(q)[1] = slash
          /\ Meaning(resolvePath(q)) = Meaning(q)
      BY <2>2, <3>1, <3>2, ResolveMeaning
    <3> QED  BY <2>2, <3>3 DEF Plain
  <2> QED  BY <2>1, <2>2
<1>6. v \in Reference /\ v.path = resolvePath(q) /\ v.query = c.query
  <2>1. resolvePath(q) \in Seq(Byte)
    BY <1>3, ResolvePathTyped
  <2> QED  BY <1>2, <1>4, <2>1 DEF Reference
<1> HIDE DEF v
<1>7. Resource(v) = Resource(c)
  BY <1>2, <1>5, <1>6, ResourceIs
<1>8. Resource(Normalize(v)) = Resource(v)
  BY <1>1, <1>5, <1>6, NormalizeResource
<1> QED  BY <1>1, <1>7, <1>8 DEF c

ResourceInv ==
    /\ links \in Seq(Reference) /\ \A i \in DOMAIN links : HasPath(links[i])
    /\ ref \in Reference /\ HasPath(ref)
    /\ url = IF parsed THEN Parse(ref) ELSE Resolve(Base, ref)

LEMMA ResourceInit == Init => ResourceInv
BY ReferencesAssumption DEF Init, ResourceInv

LEMMA ResourceNext == ResourceInv /\ [Next]_vars => ResourceInv'
<1> SUFFICES ASSUME ResourceInv, [Next]_vars PROVE ResourceInv'
  OBVIOUS
<1>1. CASE Next
  <2>1. links \in Seq(Reference) /\ links # <<>> /\ links' = Tail(links) /\ ref' = Head(links)
    BY <1>1 DEF Next, Link, Entry, Take, ResourceInv
  <2>2. /\ Head(links) \in Reference /\ Tail(links) \in Seq(Reference) /\ Len(links) \in Nat \ {0}
        /\ Len(Tail(links)) = Len(links) - 1
    BY <2>1, HeadAndTail
  <2>3. \A i \in 1 .. Len(links) : HasPath(links[i])
    BY <2>1, LenProperties DEF ResourceInv
  <2>4. HasPath(Head(links))
    <3>1. 1 \in 1 .. Len(links) /\ Head(links) = links[1]
      BY <2>1, <2>2
    <3> QED  BY <2>3, <3>1
  <2>5. \A i \in DOMAIN Tail(links) : HasPath(Tail(links)[i])
    <3> SUFFICES ASSUME NEW i \in DOMAIN Tail(links) PROVE HasPath(Tail(links)[i])
      OBVIOUS
    <3>1. i \in 1 .. Len(links) - 1
      BY <2>2, LenProperties
    <3>2. i + 1 \in 1 .. Len(links) /\ Tail(links)[i] = links[i + 1]
      BY <2>1, <2>2, <3>1
    <3> QED  BY <2>3, <3>2
  <2>6. \/ parsed' = TRUE /\ url' = Parse(Head(links))
        \/ parsed' = FALSE /\ url' = Resolve(Base, Head(links))
    BY <1>1 DEF Next, Link, Entry, Follow
  <2>7. url' = IF parsed' THEN Parse(ref') ELSE Resolve(Base, ref')
    BY <2>1, <2>6
  <2>8. links' \in Seq(Reference) /\ ref' \in Reference /\ HasPath(ref') /\ \A i \in DOMAIN links' : HasPath(links'[i])
    BY <2>1, <2>2, <2>4, <2>5
  <2> QED  BY <2>7, <2>8 DEF ResourceInv
<1>2. CASE UNCHANGED vars
  BY <1>2 DEF vars, ResourceInv
<1> QED  BY <1>1, <1>2

LEMMA ResourceImplies == ResourceInv => SameResourceIfSafe
<1> SUFFICES ASSUME ResourceInv, ~IsError(url), ref.scheme # "", SafeToParse, parsed \/ SafeToResolve
             PROVE  Resource(Clean(ref)) = Resource(url)
  BY DEF SameResourceIfSafe
<1>1. /\ ref \in Reference /\ HasPath(ref) /\ ToSet(ref.path) \subseteq pathSafe \cup {percent}
      /\ url = IF parsed THEN Parse(ref) ELSE Resolve(Base, ref)
  BY DEF ResourceInv, SafeToParse
<1>2. SafeToResolve => Clear(Split(ref.path, slash))
  BY DEF SafeToResolve, Clear
<1> QED  BY <1>1, <1>2, ParseResource, ResolveResource

(* urlnorm.go:4-8, for any references, limits and base: the normal form of *)
(* an absolute reference identifies what the reference does - the same     *)
(* decoded segments and the same decoded query - when its path has only    *)
(* bytes that may appear in one and, for a link, when its dots are not     *)
(* escaped and ".." meets no empty segment.                                *)
THEOREM SameResource == Spec => []SameResourceIfSafe
<1>1. Init => ResourceInv
  BY ResourceInit
<1>2. ResourceInv /\ [Next]_vars => ResourceInv'
  BY ResourceNext
<1>3. ResourceInv => SameResourceIfSafe
  BY ResourceImplies
<1> QED  BY <1>1, <1>2, <1>3, PTL DEF Spec

=============================================================================
