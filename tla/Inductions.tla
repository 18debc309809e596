----------------------------- MODULE Inductions -----------------------------
(***************************************************************************)
(* Induction over numbers and over finite sets, with a set of those the    *)
(* statement holds of in place of the statement, and what follows for the  *)
(* sequences the other modules of proofs need.                             *)
(***************************************************************************)
EXTENDS Integers, SequencesExt, FiniteSetTheorems, SequenceTheorems, WellFoundedInduction, TLAPS

-----------------------------------------------------------------------------
(* Numbers and finite sets.                                                 *)

\* Places in a sequence: when some satisfy a test, one of them is the last.
LEMMA SomePlaceIsLast ==
    ASSUME NEW n \in Nat, NEW I \in SUBSET (1..n), I # {}
    PROVE  \E i \in I : \A j \in I : j <= i
<1> DEFINE T == {0..(n - x) : x \in I}
<1>1. T \subseteq FiniteSubsetsOf(Nat) /\ T # {}
  <2>1. ASSUME NEW x \in I PROVE 0..(n - x) \in FiniteSubsetsOf(Nat)
    <3>1. n - x \in Int /\ 0 \in Int /\ 0..(n - x) \in SUBSET Nat
      OBVIOUS
    <3> QED
      BY FS_Interval DEF FiniteSubsetsOf
  <2> QED
    BY <2>1
<1>2. \E U \in T : \A V \in T : <<V, U>> \notin StrictSubsetOrdering(Nat)
  BY <1>1, FS_StrictSubsetOrderingWellFounded, WFMin
<1>3. PICK m \in I : \A y \in I : <<0..(n - y), 0..(n - m)>> \notin StrictSubsetOrdering(Nat)
  BY <1>2
<1>4. \A y \in I : y <= m
  <2>1. SUFFICES ASSUME NEW y \in I, m < y PROVE FALSE
    OBVIOUS
  <2>2. 0..(n - y) \subseteq 0..(n - m) /\ n - m \in 0..(n - m) /\ n - m \notin 0..(n - y)
    BY <2>1
  <2>3. 0..(n - y) # 0..(n - m)
        /\ 0..(n - y) \in SUBSET Nat /\ 0..(n - m) \in SUBSET Nat
    BY <2>2
  <2>4. <<0..(n - y), 0..(n - m)>> \in StrictSubsetOrdering(Nat)
    BY <2>2 DEF StrictSubsetOrdering
  <2> QED
    BY <1>3, <2>4
<1> QED
  BY <1>4

\* What holds of 0, and of the next number whenever of one, holds of all.
LEMMA ByNumbers ==
    ASSUME NEW T, 0 \in T, \A n \in Nat : n \in T => n + 1 \in T
    PROVE  \A n \in Nat : n \in T
<1>1. SUFFICES ASSUME NEW n \in Nat, n \notin T PROVE FALSE
  OBVIOUS
<1> DEFINE I == {i \in 1..(n + 1) : i - 1 \in T}
<1>2. I \in SUBSET (1..(n + 1)) /\ 1 \in I
  OBVIOUS
<1> HIDE DEF I
<1>3. PICK i \in I : \A j \in I : j <= i
  <2>1. n + 1 \in Nat /\ I # {}
    BY <1>2
  <2> QED
    BY <1>2, <2>1, SomePlaceIsLast
<1> USE DEF I
<1>4. i \in 1..(n + 1) /\ i - 1 \in T /\ i # n + 1
  BY <1>1
<1>5. i \in 1..(n + 1) /\ (i - 1) + 1 \in T /\ i + 1 \in 1..(n + 1) /\ i - 1 \in Nat
  BY <1>4
<1>6. i + 1 \in I
  BY <1>5
<1> QED
  BY <1>3, <1>5, <1>6

\* What holds of the empty set, and of a set with one more member whenever of the
\* set, holds of every finite set.
LEMMA ByMembers ==
    ASSUME NEW S, IsFiniteSet(S), NEW F, {} \in F,
           \A T \in SUBSET S : \A x \in S \ T : T \in F => T \cup {x} \in F
    PROVE  S \in F
<1> DEFINE N == {n \in Nat : \A T \in SUBSET S : Cardinality(T) = n => T \in F}
<1>1. 0 \in N
  <2>1. \A T \in SUBSET S : IsFiniteSet(T) /\ (Cardinality(T) = 0 => T = {})
    BY FS_Subset, FS_EmptySet
  <2> QED
    BY <2>1
<1>2. \A n \in Nat : n \in N => n + 1 \in N
  <2>1. SUFFICES ASSUME NEW n \in Nat, n \in N, NEW T \in SUBSET S, Cardinality(T) = n + 1
                 PROVE  T \in F
    OBVIOUS
  <2>2. IsFiniteSet(T)
    BY FS_Subset
  <2>3. PICK x : x \in T
    BY <2>1, <2>2, FS_EmptySet
  <2>4. Cardinality(T \ {x}) = n
    <3>1. Cardinality(T \ {x}) = Cardinality(T) - 1
      BY <2>2, <2>3, FS_RemoveElement
    <3> QED
      BY <2>1, <3>1
  <2>5. T \ {x} \in F /\ T \ {x} \in SUBSET S /\ x \in S \ (T \ {x}) /\ (T \ {x}) \cup {x} = T
    BY <2>1, <2>3, <2>4
  <2> HIDE DEF N
  <2> QED
    BY <2>5
<1> HIDE DEF N
<1>3. Cardinality(S) \in Nat /\ Cardinality(S) \in N
  BY <1>1, <1>2, ByNumbers, FS_CardinalityType
<1> QED
  BY <1>3 DEF N

-----------------------------------------------------------------------------
(* Sequences.                                                               *)

\* A finite set is listed, each member once.
LEMMA ListedOnce ==
    ASSUME NEW S, IsFiniteSet(S)
    PROVE  /\ Cardinality(S) \in Nat
           /\ SetToSeq(S) \in [1..Cardinality(S) -> S] /\ IsInjective(SetToSeq(S))
           /\ \A x \in S : \E i \in 1..Cardinality(S) : SetToSeq(S)[i] = x
<1> DEFINE n == Cardinality(S)  g == SetToSeq(S)
<1>1. n \in Nat /\ ExistsBijection(1..n, S)
  BY FS_CardinalityType
<1> HIDE DEF n
<1>2. PICK f \in Bijection(1..n, S) : TRUE
  BY <1>1 DEF ExistsBijection
<1>3. f \in [1..n -> S] /\ IsInjective(f)
  BY <1>2 DEF Bijection, Injection, IsInjective
<1>4. g \in [1..n -> S] /\ IsInjective(g)
  BY <1>3 DEF SetToSeq, n
<1> HIDE DEF g
<1>5. g \in Injection(1..n, S)
  BY <1>4 DEF Injection, IsInjective
<1>6. Cardinality(1..n) = n
  <2>1. Cardinality(1..n) = IF 1 > n THEN 0 ELSE n - 1 + 1
    BY <1>1, FS_Interval
  <2> QED
    BY <1>1, <2>1
<1>7. g \in Surjection(1..n, S)
  BY <1>5, <1>6, FS_Injection DEF n
<1>8. \A x \in S : \E i \in 1..n : g[i] = x
  BY <1>7 DEF Surjection
<1> QED
  BY <1>1, <1>4, <1>8 DEF n, g

\* An id that is not taken, of as many as there are and one more.
LEMMA OneIsFree ==
    ASSUME NEW S, IsFiniteSet(S)
    PROVE  \E i \in 1..(Cardinality(S) + 1) : i \notin S
<1> DEFINE n == Cardinality(S)  I == 1..(n + 1)
<1>1. n \in Nat
  BY FS_CardinalityType
<1> HIDE DEF n
<1>2. SUFFICES ASSUME I \subseteq S PROVE FALSE
  BY DEF n
<1>3. Cardinality(I) = n + 1
  <2>1. Cardinality(I) = IF 1 > n + 1 THEN 0 ELSE (n + 1) - 1 + 1
    BY <1>1, FS_Interval
  <2> QED
    BY <1>1, <2>1
<1> HIDE DEF I
<1>4. Cardinality(I) <= n
  BY <1>2, FS_Subset DEF n
<1> QED
  BY <1>1, <1>3, <1>4

\* The members of two sequences that are joined, and of one with one more.
LEMMA ToSetOfJoined ==
    ASSUME NEW S, NEW a \in Seq(S), NEW b \in Seq(S)
    PROVE  a \o b \in Seq(S) /\ ToSet(a \o b) = ToSet(a) \cup ToSet(b)
<1>1. a \o b \in Seq(S) /\ Len(a \o b) = Len(a) + Len(b) /\ Len(a) \in Nat /\ Len(b) \in Nat
      /\ \A i \in 1..Len(a) + Len(b) :
            (a \o b)[i] = IF i <= Len(a) THEN a[i] ELSE b[i - Len(a)]
  OBVIOUS
<1> DEFINE c == a \o b
<1>2. DOMAIN c = 1..Len(a) + Len(b) /\ DOMAIN a = 1..Len(a) /\ DOMAIN b = 1..Len(b)
  BY <1>1
<1>3. \A i \in DOMAIN c : (c)[i] \in ToSet(a) \cup ToSet(b)
  BY <1>1, <1>2 DEF ToSet
<1>4. \A i \in DOMAIN a : i \in DOMAIN c /\ (c)[i] = a[i]
  BY <1>1, <1>2
<1>5. \A i \in DOMAIN b : Len(a) + i \in DOMAIN c /\ (c)[Len(a) + i] = b[i]
  BY <1>1, <1>2
<1> HIDE DEF c
<1>6. ToSet(c) = ToSet(a) \cup ToSet(b)
  BY <1>3, <1>4, <1>5 DEF ToSet
<1> QED
  BY <1>1, <1>6 DEF c

LEMMA ToSetOfAppended ==
    ASSUME NEW S, NEW a \in Seq(S), NEW x
    PROVE  Append(a, x) \in Seq(S \cup {x}) /\ ToSet(Append(a, x)) = ToSet(a) \cup {x}
<1> DEFINE n == Len(a)  c == Append(a, x)
<1>1. /\ n \in Nat /\ DOMAIN a = 1..n /\ DOMAIN c = 1..(n + 1)
      /\ (c)[n + 1] = x /\ \A i \in 1..n : (c)[i] = a[i]
  OBVIOUS
<1>2. c \in Seq(S \cup {x})
  OBVIOUS
<1> HIDE DEF n, c
<1>3. ToSet(c) = ToSet(a) \cup {x}
  <2>1. \A i \in 1..(n + 1) : i = n + 1 \/ i \in 1..n
    BY <1>1
  <2>2. \A i \in 1..n : i \in 1..(n + 1)
    BY <1>1
  <2>3. n + 1 \in 1..(n + 1)
    BY <1>1
  <2> QED
    BY <1>1, <2>1, <2>2, <2>3 DEF ToSet
<1> QED
  BY <1>2, <1>3 DEF c

\* A sequence of sequences, one after the other, is built up from the first.
LEMMA FlattenedInSteps ==
    ASSUME NEW S, NEW seqs, seqs \in Seq(Seq(S)), Len(seqs) # 0
    PROVE  \E f : /\ FlattenSeq(seqs) = f[Len(seqs)]
                  /\ \A i \in 1..Len(seqs) :
                        f[i] = IF i = 1 THEN seqs[i] ELSE f[i - 1] \o seqs[i]
<1> DEFINE n == Len(seqs)
           Eq(m, f) == f = [i \in 1..m |-> IF i = 1 THEN seqs[i] ELSE f[i - 1] \o seqs[i]]
           T == {m \in Nat : \E f : Eq(m, f)}
           fl == CHOOSE f : Eq(n, f)
<1>1. n \in Nat
  OBVIOUS
<1>2. n # 0
  OBVIOUS
<1> HIDE DEF n
<1>3. 0 \in T
  <2> DEFINE f == [i \in 1..0 |-> <<>>]
  <2>1. Eq(0, f)
    OBVIOUS
  <2> QED
    BY <2>1
<1>4. \A m \in Nat : m \in T => m + 1 \in T
  <2>1. SUFFICES ASSUME NEW m \in Nat, NEW f, Eq(m, f) PROVE m + 1 \in T
    OBVIOUS
  <2> DEFINE g == [i \in 1..(m + 1) |-> IF i = 1 THEN seqs[i] ELSE f[i - 1] \o seqs[i]]
  <2>2. \A i \in 1..m : g[i] = f[i]
    <3>1. SUFFICES ASSUME NEW i \in 1..m PROVE g[i] = f[i]
      OBVIOUS
    <3>2. f[i] = IF i = 1 THEN seqs[i] ELSE f[i - 1] \o seqs[i]
      BY <2>1, Zenon
    <3>3. i \in 1..(m + 1)
      BY <2>1
    <3>4. g[i] = IF i = 1 THEN seqs[i] ELSE f[i - 1] \o seqs[i]
      BY <3>3, Zenon
    <3> QED
      BY <3>2, <3>4
  <2>3. Eq(m + 1, g)
    <3>1. \A i \in 1..(m + 1) : i # 1 => i - 1 \in 1..m
      BY <2>1
    <3> QED
      BY <2>2, <3>1
  <2> HIDE DEF g
  <2>4. \E h : Eq(m + 1, h)
    BY <2>3, Zenon
  <2>5. m + 1 \in Nat
    BY <2>1
  <2> QED
    BY <2>4, <2>5, Zenon
<1>5. \E f : Eq(n, f)
  <2> HIDE DEF T
  <2>1. n \in T
    BY <1>1, <1>3, <1>4, ByNumbers
  <2> QED
    BY <2>1 DEF T
<1> HIDE DEF T
<1>6. Eq(n, fl)
  BY <1>5
<1>7. FlattenSeq(seqs) = fl[n]
  BY <1>2 DEF FlattenSeq, n
<1> HIDE DEF fl
<1>8. \A i \in 1..n : fl[i] = IF i = 1 THEN seqs[i] ELSE fl[i - 1] \o seqs[i]
  BY <1>6, Zenon
<1> HIDE DEF Eq
<1>9. /\ FlattenSeq(seqs) = fl[Len(seqs)]
      /\ \A i \in 1..Len(seqs) : fl[i] = IF i = 1 THEN seqs[i] ELSE fl[i - 1] \o seqs[i]
  BY <1>7, <1>8, Zenon DEF n
<1> QED
  BY <1>9, Zenon

\* A sequence of sequences, one after the other: its members are theirs.
LEMMA Flattened ==
    ASSUME NEW S, NEW seqs, seqs \in Seq(Seq(S))
    PROVE  /\ FlattenSeq(seqs) \in Seq(S)
           /\ ToSet(FlattenSeq(seqs)) = UNION {ToSet(seqs[i]) : i \in DOMAIN seqs}
<1> DEFINE n == Len(seqs)
<1>1. n \in Nat /\ DOMAIN seqs = 1..n /\ \A i \in 1..n : seqs[i] \in Seq(S)
  OBVIOUS
<1>2. CASE n = 0
  <2>1. seqs = <<>> /\ DOMAIN seqs = {}
    BY <1>1, <1>2
  <2> QED
    BY <1>2, <2>1 DEF FlattenSeq, ToSet
<1>3. CASE n # 0
  <2>1. PICK fl : /\ FlattenSeq(seqs) = fl[n]
                  /\ \A i \in 1..n : fl[i] = IF i = 1 THEN seqs[i] ELSE fl[i - 1] \o seqs[i]
    BY <1>3, FlattenedInSteps, Zenon
  <2> HIDE DEF n
  <2> DEFINE P == {m \in Nat : m + 1 \in 1..n =>
                    /\ fl[m + 1] \in Seq(S)
                    /\ ToSet(fl[m + 1]) = UNION {ToSet(seqs[i]) : i \in 1..(m + 1)}}
  <2>2. 0 \in P
    <3>1. 1 \in 1..n => fl[1] = seqs[1]
      BY <2>1
    <3>2. ToSet(seqs[1]) = UNION {ToSet(seqs[i]) : i \in 1..(0 + 1)}
      OBVIOUS
    <3> QED
      BY <1>1, <3>1, <3>2
  <2>3. \A m \in Nat : m \in P => m + 1 \in P
    <3>1. SUFFICES ASSUME NEW m \in Nat, m \in P, m + 1 + 1 \in 1..n
                   PROVE  /\ fl[m + 1 + 1] \in Seq(S)
                          /\ ToSet(fl[m + 1 + 1]) = UNION {ToSet(seqs[i]) : i \in 1..(m + 1 + 1)}
      <4>1. \A m \in Nat : m + 1 \in Nat
        OBVIOUS
      <4> QED
        BY <4>1, Zenon
    <3> DEFINE a == fl[m + 1]  b == seqs[m + 1 + 1]
    <3>2. fl[m + 1 + 1] = a \o b
      <4>1. fl[m + 1 + 1] = IF m + 1 + 1 = 1 THEN seqs[m + 1 + 1]
                            ELSE fl[m + 1 + 1 - 1] \o seqs[m + 1 + 1]
        BY <2>1, <3>1
      <4>2. m + 1 + 1 # 1 /\ m + 1 + 1 - 1 = m + 1
        BY <3>1
      <4> QED
        BY <4>1, <4>2, Zenon
    <3>3. /\ a \in Seq(S) /\ b \in Seq(S)
          /\ ToSet(a) = UNION {ToSet(seqs[i]) : i \in 1..(m + 1)}
      BY <1>1, <3>1
    <3>4. 1..(m + 1 + 1) = (1..(m + 1)) \cup {m + 1 + 1}
      BY <3>1
    <3>5. UNION {ToSet(seqs[i]) : i \in 1..(m + 1 + 1)}
            = (UNION {ToSet(seqs[i]) : i \in 1..(m + 1)}) \cup ToSet(b)
      BY <3>4
    <3> HIDE DEF a, b
    <3>6. a \o b \in Seq(S) /\ ToSet(a \o b) = ToSet(a) \cup ToSet(b)
      BY <3>3, ToSetOfJoined
    <3> QED
      BY <3>2, <3>3, <3>5, <3>6
  <2>4. n - 1 \in P
    <3> HIDE DEF P
    <3>1. n - 1 \in Nat
      BY <1>1, <1>3
    <3> QED
      BY <2>2, <2>3, <3>1, ByNumbers
  <2>5. (n - 1) + 1 = n /\ n \in 1..n
    BY <1>1, <1>3
  <2> QED
    BY <1>1, <2>1, <2>4, <2>5
<1> QED
  BY <1>2, <1>3

\* The sizes of the parts of a finite set add up to its size.
LEMMA SumOfParts ==
    ASSUME NEW S, IsFiniteSet(S), NEW T, IsFiniteSet(T), NEW p, \A x \in S : p[x] \in T,
           NEW f, DOMAIN f = T, \A t \in T : f[t] = Cardinality({x \in S : p[x] = t})
    PROVE  SumFunction(f) = Cardinality(S)
<1> DEFINE Takes(s) == CHOOSE x \in s : TRUE
           Unfolds(h) == h = [s \in SUBSET T |->
                                 IF s = {} THEN 0 ELSE f[Takes(s)] + h[s \ {Takes(s)}]]
           iter == CHOOSE h : Unfolds(h)
           Of(U) == {x \in S : p[x] \in U}
           g == [U \in SUBSET T |-> Cardinality(Of(U))]
<1>1. SumFunction(f) = iter[T]
  BY DEF SumFunction, SumFunctionOnSet, FoldFunctionOnSet, MapThenFoldSet
<1>2. ASSUME NEW U \in SUBSET T, NEW t \in U
      PROVE  /\ Cardinality(Of(U)) = f[t] + Cardinality(Of(U \ {t}))
  <2> DEFINE A == {x \in S : p[x] = t}
             B == Of(U \ {t})
  <2>1. IsFiniteSet(A) /\ IsFiniteSet(B)
    BY FS_Subset
  <2>2. A \cup B = Of(U) /\ A \cap B = {}
    OBVIOUS
  <2>3. f[t] = Cardinality(A)
    OBVIOUS
  <2>4. Cardinality(A) \in Nat /\ Cardinality(B) \in Nat
    BY <2>1, FS_CardinalityType
  <2>7. Cardinality(A \cap B) = 0
    BY <2>2, FS_EmptySet
  <2> HIDE DEF A, B
  <2>5. Cardinality(A \cup B) = Cardinality(A) + Cardinality(B) - Cardinality(A \cap B)
    BY <2>1, FS_Union
  <2>6. Cardinality(A \cup B) = f[t] + Cardinality(B)
    BY <2>3, <2>4, <2>5, <2>7
  <2> QED
    BY <2>2, <2>6 DEF B
<1>3. Cardinality(Of({})) = 0 /\ Of(T) = S
  <2>1. Of({}) = {}
    OBVIOUS
  <2> QED
    BY <2>1, FS_EmptySet
<1> HIDE DEF Of
<1>4. Unfolds(g)
  <2>1. ASSUME NEW s \in SUBSET T, s # {}
        PROVE  g[s] = f[Takes(s)] + g[s \ {Takes(s)}]
    <3>1. Takes(s) \in s
      BY <2>1
    <3> HIDE DEF Takes
    <3>2. s \ {Takes(s)} \in SUBSET T
      OBVIOUS
    <3> QED
      BY <1>2, <3>1, <3>2
  <2>2. g[{}] = 0
    BY <1>3
  <2> HIDE DEF Takes
  <2>3. \A s \in SUBSET T : g[s] = IF s = {} THEN 0 ELSE f[Takes(s)] + g[s \ {Takes(s)}]
    BY <2>1, <2>2
  <2>4. g = [s \in SUBSET T |-> g[s]]
    OBVIOUS
  <2> HIDE DEF g
  <2> QED
    BY <2>3, <2>4
<1>5. Unfolds(iter)
  <2> HIDE DEF Unfolds
  <2> QED
    BY <1>4, Zenon
<1>6. \A U \in SUBSET T : g[U] = Cardinality(Of(U))
  OBVIOUS
<1> HIDE DEF iter, g
<1> DEFINE N == {n \in Nat : \A U \in SUBSET T : Cardinality(U) = n => iter[U] = g[U]}
<1>7. \A U \in SUBSET T : IsFiniteSet(U) /\ (Cardinality(U) = 0 => U = {})
  BY FS_Subset, FS_EmptySet
<1>8. 0 \in N
  <2>1. iter[{}] = 0 /\ g[{}] = 0
    BY <1>3, <1>5, <1>6
  <2> QED
    BY <1>7, <2>1
<1>9. ASSUME NEW n \in Nat, n \in N PROVE n + 1 \in N
  <2>1. SUFFICES ASSUME NEW U \in SUBSET T, Cardinality(U) = n + 1 PROVE iter[U] = g[U]
    OBVIOUS
  <2>2. U # {} /\ n + 1 # 0
    BY <2>1, FS_EmptySet
  <2> DEFINE t == Takes(U)
  <2>3. t \in U
    BY <2>2
  <2>4. iter[U] = f[t] + iter[U \ {t}]
    BY <1>5, <2>2
  <2> HIDE DEF t
  <2>5. g[U] = f[t] + g[U \ {t}]
    BY <1>2, <1>6, <2>3
  <2>6. Cardinality(U \ {t}) = n /\ U \ {t} \in SUBSET T
    <3>1. Cardinality(U \ {t}) = Cardinality(U) - 1
      BY <1>7, <2>3, FS_RemoveElement
    <3> QED
      BY <2>1, <3>1
  <2> QED
    BY <1>9, <2>4, <2>5, <2>6
<1> HIDE DEF N
<1>10. Cardinality(T) \in Nat /\ Cardinality(T) \in N
  BY <1>8, <1>9, ByNumbers, FS_CardinalityType
<1> QED
  BY <1>1, <1>3, <1>6, <1>10 DEF N
\* As many images as members, when no two have the same.
LEMMA ImagesCount ==
    ASSUME NEW S, IsFiniteSet(S), NEW f, \A x, y \in S : f[x] = f[y] => x = y
    PROVE  /\ IsFiniteSet({f[x] : x \in S}) /\ Cardinality({f[x] : x \in S}) = Cardinality(S)
<1> DEFINE T == {f[x] : x \in S}
           g == [x \in S |-> f[x]]
<1>1. g \in [S -> T] /\ DOMAIN g = S /\ \A x \in S : g[x] = f[x]
  OBVIOUS
<1>2. IsInjective(g)
  <2> HIDE DEF g
  <2> QED
    BY <1>1 DEF IsInjective
<1>3. \A t \in T : \E x \in S : g[x] = t
  OBVIOUS
<1> HIDE DEF g, T
<1>4. g \in Injection(S, T) /\ g \in Surjection(S, T)
  BY <1>1, <1>2, <1>3 DEF Injection, Surjection
<1>5. ExistsBijection(S, T)
  BY <1>4 DEF ExistsBijection, Bijection
<1>6. IsFiniteSet(T) /\ Cardinality(T) = Cardinality(S)
  BY <1>5, FS_Bijection
<1> QED
  BY <1>6 DEF T

\* What is defined step by step, each step a function of the one before, is defined.
Iteration(N, W, b, g) ==
    CHOOSE f \in [0..N -> W] : \A k \in 0..N : f[k] = IF k = 0 THEN b ELSE g[k][f[k - 1]]

LEMMA Iterated ==
    ASSUME NEW N \in Nat, NEW W, NEW b \in W, NEW g, \A k \in 1..N : \A w \in W : g[k][w] \in W
    PROVE  LET f == Iteration(N, W, b, g)
           IN f \in [0..N -> W] /\ \A k \in 0..N : f[k] = IF k = 0 THEN b ELSE g[k][f[k - 1]]
<1> DEFINE Eq(m, f) == /\ f \in [0..m -> W]
                       /\ \A k \in 0..m : f[k] = IF k = 0 THEN b ELSE g[k][f[k - 1]]
           T == {m \in Nat : m <= N => \E f : Eq(m, f)}
<1>1. 0 \in T
  <2> DEFINE f == [k \in 0..0 |-> b]
  <2>1. Eq(0, f)
    OBVIOUS
  <2> QED
    BY <2>1
<1>2. \A m \in Nat : m \in T => m + 1 \in T
  <2>1. SUFFICES ASSUME NEW m \in Nat, m + 1 <= N, NEW f, Eq(m, f) PROVE \E h : Eq(m + 1, h)
    OBVIOUS
  <2> DEFINE h == [k \in 0..(m + 1) |-> IF k = m + 1 THEN g[m + 1][f[m]] ELSE f[k]]
  <2>2. f \in [0..m -> W] /\ \A k \in 0..m : f[k] = IF k = 0 THEN b ELSE g[k][f[k - 1]]
    BY <2>1, Zenon
  <2>3. f[m] \in W /\ m + 1 \in 1..N /\ m + 1 # 0
    BY <2>1, <2>2
  <2>4. g[m + 1][f[m]] \in W
    BY <2>3
  <2>5. /\ \A k \in 0..m : k \in 0..(m + 1) /\ k # m + 1 /\ h[k] = f[k]
        /\ h[m + 1] = g[m + 1][f[m]] /\ m + 1 \in 0..(m + 1)
        /\ \A k \in 0..(m + 1) : k = m + 1 \/ k \in 0..m
        /\ \A k \in 0..(m + 1) : k # 0 => k - 1 \in 0..m
        /\ (m + 1) - 1 = m
    BY <2>1
  <2>6. h \in [0..(m + 1) -> W]
    BY <2>2, <2>4, <2>5
  <2>7. \A k \in 0..(m + 1) : h[k] = IF k = 0 THEN b ELSE g[k][h[k - 1]]
    <3>1. ASSUME NEW k \in 0..m PROVE h[k] = IF k = 0 THEN b ELSE g[k][h[k - 1]]
      <4>1. CASE k = 0
        BY <2>2, <2>5, <4>1
      <4>2. CASE k # 0
        <5>1. h[k] = g[k][f[k - 1]]
          BY <2>2, <2>5, <4>2
        <5>2. h[k - 1] = f[k - 1]
          BY <2>5, <4>2
        <5> QED
          BY <4>2, <5>1, <5>2
      <4> QED
        BY <4>1, <4>2
    <3>2. h[m + 1] = g[m + 1][h[(m + 1) - 1]]
      <4>1. h[m] = f[m]
        BY <2>5
      <4> QED
        BY <2>5, <4>1
    <3> QED
      BY <2>3, <2>5, <3>1, <3>2
  <2> HIDE DEF h
  <2> QED
    BY <2>6, <2>7
<1>3. N \in T
  <2> HIDE DEF T
  <2> QED
    BY <1>1, <1>2, ByNumbers
<1>4. \E f \in [0..N -> W] : \A k \in 0..N : f[k] = IF k = 0 THEN b ELSE g[k][f[k - 1]]
  BY <1>3
<1> QED
  BY <1>4, Zenon DEF Iteration

\* What only grows within a finite set, each step following from the one before, has
\* ended after as many steps as the set has members.
LEMMA GrowthEnds ==
    ASSUME NEW T, IsFiniteSet(T), NEW N \in Nat, Cardinality(T) <= N,
           NEW grow, \A S \in SUBSET T : grow[S] \in SUBSET T /\ S \subseteq grow[S],
           NEW f, f[0] \in SUBSET T, \A k \in 1..N : f[k] = grow[f[k - 1]]
    PROVE  /\ \A k \in 0..N : f[k] \in SUBSET T
           /\ grow[f[N]] = f[N]
<1> DEFINE A == {k \in Nat : k <= N =>
                    /\ f[k] \in SUBSET T
                    /\ grow[f[k]] = f[k] \/ Cardinality(f[k]) >= k}
<1>1. \A S \in SUBSET T : IsFiniteSet(S) /\ Cardinality(S) \in Nat
  BY FS_Subset, FS_CardinalityType
<1>2. 0 \in A
  BY <1>1
<1>3. \A k \in Nat : k \in A => k + 1 \in A
  <2>1. SUFFICES ASSUME NEW k \in Nat, k \in A, k + 1 <= N
                 PROVE  /\ f[k + 1] \in SUBSET T
                        /\ grow[f[k + 1]] = f[k + 1] \/ Cardinality(f[k + 1]) >= k + 1
    OBVIOUS
  <2>2. f[k] \in SUBSET T /\ (grow[f[k]] = f[k] \/ Cardinality(f[k]) >= k)
    BY <2>1
  <2>3. f[k + 1] = grow[f[k]]
    <3>1. k + 1 \in 1..N /\ (k + 1) - 1 = k
      BY <2>1
    <3> QED
      BY <3>1
  <2>4. f[k + 1] \in SUBSET T /\ f[k] \subseteq f[k + 1]
    BY <2>2, <2>3
  <2>5. CASE grow[f[k]] = f[k]
    BY <2>3, <2>4, <2>5
  <2>6. CASE grow[f[k]] # f[k] /\ Cardinality(f[k]) >= k
    <3>1. Cardinality(f[k]) < Cardinality(f[k + 1])
      <4>1. f[k] # f[k + 1] /\ IsFiniteSet(f[k + 1])
        BY <1>1, <2>3, <2>4, <2>6
      <4>2. Cardinality(f[k]) <= Cardinality(f[k + 1]) /\ Cardinality(f[k]) # Cardinality(f[k + 1])
        BY <2>4, <4>1, FS_Subset
      <4> QED
        BY <1>1, <2>2, <2>4, <4>2
    <3>2. Cardinality(f[k]) \in Nat /\ Cardinality(f[k + 1]) \in Nat
      BY <1>1, <2>2, <2>4
    <3> QED
      BY <2>4, <2>6, <3>1, <3>2
  <2> QED
    BY <2>2, <2>5, <2>6
<1>4. \A k \in Nat : k \in A
  <2> HIDE DEF A
  <2> QED
    BY <1>2, <1>3, ByNumbers
<1>5. \A k \in 0..N : f[k] \in SUBSET T
  BY <1>4
<1>6. grow[f[N]] = f[N] \/ Cardinality(f[N]) >= N
  BY <1>4
<1>7. CASE Cardinality(f[N]) >= N
  <2>1. f[N] \in SUBSET T /\ N \in 0..N
    BY <1>5
  <2>2. Cardinality(f[N]) <= Cardinality(T) /\ Cardinality(T) \in Nat /\ Cardinality(f[N]) \in Nat
    BY <1>1, <2>1, FS_Subset
  <2>3. Cardinality(f[N]) = Cardinality(T)
    BY <1>7, <2>2
  <2>4. f[N] = T
    BY <2>1, <2>3, FS_Subset
  <2> QED
    BY <2>1, <2>4
<1> QED
  BY <1>5, <1>6, <1>7
=============================================================================
