-------------------------- MODULE UsageLedgerProofs --------------------------
(***************************************************************************)
(* What holds of the usage tables for all sessions, prices, days and       *)
(* bounds: a token is counted once.                                        *)
(*                                                                         *)
(* Figures form a commutative monoid, so that the fold over a function is  *)
(* a sum over its domain (Sums, AddedIsSum), which splits, joins and can   *)
(* be exchanged.  The rest follows the tables: how readings of a session   *)
(* follow one another, what each day of a rollup takes from them (the      *)
(* rises from one day's last reading to the next's, which telescope), and  *)
(* what a round writes.  The invariant ties them together: the days hold   *)
(* exactly the marks of the sessions that are there and of those that are  *)
(* gone (DaysHoldMarks), and the highest a session stood at is its newest  *)
(* reading or its mark (IsKept).                                           *)
(***************************************************************************)
EXTENDS UsageLedger, Inductions

CostsOf  == Nat \cup {NoCost}
Figures  == [tokens : Nat, cost : Nat, sessions : Nat]
Readings == [tokens : Nat, cost : CostsOf]
Marks    == [tokens : Nat, cost : CostsOf, day : Days \cup {NoDay}]

-----------------------------------------------------------------------------
(* Sums of figures.                                                         *)

\* Adding figures is associative and commutative and leaves Nothing out.
LEMMA PlusAdds ==
    ASSUME NEW a \in Figures, NEW b \in Figures, NEW c \in Figures
    PROVE  /\ Plus(a, b) \in Figures
           /\ Plus(a, b) = Plus(b, a) /\ Plus(a, Plus(b, c)) = Plus(Plus(a, b), c)
           /\ Nothing \in Figures /\ Plus(Nothing, a) = a /\ Plus(a, Nothing) = a
<1>1. /\ a = [tokens |-> a.tokens, cost |-> a.cost, sessions |-> a.sessions]
      /\ a.tokens \in Nat /\ a.cost \in Nat /\ a.sessions \in Nat
      /\ b.tokens \in Nat /\ b.cost \in Nat /\ b.sessions \in Nat
      /\ c.tokens \in Nat /\ c.cost \in Nat /\ c.sessions \in Nat
  BY DEF Figures
<1>2. Plus(a, b) \in Figures /\ Nothing \in Figures
  BY <1>1 DEF Plus, Figures, Nothing
<1>3. Plus(a, b) = Plus(b, a)
  BY <1>1 DEF Plus
<1>4. Plus(a, Plus(b, c)) = Plus(Plus(a, b), c)
  BY <1>1 DEF Plus
<1>5. Plus(Nothing, a) = a /\ Plus(a, Nothing) = a
  BY <1>1 DEF Plus, Nothing
<1> QED
  BY <1>2, <1>3, <1>4, <1>5

\* A sum of each part of D: it takes any member out of it.
Sums(f, D, g) ==
    /\ g \in [SUBSET D -> Figures] /\ g[{}] = Nothing
    /\ \A T \in SUBSET D : \A x \in T : g[T] = Plus(f[x], g[T \ {x}])

LEMMA SumsExist ==
    ASSUME NEW D, IsFiniteSet(D), NEW f, \A d \in D : f[d] \in Figures
    PROVE  \E g : Sums(f, D, g)
<1> DEFINE F == {T \in SUBSET D : \E g : Sums(f, T, g)}
<1>1. {} \in F
  <2> DEFINE g == [T \in SUBSET {} |-> Nothing]
  <2>1. Sums(f, {}, g)
    <3>1. Nothing \in Figures
      BY DEF Nothing, Figures
    <3> QED
      BY <3>1 DEF Sums
  <2> QED
    BY <2>1
<1>2. ASSUME NEW T \in SUBSET D, NEW a \in D \ T, T \in F PROVE T \cup {a} \in F
  <2>1. PICK g : Sums(f, T, g)
    BY <1>2
  <2> DEFINE h == [U \in SUBSET (T \cup {a}) |->
                      IF a \in U THEN Plus(f[a], g[U \ {a}]) ELSE g[U]]
  <2>2. ASSUME NEW U \in SUBSET (T \cup {a}) PROVE U \ {a} \in SUBSET T
    OBVIOUS
  <2>3. \A U \in SUBSET T : g[U] \in Figures
    BY <2>1 DEF Sums
  <2>4. f[a] \in Figures /\ \A d \in T : f[d] \in Figures
    OBVIOUS
  <2>5. ASSUME NEW U \in SUBSET (T \cup {a}) PROVE h[U] \in Figures
    <3>1. U \ {a} \in SUBSET T
      OBVIOUS
    <3>2. CASE a \in U
      <4>1. h[U] = Plus(f[a], g[U \ {a}])
        BY <3>2
      <4> QED
        BY <2>3, <2>4, <3>1, <4>1, PlusAdds
    <3>3. CASE a \notin U
      BY <2>3, <3>1, <3>3
    <3> QED
      BY <3>2, <3>3
  <2>6. ASSUME NEW U \in SUBSET (T \cup {a}), NEW x \in U
        PROVE  h[U] = Plus(f[x], h[U \ {x}])
    <3>1. U \ {x} \in SUBSET (T \cup {a}) /\ U \ {a} \in SUBSET T
      OBVIOUS
    <3>2. CASE x = a
      BY <3>1, <3>2
    <3>3. CASE x # a /\ a \in U
      <4> DEFINE V == (U \ {a}) \ {x}
      <4>1. V \in SUBSET T /\ x \in U \ {a} /\ (U \ {x}) \ {a} = V
        BY <3>3
      <4>2. g[U \ {a}] = Plus(f[x], g[V])
        BY <2>1, <3>1, <4>1 DEF Sums
      <4>3. h[U] = Plus(f[a], g[U \ {a}]) /\ h[U \ {x}] = Plus(f[a], g[V])
        BY <3>1, <3>3, <4>1
      <4>4. f[x] \in Figures /\ g[V] \in Figures
        BY <2>3, <2>4, <4>1
      <4> HIDE DEF V, h
      <4>5. Plus(f[a], Plus(f[x], g[V])) = Plus(f[x], Plus(f[a], g[V]))
        BY <2>4, <4>4, PlusAdds
      <4> QED
        BY <4>2, <4>3, <4>5
    <3>4. CASE a \notin U
      <4>1. U \in SUBSET T /\ U \ {x} \in SUBSET T
        BY <3>4
      <4>2. h[U] = g[U] /\ h[U \ {x}] = g[U \ {x}]
        BY <3>1, <3>4
      <4> QED
        BY <2>1, <4>1, <4>2 DEF Sums
    <3> QED
      BY <3>2, <3>3, <3>4
  <2>7. h[{}] = Nothing /\ h \in [SUBSET (T \cup {a}) -> Figures]
    <3>1. h[{}] = g[{}]
      OBVIOUS
    <3> QED
      BY <2>1, <2>5, <3>1 DEF Sums
  <2> HIDE DEF h
  <2>8. Sums(f, T \cup {a}, h)
    BY <2>6, <2>7 DEF Sums
  <2> QED
    BY <2>8
<1> HIDE DEF F
<1>3. D \in F
  BY <1>1, <1>2, ByMembers
<1> QED
  BY <1>3 DEF F

\* What the fold of a function adds up to is such a sum.
LEMMA AddedIsSum ==
    ASSUME NEW D, IsFiniteSet(D), NEW f, \A d \in D : f[d] \in Figures,
           NEW g, Sums(f, D, g), NEW p, DOMAIN p = D, \A d \in D : p[d] = f[d]
    PROVE  Added(p) = g[D]
<1> DEFINE Takes(s) == CHOOSE x \in s : TRUE
           Unfolds(h) == h = [s \in SUBSET D |->
                                 IF s = {} THEN Nothing ELSE Plus(p[Takes(s)], h[s \ {Takes(s)}])]
           iter == CHOOSE h : Unfolds(h)
<1>1. Added(p) = iter[D]
  BY DEF Added, FoldFunction, FoldFunctionOnSet, MapThenFoldSet
<1>2. Unfolds(g)
  <2>1. ASSUME NEW s \in SUBSET D, s # {}
        PROVE  g[s] = Plus(p[Takes(s)], g[s \ {Takes(s)}])
    <3>1. Takes(s) \in s
      BY <2>1
    <3> HIDE DEF Takes
    <3> QED
      BY <3>1 DEF Sums
  <2> HIDE DEF Takes
  <2>2. g[{}] = Nothing /\ g \in [SUBSET D -> Figures]
    BY DEF Sums
  <2> QED
    BY <2>1, <2>2
<1>3. Unfolds(iter)
  <2> HIDE DEF Unfolds
  <2> QED
    BY <1>2, Zenon
<1> HIDE DEF iter
<1> DEFINE F == {T \in SUBSET D : iter[T] = g[T]}
<1>4. iter[{}] = g[{}]
  <2>1. iter[{}] = Nothing /\ g[{}] = Nothing
    BY <1>3 DEF Sums
  <2> QED
    BY <2>1
<1>5. \A n \in Nat : \A T \in SUBSET D : Cardinality(T) = n => iter[T] = g[T]
  <2> DEFINE N == {n \in Nat : \A T \in SUBSET D : Cardinality(T) = n => iter[T] = g[T]}
  <2>1. \A T \in SUBSET D : IsFiniteSet(T) /\ (Cardinality(T) = 0 => T = {})
    BY FS_Subset, FS_EmptySet
  <2>2. 0 \in N
    BY <1>4, <2>1
  <2>3. ASSUME NEW n \in Nat, n \in N PROVE n + 1 \in N
    <3>1. SUFFICES ASSUME NEW T \in SUBSET D, Cardinality(T) = n + 1 PROVE iter[T] = g[T]
      OBVIOUS
    <3>2. T # {} /\ n + 1 # 0
      BY <3>1, FS_EmptySet
    <3> DEFINE x == Takes(T)
    <3>3. x \in T
      BY <3>2
    <3>5. iter[T] = Plus(p[x], iter[T \ {x}])
      BY <1>3, <3>2
    <3>6. g[T] = Plus(p[x], g[T \ {x}])
      BY <1>2, <3>2
    <3> HIDE DEF x
    <3>7. Cardinality(T \ {x}) = n /\ T \ {x} \in SUBSET D
      <4>1. Cardinality(T \ {x}) = Cardinality(T) - 1
        BY <2>1, <3>3, FS_RemoveElement
      <4> QED
        BY <3>1, <4>1
    <3> QED
      BY <2>3, <3>5, <3>6, <3>7
  <2> HIDE DEF N
  <2>4. \A n \in Nat : n \in N
    BY <2>2, <2>3, ByNumbers
  <2> QED
    BY <2>4 DEF N
<1>6. Cardinality(D) \in Nat
  BY FS_CardinalityType
<1> QED
  BY <1>1, <1>5, <1>6

\* The sum of the figures that f gives the members of D.
Sum(f, D) == Added([d \in D |-> f[d]])

\* A sum over nothing is Nothing, and any part can be taken out of a sum.
LEMMA SumIs ==
    ASSUME NEW D, IsFiniteSet(D), NEW f, \A d \in D : f[d] \in Figures
    PROVE  /\ Sum(f, {}) = Nothing /\ Sum(f, D) \in Figures
           /\ \A x \in D : Sum(f, D) = Plus(f[x], Sum(f, D \ {x}))
<1>1. PICK g : Sums(f, D, g)
  BY SumsExist
<1>2. ASSUME NEW T \in SUBSET D PROVE Sum(f, T) = g[T]
  <2>1. IsFiniteSet(T)
    BY FS_Subset
  <2> DEFINE h == [U \in SUBSET T |-> g[U]]  p == [d \in T |-> f[d]]
  <2>2. Sums(f, T, h)
    <3>1. h \in [SUBSET T -> Figures] /\ h[{}] = Nothing
      BY <1>1 DEF Sums
    <3>2. ASSUME NEW U \in SUBSET T, NEW x \in U PROVE h[U] = Plus(f[x], h[U \ {x}])
      <4>1. U \in SUBSET D /\ U \ {x} \in SUBSET T
        OBVIOUS
      <4>2. g[U] = Plus(f[x], g[U \ {x}])
        BY <1>1, <4>1 DEF Sums
      <4> QED
        BY <4>1, <4>2
    <3> HIDE DEF h
    <3> QED
      BY <3>1, <3>2 DEF Sums
  <2>3. DOMAIN p = T /\ \A d \in T : p[d] = f[d]
    OBVIOUS
  <2>4. h[T] = g[T]
    OBVIOUS
  <2>5. Sum(f, T) = Added(p)
    BY DEF Sum
  <2> HIDE DEF h, p
  <2>6. Added(p) = h[T]
    BY <2>1, <2>2, <2>3, AddedIsSum
  <2> QED
    BY <2>4, <2>5, <2>6
<1>3. Sum(f, {}) = Nothing /\ Sum(f, D) \in Figures
  BY <1>1, <1>2 DEF Sums
<1>4. ASSUME NEW x \in D PROVE Sum(f, D) = Plus(f[x], Sum(f, D \ {x}))
  <2>1. Sum(f, D) = g[D] /\ Sum(f, D \ {x}) = g[D \ {x}]
    BY <1>2
  <2> QED
    BY <1>1, <2>1 DEF Sums
<1> QED
  BY <1>3, <1>4

\* A sum with one more part.
LEMMA SumOfMore ==
    ASSUME NEW D, IsFiniteSet(D), NEW f, NEW x, x \notin D,
           \A d \in D \cup {x} : f[d] \in Figures
    PROVE  /\ Sum(f, D) \in Figures
           /\ Sum(f, D \cup {x}) = Plus(f[x], Sum(f, D))
<1>1. IsFiniteSet(D \cup {x})
  BY FS_AddElement
<1>2. (D \cup {x}) \ {x} = D
  OBVIOUS
<1>3. Sum(f, D \cup {x}) = Plus(f[x], Sum(f, (D \cup {x}) \ {x}))
  BY <1>1, SumIs
<1> QED
  BY <1>2, <1>3, SumIs

\* A sum of what is added part by part is the sum of the two sums.
LEMMA SumOfPlus ==
    ASSUME NEW D, IsFiniteSet(D), NEW f, NEW h, NEW k,
           \A d \in D : f[d] \in Figures /\ h[d] \in Figures /\ k[d] = Plus(f[d], h[d])
    PROVE  Sum(k, D) = Plus(Sum(f, D), Sum(h, D))
<1> DEFINE F == {T \in SUBSET D : Sum(k, T) = Plus(Sum(f, T), Sum(h, T))}
<1>1. \A d \in D : k[d] \in Figures
  BY PlusAdds
<1>2. {} \in F
  <2>1. Sum(k, {}) = Nothing /\ Sum(f, {}) = Nothing /\ Sum(h, {}) = Nothing
    BY <1>1, SumIs
  <2>2. Nothing \in Figures
    BY DEF Nothing, Figures
  <2> QED
    BY <2>1, <2>2, PlusAdds
<1>3. ASSUME NEW T \in SUBSET D, NEW x \in D \ T, T \in F PROVE T \cup {x} \in F
  <2>1. IsFiniteSet(T) /\ x \notin T /\ \A d \in T \cup {x} : d \in D
    BY FS_Subset
  <2>2. Sum(f, T) \in Figures /\ Sum(f, T \cup {x}) = Plus(f[x], Sum(f, T))
    BY <2>1, SumOfMore
  <2>3. Sum(h, T) \in Figures /\ Sum(h, T \cup {x}) = Plus(h[x], Sum(h, T))
    BY <2>1, SumOfMore
  <2>4. Sum(k, T \cup {x}) = Plus(k[x], Sum(k, T))
    BY <1>1, <2>1, SumOfMore
  <2> DEFINE a == f[x]  b == h[x]  c == Sum(f, T)  e == Sum(h, T)
  <2>5. a \in Figures /\ b \in Figures /\ c \in Figures /\ e \in Figures
    BY <2>2, <2>3
  <2>6. k[x] = Plus(a, b) /\ Sum(k, T) = Plus(c, e)
    BY <1>3
  <2> HIDE DEF a, b, c, e
  <2>7. Plus(Plus(a, b), Plus(c, e)) = Plus(Plus(a, c), Plus(b, e))
    BY <2>5 DEF Plus, Figures
  <2>8. Sum(k, T \cup {x}) = Plus(Sum(f, T \cup {x}), Sum(h, T \cup {x}))
    BY <2>2, <2>3, <2>4, <2>6, <2>7 DEF a, b, c, e
  <2> QED
    BY <2>8
<1> HIDE DEF F
<1>4. D \in F
  BY <1>2, <1>3, ByMembers
<1> QED
  BY <1>4 DEF F

\* A sum of Nothing is Nothing.
LEMMA SumOfNothing ==
    ASSUME NEW D, IsFiniteSet(D), NEW f, \A d \in D : f[d] = Nothing
    PROVE  Sum(f, D) = Nothing
<1>1. Nothing \in Figures
  BY DEF Nothing, Figures
<1> DEFINE F == {T \in SUBSET D : Sum(f, T) = Nothing}
<1>2. {} \in F
  BY <1>1, SumIs
<1>3. ASSUME NEW T \in SUBSET D, NEW x \in D \ T, T \in F PROVE T \cup {x} \in F
  <2>1. IsFiniteSet(T) /\ x \notin T /\ \A d \in T \cup {x} : f[d] \in Figures
    BY <1>1, FS_Subset
  <2>2. Sum(f, T \cup {x}) = Plus(f[x], Sum(f, T))
    BY <2>1, SumOfMore
  <2>3. Plus(Nothing, Nothing) = Nothing
    BY <1>1, PlusAdds
  <2> QED
    BY <1>3, <2>2, <2>3
<1> HIDE DEF F
<1>4. D \in F
  BY <1>2, <1>3, ByMembers
<1> QED
  BY <1>4 DEF F

\* Parts that are Nothing can be left out of a sum.
LEMMA SumWithin ==
    ASSUME NEW D, IsFiniteSet(D), NEW E \in SUBSET D, NEW f,
           \A d \in D : f[d] \in Figures, \A d \in D \ E : f[d] = Nothing
    PROVE  Sum(f, D) = Sum(f, E)
<1> DEFINE O == D \ E
           F == {T \in SUBSET O : Sum(f, E \cup T) = Sum(f, E)}
<1>1. {} \in F
  <2>1. E \cup {} = E
    OBVIOUS
  <2> QED
    BY <2>1
<1>2. ASSUME NEW T \in SUBSET O, NEW x \in O \ T, T \in F PROVE T \cup {x} \in F
  <2>1. /\ IsFiniteSet(E \cup T) /\ x \notin E \cup T
        /\ \A d \in (E \cup T) \cup {x} : f[d] \in Figures
    <3>1. E \cup T \in SUBSET D
      OBVIOUS
    <3>2. IsFiniteSet(E \cup T)
      BY <3>1, FS_Subset
    <3> QED
      BY <3>2
  <2>2. Sum(f, (E \cup T) \cup {x}) = Plus(f[x], Sum(f, E \cup T)) /\ Sum(f, E \cup T) \in Figures
    BY <2>1, SumOfMore
  <2>3. E \cup (T \cup {x}) = (E \cup T) \cup {x} /\ f[x] = Nothing
    OBVIOUS
  <2>4. Plus(Nothing, Sum(f, E \cup T)) = Sum(f, E \cup T)
    BY <2>2, PlusAdds
  <2>5. Sum(f, E \cup (T \cup {x})) = Sum(f, E)
    BY <1>2, <2>2, <2>3, <2>4
  <2> QED
    BY <2>5
<1>3. IsFiniteSet(O)
  BY FS_Subset
<1>4. E \cup O = D
  OBVIOUS
<1> HIDE DEF F
<1>5. O \in F
  BY <1>1, <1>2, <1>3, ByMembers
<1> QED
  BY <1>4, <1>5 DEF F

\* A table adds up to the same by rows as by columns.
LEMMA SumExchanged ==
    ASSUME NEW S, IsFiniteSet(S), NEW D, IsFiniteSet(D),
           NEW m, \A s \in S : \A d \in D : m[s][d] \in Figures
    PROVE  Sum([s \in S |-> Sum(m[s], D)], S)
             = Sum([d \in D |-> Sum([s \in S |-> m[s][d]], S)], D)
<1> DEFINE row == [s \in S |-> Sum(m[s], D)]
           at(d) == [s \in S |-> m[s][d]]
           col(T) == [d \in D |-> Sum(at(d), T)]
           F == {T \in SUBSET S : Sum(row, T) = Sum(col(T), D)}
<1>1. \A s \in S : row[s] \in Figures
  BY SumIs
<1>2. \A d \in D : \A s \in S : at(d)[s] = m[s][d] /\ at(d)[s] \in Figures
  OBVIOUS
<1>3. ASSUME NEW T \in SUBSET S PROVE \A d \in D : col(T)[d] = Sum(at(d), T) /\ col(T)[d] \in Figures
  <2>1. IsFiniteSet(T)
    BY FS_Subset
  <2>2. ASSUME NEW d \in D PROVE Sum(at(d), T) \in Figures
    <3> HIDE DEF at
    <3> QED
      BY <1>2, <2>1, SumIs
  <2> HIDE DEF at
  <2> QED
    BY <2>2
<1>4. {} \in F
  <2>1. Sum(row, {}) = Nothing
    BY <1>1, SumIs
  <2>2. ASSUME NEW d \in D PROVE col({})[d] = Nothing
    <3> HIDE DEF at
    <3> QED
      BY <1>2, SumIs
  <2> DEFINE c == col({})
  <2>3. \A d \in D : c[d] = Nothing
    BY <2>2
  <2> HIDE DEF c
  <2>4. Sum(c, D) = Nothing
    BY <2>3, SumOfNothing
  <2> QED
    BY <2>1, <2>4 DEF c
<1>5. ASSUME NEW T \in SUBSET S, NEW x \in S \ T, T \in F PROVE T \cup {x} \in F
  <2>1. IsFiniteSet(T) /\ x \notin T /\ T \cup {x} \in SUBSET S
    BY FS_Subset
  <2>2. Sum(row, T \cup {x}) = Plus(row[x], Sum(row, T))
    <3> HIDE DEF row
    <3> QED
      BY <1>1, <2>1, SumOfMore
  <2> DEFINE c == col(T)  e == col(T \cup {x})  mx == m[x]
  <2>3. ASSUME NEW d \in D
        PROVE  c[d] \in Figures /\ mx[d] \in Figures /\ e[d] = Plus(mx[d], c[d])
    <3>1. c[d] = Sum(at(d), T) /\ c[d] \in Figures /\ e[d] = Sum(at(d), T \cup {x})
      BY <1>3, <2>1
    <3>2. at(d)[x] = mx[d] /\ mx[d] \in Figures /\ \A s \in T \cup {x} : at(d)[s] \in Figures
      BY <1>2, <2>1
    <3> HIDE DEF at, c, e, mx
    <3>3. Sum(at(d), T \cup {x}) = Plus(at(d)[x], Sum(at(d), T))
      BY <2>1, <3>2, SumOfMore
    <3> QED
      BY <3>1, <3>2, <3>3
  <2>4. row[x] = Sum(mx, D)
    OBVIOUS
  <2>5. Sum(row, T) = Sum(c, D)
    BY <1>5
  <2> HIDE DEF c, e, mx, row
  <2>6. Sum(e, D) = Plus(Sum(mx, D), Sum(c, D))
    BY <2>3, SumOfPlus
  <2>7. Sum(row, T \cup {x}) = Sum(e, D)
    BY <2>2, <2>4, <2>5, <2>6
  <2> QED
    BY <2>1, <2>7 DEF e
<1>6. S \in F
  <2> HIDE DEF F
  <2> QED
    BY <1>4, <1>5, ByMembers
<1> QED
  BY <1>6

-----------------------------------------------------------------------------
(* The inductive invariant.                                                 *)

UsageWrites == [of : Metered, at : Nat, tokens : Nat \ {0}, cost : CostsOf]

\* The readings of each session lie in the past, are of some tokens, and of no
\* later time than the session's last activity where rows bear that time.
ReadingsTyped ==
    /\ DOMAIN raw = Metered
    /\ \A s \in Metered :
          /\ DOMAIN raw[s] \subseteq 0..tick
          /\ \A t \in DOMAIN raw[s] :
                /\ raw[s][t] \in Readings /\ raw[s][t].tokens > 0
                /\ meter.dated => t <= meter.active[s]

LedgerTyped ==
    /\ tick \in Ticks
    /\ meter \in [spent : [Metered -> Nat], active : [Metered -> 0..tick], dated : BOOLEAN]
    /\ present \subseteq Metered /\ fell \subseteq Metered
    /\ ReadingsTyped
    /\ folded \in [Metered -> Marks] /\ rolled \in [Days -> Figures]
    /\ best \in [Metered -> Readings] /\ before \in [Metered -> Readings]
    /\ since \in Nat /\ gone \in Figures /\ usageFaults \in 0..MaxUsageFaults

\* What a round has gathered: one write of a session, none of those still to
\* ask, and none older than a reading that is already stored.
GatheredIsNew ==
    \A w \in reading.gathered :
       /\ w.at <= reading.at /\ (meter.dated => w.at <= meter.active[w.of])
       /\ \A t \in DOMAIN raw[w.of] : t <= w.at
       /\ \A i \in DOMAIN reading.asking : reading.asking[i] # w.of
       /\ \A v \in reading.gathered : v.of = w.of => v = w

RoundIsSound ==
    /\ reading \in [asking : Seq(Metered), gathered : SUBSET UsageWrites, at : Int]
    /\ reading.at <= tick /\ IsInjective(reading.asking)
    /\ reading.asking # <<>> =>
          /\ reading.at \in Nat
          /\ \A s \in Metered : \A t \in DOMAIN raw[s] : t <= reading.at
    /\ GatheredIsNew

\* The highest reading of a session is its newest one or its mark, and nothing
\* is above it; a mark without a day is no mark.
IsKept(s) ==
    /\ folded[s].tokens <= best[s].tokens /\ folded[s].cost <= best[s].cost
    /\ before[s].tokens <= best[s].tokens
    /\ \A t \in DOMAIN raw[s] :
          raw[s][t].tokens <= best[s].tokens /\ raw[s][t].cost <= best[s].cost
    /\ folded[s].day = NoDay => folded[s].tokens = 0 /\ folded[s].cost = NoCost
    /\ folded[s].day # NoDay => best[s].tokens > 0
    /\ IsUnread(s) => /\ folded[s].tokens = best[s].tokens /\ folded[s].cost = best[s].cost
                      /\ best[s].tokens > 0 => folded[s].day # NoDay
    /\ ~IsUnread(s) => /\ best[s].tokens \in {Newest(s).tokens, folded[s].tokens}
                       /\ best[s].cost \in {Newest(s).cost, folded[s].cost}
    /\ s \notin present => /\ DOMAIN raw[s] = {} /\ folded[s] = Unfolded
                           /\ best[s].tokens = 0 /\ before[s].tokens = 0

\* Where a window can still be told, its opening figure is what the tables give.
IsWindowed(s) ==
    /\ s \notin fell /\ ~IsUnread(s) => Newest(s).tokens = best[s].tokens
    /\ since >= tick - RollupAfter =>
          /\ folded[s].tokens <= before[s].tokens
          /\ \A t \in DOMAIN raw[s] : t < since => raw[s][t].tokens <= before[s].tokens
          /\ s \notin fell => Standing(s, since).tokens = before[s].tokens

\* The days hold the marks of the sessions and what deleted ones left.
OfMark(s) == NetOfFold(folded[s], Unread, IF folded[s].day = NoDay THEN 0 ELSE 1)
DaysHoldMarks == Added(rolled) = Plus(gone, Added([s \in present |-> OfMark(s)]))

SessionsAreKept == \A s \in Metered : IsKept(s) /\ IsWindowed(s)

UsageInv == LedgerTyped /\ RoundIsSound /\ DaysHoldMarks /\ SessionsAreKept

-----------------------------------------------------------------------------
(* Numbers, days and readings.                                              *)

\* A finite set of integers has a largest member, which is what Max picks.
LEMMA MaxIs ==
    ASSUME NEW S \in SUBSET Int, IsFiniteSet(S), S # {}
    PROVE  Max(S) \in S /\ \A x \in S : x <= Max(S)
<1> DEFINE F == {T \in SUBSET S : T = {} \/ \E m \in T : \A x \in T : x <= m}
<1>1. {} \in F
  OBVIOUS
<1>2. ASSUME NEW T \in SUBSET S, NEW a \in S \ T, T \in F PROVE T \cup {a} \in F
  <2>1. a \in Int /\ \A x \in T : x \in Int
    OBVIOUS
  <2>2. CASE T = {}
    BY <2>1, <2>2
  <2>3. CASE T # {}
    <3>1. PICK m \in T : \A x \in T : x <= m
      BY <1>2, <2>3
    <3>2. CASE a <= m
      BY <3>1, <3>2
    <3>3. CASE ~(a <= m)
      <4>1. \A x \in T \cup {a} : x <= a
        BY <2>1, <3>1, <3>3
      <4> QED
        BY <4>1
    <3> QED
      BY <3>2, <3>3
  <2> QED
    BY <2>2, <2>3
<1> HIDE DEF F
<1>3. S \in F
  BY <1>1, <1>2, ByMembers
<1>4. PICK m \in S : \A x \in S : x <= m
  BY <1>3 DEF F
<1>5. m >= m /\ \A x \in S : m >= x
  BY <1>4
<1>6. \E y \in S : \A x \in S : y >= x
  BY <1>5
<1>7. Max(S) \in S /\ \A x \in S : Max(S) >= x
  BY <1>6 DEF Max
<1> QED
  BY <1>7

\* Of a pair Max takes the larger one.
LEMMA MaxOfTwo ==
    ASSUME NEW a \in Int, NEW b \in Int
    PROVE  Max({a, b}) = IF a >= b THEN a ELSE b
<1>1. {a, b} \in SUBSET Int /\ IsFiniteSet({a, b}) /\ {a, b} # {}
  <2>1. IsFiniteSet({a})
    BY FS_Singleton
  <2>2. IsFiniteSet({a} \cup {b})
    BY <2>1, FS_AddElement
  <2>3. {a} \cup {b} = {a, b}
    OBVIOUS
  <2> QED
    BY <2>2, <2>3
<1> DEFINE m == Max({a, b})
<1>2. m \in {a, b} /\ a <= m /\ b <= m
  BY <1>1, MaxIs
<1> HIDE DEF m
<1>3. m = IF a >= b THEN a ELSE b
  BY <1>2
<1> QED
  BY <1>3 DEF m

\* What Rises, Priced and Higher give.
LEMMA RisesIs ==
    ASSUME NEW n \in Nat, NEW m \in Nat
    PROVE  Rises(n, m) \in Nat /\ Rises(n, m) = IF n >= m THEN n - m ELSE 0
<1>1. Max({0, n - m}) = IF 0 >= n - m THEN 0 ELSE n - m
  BY MaxOfTwo
<1> QED
  BY <1>1 DEF Rises

LEMMA PricedIs ==
    ASSUME NEW c \in CostsOf
    PROVE  Priced(c) \in Nat /\ Priced(c) = IF c >= 0 THEN c ELSE 0
<1>1. c \in Int
  BY DEF CostsOf, NoCost
<1>2. Max({0, c}) = IF 0 >= c THEN 0 ELSE c
  BY <1>1, MaxOfTwo
<1> QED
  BY <1>1, <1>2 DEF Priced

LEMMA HigherIs ==
    ASSUME NEW r, NEW q, r.tokens \in Nat, q.tokens \in Nat, r.cost \in CostsOf, q.cost \in CostsOf
    PROVE  /\ Higher(r, q) \in Readings
           /\ Higher(r, q).tokens = IF r.tokens >= q.tokens THEN r.tokens ELSE q.tokens
           /\ Higher(r, q).cost = IF r.cost >= q.cost THEN r.cost ELSE q.cost
<1>1. r.cost \in Int /\ q.cost \in Int
  BY DEF CostsOf, NoCost
<1>2. /\ Max({r.tokens, q.tokens}) = IF r.tokens >= q.tokens THEN r.tokens ELSE q.tokens
      /\ Max({r.cost, q.cost}) = IF r.cost >= q.cost THEN r.cost ELSE q.cost
  BY <1>1, MaxOfTwo
<1> QED
  BY <1>2 DEF Higher, Readings

\* A part above a mark is a figure.
LEMMA NetIs ==
    ASSUME NEW r, NEW q, r.tokens \in Nat, q.tokens \in Nat, r.cost \in CostsOf, q.cost \in CostsOf,
           NEW n \in Nat
    PROVE  /\ NetOfFold(r, q, n) \in Figures
           /\ NetOfFold(r, q, n).tokens = Rises(r.tokens, q.tokens)
           /\ NetOfFold(r, q, n).cost = Rises(Priced(r.cost), Priced(q.cost))
           /\ NetOfFold(r, q, n).sessions = n
<1>1. Priced(r.cost) \in Nat /\ Priced(q.cost) \in Nat
  BY PricedIs
<1>2. Rises(r.tokens, q.tokens) \in Nat /\ Rises(Priced(r.cost), Priced(q.cost)) \in Nat
  BY <1>1, RisesIs
<1> QED
  BY <1>2 DEF NetOfFold, Figures

\* A day's ticks are those between two multiples of DayTicks.
LEMMA DayIs ==
    ASSUME NEW t \in Nat
    PROVE  DayOf(t) \in Nat /\ DayOf(t) * DayTicks <= t /\ t < (DayOf(t) + 1) * DayTicks
<1>1. DayTicks \in Nat /\ DayTicks > 0
  BY UsageAssumption
<1> QED
  BY <1>1 DEF DayOf

LEMMA TimesIsMonotone ==
    ASSUME NEW a \in Nat, NEW b \in Nat, a <= b, NEW c \in Nat
    PROVE  a * c <= b * c
<1>1. (b - a) \in Nat /\ b = a + (b - a)
  OBVIOUS
<1>2. (b - a) * c \in Nat /\ a * c \in Nat /\ b * c \in Nat
  BY <1>1
<1>3. b * c = a * c + (b - a) * c
  BY <1>1
<1> QED
  BY <1>2, <1>3

LEMMA DayIsOne ==
    ASSUME NEW t \in Nat, NEW d \in Nat
    PROVE  /\ d * DayTicks <= t /\ t < (d + 1) * DayTicks => DayOf(t) = d
           /\ t < d * DayTicks => DayOf(t) + 1 <= d
           /\ d * DayTicks <= t => d <= DayOf(t)
<1> DEFINE q == DayOf(t)
<1>1. q \in Nat /\ q * DayTicks <= t /\ t < (q + 1) * DayTicks /\ DayTicks \in Nat
  BY DayIs, UsageAssumption
<1>0. /\ q * DayTicks \in Nat /\ (q + 1) * DayTicks \in Nat /\ d * DayTicks \in Nat
      /\ (d + 1) * DayTicks \in Nat /\ d + 1 \in Nat /\ q + 1 \in Nat
  BY <1>1
<1> HIDE DEF q
<1>2. q + 1 <= d => (q + 1) * DayTicks <= d * DayTicks
  BY <1>0, <1>1, TimesIsMonotone
<1>3. d + 1 <= q => (d + 1) * DayTicks <= q * DayTicks
  BY <1>0, <1>1, TimesIsMonotone
<1>4. d <= q => d * DayTicks <= q * DayTicks
  BY <1>0, <1>1, TimesIsMonotone
<1>5. d <= q \/ q + 1 <= d
  BY <1>1
<1>6. q <= d \/ d + 1 <= q
  BY <1>1
<1>7. d * DayTicks <= t => d <= q
  BY <1>0, <1>1, <1>2, <1>5
<1>8. t < (d + 1) * DayTicks => q <= d
  BY <1>0, <1>1, <1>3, <1>6
<1>9. t < d * DayTicks => q + 1 <= d
  BY <1>0, <1>1, <1>4, <1>5
<1> QED
  BY <1>1, <1>7, <1>8, <1>9 DEF q

LEMMA DaysAre == Days = 0..DayOf(MaxTick) /\ DayOf(MaxTick) \in Nat /\ IsFiniteSet(Days)
<1>1. MaxTick \in Nat /\ DayTicks \in Nat
  BY UsageAssumption
<1>2. DayOf(MaxTick) \in Nat /\ DayOf(MaxTick) * DayTicks <= MaxTick
  BY <1>1, DayIs
<1>3. ASSUME NEW t \in Ticks PROVE DayOf(t) \in 0..DayOf(MaxTick)
  <2>1. t \in Nat /\ t <= MaxTick
    BY <1>1, <1>3 DEF Ticks
  <2>2. DayOf(t) \in Nat /\ DayOf(t) * DayTicks <= t
    BY <2>1, DayIs
  <2>3. DayOf(t) * DayTicks \in Nat
    BY <1>1, <2>2
  <2>4. DayOf(t) <= DayOf(MaxTick)
    BY <1>1, <2>1, <2>2, <2>3, DayIsOne
  <2> QED
    BY <1>2, <2>2, <2>4
<1>4. ASSUME NEW d \in 0..DayOf(MaxTick) PROVE \E t \in Ticks : DayOf(t) = d
  <2> DEFINE t == d * DayTicks
  <2>1. d \in Nat /\ d <= DayOf(MaxTick)
    BY <1>2
  <2>2. t \in Nat /\ t < (d + 1) * DayTicks
    <3>1. (d + 1) * DayTicks = d * DayTicks + DayTicks /\ DayTicks > 0
      BY <1>1, <2>1, UsageAssumption
    <3> QED
      BY <1>1, <2>1, <3>1
  <2>3. t <= DayOf(MaxTick) * DayTicks
    BY <1>1, <1>2, <2>1, TimesIsMonotone
  <2>4. t \in Ticks
    BY <1>1, <1>2, <2>2, <2>3 DEF Ticks
  <2>5. t <= t
    BY <2>2
  <2>6. DayOf(t) = d
    BY <2>1, <2>2, <2>5, DayIsOne
  <2> HIDE DEF t
  <2> QED
    BY <2>4, <2>6
<1>5. Days = 0..DayOf(MaxTick)
  BY <1>3, <1>4 DEF Days
<1> QED
  BY <1>2, <1>5, FS_Interval

\* The newest reading of a range is a reading of it, and none of it is newer.
LEMMA NewestIs ==
    ASSUME LedgerTyped, NEW s \in Metered, NEW from, NEW to, ReadIn(s, from, to) # {}
    PROVE  \E t \in ReadIn(s, from, to) :
              /\ NewestIn(s, from, to) = raw[s][t] /\ raw[s][t] \in Readings /\ raw[s][t].tokens > 0
              /\ t \in 0..tick /\ \A u \in ReadIn(s, from, to) : u <= t
<1> DEFINE R == ReadIn(s, from, to)
<1>1. R \in SUBSET (0..tick) /\ R \subseteq DOMAIN raw[s]
  BY DEF LedgerTyped, ReadingsTyped, ReadIn
<1>2. tick \in Nat
  BY UsageAssumption DEF LedgerTyped, Ticks
<1>3. IsFiniteSet(R) /\ R \in SUBSET Int
  <2>1. IsFiniteSet(0..tick)
    BY <1>2, FS_Interval
  <2> HIDE DEF R
  <2>2. 0..tick \in SUBSET Int
    BY <1>2
  <2> QED
    BY <1>1, <2>1, <2>2, FS_Subset
<1> HIDE DEF R
<1>4. Max(R) \in R /\ \A u \in R : u <= Max(R)
  BY <1>3, MaxIs DEF R
<1>5. NewestIn(s, from, to) = raw[s][Max(R)]
  BY DEF NewestIn, R
<1>6. raw[s][Max(R)] \in Readings /\ raw[s][Max(R)].tokens > 0
  BY <1>1, <1>4 DEF LedgerTyped, ReadingsTyped
<1> QED
  BY <1>1, <1>4, <1>5, <1>6 DEF R

\* All readings of a session, and the newest of them.
LEMMA AllReadings ==
    ASSUME LedgerTyped, NEW s \in Metered
    PROVE  /\ ReadIn(s, 0, MaxTick) = DOMAIN raw[s] /\ (IsUnread(s) <=> DOMAIN raw[s] = {})
           /\ ~IsUnread(s) => \E t \in DOMAIN raw[s] :
                 /\ Newest(s) = raw[s][t] /\ raw[s][t] \in Readings /\ raw[s][t].tokens > 0
                 /\ t \in 0..tick /\ \A u \in DOMAIN raw[s] : u <= t
<1>1. tick \in Nat /\ tick <= MaxTick /\ MaxTick \in Nat
  BY UsageAssumption DEF LedgerTyped, Ticks
<1>2. DOMAIN raw[s] \subseteq 0..tick
  BY DEF LedgerTyped, ReadingsTyped
<1>3. ReadIn(s, 0, MaxTick) = DOMAIN raw[s]
  BY <1>1, <1>2 DEF ReadIn
<1>4. IsUnread(s) <=> DOMAIN raw[s] = {}
  BY <1>3 DEF IsUnread
<1>5. ASSUME ~IsUnread(s) PROVE ReadIn(s, 0, MaxTick) # {}
  BY <1>5 DEF IsUnread
<1> QED
  BY <1>3, <1>4, <1>5, NewestIs DEF Newest

\* What is newest is told apart by its time.
LEMMA OneIsNewest ==
    ASSUME LedgerTyped, NEW s \in Metered, NEW from, NEW to,
           NEW t \in ReadIn(s, from, to), \A u \in ReadIn(s, from, to) : u <= t
    PROVE  NewestIn(s, from, to) = raw[s][t]
<1>1. PICK m \in ReadIn(s, from, to) :
         NewestIn(s, from, to) = raw[s][m] /\ \A u \in ReadIn(s, from, to) : u <= m
  BY NewestIs
<1>2. m \in Int /\ t \in Int
  BY DEF LedgerTyped, ReadingsTyped, ReadIn
<1>3. m = t
  BY <1>1, <1>2
<1> QED
  BY <1>1, <1>3

\* The cutoff is the start of a day and no later than its tick.
LEMMA CutoffIs ==
    ASSUME LedgerTyped
    PROVE  /\ \E k \in Nat : FoldBefore = k * DayTicks
           /\ FoldBefore \in Nat
           /\ since >= tick - RollupAfter => FoldBefore <= since
<1>1. tick \in Nat /\ RollupAfter \in Nat /\ DayTicks \in Nat /\ since \in Nat
  BY UsageAssumption DEF LedgerTyped, Ticks
<1> DEFINE c == Max({0, tick - RollupAfter})
<1>2. c = IF 0 >= tick - RollupAfter THEN 0 ELSE tick - RollupAfter
  BY <1>1, MaxOfTwo
<1>3. c \in Nat /\ (since >= tick - RollupAfter => c <= since)
  BY <1>1, <1>2
<1>4. FoldBefore = DayOf(c) * DayTicks
  BY DEF FoldBefore
<1> HIDE DEF c
<1>5. DayOf(c) \in Nat /\ DayOf(c) * DayTicks <= c
  BY <1>3, DayIs
<1>6. DayOf(c) * DayTicks \in Nat
  BY <1>1, <1>5
<1> QED
  BY <1>1, <1>3, <1>4, <1>5, <1>6

\* The days that are folded: each has a newest reading from before the cutoff,
\* and each reading from before the cutoff is of such a day.
LEMMA FoldedDaysAre ==
    ASSUME LedgerTyped, NEW s \in Metered
    PROVE  /\ FoldedDays(s) \in SUBSET Days
           /\ \A t \in DOMAIN raw[s] : t < FoldBefore => DayOf(t) \in FoldedDays(s)
           /\ \A d \in FoldedDays(s) : \E t \in DOMAIN raw[s] :
                 /\ t < FoldBefore /\ DayOf(t) = d
                 /\ OfDay(s, d) = raw[s][t] /\ raw[s][t] \in Readings /\ raw[s][t].tokens > 0
                 /\ \A u \in DOMAIN raw[s] : DayOf(u) = d => u <= t
<1>1. tick \in Nat /\ tick <= MaxTick /\ DayTicks \in Nat /\ FoldBefore \in Nat /\ MaxTick \in Nat
  BY UsageAssumption, CutoffIs DEF LedgerTyped, Ticks
<1>2. DOMAIN raw[s] \subseteq 0..tick
  BY DEF LedgerTyped, ReadingsTyped
<1>3. \A t \in DOMAIN raw[s] : t < FoldBefore => t \in ReadIn(s, 0, FoldBefore - 1)
  BY <1>1, <1>2 DEF ReadIn
<1>4. \A t \in ReadIn(s, 0, FoldBefore - 1) :
         t \in DOMAIN raw[s] /\ t < FoldBefore /\ t \in Nat /\ t \in Ticks
  BY <1>1, <1>2 DEF ReadIn, Ticks
<1>5. FoldedDays(s) \in SUBSET Days
  BY <1>4 DEF FoldedDays, Days
<1>6. \A t \in DOMAIN raw[s] : t < FoldBefore => DayOf(t) \in FoldedDays(s)
  BY <1>3 DEF FoldedDays
<1>7. PICK k \in Nat : FoldBefore = k * DayTicks
  BY CutoffIs
<1>8. ASSUME NEW d \in FoldedDays(s)
      PROVE  \E t \in DOMAIN raw[s] :
                 /\ t < FoldBefore /\ DayOf(t) = d
                 /\ OfDay(s, d) = raw[s][t] /\ raw[s][t] \in Readings /\ raw[s][t].tokens > 0
                 /\ \A u \in DOMAIN raw[s] : DayOf(u) = d => u <= t
  <2>1. PICK v \in ReadIn(s, 0, FoldBefore - 1) : d = DayOf(v)
    BY <1>8 DEF FoldedDays
  <2>2. v \in DOMAIN raw[s] /\ v < FoldBefore /\ v \in Nat
    BY <1>4
  <2>3. d \in Nat /\ d * DayTicks <= v /\ v < (d + 1) * DayTicks /\ d + 1 <= k
    BY <1>7, <2>1, <2>2, DayIs, DayIsOne
  <2>4. (d + 1) * DayTicks <= FoldBefore
    BY <1>1, <1>7, <2>3, TimesIsMonotone
  <2> DEFINE lo == d * DayTicks  hi == (d + 1) * DayTicks  R == ReadIn(s, lo, hi - 1)
  <2>5. lo \in Nat /\ hi \in Nat
    BY <1>1, <2>3
  <2>6. lo <= v /\ v < hi /\ hi <= FoldBefore
    BY <2>3, <2>4
  <2>7. OfDay(s, d) = NewestIn(s, lo, hi - 1)
    BY DEF OfDay
  <2>8. \A u \in Nat : lo <= u /\ u < hi => DayOf(u) = d
    BY <2>3, DayIsOne
  <2>9. \A u \in Nat : DayOf(u) = d => lo <= u /\ u < hi
    BY DayIs
  <2> HIDE DEF lo, hi
  <2>10. v \in R
    BY <2>2, <2>5, <2>6 DEF ReadIn
  <2>11. \A u \in DOMAIN raw[s] : u \in Nat
    BY <1>2
  <2>12. PICK t \in R : /\ NewestIn(s, lo, hi - 1) = raw[s][t]
                        /\ raw[s][t] \in Readings /\ raw[s][t].tokens > 0
                        /\ \A u \in R : u <= t
    BY <2>10, NewestIs
  <2>13. t \in DOMAIN raw[s] /\ lo <= t /\ t < hi /\ t \in Nat
    BY <2>5, <2>11, <2>12 DEF ReadIn
  <2>14. \A u \in DOMAIN raw[s] : DayOf(u) = d => u \in R
    BY <2>5, <2>9, <2>11 DEF ReadIn
  <2>15. t < FoldBefore
    BY <1>1, <2>5, <2>6, <2>13
  <2> QED
    BY <2>7, <2>8, <2>12, <2>13, <2>14, <2>15
<1> QED
  BY <1>5, <1>6, <1>8

\* The image of a finite set is finite.
LEMMA ImageIsFinite ==
    ASSUME NEW S, IsFiniteSet(S), NEW f
    PROVE  IsFiniteSet({f[x] : x \in S})
<1> DEFINE F == {T \in SUBSET S : IsFiniteSet({f[x] : x \in T})}
<1>1. {} \in F
  <2>1. {f[x] : x \in {}} = {}
    OBVIOUS
  <2> QED
    BY <2>1, FS_EmptySet
<1>2. ASSUME NEW T \in SUBSET S, NEW a \in S \ T, T \in F PROVE T \cup {a} \in F
  <2>1. {f[x] : x \in T \cup {a}} = {f[x] : x \in T} \cup {f[a]}
    OBVIOUS
  <2>2. IsFiniteSet({f[x] : x \in T} \cup {f[a]})
    BY <1>2, FS_AddElement
  <2> QED
    BY <2>1, <2>2
<1> HIDE DEF F
<1>3. S \in F
  BY <1>1, <1>2, ByMembers
<1> QED
  BY <1>3 DEF F

\* The mark of a day is the highest of the old mark and of what the folded days
\* before it end with.
LEMMA MarkIs ==
    ASSUME LedgerTyped, NEW s \in Metered, NEW d \in Nat
    PROVE  LET m == MarkAt(s, d)
               old == {e \in FoldedDays(s) : e < d}
           IN  /\ m.tokens \in Nat /\ m.cost \in CostsOf
               /\ folded[s].tokens <= m.tokens /\ folded[s].cost <= m.cost
               /\ \A e \in old : OfDay(s, e).tokens <= m.tokens /\ OfDay(s, e).cost <= m.cost
               /\ m.tokens = folded[s].tokens \/ \E e \in old : m.tokens = OfDay(s, e).tokens
               /\ m.cost = folded[s].cost \/ \E e \in old : m.cost = OfDay(s, e).cost
<1> DEFINE old == {e \in FoldedDays(s) : e < d}
           passed == {folded[s]} \cup {OfDay(s, e) : e \in old}
           T == {r.tokens : r \in passed}
           C == {r.cost : r \in passed}
           m == MarkAt(s, d)
<1>1. m.tokens = Max(T) /\ m.cost = Max(C)
  BY DEF MarkAt
<1>2. IsFiniteSet(old)
  <2>1. IsFiniteSet(FoldedDays(s))
    BY FoldedDaysAre, DaysAre, FS_Subset
  <2> QED
    BY <2>1, FS_Subset
<1>3. folded[s].tokens \in Nat /\ folded[s].cost \in CostsOf
  BY DEF LedgerTyped, Marks
<1>4. \A e \in old : OfDay(s, e).tokens \in Nat /\ OfDay(s, e).cost \in CostsOf
  <2>1. SUFFICES ASSUME NEW e \in FoldedDays(s) PROVE OfDay(s, e) \in Readings
    BY DEF Readings
  <2> QED
    BY FoldedDaysAre
<1>5. T = {folded[s].tokens} \cup {OfDay(s, e).tokens : e \in old}
  OBVIOUS
<1>6. C = {folded[s].cost} \cup {OfDay(s, e).cost : e \in old}
  OBVIOUS
<1> HIDE DEF T, C, m, old
<1> DEFINE T0 == {OfDay(s, e).tokens : e \in old}
           C0 == {OfDay(s, e).cost : e \in old}
<1>7. IsFiniteSet(T0) /\ IsFiniteSet(C0)
  <2> DEFINE t == [e \in old |-> OfDay(s, e).tokens]  c == [e \in old |-> OfDay(s, e).cost]
  <2>1. IsFiniteSet({t[e] : e \in old}) /\ IsFiniteSet({c[e] : e \in old})
    <3> HIDE DEF t, c
    <3> QED
      BY <1>2, ImageIsFinite
  <2>2. T0 = {t[e] : e \in old} /\ C0 = {c[e] : e \in old}
    OBVIOUS
  <2> QED
    BY <2>1, <2>2
<1>8. T0 \in SUBSET Nat /\ C0 \in SUBSET CostsOf
  BY <1>4
<1>9. T = T0 \cup {folded[s].tokens} /\ C = C0 \cup {folded[s].cost}
  BY <1>5, <1>6
<1>10. /\ T \in SUBSET Int /\ IsFiniteSet(T) /\ T # {}
       /\ C \in SUBSET Int /\ IsFiniteSet(C) /\ C # {}
  <2>1. CostsOf \subseteq Int /\ Nat \subseteq Int
    BY DEF CostsOf, NoCost
  <2> HIDE DEF T0, C0
  <2>2. IsFiniteSet(T0 \cup {folded[s].tokens}) /\ IsFiniteSet(C0 \cup {folded[s].cost})
    BY <1>7, FS_AddElement
  <2> QED
    BY <1>3, <1>8, <1>9, <2>1, <2>2
<1>11. /\ m.tokens \in T /\ \A x \in T : x <= m.tokens
       /\ m.cost \in C /\ \A x \in C : x <= m.cost
  BY <1>1, <1>10, MaxIs
<1>12. m.tokens \in Nat /\ m.cost \in CostsOf
  BY <1>3, <1>8, <1>9, <1>11
<1>13. /\ \A e \in old : OfDay(s, e).tokens <= m.tokens /\ OfDay(s, e).cost <= m.cost
       /\ folded[s].tokens <= m.tokens /\ folded[s].cost <= m.cost
  BY <1>9, <1>11
<1>14. /\ m.tokens = folded[s].tokens \/ \E e \in old : m.tokens = OfDay(s, e).tokens
       /\ m.cost = folded[s].cost \/ \E e \in old : m.cost = OfDay(s, e).cost
  BY <1>9, <1>11
<1> QED
  BY <1>12, <1>13, <1>14 DEF m, old

\* The mark does not move over a day that is not folded, and rises to the
\* reading of one that is.
LEMMA MarkMoves ==
    ASSUME LedgerTyped, NEW s \in Metered, NEW d \in Nat
    PROVE  /\ d \notin FoldedDays(s) =>
                 /\ MarkAt(s, d + 1).tokens = MarkAt(s, d).tokens
                 /\ MarkAt(s, d + 1).cost = MarkAt(s, d).cost
           /\ d \in FoldedDays(s) =>
                 /\ MarkAt(s, d + 1).tokens =
                       IF OfDay(s, d).tokens >= MarkAt(s, d).tokens
                       THEN OfDay(s, d).tokens ELSE MarkAt(s, d).tokens
                 /\ MarkAt(s, d + 1).cost =
                       IF OfDay(s, d).cost >= MarkAt(s, d).cost
                       THEN OfDay(s, d).cost ELSE MarkAt(s, d).cost
<1> DEFINE m == MarkAt(s, d)  n == MarkAt(s, d + 1)
           old == {e \in FoldedDays(s) : e < d}
           now == {e \in FoldedDays(s) : e < d + 1}
<1>0. d + 1 \in Nat /\ FoldedDays(s) \subseteq Nat
  BY FoldedDaysAre, DaysAre
<1>1. /\ m.tokens \in Nat /\ m.cost \in CostsOf
      /\ folded[s].tokens <= m.tokens /\ folded[s].cost <= m.cost
      /\ \A e \in old : OfDay(s, e).tokens <= m.tokens /\ OfDay(s, e).cost <= m.cost
      /\ m.tokens = folded[s].tokens \/ \E e \in old : m.tokens = OfDay(s, e).tokens
      /\ m.cost = folded[s].cost \/ \E e \in old : m.cost = OfDay(s, e).cost
  BY MarkIs
<1>2. /\ n.tokens \in Nat /\ n.cost \in CostsOf
      /\ folded[s].tokens <= n.tokens /\ folded[s].cost <= n.cost
      /\ \A e \in now : OfDay(s, e).tokens <= n.tokens /\ OfDay(s, e).cost <= n.cost
      /\ n.tokens = folded[s].tokens \/ \E e \in now : n.tokens = OfDay(s, e).tokens
      /\ n.cost = folded[s].cost \/ \E e \in now : n.cost = OfDay(s, e).cost
  BY <1>0, MarkIs
<1>3. m.cost \in Int /\ n.cost \in Int
  BY <1>1, <1>2 DEF CostsOf, NoCost
<1>4. \A e \in now : e \in old \/ e = d
  BY <1>0
<1>5. \A e \in old : e \in now
  BY <1>0
<1>6. m.tokens <= n.tokens /\ m.cost <= n.cost
  BY <1>1, <1>2, <1>5
<1> HIDE DEF m, n
<1>7. ASSUME d \notin FoldedDays(s) PROVE n.tokens = m.tokens /\ n.cost = m.cost
  <2>1. \A e \in now : e \in old
    BY <1>4, <1>7
  <2>2. n.tokens <= m.tokens /\ n.cost <= m.cost
    BY <1>1, <1>2, <2>1
  <2> QED
    BY <1>1, <1>2, <1>3, <1>6, <2>2
<1>8. ASSUME d \in FoldedDays(s)
      PROVE  /\ n.tokens = IF OfDay(s, d).tokens >= m.tokens THEN OfDay(s, d).tokens ELSE m.tokens
             /\ n.cost = IF OfDay(s, d).cost >= m.cost THEN OfDay(s, d).cost ELSE m.cost
  <2> DEFINE r == OfDay(s, d)
  <2>1. r.tokens \in Nat /\ r.cost \in Int
    <3>1. r \in Readings
      BY <1>8, FoldedDaysAre
    <3> QED
      BY <3>1 DEF Readings, CostsOf, NoCost
  <2>2. d \in now
    BY <1>0, <1>8
  <2>3. r.tokens <= n.tokens /\ r.cost <= n.cost
    BY <1>2, <2>2
  <2>4. n.tokens <= m.tokens \/ n.tokens = r.tokens
    BY <1>1, <1>2, <1>4
  <2>5. n.cost <= m.cost \/ n.cost = r.cost
    BY <1>1, <1>2, <1>4
  <2> HIDE DEF r, old, now
  <2>6. n.tokens = IF r.tokens >= m.tokens THEN r.tokens ELSE m.tokens
    BY <1>1, <1>2, <1>6, <2>1, <2>3, <2>4
  <2>7. n.cost = IF r.cost >= m.cost THEN r.cost ELSE m.cost
    BY <1>3, <1>6, <2>1, <2>3, <2>5
  <2> QED
    BY <2>6, <2>7 DEF r
<1> QED
  BY <1>7, <1>8 DEF m, n

\* The sessions part of a day: a session is counted on the first day it has.
Counts(s, d) == IF folded[s].day = NoDay /\ FirstDay(s) = d THEN 1 ELSE 0
PartOf(s, d) == [DayPart(s, d) EXCEPT !.sessions = Counts(s, d)]

\* The day of a mark: the one it had, or the first that is folded; and a
\* session without a mark, of which a day is folded, gets one.
LEMMA FirstDayIs ==
    ASSUME LedgerTyped, NEW s \in Metered, IsKept(s)
    PROVE  /\ FirstDay(s) \in Days \cup {NoDay}
           /\ folded[s].day # NoDay => FirstDay(s) = folded[s].day
           /\ folded[s].day = NoDay /\ FoldedDays(s) = {} => FirstDay(s) = NoDay
           /\ folded[s].day = NoDay /\ FoldedDays(s) # {} =>
                 FirstDay(s) \in FoldedDays(s) /\ \A d \in FoldedDays(s) : FirstDay(s) <= d
<1> DEFINE days == {d \in FoldedDays(s) : Contributes(s, d)}
<1>0. folded[s].day \in Days \cup {NoDay} /\ folded[s].tokens \in Nat
  BY DEF LedgerTyped, Marks
<1>1. folded[s].day # NoDay => FirstDay(s) = folded[s].day
  BY DEF FirstDay
<1>2. folded[s].day = NoDay /\ FoldedDays(s) = {} => FirstDay(s) = NoDay
  BY DEF FirstDay
<1>3. ASSUME folded[s].day = NoDay, FoldedDays(s) # {}
      PROVE  FirstDay(s) \in FoldedDays(s) /\ \A d \in FoldedDays(s) : FirstDay(s) <= d
  <2>1. FoldedDays(s) \in SUBSET Nat
    BY FoldedDaysAre, DaysAre
  <2>2. PICK f \in FoldedDays(s) : \A d \in FoldedDays(s) : f <= d
    <3> DEFINE N == {n \in Nat : \A x \in FoldedDays(s) : ~(x < n)}
    <3>1. SUFFICES ASSUME \A f \in FoldedDays(s) : \E d \in FoldedDays(s) : ~(f <= d) PROVE FALSE
      OBVIOUS
    <3>2. 0 \in N
      BY <2>1
    <3>3. ASSUME NEW n \in Nat, n \in N PROVE n + 1 \in N
      <4>1. \A x \in FoldedDays(s) : x \in Nat /\ n <= x
        BY <2>1, <3>3
      <4>2. n \notin FoldedDays(s)
        BY <3>1, <4>1
      <4>3. \A x \in FoldedDays(s) : ~(x < n + 1)
        BY <3>3, <4>1, <4>2
      <4> QED
        BY <3>3, <4>3
    <3> HIDE DEF N
    <3>4. \A n \in Nat : n \in N
      BY <3>2, <3>3, ByNumbers
    <3>5. PICK x \in FoldedDays(s) : x \in Nat
      BY <1>3, <2>1
    <3>6. x + 1 \in N /\ x < x + 1
      BY <3>4, <3>5
    <3> QED
      BY <3>5, <3>6 DEF N
  <2>3. f \in Nat
    BY <2>1
  <2>4. MarkAt(s, f).tokens = folded[s].tokens
    <3>1. ~ \E e \in FoldedDays(s) : e < f
      BY <2>1, <2>2
    <3> QED
      BY <2>3, <3>1, MarkIs
  <2>5. OfDay(s, f).tokens > 0 /\ OfDay(s, f).tokens \in Nat
    BY FoldedDaysAre DEF Readings
  <2>6. folded[s].tokens = 0
    BY <1>3 DEF IsKept
  <2>7. Contributes(s, f)
    <3>1. DayPart(s, f).tokens = Rises(OfDay(s, f).tokens, 0)
      BY <2>4, <2>6 DEF DayPart, NetOfFold
    <3>2. Rises(OfDay(s, f).tokens, 0) # 0
      BY <2>5, RisesIs
    <3>3. Nothing.tokens = 0
      BY DEF Nothing
    <3> QED
      BY <3>1, <3>2, <3>3 DEF Contributes
  <2>8. f \in days /\ \A d \in days : f <= d
    BY <2>2, <2>7
  <2>9. Min(days) = f
    <3>1. days \in SUBSET Nat
      BY <2>1
    <3> HIDE DEF days
    <3>2. \A y \in days : f =< y
      BY <2>8
    <3> DEFINE l == Min(days)
    <3>3. l \in days /\ \A y \in days : l =< y
      BY <2>8, <3>2 DEF Min
    <3> HIDE DEF l
    <3>4. l =< f /\ f =< l /\ l \in Nat /\ f \in Nat
      BY <2>8, <3>1, <3>3
    <3>5. l = f
      BY <3>4
    <3> QED
      BY <3>5 DEF l
  <2>10. FirstDay(s) = Min(days)
    BY <1>3, <2>8 DEF FirstDay
  <2> QED
    BY <2>2, <2>9, <2>10
<1>4. FirstDay(s) \in Days \cup {NoDay}
  BY <1>0, <1>1, <1>2, <1>3, FoldedDaysAre
<1> QED
  BY <1>1, <1>2, <1>3, <1>4

-----------------------------------------------------------------------------
(* What the days take in adds up to what the marks rise by.                 *)

DayParts(s) == [d \in Days |-> IF d \in FoldedDays(s) THEN PartOf(s, d) ELSE Nothing]
MarkAfter(s) == MarkAt(s, DayOf(MaxTick) + 1)

LEMMA PartIs ==
    ASSUME LedgerTyped, NEW s \in Metered, NEW d \in FoldedDays(s)
    PROVE  /\ PartOf(s, d) \in Figures /\ PartOf(s, d).sessions = Counts(s, d)
           /\ PartOf(s, d).tokens = Rises(OfDay(s, d).tokens, MarkAt(s, d).tokens)
           /\ PartOf(s, d).cost = Rises(Priced(OfDay(s, d).cost), Priced(MarkAt(s, d).cost))
<1>1. d \in Nat
  BY FoldedDaysAre, DaysAre
<1>2. MarkAt(s, d).tokens \in Nat /\ MarkAt(s, d).cost \in CostsOf
  BY <1>1, MarkIs
<1>3. OfDay(s, d).tokens \in Nat /\ OfDay(s, d).cost \in CostsOf
  <2>1. OfDay(s, d) \in Readings
    BY FoldedDaysAre
  <2> QED
    BY <2>1 DEF Readings
<1> DEFINE n == NetOfFold(OfDay(s, d), MarkAt(s, d), 0)
<1>4. /\ n \in Figures
      /\ n.tokens = Rises(OfDay(s, d).tokens, MarkAt(s, d).tokens)
      /\ n.cost = Rises(Priced(OfDay(s, d).cost), Priced(MarkAt(s, d).cost))
  BY <1>2, <1>3, NetIs
<1>5. Counts(s, d) \in Nat
  BY DEF Counts
<1>6. DayPart(s, d) = n
  BY DEF DayPart
<1> HIDE DEF n
<1>7. PartOf(s, d) = [n EXCEPT !.sessions = Counts(s, d)]
  BY <1>6 DEF PartOf
<1> QED
  BY <1>4, <1>5, <1>7 DEF Figures

\* The figure of a mark.
MarkFigure(m, n) == [tokens |-> m.tokens, cost |-> Priced(m.cost), sessions |-> n]

LEMMA MarkFigureIs ==
    ASSUME NEW m, m.tokens \in Nat, m.cost \in CostsOf, NEW n \in Nat
    PROVE  MarkFigure(m, n) \in Figures /\ NetOfFold(m, Unread, n) = MarkFigure(m, n)
<1>1. Priced(m.cost) \in Nat /\ Priced(NoCost) = 0
  BY PricedIs DEF CostsOf, NoCost
<1>2. Rises(m.tokens, 0) = m.tokens /\ Rises(Priced(m.cost), 0) = Priced(m.cost)
  BY <1>1, RisesIs
<1> QED
  BY <1>1, <1>2 DEF MarkFigure, Figures, NetOfFold, Unread

LEMMA OfMarkIs ==
    ASSUME LedgerTyped, NEW s \in Metered
    PROVE  /\ OfMark(s) \in Figures
           /\ OfMark(s) = MarkFigure(folded[s], IF folded[s].day = NoDay THEN 0 ELSE 1)
<1>1. folded[s].tokens \in Nat /\ folded[s].cost \in CostsOf
  BY DEF LedgerTyped, Marks
<1> QED
  BY <1>1, MarkFigureIs DEF OfMark

\* Up to a day, what the days take in is what the mark rises by.
LEMMA DaysTelescope ==
    ASSUME LedgerTyped, NEW s \in Metered, IsKept(s)
    PROVE  Plus(OfMark(s), Sum(DayParts(s), Days))
             = MarkFigure(MarkAfter(s), IF FirstDay(s) = NoDay THEN 0 ELSE 1)
<1> DEFINE last == DayOf(MaxTick)
           parts == DayParts(s)
           One(n) == IF folded[s].day # NoDay \/ (FirstDay(s) >= 0 /\ FirstDay(s) < n) THEN 1 ELSE 0
           N == {n \in Nat : n <= last + 1 =>
                    Plus(OfMark(s), Sum(parts, 0..(n - 1))) = MarkFigure(MarkAt(s, n), One(n))}
<1>0. last \in Nat /\ Days = 0..last
  BY DaysAre
<1>1. \A d \in Days : parts[d] \in Figures /\ d \in Nat
  <2>1. Nothing \in Figures
    BY DEF Nothing, Figures
  <2> QED
    BY <1>0, <2>1, PartIs DEF DayParts
<1>2. OfMark(s) \in Figures
  BY OfMarkIs
<1>a. /\ folded[s].day \in Days \cup {NoDay}
      /\ FirstDay(s) \in Days \cup {NoDay}
      /\ folded[s].day # NoDay => FirstDay(s) = folded[s].day
      /\ folded[s].day = NoDay /\ FirstDay(s) # NoDay => FirstDay(s) \in FoldedDays(s)
  BY FirstDayIs DEF LedgerTyped, Marks
<1> HIDE DEF last, parts
<1>3. 0 \in N
  <2>1. 0..(0 - 1) = {}
    OBVIOUS
  <2>2. Sum(parts, {}) = Nothing
    BY <1>1, DaysAre, SumIs
  <2>3. Plus(OfMark(s), Nothing) = OfMark(s)
    BY <1>2, PlusAdds
  <2>4. MarkAt(s, 0).tokens = folded[s].tokens /\ MarkAt(s, 0).cost = folded[s].cost
    <3>1. ~ \E e \in FoldedDays(s) : e < 0
      BY FoldedDaysAre, DaysAre
    <3> QED
      BY <3>1, MarkIs
  <2>5. One(0) = IF folded[s].day = NoDay THEN 0 ELSE 1
    BY <1>0, <1>a DEF NoDay
  <2> HIDE DEF One
  <2>6. MarkFigure(MarkAt(s, 0), One(0)) = OfMark(s)
    BY <2>4, <2>5, OfMarkIs DEF MarkFigure
  <2> QED
    BY <2>1, <2>2, <2>3, <2>6
<1>4. ASSUME NEW n \in Nat, n \in N PROVE n + 1 \in N
  <2>1. SUFFICES ASSUME n + 1 <= last + 1
        PROVE  Plus(OfMark(s), Sum(parts, 0..((n + 1) - 1))) = MarkFigure(MarkAt(s, n + 1), One(n + 1))
    OBVIOUS
  <2>2. n \in Days /\ n <= last + 1
    BY <1>0, <2>1
  <2>3. 0..((n + 1) - 1) = (0..(n - 1)) \cup {n} /\ n \notin 0..(n - 1) /\ (0..(n - 1)) \cup {n} \subseteq Days
    BY <1>0, <2>1
  <2> DEFINE D == 0..(n - 1)  a == OfMark(s)  b == Sum(parts, D)  c == parts[n]
             m == MarkAt(s, n)  k == MarkAt(s, n + 1)
  <2>4. b \in Figures /\ Sum(parts, D \cup {n}) = Plus(c, b) /\ c \in Figures
    <3>1. IsFiniteSet(D) /\ n \notin D /\ \A d \in D \cup {n} : parts[d] \in Figures
      <4>1. IsFiniteSet(0..(n - 1))
        BY FS_Interval
      <4> QED
        BY <1>1, <2>3, <4>1
    <3> HIDE DEF D
    <3>2. Sum(parts, D) \in Figures /\ Sum(parts, D \cup {n}) = Plus(parts[n], Sum(parts, D))
      BY <3>1, SumOfMore
    <3> QED
      BY <3>1, <3>2
  <2>5. Plus(a, b) = MarkFigure(m, One(n))
    BY <1>4, <2>2
  <2>6. m.tokens \in Nat /\ m.cost \in CostsOf /\ k.tokens \in Nat /\ k.cost \in CostsOf
    <3>1. n + 1 \in Nat
      OBVIOUS
    <3> QED
      BY <3>1, MarkIs
  <2>7. Plus(a, Plus(c, b)) = Plus(Plus(a, b), c)
    <3> HIDE DEF a, b, c
    <3>1. Plus(c, b) = Plus(b, c)
      BY <2>4, PlusAdds
    <3>2. a \in Figures
      BY <1>2 DEF a
    <3> QED
      BY <2>4, <3>1, <3>2, PlusAdds
  <2>8. One(n) \in Nat /\ One(n + 1) = IF folded[s].day = NoDay /\ FirstDay(s) = n THEN One(n) + 1 ELSE One(n)
    BY <1>0, <1>a DEF NoDay
  <2>9. Plus(MarkFigure(m, One(n)), c) = MarkFigure(k, One(n + 1))
    <3>1. CASE n \in FoldedDays(s)
      <4>1. c = PartOf(s, n)
        BY <2>2, <3>1 DEF DayParts, parts
      <4> DEFINE o == OfDay(s, n)
      <4>2. o.tokens \in Nat /\ o.cost \in CostsOf
        <5>1. o \in Readings
          BY <3>1, FoldedDaysAre
        <5> QED
          BY <5>1 DEF Readings
      <4>3. /\ c.tokens = Rises(o.tokens, m.tokens)
            /\ c.cost = Rises(Priced(o.cost), Priced(m.cost))
            /\ c.sessions = Counts(s, n)
        BY <3>1, <4>1, PartIs
      <4>4. /\ k.tokens = IF o.tokens >= m.tokens THEN o.tokens ELSE m.tokens
            /\ k.cost = IF o.cost >= m.cost THEN o.cost ELSE m.cost
        BY <3>1, MarkMoves
      <4> HIDE DEF c, o, m, k, One
      <4>5. k.tokens = m.tokens + c.tokens
        <5>1. o.tokens \in Nat /\ m.tokens \in Nat
          BY <2>6, <4>2
        <5>2. c.tokens = IF o.tokens >= m.tokens THEN o.tokens - m.tokens ELSE 0
          BY <4>3, <5>1, RisesIs
        <5>3. k.tokens = IF o.tokens >= m.tokens THEN o.tokens ELSE m.tokens
          BY <4>4
        <5> QED
          BY <5>1, <5>2, <5>3
      <4>6. Priced(k.cost) = Priced(m.cost) + c.cost
        <5>1. /\ Priced(m.cost) \in Nat /\ Priced(m.cost) = IF m.cost >= 0 THEN m.cost ELSE 0
              /\ Priced(o.cost) \in Nat /\ Priced(o.cost) = IF o.cost >= 0 THEN o.cost ELSE 0
              /\ Priced(k.cost) = IF k.cost >= 0 THEN k.cost ELSE 0
          BY <2>6, <4>2, PricedIs
        <5>2. c.cost = IF Priced(o.cost) >= Priced(m.cost) THEN Priced(o.cost) - Priced(m.cost) ELSE 0
          BY <4>3, <5>1, RisesIs
        <5>3. m.cost \in Int /\ o.cost \in Int
          BY <2>6, <4>2 DEF CostsOf, NoCost
        <5> QED
          BY <4>4, <5>1, <5>2, <5>3
      <4>7. One(n + 1) = One(n) + c.sessions
        BY <2>8, <4>3 DEF Counts
      <4> QED
        BY <4>5, <4>6, <4>7 DEF Plus, MarkFigure
    <3>2. CASE n \notin FoldedDays(s)
      <4>1. c = Nothing
        BY <2>2, <3>2 DEF DayParts, parts
      <4>2. k.tokens = m.tokens /\ k.cost = m.cost
        BY <3>2, MarkMoves
      <4>3. One(n + 1) = One(n)
        <5>1. n # NoDay
          BY DEF NoDay
        <5>2. ~(folded[s].day = NoDay /\ FirstDay(s) = n)
          BY <1>a, <3>2, <5>1
        <5> HIDE DEF One
        <5> QED
          BY <2>8, <5>2
      <4> HIDE DEF c, m, k, One
      <4>4. MarkFigure(m, One(n)) \in Figures
        BY <2>6, <2>8, MarkFigureIs
      <4>5. MarkFigure(k, One(n + 1)) = MarkFigure(m, One(n))
        BY <4>2, <4>3 DEF MarkFigure
      <4> QED
        BY <4>1, <4>4, <4>5, PlusAdds
    <3> QED
      BY <3>1, <3>2
  <2> HIDE DEF a, b, c, m, k, One
  <2>10. Sum(parts, 0..((n + 1) - 1)) = Plus(c, b)
    BY <2>3, <2>4
  <2> QED
    BY <2>5, <2>7, <2>9, <2>10 DEF a, k
<1>5. last + 1 \in N
  <2> HIDE DEF N
  <2>1. \A n \in Nat : n \in N
    BY <1>3, <1>4, ByNumbers
  <2>2. last + 1 \in Nat
    BY <1>0
  <2> QED
    BY <2>1, <2>2
<1>6. (last + 1) - 1 = last
  BY <1>0
<1>7. One(last + 1) = IF FirstDay(s) = NoDay THEN 0 ELSE 1
  BY <1>0, <1>a DEF NoDay
<1> HIDE DEF One
<1>8. last + 1 <= last + 1
  BY <1>0
<1>9. Plus(OfMark(s), Sum(parts, 0..last)) = MarkFigure(MarkAt(s, last + 1), One(last + 1))
  BY <1>5, <1>6, <1>8
<1> QED
  BY <1>0, <1>7, <1>9 DEF MarkAfter, last, parts

-----------------------------------------------------------------------------
(* Storing a batch.                                                         *)

\* The last of a set of moments is the one Max picks.
LEMMA MaxIsThis ==
    ASSUME NEW S \in SUBSET Int, NEW t \in S, \A u \in S : u <= t
    PROVE  Max(S) = t
<1> DEFINE m == Max(S)
<1>1. \A u \in S : t >= u
  OBVIOUS
<1>2. m \in S /\ \A u \in S : m >= u
  BY <1>1 DEF Max
<1> HIDE DEF m
<1>3. m = t
  BY <1>2
<1> QED
  BY <1>3 DEF m

\* What a write does to its session.
IsWrittenAt(s, w) ==
    /\ raw'[s] = Stored(w) /\ best'[s] = Higher(w, best[s])
    /\ before'[s] = IF w.at < since THEN Higher(w, before[s]) ELSE before[s]
    /\ s \in fell' <=> s \in fell \/ w.tokens < best[s].tokens

\* What a write may be: no older than what is stored, for a session with a row.
MayBeWritten(s, w) ==
    /\ w \in UsageWrites /\ w.of = s /\ HighWater(w) /\ s \in present
    /\ w.at <= tick /\ (meter.dated => w.at <= meter.active[s])
    /\ \A t \in DOMAIN raw[s] : t <= w.at

LEMMA StoredIs ==
    ASSUME LedgerTyped, NEW s \in Metered, NEW w, MayBeWritten(s, w), IsKept(s)
    PROVE  \E c \in CostsOf :
              /\ DOMAIN Stored(w) = DOMAIN raw[s] \cup {w.at}
              /\ Stored(w)[w.at] = [tokens |-> w.tokens, cost |-> c]
              /\ \A t \in DOMAIN raw[s] : t # w.at => Stored(w)[t] = raw[s][t]
              /\ IsUnread(s) => c = w.cost
              /\ ~IsUnread(s) /\ w.cost >= Newest(s).cost => c = w.cost
              /\ ~IsUnread(s) /\ ~(w.cost >= Newest(s).cost) => c = Newest(s).cost
<1> DEFINE last == IF IsUnread(s) THEN Unread ELSE Newest(s)
           c == Max({w.cost, last.cost})
<1>1. w.of = s /\ w.cost \in CostsOf
  BY DEF MayBeWritten, UsageWrites
<1>2. last.cost \in CostsOf
  <2>1. ~IsUnread(s) => Newest(s).cost \in CostsOf
    BY AllReadings DEF Readings
  <2> QED
    BY <2>1 DEF Unread, CostsOf
<1>3. w.cost \in Int /\ last.cost \in Int /\ w.cost >= NoCost
  BY <1>1, <1>2 DEF CostsOf, NoCost
<1>4. c = IF w.cost >= last.cost THEN w.cost ELSE last.cost
  BY <1>3, MaxOfTwo
<1>5. IsUnread(s) => c = w.cost
  <2>1. IsUnread(s) => last.cost = NoCost
    BY DEF Unread
  <2> QED
    BY <1>3, <1>4, <2>1
<1>6. ~IsUnread(s) => c = IF w.cost >= Newest(s).cost THEN w.cost ELSE Newest(s).cost
  BY <1>4
<1>7. c \in CostsOf
  BY <1>1, <1>2, <1>4
<1>8. Stored(w) = [t \in DOMAIN raw[s] \cup {w.at} |->
                      IF t = w.at THEN [tokens |-> w.tokens, cost |-> c] ELSE raw[s][t]]
  BY <1>1 DEF Stored
<1> HIDE DEF c
<1> QED
  BY <1>5, <1>6, <1>7, <1>8

\* A write leaves its session typed, kept and windowed.
LEMMA WriteKeeps ==
    ASSUME LedgerTyped, NEW s \in Metered, IsKept(s), IsWindowed(s),
           NEW w, MayBeWritten(s, w), IsWrittenAt(s, w),
           UNCHANGED <<tick, meter, present, folded, since>>
    PROVE  /\ DOMAIN raw'[s] \subseteq 0..tick
           /\ \A t \in DOMAIN raw'[s] :
                 /\ raw'[s][t] \in Readings /\ raw'[s][t].tokens > 0
                 /\ meter.dated => t <= meter.active[s]
           /\ best'[s] \in Readings /\ before'[s] \in Readings
           /\ IsKept(s)' /\ IsWindowed(s)'
<1> DEFINE tb == raw[s]  tn == raw'[s]
<1>1. PICK c \in CostsOf :
         /\ DOMAIN tn = DOMAIN tb \cup {w.at}
         /\ tn[w.at] = [tokens |-> w.tokens, cost |-> c]
         /\ \A t \in DOMAIN tb : t # w.at => tn[t] = tb[t]
         /\ IsUnread(s) => c = w.cost
         /\ ~IsUnread(s) /\ w.cost >= Newest(s).cost => c = w.cost
         /\ ~IsUnread(s) /\ ~(w.cost >= Newest(s).cost) => c = Newest(s).cost
  <2>1. PICK c \in CostsOf :
           /\ DOMAIN Stored(w) = DOMAIN raw[s] \cup {w.at}
           /\ Stored(w)[w.at] = [tokens |-> w.tokens, cost |-> c]
           /\ \A t \in DOMAIN raw[s] : t # w.at => Stored(w)[t] = raw[s][t]
           /\ IsUnread(s) => c = w.cost
           /\ ~IsUnread(s) /\ w.cost >= Newest(s).cost => c = w.cost
           /\ ~IsUnread(s) /\ ~(w.cost >= Newest(s).cost) => c = Newest(s).cost
    BY StoredIs
  <2>2. tn = Stored(w)
    BY DEF IsWrittenAt
  <2> HIDE DEF tn
  <2> QED
    BY <2>1, <2>2
<1>2. /\ w.tokens \in Nat /\ w.tokens > 0 /\ w.cost \in CostsOf /\ w.at \in Nat /\ w.at <= tick
      /\ s \in present /\ w.of = s
      /\ \A t \in DOMAIN tb : t <= w.at
      /\ meter.dated => w.at <= meter.active[s]
  BY DEF MayBeWritten, UsageWrites
<1>3. /\ DOMAIN tb \subseteq 0..tick /\ tick \in Nat /\ since \in Nat /\ MaxTick \in Nat
      /\ tick <= MaxTick
      /\ \A t \in DOMAIN tb : /\ tb[t] \in Readings /\ tb[t].tokens > 0
                              /\ meter.dated => t <= meter.active[s]
  BY UsageAssumption DEF LedgerTyped, ReadingsTyped, Ticks
<1>4. /\ best[s] \in Readings /\ before[s] \in Readings
      /\ folded[s].tokens \in Nat /\ folded[s].cost \in CostsOf
  BY DEF LedgerTyped, Marks
<1>5. /\ best[s].tokens \in Nat /\ best[s].cost \in CostsOf
      /\ before[s].tokens \in Nat /\ before[s].cost \in CostsOf
  BY <1>4 DEF Readings
<1>6. /\ best'[s] \in Readings
      /\ best'[s].tokens = IF w.tokens >= best[s].tokens THEN w.tokens ELSE best[s].tokens
      /\ best'[s].cost = IF w.cost >= best[s].cost THEN w.cost ELSE best[s].cost
  BY <1>2, <1>5, HigherIs DEF IsWrittenAt
<1>7. /\ before'[s] \in Readings
      /\ w.at < since => before'[s].tokens = IF w.tokens >= before[s].tokens THEN w.tokens ELSE before[s].tokens
      /\ ~(w.at < since) => before'[s].tokens = before[s].tokens
  <2>1. /\ Higher(w, before[s]) \in Readings
        /\ Higher(w, before[s]).tokens = IF w.tokens >= before[s].tokens THEN w.tokens ELSE before[s].tokens
    BY <1>2, <1>5, HigherIs
  <2> QED
    BY <1>4, <2>1 DEF IsWrittenAt
<1>8. before'[s].tokens \in Nat /\ best'[s].tokens \in Nat /\ best'[s].cost \in Int
  BY <1>6, <1>7 DEF Readings, CostsOf, NoCost
<1>9. /\ DOMAIN tn \subseteq 0..tick
      /\ \A t \in DOMAIN tn : /\ tn[t] \in Readings /\ tn[t].tokens > 0
                              /\ meter.dated => t <= meter.active[s]
  BY <1>1, <1>2, <1>3 DEF Readings
<1>10. ~IsUnread(s)' /\ Newest(s)' = tn[w.at]
  <2> DEFINE R == {t \in DOMAIN tn : t \in 0..MaxTick}
  <2>1. R \in SUBSET Int /\ w.at \in R /\ \A u \in R : u <= w.at
    BY <1>1, <1>2, <1>3, <1>9
  <2>2. ReadIn(s, 0, MaxTick)' = R
    BY DEF ReadIn
  <2> HIDE DEF R
  <2>3. Max(R) = w.at
    BY <2>1, MaxIsThis
  <2> QED
    BY <2>1, <2>2, <2>3 DEF IsUnread, Newest, NewestIn
<1>11. /\ c \in Int /\ w.cost \in Int /\ best[s].cost \in Int /\ folded[s].cost \in Int
       /\ w.cost >= NoCost /\ best[s].cost >= NoCost
  BY <1>2, <1>4, <1>5 DEF CostsOf, NoCost
<1>12. IsUnread(s) => best[s].tokens = folded[s].tokens /\ best[s].cost = folded[s].cost
  BY DEF IsKept
<1>13. ~IsUnread(s) =>
          /\ best[s].tokens \in {Newest(s).tokens, folded[s].tokens}
          /\ best[s].cost \in {Newest(s).cost, folded[s].cost}
          /\ Newest(s).tokens \in Nat /\ Newest(s).cost \in Int
          /\ Newest(s).tokens <= best[s].tokens /\ Newest(s).cost <= best[s].cost
          /\ w.tokens >= Newest(s).tokens
  <2>1. SUFFICES ASSUME ~IsUnread(s)
        PROVE  /\ best[s].tokens \in {Newest(s).tokens, folded[s].tokens}
               /\ best[s].cost \in {Newest(s).cost, folded[s].cost}
               /\ Newest(s).tokens \in Nat /\ Newest(s).cost \in Int
               /\ Newest(s).tokens <= best[s].tokens /\ Newest(s).cost <= best[s].cost
               /\ w.tokens >= Newest(s).tokens
    OBVIOUS
  <2>2. PICK t \in DOMAIN tb : Newest(s) = tb[t] /\ tb[t] \in Readings
    BY <2>1, AllReadings
  <2>3. w.tokens >= Newest(s).tokens
    BY <1>2, <2>1 DEF MayBeWritten, HighWater
  <2> QED
    BY <2>1, <2>2, <2>3 DEF IsKept, Readings, CostsOf, NoCost
<1>14. /\ folded[s].tokens <= best[s].tokens /\ folded[s].cost <= best[s].cost
       /\ before[s].tokens <= best[s].tokens
       /\ \A t \in DOMAIN tb : tb[t].tokens <= best[s].tokens /\ tb[t].cost <= best[s].cost
  BY DEF IsKept
<1> HIDE DEF tb, tn
<1>15. c <= best'[s].cost
  <2>1. CASE IsUnread(s)
    BY <1>1, <1>6, <1>11, <2>1
  <2>2. CASE ~IsUnread(s)
    BY <1>1, <1>6, <1>11, <1>13, <2>2
  <2> QED
    BY <2>1, <2>2
<1>16. \A t \in DOMAIN tn : tn[t].tokens <= best'[s].tokens /\ tn[t].cost <= best'[s].cost
  <2>1. SUFFICES ASSUME NEW t \in DOMAIN tn
        PROVE  tn[t].tokens <= best'[s].tokens /\ tn[t].cost <= best'[s].cost
    OBVIOUS
  <2>2. CASE t = w.at
    <3>1. tn[t].tokens = w.tokens /\ tn[t].cost = c
      BY <1>1, <2>2
    <3> QED
      BY <1>2, <1>5, <1>6, <1>15, <3>1
  <2>3. CASE t # w.at
    <3>1. t \in DOMAIN tb /\ tn[t] = tb[t] /\ tb[t] \in Readings
      BY <1>1, <1>3, <2>3
    <3>2. tb[t].tokens \in Nat /\ tb[t].cost \in Int
      BY <3>1 DEF Readings, CostsOf, NoCost
    <3>3. tb[t].tokens <= best[s].tokens /\ tb[t].cost <= best[s].cost
      BY <1>14, <3>1
    <3> QED
      BY <1>2, <1>5, <1>6, <1>11, <3>1, <3>2, <3>3
  <2> QED
    BY <2>2, <2>3
<1>17. best'[s].tokens \in {w.tokens, folded[s].tokens}
  BY <1>2, <1>4, <1>5, <1>6, <1>12, <1>13
<1>18. best'[s].cost \in {c, folded[s].cost}
  <2>1. CASE IsUnread(s)
    BY <1>1, <1>6, <1>12, <2>1
  <2>2. CASE ~IsUnread(s)
    BY <1>1, <1>6, <1>11, <1>13, <2>2
  <2> QED
    BY <2>1, <2>2
<1>19. IsKept(s)'
  <2>1. folded'[s] = folded[s] /\ s \in present' /\ raw'[s] = tn
    BY <1>2 DEF tn
  <2>2. folded[s].tokens <= best'[s].tokens /\ folded[s].cost <= best'[s].cost
    BY <1>2, <1>4, <1>5, <1>6, <1>11, <1>14
  <2>3. before'[s].tokens <= best'[s].tokens
    BY <1>2, <1>5, <1>6, <1>7, <1>14
  <2>4. best'[s].tokens > 0
    BY <1>2, <1>5, <1>6
  <2>5. folded[s].day = NoDay => folded[s].tokens = 0 /\ folded[s].cost = NoCost
    BY DEF IsKept
  <2>6. Newest(s)'.tokens = w.tokens /\ Newest(s)'.cost = c
    BY <1>1, <1>10
  <2> QED
    BY <1>10, <1>16, <1>17, <1>18, <2>1, <2>2, <2>3, <2>4, <2>5, <2>6 DEF IsKept
<1>20. s \notin fell' => w.tokens >= best[s].tokens /\ s \notin fell
  BY <1>2, <1>5 DEF IsWrittenAt
<1>21. s \notin fell' => Newest(s)'.tokens = best'[s].tokens
  BY <1>1, <1>6, <1>10, <1>20
<1>22. ASSUME since >= tick - RollupAfter
       PROVE  /\ folded[s].tokens <= before'[s].tokens
              /\ \A t \in DOMAIN tn : t < since => tn[t].tokens <= before'[s].tokens
              /\ s \notin fell' => Standing(s, since)'.tokens = before'[s].tokens
  <2>1. /\ folded[s].tokens <= before[s].tokens
        /\ \A t \in DOMAIN tb : t < since => tb[t].tokens <= before[s].tokens
        /\ s \notin fell => Standing(s, since).tokens = before[s].tokens
    BY <1>22 DEF IsWindowed, tb
  <2>2. before[s].tokens <= before'[s].tokens
    BY <1>2, <1>5, <1>7
  <2>3. \A t \in DOMAIN tn : t < since => tn[t].tokens <= before'[s].tokens
    <3>1. SUFFICES ASSUME NEW t \in DOMAIN tn, t < since PROVE tn[t].tokens <= before'[s].tokens
      OBVIOUS
    <3>2. CASE t = w.at
      BY <1>1, <1>2, <1>5, <1>7, <3>1, <3>2
    <3>3. CASE t # w.at
      <4>1. t \in DOMAIN tb /\ tn[t] = tb[t] /\ tb[t].tokens \in Nat
        BY <1>1, <1>3, <3>3 DEF Readings
      <4> QED
        BY <1>5, <1>8, <2>1, <2>2, <3>1, <4>1
    <3> QED
      BY <3>2, <3>3
  <2>4. ASSUME s \notin fell' PROVE Standing(s, since)'.tokens = before'[s].tokens
    <3> DEFINE R == {t \in DOMAIN tb : t \in 0..(since - 1)}
               Q == {t \in DOMAIN tn : t \in 0..(since - 1)}
    <3>1. ReadIn(s, 0, since - 1) = R /\ ReadIn(s, 0, since - 1)' = Q
      BY DEF ReadIn, tb, tn
    <3>2. CASE w.at < since
      <4>1. Q \in SUBSET Int /\ w.at \in Q /\ \A u \in Q : u <= w.at
        BY <1>1, <1>2, <1>3, <3>2
      <4> HIDE DEF Q
      <4>2. Max(Q) = w.at
        BY <4>1, MaxIsThis
      <4>3. Standing(s, since)' = tn[w.at]
        BY <3>1, <4>1, <4>2 DEF Standing, NewestIn, tn
      <4>4. tn[w.at].tokens = w.tokens /\ before'[s].tokens = w.tokens
        BY <1>1, <1>2, <1>5, <1>7, <1>14, <1>20, <2>4, <3>2
      <4> QED
        BY <4>3, <4>4
    <3>3. CASE ~(w.at < since)
      <4>1. Q = R
        BY <1>1, <1>2, <1>3, <3>3
      <4>2. Standing(s, since)' = Standing(s, since)
        <5>1. CASE R = {}
          BY <3>1, <4>1, <5>1 DEF Standing
        <5>2. CASE R # {}
          <6>1. PICK t \in R : NewestIn(s, 0, since - 1) = tb[t] /\ \A u \in R : u <= t
            BY <3>1, <5>2, NewestIs DEF tb
          <6>2. R \in SUBSET Int
            BY <1>3
          <6>3. t \in DOMAIN tb /\ t # w.at
            BY <1>2, <1>3, <3>3
          <6> HIDE DEF R, Q
          <6>4. Max(R) = t
            BY <6>1, <6>2, MaxIsThis
          <6>5. Standing(s, since)' = tn[t]
            BY <3>1, <4>1, <5>2, <6>4 DEF Standing, NewestIn, tn
          <6>6. Standing(s, since) = tb[t]
            BY <3>1, <5>2, <6>1 DEF Standing
          <6> QED
            BY <1>1, <6>3, <6>5, <6>6
        <5> QED
          BY <5>1, <5>2
      <4> QED
        BY <1>7, <1>20, <2>1, <2>4, <3>3, <4>2
    <3> QED
      BY <3>2, <3>3
  <2> QED
    BY <1>4, <1>5, <1>8, <2>1, <2>2, <2>3, <2>4
<1>23. IsWindowed(s)'
  BY <1>21, <1>22 DEF IsWindowed, tn
<1> QED
  BY <1>6, <1>7, <1>9, <1>19, <1>23 DEF tn

\* A session that a step leaves alone stays as it should be, and time that goes
\* by asks no more of it.
LEMMA SessionAtRest ==
    ASSUME LedgerTyped, NEW s \in Metered, IsKept(s), IsWindowed(s),
           raw'[s] = raw[s], folded'[s] = folded[s], best'[s] = best[s], before'[s] = before[s],
           s \in fell' <=> s \in fell, s \notin present' => s \notin present,
           since' = since, tick' \in Nat, tick <= tick'
    PROVE  IsKept(s)' /\ IsWindowed(s)'
<1>1. /\ IsUnread(s)' = IsUnread(s) /\ Newest(s)' = Newest(s)
      /\ Standing(s, since)' = Standing(s, since)
  BY DEF IsUnread, Newest, NewestIn, ReadIn, Standing
<1>2. IsKept(s)'
  BY <1>1 DEF IsKept
<1>3. since' >= tick' - RollupAfter => since >= tick - RollupAfter
  BY UsageAssumption DEF LedgerTyped, Ticks
<1>4. IsWindowed(s)'
  <2>1. s \notin fell' /\ ~IsUnread(s)' => Newest(s)'.tokens = best'[s].tokens
    BY <1>1 DEF IsWindowed
  <2>2. since' >= tick' - RollupAfter =>
          /\ folded'[s].tokens <= before'[s].tokens
          /\ \A t \in DOMAIN raw'[s] : t < since' => raw'[s][t].tokens <= before'[s].tokens
          /\ s \notin fell' => Standing(s, since)'.tokens = before'[s].tokens
    BY <1>1, <1>3 DEF IsWindowed
  <2> QED
    BY <2>1, <2>2 DEF IsWindowed
<1> QED
  BY <1>2, <1>4

\* A batch leaves the ledger as it should be, whether it is stored or refused.
LEMMA RecordKeeps ==
    ASSUME LedgerTyped, SessionsAreKept, NEW writes \in SUBSET UsageWrites,
           \A w \in writes : /\ w.at <= tick /\ (meter.dated => w.at <= meter.active[w.of])
                             /\ \A t \in DOMAIN raw[w.of] : t <= w.at
                             /\ \A v \in writes : v.of = w.of => v = w,
           Record(writes), UNCHANGED <<tick, meter, present, folded, rolled, since, gone>>,
           usageFaults' \in 0..MaxUsageFaults
    PROVE  LedgerTyped' /\ SessionsAreKept'
<1> DEFINE kept == {w \in writes : HighWater(w)}
           Has(s) == \E w \in kept : w.of = s
           Its(s) == CHOOSE w \in kept : w.of = s
<1>0. \A s \in Metered : IsKept(s) /\ IsWindowed(s)
  BY DEF SessionsAreKept
<1>a. tick \in Nat
  BY UsageAssumption DEF LedgerTyped, Ticks
<1>1. CASE \E w \in kept : w.of \notin present
  <2>1. UNCHANGED <<raw, best, before, fell>>
    BY <1>1 DEF Record
  <2>2. ASSUME NEW s \in Metered PROVE IsKept(s)' /\ IsWindowed(s)'
    BY <1>0, <1>a, <2>1, SessionAtRest
  <2>3. LedgerTyped'
    BY <2>1 DEF LedgerTyped, ReadingsTyped
  <2> QED
    BY <2>2, <2>3 DEF SessionsAreKept
<1>2. CASE ~ \E w \in kept : w.of \notin present
  <2>1. /\ raw' = [s \in Metered |-> IF Has(s) THEN Stored(Its(s)) ELSE raw[s]]
        /\ best' = [s \in Metered |-> IF Has(s) THEN Higher(Its(s), best[s]) ELSE best[s]]
        /\ before' = [s \in Metered |->
              IF Has(s) /\ Its(s).at < since THEN Higher(Its(s), before[s]) ELSE before[s]]
        /\ fell' = fell \cup {s \in Metered : Has(s) /\ Its(s).tokens < best[s].tokens}
    BY <1>2 DEF Record
  <2> DEFINE Good(s) ==
        /\ DOMAIN raw'[s] \subseteq 0..tick
        /\ \A t \in DOMAIN raw'[s] :
              /\ raw'[s][t] \in Readings /\ raw'[s][t].tokens > 0
              /\ meter.dated => t <= meter.active[s]
        /\ best'[s] \in Readings /\ before'[s] \in Readings
        /\ IsKept(s)' /\ IsWindowed(s)'
  <2>2. ASSUME NEW s \in Metered PROVE Good(s)
    <3>1. CASE Has(s)
      <4>1. PICK w \in kept : w.of = s
        BY <3>1
      <4>2. Its(s) = w
        <5>1. \A v \in kept : v.of = s => v = w
          BY <4>1
        <5> HIDE DEF kept
        <5> QED
          BY <4>1, <5>1
      <4>3. MayBeWritten(s, w)
        BY <1>2, <4>1 DEF MayBeWritten
      <4>4. IsWrittenAt(s, w)
        <5> HIDE DEF Has, Its
        <5> QED
          BY <2>1, <3>1, <4>2 DEF IsWrittenAt
      <4> HIDE DEF Has, Its, kept
      <4> QED
        BY <1>0, <4>3, <4>4, WriteKeeps
    <3>2. CASE ~Has(s)
      <4>1. /\ raw'[s] = raw[s] /\ best'[s] = best[s] /\ before'[s] = before[s]
            /\ s \in fell' <=> s \in fell
        <5> HIDE DEF Has, Its
        <5> QED
          BY <2>1, <3>2
      <4>2. IsKept(s)' /\ IsWindowed(s)'
        BY <1>0, <1>a, <4>1, SessionAtRest
      <4>3. best[s] \in Readings /\ before[s] \in Readings
        BY DEF LedgerTyped
      <4> HIDE DEF Has, Its, kept
      <4> QED
        BY <4>1, <4>2, <4>3 DEF LedgerTyped, ReadingsTyped
    <3> QED
      BY <3>1, <3>2
  <2>3. DOMAIN raw' = Metered
    <3> HIDE DEF Has, Its
    <3> QED
      BY <2>1
  <2>4. best' \in [Metered -> Readings] /\ before' \in [Metered -> Readings]
    <3>1. \A s \in Metered : best'[s] \in Readings /\ before'[s] \in Readings
      BY <2>2
    <3> HIDE DEF Has, Its, Good
    <3>2. best' = [s \in Metered |-> best'[s]] /\ before' = [s \in Metered |-> before'[s]]
      BY <2>1
    <3> QED
      BY <3>1, <3>2
  <2>5. fell' \subseteq Metered
    <3> HIDE DEF Has, Its
    <3> QED
      BY <2>1 DEF LedgerTyped
  <2>6. ReadingsTyped'
    <3> HIDE DEF Has, Its
    <3> QED
      BY <2>2, <2>3 DEF ReadingsTyped
  <2>7. LedgerTyped'
    BY <2>4, <2>5, <2>6 DEF LedgerTyped
  <2>8. \A s \in Metered : IsKept(s)' /\ IsWindowed(s)'
    BY <2>2
  <2> QED
    BY <2>7, <2>8 DEF SessionsAreKept
<1> QED
  BY <1>1, <1>2

\* The days and the marks are left alone.
LEMMA MarksAtRest ==
    ASSUME DaysHoldMarks, UNCHANGED <<rolled, gone, present, folded>>
    PROVE  DaysHoldMarks'
  BY DEF DaysHoldMarks, OfMark

-----------------------------------------------------------------------------
(* The rounds.                                                              *)

\* A reading is dated no earlier than what is stored of its session.
LEMMA ObservedIs ==
    ASSUME LedgerTyped, RoundIsSound, reading.asking # <<>>
    PROVE  /\ Asked \in Metered /\ Asked = reading.asking[1] /\ Len(reading.asking) \in Nat \ {0}
           /\ ObservedAt(Asked) \in Nat /\ ObservedAt(Asked) <= reading.at
           /\ meter.dated => ObservedAt(Asked) <= meter.active[Asked]
           /\ \A t \in DOMAIN raw[Asked] : t <= ObservedAt(Asked)
<1>1. reading.asking \in Seq(Metered) /\ reading.asking # <<>>
  BY DEF RoundIsSound
<1>2. Asked \in Metered /\ Asked = reading.asking[1] /\ Len(reading.asking) \in Nat \ {0}
  BY <1>1 DEF Asked
<1>3. reading.at \in Nat /\ \A t \in DOMAIN raw[Asked] : t <= reading.at
  BY <1>2 DEF RoundIsSound
<1>4. meter.active[Asked] \in Nat
  BY <1>2, UsageAssumption DEF LedgerTyped, Ticks
<1>5. DOMAIN raw[Asked] \subseteq Int /\ (meter.dated => \A t \in DOMAIN raw[Asked] : t <= meter.active[Asked])
  BY <1>2 DEF LedgerTyped, ReadingsTyped
<1> DEFINE a == meter.active[Asked]  r == reading.at  m == Min({a, r})
<1>6. m \in {a, r} /\ m <= a /\ m <= r
  <2> DEFINE k == IF a <= r THEN a ELSE r
  <2>1. k \in {a, r} /\ \A y \in {a, r} : k =< y
    BY <1>3, <1>4
  <2>2. m \in {a, r} /\ \A y \in {a, r} : m =< y
    <3> HIDE DEF a, r, k
    <3> QED
      BY <2>1 DEF Min
  <2> QED
    BY <2>2
<1>7. CASE meter.dated
  <2>1. ObservedAt(Asked) = m
    BY <1>7 DEF ObservedAt
  <2> HIDE DEF m
  <2> QED
    BY <1>2, <1>3, <1>4, <1>5, <1>6, <1>7, <2>1
<1>8. CASE ~meter.dated
  <2>1. ObservedAt(Asked) = reading.at
    BY <1>8 DEF ObservedAt
  <2> QED
    BY <1>2, <1>3, <1>8, <2>1
<1> QED
  BY <1>7, <1>8

\* What a request may add to a round.
MayBeGathered(W) ==
    \A w \in W : /\ w \in UsageWrites /\ w.of = Asked /\ w.at = ObservedAt(Asked)
                 /\ \A v \in W : v = w

LEMMA GatheredWell ==
    ASSUME LedgerTyped, RoundIsSound, reading.asking # <<>>, NEW W, MayBeGathered(W)
    PROVE  /\ reading.gathered \cup W \in SUBSET UsageWrites
           /\ \A w \in reading.gathered \cup W :
                 /\ w.at <= reading.at /\ (meter.dated => w.at <= meter.active[w.of])
                 /\ \A t \in DOMAIN raw[w.of] : t <= w.at
                 /\ \A i \in DOMAIN reading.asking : i # 1 => reading.asking[i] # w.of
                 /\ \A v \in reading.gathered \cup W : v.of = w.of => v = w
<1> DEFINE G == reading.gathered
<1>1. G \in SUBSET UsageWrites /\ W \in SUBSET UsageWrites
  BY DEF RoundIsSound, MayBeGathered
<1>2. 1 \in DOMAIN reading.asking /\ reading.asking[1] = Asked
  <2>1. reading.asking \in Seq(Metered)
    BY DEF RoundIsSound
  <2> QED
    BY <2>1, ObservedIs
<1>3. \A w \in G : w.of # Asked
  BY <1>2 DEF RoundIsSound, GatheredIsNew
<1>4. \A w \in G : /\ w.at <= reading.at /\ (meter.dated => w.at <= meter.active[w.of])
                   /\ \A t \in DOMAIN raw[w.of] : t <= w.at
                   /\ \A i \in DOMAIN reading.asking : reading.asking[i] # w.of
                   /\ \A v \in G : v.of = w.of => v = w
  BY DEF RoundIsSound, GatheredIsNew
<1>5. \A w \in W : w.of = Asked /\ w.at = ObservedAt(Asked) /\ \A v \in W : v = w
  BY DEF MayBeGathered
<1>6. \A i \in DOMAIN reading.asking : i # 1 => reading.asking[i] # Asked
  BY <1>2 DEF RoundIsSound, IsInjective
<1>7. \A w \in W : /\ w.at <= reading.at /\ (meter.dated => w.at <= meter.active[w.of])
                   /\ \A t \in DOMAIN raw[w.of] : t <= w.at
                   /\ \A i \in DOMAIN reading.asking : i # 1 => reading.asking[i] # w.of
  BY <1>5, <1>6, ObservedIs
<1> HIDE DEF G
<1>8. \A w \in G \cup W : \A v \in G \cup W : v.of = w.of => v = w
  BY <1>3, <1>4, <1>5
<1> QED
  BY <1>1, <1>4, <1>7, <1>8 DEF G

\* The end of a request leaves the ledger as it should be.
LEMMA SettlesKeeps ==
    ASSUME UsageInv, NEW W, MayBeGathered(W), Settles(W), usageFaults' \in 0..MaxUsageFaults
    PROVE  UsageInv'
<1> USE DEF UsageInv
<1>1. /\ reading.asking # <<>>
      /\ UNCHANGED <<tick, meter, present, folded, rolled, since, gone>>
  BY DEF Settles
<1>2. reading.asking \in Seq(Metered) /\ reading.asking # <<>> /\ Len(reading.asking) \in Nat \ {0}
  BY <1>1, ObservedIs DEF RoundIsSound
<1> DEFINE G == reading.gathered \cup W
<1>3. /\ G \in SUBSET UsageWrites
      /\ \A w \in G :
           /\ w.at <= reading.at /\ (meter.dated => w.at <= meter.active[w.of])
           /\ \A t \in DOMAIN raw[w.of] : t <= w.at
           /\ \A i \in DOMAIN reading.asking : i # 1 => reading.asking[i] # w.of
           /\ \A v \in G : v.of = w.of => v = w
  BY <1>1, GatheredWell
<1>4. DaysHoldMarks'
  BY <1>1, MarksAtRest
<1> HIDE DEF G
<1>a. tick \in Nat /\ reading.at \in Nat /\ reading.at <= tick
  BY <1>1, UsageAssumption DEF LedgerTyped, Ticks, RoundIsSound
<1>5. CASE Len(reading.asking) > 1
  <2>1. /\ reading' = [reading EXCEPT !.asking = Tail(@), !.gathered = G]
        /\ UNCHANGED <<raw, best, before, fell>>
    BY <1>5 DEF Settles, G
  <2>2. LedgerTyped'
    BY <1>1, <2>1 DEF LedgerTyped, ReadingsTyped
  <2>3. SessionsAreKept'
    <3>1. ASSUME NEW s \in Metered PROVE IsKept(s)' /\ IsWindowed(s)'
      <4>1. IsKept(s) /\ IsWindowed(s)
        BY DEF SessionsAreKept
      <4> QED
        BY <1>1, <1>a, <2>1, <4>1, SessionAtRest
    <3> QED
      BY <3>1 DEF SessionsAreKept
  <2> DEFINE q == reading.asking  p == Tail(q)
  <2>4. /\ p \in Seq(Metered) /\ DOMAIN p = 1..(Len(q) - 1) /\ DOMAIN q = 1..Len(q)
        /\ \A i \in DOMAIN p : p[i] = q[i + 1] /\ i + 1 \in DOMAIN q /\ i + 1 # 1
    BY <1>2
  <2>5. /\ reading'.asking = p /\ reading'.gathered = G /\ reading'.at = reading.at
        /\ reading' \in [asking : Seq(Metered), gathered : SUBSET UsageWrites, at : Int]
    BY <1>3, <2>1, <2>4 DEF RoundIsSound
  <2>6. IsInjective(p)
    <3>1. \A i, j \in DOMAIN q : q[i] = q[j] => i = j
      BY DEF RoundIsSound, IsInjective
    <3>2. ASSUME NEW i \in DOMAIN p, NEW j \in DOMAIN p, p[i] = p[j] PROVE i = j
      <4>1. i + 1 = j + 1
        BY <2>4, <3>1, <3>2
      <4>2. i \in Int /\ j \in Int
        BY <2>4
      <4> HIDE DEF p
      <4> QED
        BY <4>1, <4>2
    <3> QED
      BY <3>2 DEF IsInjective
  <2>7. \A w \in G : \A i \in DOMAIN p : p[i] # w.of
    BY <1>3, <2>4
  <2> HIDE DEF p, q
  <2>8. GatheredIsNew'
    BY <1>1, <1>3, <2>1, <2>5, <2>7 DEF GatheredIsNew
  <2>9. \A s \in Metered : \A t \in DOMAIN raw'[s] : t <= reading'.at
    BY <1>1, <2>1, <2>5 DEF RoundIsSound
  <2>10. RoundIsSound'
    BY <1>1, <1>a, <2>5, <2>6, <2>8, <2>9 DEF RoundIsSound
  <2> QED
    BY <1>4, <2>2, <2>3, <2>10
<1>6. CASE ~(Len(reading.asking) > 1)
  <2>1. reading' = NoRound /\ Record(G)
    BY <1>6 DEF Settles, G
  <2>2. \A w \in G : w.at <= tick
    <3>1. \A w \in G : w.at \in Nat
      BY <1>3 DEF UsageWrites
    <3> QED
      BY <1>3, <1>a, <3>1
  <2>3. LedgerTyped' /\ SessionsAreKept'
    BY <1>1, <1>3, <2>1, <2>2, RecordKeeps
  <2>4. RoundIsSound'
    <3>1. reading'.asking = <<>> /\ reading'.gathered = {} /\ reading'.at = -1
      BY <2>1 DEF NoRound
    <3>2. reading' \in [asking : Seq(Metered), gathered : SUBSET UsageWrites, at : Int]
      BY <2>1 DEF NoRound
    <3>3. IsInjective(<<>>)
      BY DEF IsInjective
    <3>4. GatheredIsNew'
      BY <3>1 DEF GatheredIsNew
    <3>5. -1 <= tick'
      BY <1>1, <1>a
    <3> QED
      BY <3>1, <3>2, <3>3, <3>4, <3>5 DEF RoundIsSound
  <2> QED
    BY <1>4, <2>3, <2>4
<1> QED
  BY <1>5, <1>6

LEMMA WritesMayBeGathered ==
    ASSUME LedgerTyped, RoundIsSound, reading.asking # <<>>,
           NEW tokens \in Nat, NEW cost \in CostsOf
    PROVE  MayBeGathered(WritesOf(Asked, tokens, cost))
<1>1. ObservedAt(Asked) \in Nat /\ Asked \in Metered
  BY ObservedIs
<1> QED
  BY <1>1 DEF MayBeGathered, WritesOf, UsageWrites

\* Every end of a request leaves the ledger as it should be.
LEMMA AnswersKeep ==
    ASSUME UsageInv, UsageAnswered \/ Unpriced \/ Lagging \/ UsageFails
    PROVE  UsageInv'
<1>1. LedgerTyped /\ RoundIsSound
  BY DEF UsageInv
<1>2. usageFaults \in 0..MaxUsageFaults /\ MaxUsageFaults \in Nat
  BY UsageAssumption, <1>1 DEF LedgerTyped
<1>3. UsageFault => usageFaults' \in 0..MaxUsageFaults
  BY <1>2 DEF UsageFault
<1>4. NoCost \in CostsOf /\ Nat \subseteq CostsOf
  BY DEF CostsOf
<1>5. reading.asking # <<>> => meter.spent[Asked] \in Nat
  BY <1>1, ObservedIs DEF LedgerTyped
<1>6. CASE UsageAnswered
  <2> DEFINE W == WritesOf(Asked, meter.spent[Asked], meter.spent[Asked])
  <2>1. Settles(W) /\ usageFaults' \in 0..MaxUsageFaults
    BY <1>2, <1>6 DEF UsageAnswered
  <2>2. reading.asking # <<>>
    BY <2>1 DEF Settles
  <2>3. MayBeGathered(W)
    BY <1>1, <1>4, <1>5, <2>2, WritesMayBeGathered
  <2> HIDE DEF W
  <2> QED
    BY <2>1, <2>3, SettlesKeeps
<1>7. CASE Unpriced
  <2> DEFINE W == WritesOf(Asked, meter.spent[Asked], NoCost)
  <2>1. Settles(W) /\ usageFaults' \in 0..MaxUsageFaults
    BY <1>3, <1>7 DEF Unpriced
  <2>2. reading.asking # <<>>
    BY <2>1 DEF Settles
  <2>3. MayBeGathered(W)
    BY <1>1, <1>4, <1>5, <2>2, WritesMayBeGathered
  <2> HIDE DEF W
  <2> QED
    BY <2>1, <2>3, SettlesKeeps
<1>8. CASE Lagging
  <2>1. reading.asking # <<>> /\ usageFaults' \in 0..MaxUsageFaults
    BY <1>3, <1>8 DEF Lagging
  <2>2. PICK n \in 1..(meter.spent[Asked] - 1) : Settles(WritesOf(Asked, n, n))
    BY <1>8 DEF Lagging
  <2>3. n \in Nat
    BY <1>5, <2>1, <2>2
  <2>4. MayBeGathered(WritesOf(Asked, n, n))
    BY <1>1, <1>4, <2>1, <2>3, WritesMayBeGathered
  <2> QED
    BY <2>1, <2>2, <2>4, SettlesKeeps
<1>9. CASE UsageFails
  <2>1. MayBeGathered({})
    BY DEF MayBeGathered
  <2>2. Settles({}) /\ usageFaults' \in 0..MaxUsageFaults
    BY <1>3, <1>9 DEF UsageFails
  <2> QED
    BY <2>1, <2>2, SettlesKeeps
<1> QED
  BY <1>6, <1>7, <1>8, <1>9

\* Sessions in the order of their activity: each of them once.
LEMMA ByActivityIs ==
    ASSUME LedgerTyped, NEW S \in SUBSET Metered
    PROVE  ByActivity(S) \in Seq(S) /\ IsInjective(ByActivity(S))
<1> DEFINE n == Cardinality(S)
           Ahead(r) == {p \in S : MoreActive(p, r)}
           rank == [r \in S |-> Cardinality(Ahead(r))]
<1>0. Metered \subseteq Nat /\ \A r \in S : meter.active[r] \in Nat /\ r \in Nat
  BY UsageAssumption DEF LedgerTyped, Ticks
<1>o. /\ \A r \in S : ~MoreActive(r, r)
      /\ \A r, p \in S : r = p \/ MoreActive(r, p) \/ MoreActive(p, r)
      /\ \A r, p, t \in S : MoreActive(r, p) /\ MoreActive(p, t) => MoreActive(r, t)
  BY <1>0 DEF MoreActive
<1>1. /\ IsFiniteSet(S) /\ n \in Nat
      /\ \A r \in S : Ahead(r) \in SUBSET S /\ IsFiniteSet(Ahead(r))
  <2>1. IsFiniteSet(S)
    BY UsageAssumption, FS_Subset
  <2> QED
    BY <2>1, FS_Subset, FS_CardinalityType
<1>2. \A r \in S : rank[r] = Cardinality(Ahead(r)) /\ rank[r] \in Nat
  BY <1>1, FS_CardinalityType
<1>3. ASSUME NEW r \in S, NEW x \in S, MoreActive(r, x) PROVE rank[r] < rank[x]
  <2>1. Ahead(r) \cup {r} \in SUBSET Ahead(x) /\ r \notin Ahead(r)
    BY <1>3, <1>o
  <2>2. Cardinality(Ahead(r) \cup {r}) = Cardinality(Ahead(r)) + 1
    BY <1>1, <2>1, FS_AddElement
  <2>3. Cardinality(Ahead(r) \cup {r}) <= Cardinality(Ahead(x))
    BY <1>1, <2>1, FS_Subset
  <2> QED
    BY <1>2, <2>2, <2>3
<1>4. ASSUME NEW r \in S PROVE rank[r] \in 0..(n - 1)
  <2>1. Ahead(r) \cup {r} \in SUBSET S /\ r \notin Ahead(r)
    BY <1>o
  <2>2. Cardinality(Ahead(r) \cup {r}) = Cardinality(Ahead(r)) + 1
    BY <1>1, <2>1, FS_AddElement
  <2>3. Cardinality(Ahead(r) \cup {r}) <= n
    BY <1>1, <2>1, FS_Subset
  <2> QED
    BY <1>1, <1>2, <2>2, <2>3
<1> HIDE DEF rank
<1>5. ASSUME NEW r \in S, NEW x \in S, rank[r] = rank[x] PROVE r = x
  <2>1. ~(rank[r] < rank[x]) /\ ~(rank[x] < rank[r])
    <3>1. rank[r] \in Nat
      BY <1>2
    <3> QED
      BY <3>1, <1>5
  <2> QED
    BY <1>3, <2>1, <1>o
<1>6. rank \in Injection(S, 0..(n - 1))
  <2>1. rank \in [S -> 0..(n - 1)]
    BY <1>4 DEF rank
  <2> QED
    BY <1>5, <2>1 DEF Injection, IsInjective
<1>7. IsFiniteSet(0..(n - 1)) /\ Cardinality(0..(n - 1)) = n
  BY <1>1, FS_Interval
<1>8. rank \in Surjection(S, 0..(n - 1))
  BY <1>6, <1>7, FS_Injection
<1>9. \A i \in 1..n : \E r \in S : rank[r] = i - 1
  BY <1>1, <1>8 DEF Surjection
<1> DEFINE q == [i \in 1..n |-> CHOOSE r \in S : Cardinality(Ahead(r)) = i - 1]
<1>10. ASSUME NEW i \in 1..n PROVE q[i] \in S /\ rank[q[i]] = i - 1
  <2>1. PICK r \in S : Cardinality(Ahead(r)) = i - 1
    BY <1>2, <1>9
  <2>2. q[i] \in S /\ Cardinality(Ahead(q[i])) = i - 1
    <3> HIDE DEF Ahead
    <3> QED
      BY <2>1
  <2> QED
    BY <1>2, <2>2
<1>11. ByActivity(S) = q
  BY DEF ByActivity
<1>12. q \in [1..n -> S] /\ DOMAIN q = 1..n
  BY <1>10
<1> HIDE DEF q
<1>13. ASSUME NEW i \in 1..n, NEW j \in 1..n, q[i] = q[j] PROVE i = j
  <2>1. i - 1 = j - 1
    BY <1>10, <1>13
  <2> QED
    BY <2>1
<1>14. q \in Seq(S)
  BY <1>1, <1>12
<1> HIDE DEF n
<1> QED
  BY <1>11, <1>12, <1>13, <1>14 DEF IsInjective

\* The first of a list are a list of its members, each once.
LEMMA UptoIs ==
    ASSUME NEW S, NEW q \in Seq(S), IsInjective(q), NEW n \in Nat
    PROVE  /\ Upto(n, q) \in Seq(S) /\ IsInjective(Upto(n, q))
           /\ \A i \in DOMAIN Upto(n, q) : i \in DOMAIN q /\ Upto(n, q)[i] = q[i]
<1> DEFINE l == Len(q)  m == Min({n, l})  k == IF n <= l THEN n ELSE l
<1>1. l \in Nat
  OBVIOUS
<1>2. m \in 0..l
  <2>1. k \in {n, l} /\ \A y \in {n, l} : k =< y
    BY <1>1
  <2>2. m \in {n, l} /\ \A y \in {n, l} : m =< y
    <3> HIDE DEF k, l
    <3> QED
      BY <2>1 DEF Min
  <2> HIDE DEF m, l
  <2> QED
    BY <1>1, <2>2
<1> DEFINE p == SubSeq(q, 1, m)
<1>3. Upto(n, q) = p
  BY DEF Upto
<1> HIDE DEF m
<1>4. p \in Seq(S) /\ DOMAIN p = 1..m /\ DOMAIN q = 1..l /\ \A i \in 1..m : p[i] = q[i] /\ i \in 1..l
  BY <1>1, <1>2
<1> HIDE DEF p, l
<1>5. IsInjective(p)
  BY <1>4 DEF IsInjective
<1> QED
  BY <1>3, <1>4, <1>5

\* Whom a round asks: each session once.
LEMMA WantedOnce ==
    ASSUME LedgerTyped
    PROVE  LET q == Upto(UsageRoundLimit, ByActivity(Recent) \o Upto(StaleLimit, ByActivity(Stale)))
           IN  q \in Seq(Metered) /\ IsInjective(q)
<1> DEFINE a == ByActivity(Recent)  b == Upto(StaleLimit, ByActivity(Stale))  c == a \o b
<1>0. UsageRoundLimit \in Nat /\ StaleLimit \in Nat
  BY UsageAssumption
<1>1. Recent \in SUBSET Metered /\ Stale \in SUBSET Metered /\ Recent \cap Stale = {}
  BY DEF Recent, Stale, LedgerTyped
<1>2. a \in Seq(Recent) /\ IsInjective(a)
  BY <1>1, ByActivityIs
<1>3. b \in Seq(Stale) /\ IsInjective(b)
  BY <1>0, <1>1, ByActivityIs, UptoIs
<1> HIDE DEF a, b
<1>4. /\ c \in Seq(Metered) /\ DOMAIN c = 1..(Len(a) + Len(b)) /\ Len(a) \in Nat /\ Len(b) \in Nat
      /\ \A i \in DOMAIN c : c[i] = IF i <= Len(a) THEN a[i] ELSE b[i - Len(a)]
  <2>1. a \in Seq(Metered) /\ b \in Seq(Metered)
    BY <1>1, <1>2, <1>3
  <2> QED
    BY <2>1
<1>5. /\ DOMAIN a = 1..Len(a) /\ DOMAIN b = 1..Len(b)
      /\ \A i \in 1..Len(a) : a[i] \in Recent
      /\ \A i \in 1..Len(b) : b[i] \in Stale
  BY <1>2, <1>3
<1> HIDE DEF c
<1>6. ASSUME NEW i \in DOMAIN c, NEW j \in DOMAIN c, c[i] = c[j] PROVE i = j
  <2>0. i \in 1..(Len(a) + Len(b)) /\ j \in 1..(Len(a) + Len(b))
    BY <1>4
  <2>1. CASE i <= Len(a) /\ j <= Len(a)
    <3>1. i \in DOMAIN a /\ j \in DOMAIN a /\ a[i] = a[j]
      BY <1>4, <1>5, <1>6, <2>0, <2>1
    <3> QED
      BY <1>2, <3>1 DEF IsInjective
  <2>2. CASE i <= Len(a) /\ ~(j <= Len(a))
    <3>1. i \in 1..Len(a) /\ j - Len(a) \in 1..Len(b) /\ a[i] = b[j - Len(a)]
      BY <1>4, <1>6, <2>0, <2>2
    <3> QED
      BY <1>1, <1>5, <3>1
  <2>3. CASE ~(i <= Len(a)) /\ j <= Len(a)
    <3>1. j \in 1..Len(a) /\ i - Len(a) \in 1..Len(b) /\ a[j] = b[i - Len(a)]
      BY <1>4, <1>6, <2>0, <2>3
    <3> QED
      BY <1>1, <1>5, <3>1
  <2>4. CASE ~(i <= Len(a)) /\ ~(j <= Len(a))
    <3>1. i - Len(a) \in DOMAIN b /\ j - Len(a) \in DOMAIN b /\ b[i - Len(a)] = b[j - Len(a)]
      BY <1>4, <1>5, <1>6, <2>0, <2>4
    <3>2. i - Len(a) = j - Len(a)
      BY <1>3, <3>1 DEF IsInjective
    <3> QED
      BY <1>4, <2>0, <3>2
  <2> QED
    BY <2>1, <2>2, <2>3, <2>4
<1>7. IsInjective(c)
  BY <1>6 DEF IsInjective
<1>8. Upto(UsageRoundLimit, c) \in Seq(Metered) /\ IsInjective(Upto(UsageRoundLimit, c))
  BY <1>0, <1>4, <1>7, UptoIs
<1> QED
  BY <1>8 DEF a, b, c

-----------------------------------------------------------------------------
(* The steps that store nothing.                                            *)

\* Whom the marks belong to.
OfMarks == [s \in Metered |-> OfMark(s)]

LEMMA MarksAddUp ==
    ASSUME LedgerTyped
    PROVE  /\ Added([s \in present |-> OfMark(s)]) = Sum(OfMarks, present)
           /\ Added(rolled) = Sum(rolled, Days)
           /\ IsFiniteSet(present) /\ present \subseteq Metered
           /\ \A s \in Metered : OfMarks[s] = OfMark(s) /\ OfMarks[s] \in Figures
<1>1. present \subseteq Metered /\ IsFiniteSet(present)
  BY UsageAssumption, FS_Subset DEF LedgerTyped
<1>2. [s \in present |-> OfMark(s)] = [s \in present |-> OfMarks[s]]
  BY <1>1 DEF OfMarks
<1>3. rolled = [d \in Days |-> rolled[d]]
  BY DEF LedgerTyped
<1>4. \A s \in Metered : OfMarks[s] = OfMark(s) /\ OfMarks[s] \in Figures
  BY OfMarkIs DEF OfMarks
<1> QED
  BY <1>1, <1>2, <1>3, <1>4 DEF Sum

LEMMA InitIsSound == UsageInit => UsageInv
<1> SUFFICES ASSUME UsageInit PROVE UsageInv
  OBVIOUS
<1> USE DEF UsageInit
<1>1. /\ MaxTick \in Nat /\ Openings \subseteq Nat /\ Datings \subseteq BOOLEAN
      /\ MaxUsageFaults \in Nat
  BY UsageAssumption
<1>2. /\ Nothing \in Figures /\ Unread \in Readings /\ Unfolded \in Marks
  BY DEF Nothing, Figures, Unread, Readings, Unfolded, Marks, CostsOf
<1>3. ReadingsTyped
  BY DEF ReadingsTyped
<1>4. LedgerTyped
  <2>1. tick \in Ticks /\ since \in Nat /\ usageFaults \in 0..MaxUsageFaults
    BY <1>1 DEF Ticks
  <2>2. meter \in [spent : [Metered -> Nat], active : [Metered -> 0..tick], dated : BOOLEAN]
    BY <1>1
  <2> QED
    BY <1>2, <1>3, <2>1, <2>2 DEF LedgerTyped
<1>5. RoundIsSound
  <2>1. reading.asking = <<>> /\ reading.gathered = {} /\ reading.at = -1
    BY DEF NoRound
  <2>2. reading \in [asking : Seq(Metered), gathered : SUBSET UsageWrites, at : Int]
    BY DEF NoRound
  <2>3. IsInjective(<<>>)
    BY DEF IsInjective
  <2>4. GatheredIsNew
    BY <2>1 DEF GatheredIsNew
  <2> QED
    BY <2>1, <2>2, <2>3, <2>4 DEF RoundIsSound
<1>6. ASSUME NEW s \in Metered PROVE IsKept(s) /\ IsWindowed(s)
  <2>1. DOMAIN raw[s] = {} /\ folded[s] = Unfolded /\ best[s] = Unread /\ before[s] = Unread
    OBVIOUS
  <2>2. IsUnread(s)
    BY <2>1 DEF IsUnread, ReadIn
  <2>3. Standing(s, since) = folded[s]
    BY <2>1 DEF Standing, ReadIn
  <2> QED
    BY <2>1, <2>2, <2>3 DEF IsKept, IsWindowed, Unfolded, Unread, NoCost
<1>7. DaysHoldMarks
  <2>1. \A s \in present : OfMarks[s] = Nothing
    <3>1. ASSUME NEW s \in Metered PROVE OfMark(s) = Nothing
      <4>1. OfMark(s) = MarkFigure(Unfolded, 0)
        BY <1>4, OfMarkIs DEF Unfolded
      <4>2. Priced(NoCost) = 0
        BY PricedIs DEF CostsOf, NoCost
      <4> QED
        BY <4>1, <4>2 DEF MarkFigure, Unfolded, Nothing
    <3> QED
      BY <1>4, <3>1, MarksAddUp
  <2>2. Sum(OfMarks, present) = Nothing
    BY <1>4, <2>1, MarksAddUp, SumOfNothing
  <2>3. Sum(rolled, Days) = Nothing
    BY DaysAre, SumOfNothing
  <2>4. Plus(gone, Nothing) = Nothing
    BY <1>2, PlusAdds
  <2> QED
    BY <1>4, <2>2, <2>3, <2>4, MarksAddUp DEF DaysHoldMarks
<1> QED
  BY <1>4, <1>5, <1>6, <1>7 DEF UsageInv, SessionsAreKept

LEMMA SpendKeeps ==
    ASSUME UsageInv, NEW s \in Metered, Spend(s) PROVE UsageInv'
<1> USE DEF UsageInv
<1>1. /\ meter' = [meter EXCEPT !.spent[s] = @ + 1, !.active[s] = tick]
      /\ UNCHANGED <<tick, present, raw, folded, rolled, reading, best, before, since, gone,
                     fell, usageFaults>>
  BY DEF Spend, usageTables, usagePast
<1>2. tick \in Nat
  BY UsageAssumption DEF LedgerTyped, Ticks
<1>3. /\ meter' \in [spent : [Metered -> Nat], active : [Metered -> 0..tick], dated : BOOLEAN]
      /\ meter'.dated = meter.dated
      /\ \A p \in Metered : meter.active[p] <= meter'.active[p] /\ meter.active[p] \in Nat
                            /\ meter'.active[p] \in Nat
  <2>1. meter \in [spent : [Metered -> Nat], active : [Metered -> 0..tick], dated : BOOLEAN]
    BY DEF LedgerTyped
  <2> DEFINE a == [meter.active EXCEPT ![s] = tick]  n == [meter.spent EXCEPT ![s] = @ + 1]
  <2>2. a \in [Metered -> 0..tick] /\ n \in [Metered -> Nat]
    BY <1>2, <2>1
  <2>3. \A p \in Metered : meter.active[p] <= a[p] /\ meter.active[p] \in Nat /\ a[p] \in Nat
    BY <1>2, <2>1
  <2>4. meter' = [meter EXCEPT !.spent = n, !.active = a]
    BY <1>1, <2>1
  <2> HIDE DEF a, n
  <2>5. meter' = [spent |-> n, active |-> a, dated |-> meter.dated]
    BY <2>1, <2>4
  <2> QED
    BY <2>1, <2>2, <2>3, <2>5
<1>4. ReadingsTyped'
  <2>1. ASSUME NEW p \in Metered, NEW t \in DOMAIN raw[p], meter.dated PROVE t <= meter'.active[p]
    <3>1. t \in Int /\ t <= meter.active[p]
      BY <1>2, <2>1 DEF LedgerTyped, ReadingsTyped
    <3> QED
      BY <1>3, <3>1
  <2> QED
    BY <1>1, <1>3, <2>1 DEF LedgerTyped, ReadingsTyped
<1>5. LedgerTyped'
  BY <1>1, <1>3, <1>4 DEF LedgerTyped
<1>6. GatheredIsNew'
  <2>1. ASSUME NEW w \in reading.gathered, meter.dated PROVE w.at <= meter'.active[w.of]
    <3>1. w.at \in Nat /\ w.of \in Metered /\ w.at <= meter.active[w.of]
      BY <2>1 DEF RoundIsSound, GatheredIsNew, UsageWrites
    <3> QED
      BY <1>3, <3>1
  <2> QED
    BY <1>1, <1>3, <2>1 DEF RoundIsSound, GatheredIsNew
<1>7. RoundIsSound'
  BY <1>1, <1>6 DEF RoundIsSound
<1>8. ASSUME NEW p \in Metered PROVE IsKept(p)' /\ IsWindowed(p)'
  <2>1. IsKept(p) /\ IsWindowed(p)
    BY DEF SessionsAreKept
  <2> QED
    BY <1>1, <1>2, <2>1, SessionAtRest
<1>9. DaysHoldMarks'
  BY <1>1, MarksAtRest
<1> QED
  BY <1>5, <1>7, <1>8, <1>9 DEF SessionsAreKept

LEMMA TimeKeeps ==
    ASSUME UsageInv, PassTime PROVE UsageInv'
<1> USE DEF UsageInv
<1>1. /\ tick < MaxTick /\ tick' = tick + 1
      /\ UNCHANGED <<meter, present, raw, folded, rolled, reading, best, before, since, gone,
                     fell, usageFaults>>
  BY DEF PassTime, usageTables, usagePast
<1>2. tick \in Nat /\ tick' \in Nat /\ tick' \in Ticks /\ 0..tick \subseteq 0..tick' /\ tick <= tick'
  BY <1>1, UsageAssumption DEF LedgerTyped, Ticks
<1>3. LedgerTyped'
  <2>1. meter' \in [spent : [Metered -> Nat], active : [Metered -> 0..tick'], dated : BOOLEAN]
    BY <1>1, <1>2 DEF LedgerTyped
  <2>2. ReadingsTyped'
    BY <1>1, <1>2 DEF LedgerTyped, ReadingsTyped
  <2> QED
    BY <1>1, <1>2, <2>1, <2>2 DEF LedgerTyped
<1>4. RoundIsSound'
  <2>1. GatheredIsNew'
    BY <1>1 DEF RoundIsSound, GatheredIsNew
  <2>2. reading.at \in Int /\ reading.at <= tick
    BY DEF RoundIsSound
  <2>3. reading.at <= tick'
    BY <1>1, <1>2, <2>2
  <2> QED
    BY <1>1, <2>1, <2>3 DEF RoundIsSound
<1>5. ASSUME NEW p \in Metered PROVE IsKept(p)' /\ IsWindowed(p)'
  <2>1. IsKept(p) /\ IsWindowed(p)
    BY DEF SessionsAreKept
  <2> QED
    BY <1>1, <1>2, <2>1, SessionAtRest
<1>6. DaysHoldMarks'
  BY <1>1, MarksAtRest
<1> QED
  BY <1>3, <1>4, <1>5, <1>6 DEF SessionsAreKept

LEMMA StartKeeps ==
    ASSUME UsageInv, UsageStart PROVE UsageInv'
<1> USE DEF UsageInv
<1> DEFINE q == Upto(UsageRoundLimit, ByActivity(Recent) \o Upto(StaleLimit, ByActivity(Stale)))
<1>1. /\ reading' = [asking |-> q, gathered |-> {}, at |-> tick]
      /\ UNCHANGED <<tick, meter, present, raw, folded, rolled, best, before, since, gone,
                     fell, usageFaults>>
  BY DEF UsageStart, usageTables, usagePast
<1>2. q \in Seq(Metered) /\ IsInjective(q)
  BY WantedOnce
<1> HIDE DEF q
<1>3. tick \in Nat
  BY UsageAssumption DEF LedgerTyped, Ticks
<1>4. LedgerTyped'
  BY <1>1 DEF LedgerTyped, ReadingsTyped
<1>5. RoundIsSound'
  <2>1. /\ reading'.asking = q /\ reading'.gathered = {} /\ reading'.at = tick
        /\ reading' \in [asking : Seq(Metered), gathered : SUBSET UsageWrites, at : Int]
    BY <1>1, <1>2, <1>3
  <2>2. GatheredIsNew'
    BY <2>1 DEF GatheredIsNew
  <2>3. \A s \in Metered : \A t \in DOMAIN raw'[s] : t <= tick
    BY <1>1, <1>3 DEF LedgerTyped, ReadingsTyped
  <2>4. tick <= tick
    BY <1>3
  <2> QED
    BY <1>1, <1>2, <1>3, <2>1, <2>2, <2>3, <2>4 DEF RoundIsSound
<1>6. ASSUME NEW p \in Metered PROVE IsKept(p)' /\ IsWindowed(p)'
  <2>1. IsKept(p) /\ IsWindowed(p)
    BY DEF SessionsAreKept
  <2>2. tick <= tick
    BY <1>3
  <2> QED
    BY <1>1, <1>3, <2>1, <2>2, SessionAtRest
<1>7. DaysHoldMarks'
  BY <1>1, MarksAtRest
<1> QED
  BY <1>4, <1>5, <1>6, <1>7 DEF SessionsAreKept

LEMMA ListKeeps ==
    ASSUME UsageInv, NEW s \in Metered, ListSession(s) PROVE UsageInv'
<1> USE DEF UsageInv
<1>1. /\ s \notin present /\ present' = present \cup {s}
      /\ UNCHANGED <<tick, meter, raw, folded, rolled, reading, best, before, since, gone,
                     fell, usageFaults>>
  BY DEF ListSession, usagePast
<1>2. tick \in Nat /\ tick <= tick
  BY UsageAssumption DEF LedgerTyped, Ticks
<1>3. LedgerTyped'
  BY <1>1 DEF LedgerTyped, ReadingsTyped
<1>4. RoundIsSound'
  BY <1>1 DEF RoundIsSound, GatheredIsNew
<1>5. ASSUME NEW p \in Metered PROVE IsKept(p)' /\ IsWindowed(p)'
  <2>1. IsKept(p) /\ IsWindowed(p)
    BY DEF SessionsAreKept
  <2> QED
    BY <1>1, <1>2, <2>1, SessionAtRest
<1>6. DaysHoldMarks'
  <2>1. folded[s] = Unfolded
    BY <1>1 DEF SessionsAreKept, IsKept
  <2>2. OfMark(s) = Nothing
    <3>1. OfMark(s) = MarkFigure(Unfolded, 0)
      BY <2>1, OfMarkIs DEF Unfolded
    <3>2. Priced(NoCost) = 0
      BY PricedIs DEF CostsOf, NoCost
    <3> QED
      BY <3>1, <3>2 DEF MarkFigure, Unfolded, Nothing
  <2>3. /\ Sum(OfMarks, present) \in Figures
        /\ Sum(OfMarks, present \cup {s}) = Plus(OfMarks[s], Sum(OfMarks, present))
    BY <1>1, MarksAddUp, SumOfMore
  <2>4. Sum(OfMarks, present \cup {s}) = Sum(OfMarks, present)
    BY <2>2, <2>3, MarksAddUp, PlusAdds
  <2>5. [p \in present' |-> OfMark(p)'] = [p \in present \cup {s} |-> OfMarks[p]]
    BY <1>1, MarksAddUp DEF OfMark, OfMarks
  <2>6. Added([p \in present |-> OfMark(p)])' = Sum(OfMarks, present \cup {s})
    BY <2>5 DEF Sum
  <2> QED
    BY <1>1, <2>4, <2>6, MarksAddUp DEF DaysHoldMarks
<1> QED
  BY <1>3, <1>4, <1>5, <1>6 DEF SessionsAreKept

LEMMA DeleteKeeps ==
    ASSUME UsageInv, NEW s \in Metered, DeleteSession(s) PROVE UsageInv'
<1> USE DEF UsageInv
<1>1. /\ s \in present /\ present' = present \ {s}
      /\ raw' = [raw EXCEPT ![s] = <<>>] /\ folded' = [folded EXCEPT ![s] = Unfolded]
      /\ gone' = Plus(gone, OfMark(s))
      /\ best' = [best EXCEPT ![s] = Unread] /\ before' = [before EXCEPT ![s] = Unread]
      /\ fell' = fell \ {s}
      /\ UNCHANGED <<tick, meter, rolled, reading, since>>
      /\ usageFaults < MaxUsageFaults /\ usageFaults' = usageFaults + 1
  BY DEF DeleteSession, UsageFault, OfMark
<1>2. tick \in Nat /\ tick <= tick /\ MaxUsageFaults \in Nat
  BY UsageAssumption DEF LedgerTyped, Ticks
<1>3. /\ DOMAIN raw = Metered /\ DOMAIN raw' = Metered /\ DOMAIN raw'[s] = {}
      /\ \A p \in Metered \ {s} : raw'[p] = raw[p]
  <2>1. DOMAIN raw = Metered
    BY DEF LedgerTyped, ReadingsTyped
  <2>2. raw'[s] = <<>> /\ DOMAIN raw' = Metered /\ \A p \in Metered \ {s} : raw'[p] = raw[p]
    BY <1>1, <2>1
  <2>3. DOMAIN <<>> = {}
    OBVIOUS
  <2> QED
    BY <2>1, <2>2, <2>3
<1>4. /\ folded' \in [Metered -> Marks] /\ best' \in [Metered -> Readings]
      /\ before' \in [Metered -> Readings]
      /\ folded'[s] = Unfolded /\ best'[s] = Unread /\ before'[s] = Unread
      /\ \A p \in Metered \ {s} : /\ folded'[p] = folded[p] /\ best'[p] = best[p]
                                  /\ before'[p] = before[p]
  <2>1. Unread \in Readings /\ Unfolded \in Marks
    BY DEF Unread, Readings, Unfolded, Marks, CostsOf
  <2> QED
    BY <1>1, <2>1 DEF LedgerTyped
<1>5. ReadingsTyped'
  <2>1. ASSUME NEW p \in Metered
        PROVE  /\ DOMAIN raw'[p] \subseteq 0..tick
               /\ \A t \in DOMAIN raw'[p] : /\ raw'[p][t] \in Readings /\ raw'[p][t].tokens > 0
                                            /\ meter.dated => t <= meter.active[p]
    <3>1. CASE p = s
      BY <1>3, <3>1
    <3>2. CASE p # s
      <4>1. raw'[p] = raw[p]
        BY <1>3, <3>2
      <4> QED
        BY <4>1 DEF LedgerTyped, ReadingsTyped
    <3> QED
      BY <3>1, <3>2
  <2> QED
    BY <1>1, <1>3, <2>1 DEF ReadingsTyped
<1>6. gone' \in Figures
  <2>1. OfMark(s) \in Figures /\ gone \in Figures
    BY OfMarkIs DEF LedgerTyped
  <2> QED
    BY <1>1, <2>1, PlusAdds
<1>7. LedgerTyped'
  <2>1. usageFaults' \in 0..MaxUsageFaults
    BY <1>1, <1>2 DEF LedgerTyped
  <2> QED
    BY <1>1, <1>4, <1>5, <1>6, <2>1 DEF LedgerTyped
<1>8. \A p \in Metered : DOMAIN raw'[p] \subseteq DOMAIN raw[p]
  <2>1. ASSUME NEW p \in Metered PROVE DOMAIN raw'[p] \subseteq DOMAIN raw[p]
    BY <1>3, p = s \/ p # s
  <2> QED
    BY <2>1
<1>9. RoundIsSound'
  <2>1. \A w \in reading.gathered : w.of \in Metered
    BY DEF RoundIsSound, UsageWrites
  <2>2. GatheredIsNew'
    BY <1>1, <1>8, <2>1 DEF RoundIsSound, GatheredIsNew
  <2>3. reading'.asking # <<>> =>
          /\ reading'.at \in Nat
          /\ \A p \in Metered : \A t \in DOMAIN raw'[p] : t <= reading'.at
    BY <1>1, <1>8 DEF RoundIsSound
  <2> QED
    BY <1>1, <2>2, <2>3 DEF RoundIsSound
<1>10. ASSUME NEW p \in Metered PROVE IsKept(p)' /\ IsWindowed(p)'
  <2>1. IsKept(p) /\ IsWindowed(p)
    BY DEF SessionsAreKept
  <2>2. CASE p # s
    <3>1. p \notin present' => p \notin present
      BY <1>1, <2>2
    <3>2. p \in fell' <=> p \in fell
      BY <1>1, <2>2
    <3> QED
      BY <1>1, <1>2, <1>3, <1>4, <2>1, <2>2, <3>1, <3>2, SessionAtRest
  <2>3. CASE p = s
    <3>1. IsUnread(s)' /\ Standing(s, since)' = folded'[s]
      BY <1>3 DEF IsUnread, Standing, ReadIn
    <3>2. IsKept(s)'
      BY <1>3, <1>4, <3>1 DEF IsKept, Unfolded, Unread, NoCost
    <3>3. IsWindowed(s)'
      BY <1>3, <1>4, <3>1 DEF IsWindowed, Unfolded, Unread, NoCost
    <3> QED
      BY <2>3, <3>2, <3>3
  <2> QED
    BY <2>2, <2>3
<1>11. DaysHoldMarks'
  <2> DEFINE rest == Sum(OfMarks, present \ {s})
  <2>1. /\ Sum(OfMarks, present) = Plus(OfMarks[s], rest)
        /\ OfMarks[s] = OfMark(s) /\ OfMarks[s] \in Figures /\ rest \in Figures
    <3>1. /\ IsFiniteSet(present) /\ IsFiniteSet(present \ {s})
          /\ \A p \in present : OfMarks[p] \in Figures
      BY MarksAddUp, FS_RemoveElement
    <3> QED
      BY <1>1, <3>1, MarksAddUp, SumIs
  <2>2. [p \in present' |-> OfMark(p)'] = [p \in present \ {s} |-> OfMarks[p]]
    <3>1. ASSUME NEW p \in present \ {s} PROVE OfMark(p)' = OfMarks[p]
      <4>1. folded'[p] = folded[p] /\ p \in Metered
        BY <1>4, MarksAddUp
      <4> QED
        BY <4>1, MarksAddUp DEF OfMark
    <3> QED
      BY <1>1, <3>1
  <2>3. Added([p \in present |-> OfMark(p)])' = rest
    BY <2>2 DEF Sum
  <2> HIDE DEF rest
  <2>4. gone \in Figures
    BY DEF LedgerTyped
  <2>5. Plus(gone, Plus(OfMark(s), rest)) = Plus(Plus(gone, OfMark(s)), rest)
    BY <2>1, <2>4, PlusAdds
  <2>6. Added(rolled) = Plus(gone, Plus(OfMark(s), rest))
    BY <2>1, MarksAddUp DEF DaysHoldMarks
  <2> QED
    BY <1>1, <2>3, <2>5, <2>6 DEF DaysHoldMarks
<1> QED
  BY <1>7, <1>9, <1>10, <1>11 DEF SessionsAreKept

-----------------------------------------------------------------------------
(* Folding.                                                                 *)

\* What a fold makes of a session.
IsRolled(s) ==
    /\ raw'[s] = [t \in {u \in DOMAIN raw[s] : u >= FoldBefore} |-> raw[s][t]]
    /\ folded'[s] = [tokens |-> MarkAfter(s).tokens, cost |-> MarkAfter(s).cost, day |-> FirstDay(s)]

\* The mark after a fold: no lower than anything that is folded.
LEMMA MarkAfterIs ==
    ASSUME LedgerTyped, NEW s \in Metered, IsKept(s)
    PROVE  LET m == MarkAfter(s)
           IN  /\ m.tokens \in Nat /\ m.cost \in CostsOf
               /\ folded[s].tokens <= m.tokens /\ folded[s].cost <= m.cost
               /\ m.tokens <= best[s].tokens /\ m.cost <= best[s].cost
               /\ \A t \in DOMAIN raw[s] :
                     t < FoldBefore /\ (\A u \in DOMAIN raw[s] : u < FoldBefore => u <= t)
                        => raw[s][t].tokens <= m.tokens /\ raw[s][t].cost <= m.cost
               /\ \/ m.tokens = folded[s].tokens
                  \/ \E t \in DOMAIN raw[s] : t < FoldBefore /\ m.tokens = raw[s][t].tokens
               /\ (\A t \in DOMAIN raw[s] : ~(t < FoldBefore)) =>
                     /\ m.tokens = folded[s].tokens /\ m.cost = folded[s].cost
                     /\ FoldedDays(s) = {}
<1> DEFINE m == MarkAfter(s)  d == DayOf(MaxTick) + 1
           old == {e \in FoldedDays(s) : e < d}
<1>1. d \in Nat /\ \A e \in Days : e < d /\ e \in Nat
  BY DaysAre
<1>2. old = FoldedDays(s)
  BY <1>1, FoldedDaysAre
<1>3. m = MarkAt(s, d)
  BY DEF MarkAfter
<1>4. /\ m.tokens \in Nat /\ m.cost \in CostsOf
      /\ folded[s].tokens <= m.tokens /\ folded[s].cost <= m.cost
      /\ \A e \in old : OfDay(s, e).tokens <= m.tokens /\ OfDay(s, e).cost <= m.cost
      /\ m.tokens = folded[s].tokens \/ \E e \in old : m.tokens = OfDay(s, e).tokens
      /\ m.cost = folded[s].cost \/ \E e \in old : m.cost = OfDay(s, e).cost
  BY <1>1, <1>3, MarkIs
<1> HIDE DEF m, d, old
<1>5. \A e \in old : \E t \in DOMAIN raw[s] :
          /\ t < FoldBefore /\ DayOf(t) = e /\ OfDay(s, e) = raw[s][t]
          /\ \A u \in DOMAIN raw[s] : DayOf(u) = e => u <= t
  BY <1>2, FoldedDaysAre
<1>6. \A t \in DOMAIN raw[s] : t < FoldBefore => DayOf(t) \in old
  BY <1>2, FoldedDaysAre
<1>7. m.tokens <= best[s].tokens /\ m.cost <= best[s].cost
  BY <1>4, <1>5 DEF IsKept
<1>8. ASSUME NEW t \in DOMAIN raw[s], t < FoldBefore,
             \A u \in DOMAIN raw[s] : u < FoldBefore => u <= t
      PROVE  raw[s][t].tokens <= m.tokens /\ raw[s][t].cost <= m.cost
  <2>1. DayOf(t) \in old
    BY <1>6, <1>8
  <2>2. PICK v \in DOMAIN raw[s] :
           /\ v < FoldBefore /\ OfDay(s, DayOf(t)) = raw[s][v]
           /\ \A u \in DOMAIN raw[s] : DayOf(u) = DayOf(t) => u <= v
    BY <1>5, <2>1
  <2>3. t <= v /\ v <= t /\ t \in Int /\ v \in Int
    BY <1>8, <2>2 DEF LedgerTyped, ReadingsTyped
  <2>4. v = t
    BY <2>3
  <2> QED
    BY <1>4, <2>1, <2>2, <2>4
<1>9. m.tokens = folded[s].tokens \/ \E t \in DOMAIN raw[s] : t < FoldBefore /\ m.tokens = raw[s][t].tokens
  BY <1>4, <1>5
<1>10. ASSUME \A t \in DOMAIN raw[s] : ~(t < FoldBefore)
       PROVE  m.tokens = folded[s].tokens /\ m.cost = folded[s].cost /\ FoldedDays(s) = {}
  <2>1. old = {}
    BY <1>5, <1>10
  <2> QED
    BY <1>2, <1>4, <2>1
<1> QED
  BY <1>4, <1>7, <1>8, <1>9, <1>10 DEF m

\* The mark of a session of which nothing is left, or nothing is folded.
LEMMA RolledIs ==
    ASSUME LedgerTyped, NEW s \in Metered, IsKept(s), IsRolled(s)
    PROVE  /\ DOMAIN raw'[s] = {t \in DOMAIN raw[s] : t >= FoldBefore}
           /\ \A t \in DOMAIN raw'[s] : raw'[s][t] = raw[s][t] /\ t \in DOMAIN raw[s]
           /\ folded'[s] \in Marks
           /\ folded'[s].tokens = MarkAfter(s).tokens /\ folded'[s].cost = MarkAfter(s).cost
           /\ folded'[s].day = FirstDay(s)
<1>1. MarkAfter(s).tokens \in Nat /\ MarkAfter(s).cost \in CostsOf
  BY MarkAfterIs
<1>2. FirstDay(s) \in Days \cup {NoDay}
  BY FirstDayIs
<1> DEFINE D == {t \in DOMAIN raw[s] : t >= FoldBefore}
<1>3. raw'[s] = [t \in D |-> raw[s][t]]
  BY DEF IsRolled
<1>4. DOMAIN raw'[s] = D /\ \A t \in D : raw'[s][t] = raw[s][t] /\ t \in DOMAIN raw[s]
  BY <1>3
<1> QED
  BY <1>1, <1>2, <1>4 DEF IsRolled, Marks

\* What is newest of what is left, or of what was there.
LEMMA NewestLeft ==
    ASSUME LedgerTyped, NEW s \in Metered, IsKept(s), IsRolled(s), NEW to \in Nat
    PROVE  LET R == {t \in DOMAIN raw[s] : t \in 0..to}
               Q == {t \in DOMAIN raw'[s] : t \in 0..to}
           IN  /\ ReadIn(s, 0, to) = R /\ ReadIn(s, 0, to)' = Q
               /\ Q # {} => NewestIn(s, 0, to)' = NewestIn(s, 0, to) /\ R # {}
               /\ Q = {} => \A t \in R : t < FoldBefore
<1> DEFINE R == {t \in DOMAIN raw[s] : t \in 0..to}
           Q == {t \in DOMAIN raw'[s] : t \in 0..to}
<1>1. ReadIn(s, 0, to) = R /\ ReadIn(s, 0, to)' = Q
  BY DEF ReadIn
<1>2. FoldBefore \in Nat /\ R \in SUBSET Nat /\ Q = {t \in R : t >= FoldBefore} /\ Q \subseteq DOMAIN raw'[s]
  BY RolledIs, CutoffIs DEF LedgerTyped, ReadingsTyped
<1> HIDE DEF R, Q
<1>3. ASSUME Q # {} PROVE NewestIn(s, 0, to)' = NewestIn(s, 0, to) /\ R # {}
  <2>1. R # {}
    BY <1>2, <1>3
  <2>2. PICK t \in R : NewestIn(s, 0, to) = raw[s][t] /\ \A u \in R : u <= t
    BY <1>1, <2>1, NewestIs
  <2>3. t \in Q
    <3>1. PICK u \in Q : u \in R /\ u >= FoldBefore
      BY <1>2, <1>3
    <3>2. u \in Nat /\ t \in Nat /\ u <= t
      BY <1>2, <2>2, <3>1
    <3>3. t >= FoldBefore
      BY <1>2, <3>1, <3>2
    <3> QED
      BY <1>2, <2>2, <3>3
  <2>4. Q \in SUBSET Int /\ \A u \in Q : u <= t
    BY <1>2, <2>2
  <2>5. Max(Q) = t
    BY <2>3, <2>4, MaxIsThis
  <2>6. NewestIn(s, 0, to)' = raw'[s][t]
    BY <1>1, <2>5 DEF NewestIn
  <2>7. raw'[s][t] = raw[s][t]
    BY <1>2, <2>3, RolledIs
  <2> QED
    BY <2>1, <2>2, <2>6, <2>7
<1>4. ASSUME Q = {}, NEW t \in R PROVE t < FoldBefore
  <2>1. t \notin Q /\ t \in Nat
    BY <1>2, <1>4
  <2>2. ~(t >= FoldBefore)
    BY <1>2, <2>1
  <2> QED
    BY <1>2, <2>1, <2>2
<1> QED
  BY <1>1, <1>3, <1>4 DEF R, Q

LEMMA RolledIsKept ==
    ASSUME LedgerTyped, NEW s \in Metered, IsKept(s), IsRolled(s),
           UNCHANGED <<tick, present, best, before>>
    PROVE  IsKept(s)'
<1> DEFINE m == MarkAfter(s)
<1>1. /\ DOMAIN raw'[s] = {t \in DOMAIN raw[s] : t >= FoldBefore}
      /\ \A t \in DOMAIN raw'[s] : raw'[s][t] = raw[s][t] /\ t \in DOMAIN raw[s]
      /\ folded'[s].tokens = m.tokens /\ folded'[s].cost = m.cost /\ folded'[s].day = FirstDay(s)
  BY RolledIs
<1>2. /\ m.tokens \in Nat /\ m.cost \in Int
      /\ folded[s].tokens <= m.tokens /\ folded[s].cost <= m.cost
      /\ m.tokens <= best[s].tokens /\ m.cost <= best[s].cost
      /\ \A t \in DOMAIN raw[s] :
            t < FoldBefore /\ (\A u \in DOMAIN raw[s] : u < FoldBefore => u <= t)
               => raw[s][t].tokens <= m.tokens /\ raw[s][t].cost <= m.cost
      /\ (\A t \in DOMAIN raw[s] : ~(t < FoldBefore)) =>
            m.tokens = folded[s].tokens /\ m.cost = folded[s].cost /\ FoldedDays(s) = {}
  <2>1. CostsOf \subseteq Int
    BY DEF CostsOf, NoCost
  <2> QED
    BY <2>1, MarkAfterIs
<1>3. /\ best[s].tokens \in Nat /\ best[s].cost \in Int
      /\ folded[s].tokens \in Nat /\ folded[s].cost \in Int
  BY DEF LedgerTyped, Readings, Marks, CostsOf, NoCost
<1>4. MaxTick \in Nat /\ FoldBefore \in Nat
  BY UsageAssumption, CutoffIs
<1>5. DOMAIN raw[s] \subseteq 0..MaxTick /\ DOMAIN raw[s] \subseteq Nat
  <2>1. tick \in Nat /\ tick <= MaxTick
    BY UsageAssumption DEF LedgerTyped, Ticks
  <2> QED
    BY <1>4, <2>1 DEF LedgerTyped, ReadingsTyped
<1>6. /\ IsUnread(s)' <=> DOMAIN raw'[s] = {}
      /\ ~IsUnread(s)' => Newest(s)' = Newest(s) /\ ~IsUnread(s)
      /\ IsUnread(s)' => \A t \in DOMAIN raw[s] : t < FoldBefore
  <2> DEFINE R == {t \in DOMAIN raw[s] : t \in 0..MaxTick}
             Q == {t \in DOMAIN raw'[s] : t \in 0..MaxTick}
  <2>1. /\ ReadIn(s, 0, MaxTick) = R /\ ReadIn(s, 0, MaxTick)' = Q
        /\ Q # {} => NewestIn(s, 0, MaxTick)' = NewestIn(s, 0, MaxTick) /\ R # {}
        /\ Q = {} => \A t \in R : t < FoldBefore
    BY <1>4, NewestLeft
  <2>2. R = DOMAIN raw[s] /\ Q = DOMAIN raw'[s]
    BY <1>1, <1>5
  <2> HIDE DEF R, Q
  <2> QED
    BY <2>1, <2>2 DEF IsUnread, Newest
<1>7. /\ FirstDay(s) = NoDay => folded[s].day = NoDay /\ FoldedDays(s) = {}
      /\ folded[s].day # NoDay => FirstDay(s) # NoDay
      /\ FoldedDays(s) # {} => FirstDay(s) # NoDay
  <2>1. NoDay \notin FoldedDays(s)
    BY FoldedDaysAre, DaysAre DEF NoDay
  <2>2. /\ folded[s].day # NoDay => FirstDay(s) = folded[s].day
        /\ folded[s].day = NoDay /\ FoldedDays(s) # {} => FirstDay(s) \in FoldedDays(s)
    BY FirstDayIs
  <2> QED
    BY <2>1, <2>2
<1>8. \A t \in DOMAIN raw[s] : t < FoldBefore => FoldedDays(s) # {}
  BY FoldedDaysAre
<1>9. FoldedDays(s) = {} => m.tokens = folded[s].tokens /\ m.cost = folded[s].cost
  BY <1>2, <1>8
<1>10. /\ folded[s].day = NoDay => folded[s].tokens = 0 /\ folded[s].cost = NoCost
       /\ folded[s].day # NoDay => best[s].tokens > 0
       /\ before[s].tokens <= best[s].tokens
       /\ \A t \in DOMAIN raw[s] : raw[s][t].tokens <= best[s].tokens /\ raw[s][t].cost <= best[s].cost
       /\ IsUnread(s) => /\ folded[s].tokens = best[s].tokens /\ folded[s].cost = best[s].cost
                         /\ best[s].tokens > 0 => folded[s].day # NoDay
       /\ ~IsUnread(s) => /\ best[s].tokens \in {Newest(s).tokens, folded[s].tokens}
                          /\ best[s].cost \in {Newest(s).cost, folded[s].cost}
       /\ s \notin present => /\ DOMAIN raw[s] = {} /\ folded[s] = Unfolded
                              /\ best[s].tokens = 0 /\ before[s].tokens = 0
  BY DEF IsKept
<1>11. FoldedDays(s) # {} => best[s].tokens > 0
  <2>1. SUFFICES ASSUME NEW d \in FoldedDays(s) PROVE best[s].tokens > 0
    OBVIOUS
  <2>2. PICK t \in DOMAIN raw[s] : raw[s][t] \in Readings /\ raw[s][t].tokens > 0
    BY FoldedDaysAre
  <2>3. raw[s][t].tokens \in Nat /\ raw[s][t].tokens <= best[s].tokens
    BY <1>10, <2>2 DEF Readings
  <2> QED
    BY <1>3, <2>2, <2>3
<1> HIDE DEF m
<1>12. ASSUME IsUnread(s)'
       PROVE  /\ m.tokens = best[s].tokens /\ m.cost = best[s].cost
              /\ best[s].tokens > 0 => FirstDay(s) # NoDay
  <2>1. CASE IsUnread(s)
    <3>1. DOMAIN raw[s] = {}
      BY <2>1, AllReadings
    <3>2. m.tokens = folded[s].tokens /\ m.cost = folded[s].cost
      BY <1>2, <3>1
    <3> QED
      BY <1>7, <1>10, <2>1, <3>2
  <2>2. CASE ~IsUnread(s)
    <3>1. PICK t \in DOMAIN raw[s] : /\ Newest(s) = raw[s][t] /\ raw[s][t] \in Readings
                                     /\ \A u \in DOMAIN raw[s] : u <= t
      BY <2>2, AllReadings
    <3>2. t < FoldBefore
      BY <1>6, <1>12
    <3>3. Newest(s).tokens <= m.tokens /\ Newest(s).cost <= m.cost
      BY <1>2, <3>1, <3>2
    <3>4. Newest(s).tokens \in Nat /\ Newest(s).cost \in Int
      BY <3>1 DEF Readings, CostsOf, NoCost
    <3>5. best[s].tokens \in {Newest(s).tokens, folded[s].tokens} /\ best[s].cost \in {Newest(s).cost, folded[s].cost}
      BY <1>10, <2>2
    <3>6. m.tokens = best[s].tokens /\ m.cost = best[s].cost
      BY <1>2, <1>3, <3>3, <3>4, <3>5
    <3>7. FirstDay(s) # NoDay
      BY <1>7, <1>8, <3>2
    <3> QED
      BY <3>6, <3>7
  <2> QED
    BY <2>1, <2>2
<1>13. ASSUME ~IsUnread(s)'
       PROVE  /\ best[s].tokens \in {Newest(s).tokens, m.tokens}
              /\ best[s].cost \in {Newest(s).cost, m.cost}
  <2>1. best[s].tokens \in {Newest(s).tokens, folded[s].tokens} /\ best[s].cost \in {Newest(s).cost, folded[s].cost}
    BY <1>6, <1>10, <1>13
  <2>2. best[s].tokens = folded[s].tokens => best[s].tokens = m.tokens
    BY <1>2, <1>3
  <2>3. best[s].cost = folded[s].cost => best[s].cost = m.cost
    BY <1>2, <1>3
  <2> QED
    BY <2>1, <2>2, <2>3
<1>14. ASSUME s \notin present
       PROVE  DOMAIN raw'[s] = {} /\ folded'[s] = Unfolded
  <2>1. DOMAIN raw[s] = {} /\ folded[s] = Unfolded
    BY <1>10, <1>14
  <2>2. m.tokens = 0 /\ m.cost = NoCost /\ FoldedDays(s) = {}
    BY <1>2, <2>1 DEF Unfolded
  <2>3. FirstDay(s) = NoDay
    BY <2>1, <2>2, FirstDayIs DEF Unfolded
  <2> QED
    BY <1>1, <2>1, <2>2, <2>3 DEF IsRolled, Unfolded, m
<1>15. FirstDay(s) = NoDay => m.tokens = 0 /\ m.cost = NoCost
  BY <1>7, <1>9, <1>10
<1>16. FirstDay(s) # NoDay => best[s].tokens > 0
  <2>1. folded[s].day = NoDay /\ FoldedDays(s) = {} => FirstDay(s) = NoDay
    BY FirstDayIs
  <2> QED
    BY <1>10, <1>11, <2>1
<1>17. /\ m.tokens <= best'[s].tokens /\ m.cost <= best'[s].cost
       /\ before'[s].tokens <= best'[s].tokens
       /\ \A t \in DOMAIN raw'[s] :
            raw'[s][t].tokens <= best'[s].tokens /\ raw'[s][t].cost <= best'[s].cost
  BY <1>1, <1>2, <1>10
<1> QED
  BY <1>1, <1>6, <1>10, <1>12, <1>13, <1>14, <1>15, <1>16, <1>17 DEF IsKept

LEMMA RolledIsWindowed ==
    ASSUME LedgerTyped, NEW s \in Metered, IsKept(s), IsWindowed(s), IsRolled(s),
           UNCHANGED <<tick, present, best, before, since, fell>>
    PROVE  IsWindowed(s)'
<1> DEFINE m == MarkAfter(s)
<1>1. /\ DOMAIN raw'[s] = {t \in DOMAIN raw[s] : t >= FoldBefore}
      /\ \A t \in DOMAIN raw'[s] : raw'[s][t] = raw[s][t] /\ t \in DOMAIN raw[s]
      /\ folded'[s].tokens = m.tokens
  BY RolledIs
<1>2. /\ m.tokens \in Nat
      /\ folded[s].tokens <= m.tokens
      /\ \A t \in DOMAIN raw[s] :
            t < FoldBefore /\ (\A u \in DOMAIN raw[s] : u < FoldBefore => u <= t)
               => raw[s][t].tokens <= m.tokens
      /\ m.tokens = folded[s].tokens \/ \E t \in DOMAIN raw[s] : t < FoldBefore /\ m.tokens = raw[s][t].tokens
      /\ (\A t \in DOMAIN raw[s] : ~(t < FoldBefore)) => m.tokens = folded[s].tokens
  BY MarkAfterIs
<1>3. /\ MaxTick \in Nat /\ FoldBefore \in Nat /\ since \in Nat
      /\ before[s].tokens \in Nat /\ folded[s].tokens \in Nat
      /\ since >= tick - RollupAfter => FoldBefore <= since
  BY UsageAssumption, CutoffIs DEF LedgerTyped, Readings, Marks
<1>4. DOMAIN raw[s] \subseteq 0..MaxTick /\ DOMAIN raw[s] \subseteq Nat
  <2>1. tick \in Nat /\ tick <= MaxTick
    BY UsageAssumption DEF LedgerTyped, Ticks
  <2> QED
    BY <1>3, <2>1 DEF LedgerTyped, ReadingsTyped
<1> HIDE DEF m
<1>5. ASSUME s \notin fell, ~IsUnread(s)' PROVE Newest(s)'.tokens = best[s].tokens
  <2> DEFINE R == {t \in DOMAIN raw[s] : t \in 0..MaxTick}
             Q == {t \in DOMAIN raw'[s] : t \in 0..MaxTick}
  <2>1. /\ ReadIn(s, 0, MaxTick) = R /\ ReadIn(s, 0, MaxTick)' = Q
        /\ Q # {} => NewestIn(s, 0, MaxTick)' = NewestIn(s, 0, MaxTick) /\ R # {}
    BY <1>3, NewestLeft
  <2> HIDE DEF R, Q
  <2>2. Newest(s)' = Newest(s) /\ ~IsUnread(s)
    BY <1>5, <2>1 DEF IsUnread, Newest
  <2> QED
    BY <1>5, <2>2 DEF IsWindowed
<1>6. ASSUME since >= tick - RollupAfter
      PROVE  /\ m.tokens <= before[s].tokens
             /\ \A t \in DOMAIN raw'[s] : t < since => raw'[s][t].tokens <= before[s].tokens
             /\ s \notin fell => Standing(s, since)'.tokens = before[s].tokens
  <2>1. /\ folded[s].tokens <= before[s].tokens /\ FoldBefore <= since
        /\ \A t \in DOMAIN raw[s] : t < since => raw[s][t].tokens <= before[s].tokens
        /\ s \notin fell => Standing(s, since).tokens = before[s].tokens
    BY <1>3, <1>6 DEF IsWindowed
  <2>2. \A t \in DOMAIN raw[s] : t < FoldBefore => t < since
    BY <1>3, <1>4, <2>1
  <2>3. m.tokens <= before[s].tokens
    BY <1>2, <2>1, <2>2
  <2>4. \A t \in DOMAIN raw'[s] : t < since => raw'[s][t].tokens <= before[s].tokens
    BY <1>1, <2>1
  <2>5. ASSUME s \notin fell PROVE Standing(s, since)'.tokens = before[s].tokens
    <3> DEFINE R == {t \in DOMAIN raw[s] : t \in 0..(since - 1)}
               Q == {t \in DOMAIN raw'[s] : t \in 0..(since - 1)}
    <3>0. CASE since = 0
      <4>1. R = {} /\ Q = {}
        BY <3>0
      <4>2. Standing(s, since)' = folded'[s] /\ Standing(s, since) = folded[s]
        BY <3>0, <4>1 DEF Standing, ReadIn
      <4>3. \A t \in DOMAIN raw[s] : ~(t < FoldBefore)
        BY <1>4, <2>2, <3>0
      <4> QED
        BY <1>1, <1>2, <2>1, <2>5, <4>2, <4>3
    <3>a. CASE since # 0
      <4>0. since - 1 \in Nat
        BY <1>3, <3>a
      <4>1. /\ ReadIn(s, 0, since - 1) = R /\ ReadIn(s, 0, since - 1)' = Q
            /\ Q # {} => NewestIn(s, 0, since - 1)' = NewestIn(s, 0, since - 1) /\ R # {}
            /\ Q = {} => \A t \in R : t < FoldBefore
        <5> DEFINE to == since - 1
        <5>1. to \in Nat /\ to' = to
          BY <4>0
        <5> HIDE DEF to
        <5>2. LET R1 == {t \in DOMAIN raw[s] : t \in 0..to}
                  Q1 == {t \in DOMAIN raw'[s] : t \in 0..to}
              IN  /\ ReadIn(s, 0, to) = R1 /\ ReadIn(s, 0, to)' = Q1
                  /\ Q1 # {} => NewestIn(s, 0, to)' = NewestIn(s, 0, to) /\ R1 # {}
                  /\ Q1 = {} => \A t \in R1 : t < FoldBefore
          BY <5>1, NewestLeft
        <5> QED
          BY <5>2 DEF to
      <4>2. \A t \in DOMAIN raw[s] : t < FoldBefore => t \in R
        BY <1>3, <1>4, <2>2
      <4>3. R \subseteq DOMAIN raw[s]
        OBVIOUS
      <4> HIDE DEF R, Q
      <4>4. CASE Q # {}
        <5>1. Standing(s, since)' = NewestIn(s, 0, since - 1)'
          BY <4>1, <4>4 DEF Standing
        <5>2. Standing(s, since) = NewestIn(s, 0, since - 1)
          BY <4>1, <4>4 DEF Standing
        <5> QED
          BY <2>1, <2>5, <4>1, <4>4, <5>1, <5>2
      <4>5. CASE Q = {}
        <5>1. Standing(s, since)' = folded'[s]
          BY <4>1, <4>5 DEF Standing
        <5>2. CASE R = {}
          <6>1. Standing(s, since) = folded[s]
            BY <4>1, <5>2 DEF Standing
          <6>2. \A t \in DOMAIN raw[s] : ~(t < FoldBefore)
            BY <4>2, <5>2
          <6> QED
            BY <1>1, <1>2, <2>1, <2>5, <5>1, <6>1, <6>2
        <5>3. CASE R # {}
          <6>1. PICK t \in R : NewestIn(s, 0, since - 1) = raw[s][t] /\ raw[s][t] \in Readings /\ \A u \in R : u <= t
            BY <4>1, <5>3, NewestIs
          <6>2. Standing(s, since) = raw[s][t]
            BY <4>1, <5>3, <6>1 DEF Standing
          <6>3. t < FoldBefore /\ t \in DOMAIN raw[s] /\ \A u \in DOMAIN raw[s] : u < FoldBefore => u <= t
            BY <4>1, <4>2, <4>3, <4>5, <6>1
          <6>4. raw[s][t].tokens <= m.tokens /\ raw[s][t].tokens \in Nat
            BY <1>2, <6>1, <6>3 DEF Readings
          <6>5. raw[s][t].tokens = before[s].tokens
            BY <2>1, <2>5, <6>2
          <6>6. m.tokens = before[s].tokens
            BY <1>2, <1>3, <2>3, <6>4, <6>5
          <6> QED
            BY <1>1, <5>1, <6>6
        <5> QED
          BY <5>2, <5>3
      <4> QED
        BY <4>4, <4>5
    <3> QED
      BY <3>0, <3>a
  <2> QED
    BY <2>3, <2>4, <2>5
<1> QED
  BY <1>1, <1>5, <1>6 DEF IsWindowed

\* A fold adds to the days what it raises the marks by.
LEMMA RollAddsUp ==
    ASSUME UsageInv, RollUp
    PROVE  DaysHoldMarks' /\ rolled' \in [Days -> Figures]
<1> USE DEF UsageInv
<1> DEFINE parts == [s \in present |-> DayParts(s)]
           col == [d \in Days |-> Sum([s \in present |-> parts[s][d]], present)]
           row == [s \in present |-> Sum(parts[s], Days)]
<1>0. /\ LedgerTyped /\ IsFiniteSet(present) /\ present \subseteq Metered /\ IsFiniteSet(Days)
      /\ \A s \in Metered : IsKept(s) /\ OfMarks[s] = OfMark(s) /\ OfMarks[s] \in Figures
      /\ gone \in Figures
  BY MarksAddUp, DaysAre DEF SessionsAreKept, LedgerTyped
<1>1. /\ rolled' = [d \in Days |->
            Plus(rolled[d], Added([s \in {p \in present : d \in FoldedDays(p)} |-> PartOf(s, d)]))]
      /\ folded' = [s \in Metered |->
            [tokens |-> MarkAfter(s).tokens, cost |-> MarkAfter(s).cost, day |-> FirstDay(s)]]
      /\ present' = present /\ gone' = gone
  BY DEF RollUp, PartOf, Counts, MarkAfter, usagePast
<1>2. \A s \in present : \A d \in Days : parts[s][d] \in Figures
  <2>1. Nothing \in Figures
    BY DEF Nothing, Figures
  <2> QED
    BY <1>0, <2>1, PartIs DEF DayParts
<1>3. ASSUME NEW d \in Days
      PROVE  /\ col[d] \in Figures
             /\ Added([s \in {p \in present : d \in FoldedDays(p)} |-> PartOf(s, d)]) = col[d]
  <2> DEFINE f == [s \in present |-> parts[s][d]]  E == {p \in present : d \in FoldedDays(p)}
  <2>1. /\ \A s \in present : f[s] \in Figures
        /\ \A s \in present \ E : f[s] = Nothing
        /\ \A s \in E : f[s] = PartOf(s, d)
    BY <1>2 DEF DayParts
  <2>2. E \in SUBSET present /\ col[d] = Sum(f, present)
    OBVIOUS
  <2>3. [s \in E |-> PartOf(s, d)] = [s \in E |-> f[s]]
    BY <2>1
  <2> HIDE DEF f, col
  <2>4. Sum(f, present) = Sum(f, E) /\ Sum(f, present) \in Figures
    <3> HIDE DEF E
    <3> QED
      BY <1>0, <2>1, <2>2, SumWithin, SumIs
  <2>5. Sum(f, E) = Added([s \in E |-> PartOf(s, d)])
    BY <2>3 DEF Sum
  <2> QED
    BY <2>2, <2>4, <2>5
<1>4. /\ \A d \in Days : rolled[d] \in Figures
      /\ \A d \in Days : rolled'[d] = Plus(rolled[d], col[d]) /\ rolled'[d] \in Figures
  <2>1. \A d \in Days : rolled[d] \in Figures
    BY DEF LedgerTyped
  <2> HIDE DEF col
  <2>2. \A d \in Days : rolled'[d] = Plus(rolled[d], col[d])
    BY <1>1, <1>3
  <2>3. ASSUME NEW d \in Days PROVE Plus(rolled[d], col[d]) \in Figures
    <3>1. rolled[d] \in Figures /\ col[d] \in Figures
      BY <1>3, <2>1
    <3> QED
      BY <3>1, PlusAdds
  <2> QED
    BY <2>1, <2>2, <2>3
<1>5. rolled' \in [Days -> Figures] /\ rolled' = [d \in Days |-> rolled'[d]]
  <2>1. rolled' = [d \in Days |-> rolled'[d]]
    BY <1>1
  <2> QED
    BY <1>4, <2>1
<1>6. Sum(col, Days) = Sum(row, present)
  <2> HIDE DEF parts
  <2> QED
    BY <1>0, <1>2, SumExchanged
<1>7. \A s \in present : row[s] \in Figures
  <2> HIDE DEF parts
  <2> QED
    BY <1>0, <1>2, SumIs
<1>8. ASSUME NEW s \in present PROVE OfMark(s)' = Plus(OfMarks[s], row[s])
  <2>1. Plus(OfMark(s), Sum(DayParts(s), Days)) = MarkFigure(MarkAfter(s), IF FirstDay(s) = NoDay THEN 0 ELSE 1)
    BY <1>0, DaysTelescope
  <2>2. row[s] = Sum(DayParts(s), Days)
    OBVIOUS
  <2> DEFINE n == IF FirstDay(s) = NoDay THEN 0 ELSE 1
  <2>3. MarkAfter(s).tokens \in Nat /\ MarkAfter(s).cost \in CostsOf /\ n \in Nat
    BY <1>0, MarkAfterIs
  <2> HIDE DEF row
  <2>4. NetOfFold(folded'[s], Unread, n) = MarkFigure(MarkAfter(s), n)
    <3>1. /\ folded'[s].tokens = MarkAfter(s).tokens /\ folded'[s].cost = MarkAfter(s).cost
      BY <1>0, <1>1
    <3>2. NetOfFold(folded'[s], Unread, n) = MarkFigure(folded'[s], n)
      <4> HIDE DEF n
      <4> QED
        BY <2>3, <3>1, MarkFigureIs
    <3> QED
      BY <3>1, <3>2 DEF MarkFigure
  <2>5. OfMark(s)' = NetOfFold(folded'[s], Unread, n)
    <3>1. folded'[s].day = FirstDay(s)
      BY <1>0, <1>1
    <3> QED
      BY <3>1 DEF OfMark
  <2> QED
    BY <1>0, <2>1, <2>2, <2>4, <2>5
<1> DEFINE now == [s \in present |-> OfMark(s)']
<1>9. Added([s \in present |-> OfMark(s)])' = Sum(now, present)
  <2>1. [s \in present |-> now[s]] = now
    OBVIOUS
  <2>2. Added([s \in present |-> OfMark(s)])' = Added(now)
    BY <1>1
  <2> HIDE DEF now
  <2> QED
    BY <2>1, <2>2 DEF Sum
<1>10. \A s \in present : OfMarks[s] \in Figures /\ now[s] = Plus(OfMarks[s], row[s])
  BY <1>0, <1>8
<1> HIDE DEF now, row, col, parts
<1>11. Sum(now, present) = Plus(Sum(OfMarks, present), Sum(row, present))
  BY <1>0, <1>7, <1>10, SumOfPlus
<1> DEFINE new == rolled'
<1>12. Sum(new, Days) = Plus(Sum(rolled, Days), Sum(col, Days))
  <2>1. \A d \in Days : rolled[d] \in Figures /\ col[d] \in Figures /\ new[d] = Plus(rolled[d], col[d])
    BY <1>3, <1>4
  <2> HIDE DEF new
  <2> QED
    BY <1>0, <2>1, SumOfPlus
<1>13. Added(rolled)' = Sum(new, Days)
  BY <1>5 DEF Sum
<1> HIDE DEF new
<1> DEFINE x == Sum(OfMarks, present)  y == Sum(row, present)
<1>14. x \in Figures /\ y \in Figures
  BY <1>0, <1>7, SumIs
<1>15. Sum(rolled, Days) = Plus(gone, x)
  BY MarksAddUp DEF DaysHoldMarks
<1> HIDE DEF x, y
<1>16. Plus(Plus(gone, x), y) = Plus(gone, Plus(x, y))
  BY <1>0, <1>14, PlusAdds
<1>17. DaysHoldMarks'
  BY <1>1, <1>6, <1>9, <1>11, <1>12, <1>13, <1>15, <1>16 DEF DaysHoldMarks, x, y
<1> QED
  BY <1>5, <1>17

LEMMA RollKeeps ==
    ASSUME UsageInv, RollUp PROVE UsageInv'
<1> USE DEF UsageInv
<1>1. UNCHANGED <<tick, meter, present, reading, best, before, since, gone, fell, usageFaults>>
  BY DEF RollUp, usagePast
<1>2. ASSUME NEW s \in Metered PROVE IsKept(s) /\ IsWindowed(s) /\ IsRolled(s)
  <2>1. IsRolled(s)
    BY DEF RollUp, IsRolled, MarkAfter
  <2> QED
    BY <2>1 DEF SessionsAreKept
<1>3. ASSUME NEW s \in Metered
      PROVE  /\ \A t \in DOMAIN raw'[s] : raw'[s][t] = raw[s][t] /\ t \in DOMAIN raw[s]
             /\ folded'[s] \in Marks
             /\ IsKept(s)' /\ IsWindowed(s)'
  BY <1>1, <1>2, RolledIs, RolledIsKept, RolledIsWindowed
<1>4. DOMAIN raw' = Metered /\ folded' = [s \in Metered |-> folded'[s]]
  BY DEF RollUp
<1>5. ReadingsTyped'
  <2>1. ASSUME NEW p \in Metered
        PROVE  /\ DOMAIN raw'[p] \subseteq 0..tick
               /\ \A t \in DOMAIN raw'[p] : /\ raw'[p][t] \in Readings /\ raw'[p][t].tokens > 0
                                            /\ meter.dated => t <= meter.active[p]
    BY <1>3 DEF LedgerTyped, ReadingsTyped
  <2> QED
    BY <1>1, <1>4, <2>1 DEF ReadingsTyped
<1>6. DaysHoldMarks' /\ rolled' \in [Days -> Figures]
  BY RollAddsUp
<1>7. folded' \in [Metered -> Marks]
  BY <1>3, <1>4
<1>8. LedgerTyped'
  BY <1>1, <1>5, <1>6, <1>7 DEF LedgerTyped
<1>9. RoundIsSound'
  <2>1. \A w \in reading.gathered : w.of \in Metered
    BY DEF RoundIsSound, UsageWrites
  <2>2. GatheredIsNew'
    BY <1>1, <1>3, <2>1 DEF RoundIsSound, GatheredIsNew
  <2> QED
    BY <1>1, <1>3, <2>2 DEF RoundIsSound
<1> QED
  BY <1>3, <1>6, <1>8, <1>9 DEF SessionsAreKept

-----------------------------------------------------------------------------
(* The theorems.                                                            *)

LEMMA UsageStepKeeps == UsageInv /\ [UsageNext]_usageVars => UsageInv'
<1> SUFFICES ASSUME UsageInv, [UsageNext]_usageVars PROVE UsageInv'
  OBVIOUS
<1>1. CASE UNCHANGED usageVars
  <2>1. UNCHANGED <<tick, meter, present, raw, folded, rolled, reading, best, before, since,
                    gone, fell, usageFaults>>
    BY <1>1 DEF usageVars, usageTables, usagePast
  <2>2. LedgerTyped' /\ RoundIsSound'
    BY <2>1 DEF UsageInv, LedgerTyped, ReadingsTyped, RoundIsSound, GatheredIsNew
  <2>3. DaysHoldMarks'
    BY <2>1, MarksAtRest DEF UsageInv
  <2>4. tick \in Nat /\ tick <= tick
    BY UsageAssumption DEF UsageInv, LedgerTyped, Ticks
  <2>5. ASSUME NEW s \in Metered PROVE IsKept(s)' /\ IsWindowed(s)'
    <3>1. LedgerTyped /\ IsKept(s) /\ IsWindowed(s)
      BY DEF UsageInv, SessionsAreKept
    <3> QED
      BY <2>1, <2>4, <3>1, SessionAtRest
  <2> QED
    BY <2>2, <2>3, <2>5 DEF UsageInv, SessionsAreKept
<1>2. CASE UsageNext
  BY <1>2, SpendKeeps, TimeKeeps, StartKeeps, AnswersKeep, RollKeeps, DeleteKeeps, ListKeeps
     DEF UsageNext
<1> QED
  BY <1>1, <1>2

LEMMA UsageInvHolds == UsageSpec => []UsageInv
  BY InitIsSound, UsageStepKeeps, PTL DEF UsageSpec

LEMMA LedgerIsTyped == UsageInv => UsageTypeOK
<1> SUFFICES ASSUME UsageInv PROVE UsageTypeOK
  OBVIOUS
<1>1. LedgerTyped
  BY DEF UsageInv
<1> QED
  BY <1>1 DEF LedgerTyped, ReadingsTyped, UsageTypeOK, Marks, Figures

\* What is kept of a session, read off its newest reading and its mark.
LEMMA KeptIsCounted ==
    ASSUME LedgerTyped, NEW s \in Metered, IsKept(s)
    PROVE  LET kept == NetOfFold(best[s], Unread, IF best[s].tokens > 0 THEN 1 ELSE 0)
               left == IF IsUnread(s) THEN Nothing ELSE Remainder(s, 0, MaxTick)
           IN  kept \in Figures /\ left \in Figures /\ kept = Plus(OfMark(s), left)
<1> DEFINE n == IF best[s].tokens > 0 THEN 1 ELSE 0
           k == IF folded[s].day = NoDay THEN 0 ELSE 1
           kept == NetOfFold(best[s], Unread, n)
           left == IF IsUnread(s) THEN Nothing ELSE Remainder(s, 0, MaxTick)
           f == folded[s]  b == best[s]
<1>1. /\ f.tokens \in Nat /\ f.cost \in CostsOf /\ b.tokens \in Nat /\ b.cost \in CostsOf
      /\ f.day \in Days \cup {NoDay}
  BY DEF LedgerTyped, Marks, Readings
<1>2. /\ f.tokens <= b.tokens /\ f.cost <= b.cost
      /\ f.day # NoDay => b.tokens > 0
      /\ IsUnread(s) => /\ f.tokens = b.tokens /\ f.cost = b.cost
                        /\ b.tokens > 0 => f.day # NoDay
      /\ ~IsUnread(s) => b.tokens \in {Newest(s).tokens, f.tokens} /\ b.cost \in {Newest(s).cost, f.cost}
  BY DEF IsKept
<1>3. OfMark(s) = MarkFigure(f, k) /\ OfMark(s) \in Figures
  BY OfMarkIs
<1>4. kept = MarkFigure(b, n) /\ kept \in Figures
  <2>1. n \in Nat
    OBVIOUS
  <2> HIDE DEF n
  <2> QED
    BY <1>1, <2>1, MarkFigureIs
<1>5. CASE IsUnread(s)
  <2>1. k = n
    BY <1>1, <1>2, <1>5
  <2>2. left = Nothing
    BY <1>5
  <2>3. MarkFigure(f, k) = MarkFigure(b, n)
    BY <1>2, <1>5, <2>1 DEF MarkFigure
  <2> HIDE DEF k, n, left, kept
  <2> QED
    BY <1>3, <1>4, <2>2, <2>3, PlusAdds DEF left, kept, n
<1>6. CASE ~IsUnread(s)
  <2> DEFINE w == Newest(s)
  <2>1. PICK t \in DOMAIN raw[s] : w = raw[s][t] /\ raw[s][t] \in Readings /\ raw[s][t].tokens > 0
    BY <1>6, AllReadings
  <2>2. /\ w.tokens \in Nat /\ w.tokens > 0 /\ w.cost \in CostsOf
        /\ w.tokens <= b.tokens /\ w.cost <= b.cost
    BY <2>1 DEF Readings, IsKept
  <2>3. left = NetOfFold(w, f, 1 - k)
    <3>1. left = NetOfFold(w, f, IF f.day \in DayOf(0)..DayOf(MaxTick) THEN 0 ELSE 1)
      BY <1>6 DEF Remainder, Newest
    <3>2. DayOf(0) = 0
      <4>1. DayOf(0) \in Nat /\ DayOf(0) * DayTicks <= 0 /\ DayTicks \in Nat /\ DayTicks > 0
        BY DayIs, UsageAssumption
      <4>2. 0 * DayTicks <= 0 /\ 0 < (0 + 1) * DayTicks
        BY <4>1
      <4> QED
        BY <4>2, DayIsOne
    <3>3. Days = 0..DayOf(MaxTick) /\ NoDay \notin Days
      BY DaysAre DEF NoDay
    <3>4. f.day \in DayOf(0)..DayOf(MaxTick) <=> f.day # NoDay
      BY <1>1, <3>2, <3>3
    <3> HIDE DEF f, w
    <3> QED
      BY <3>1, <3>4 DEF f
  <2>4. k \in {0, 1} /\ 1 - k \in Nat
    OBVIOUS
  <2> HIDE DEF w, f, b, k, n, left
  <2>5. /\ left \in Figures /\ left.tokens = Rises(w.tokens, f.tokens)
        /\ left.cost = Rises(Priced(w.cost), Priced(f.cost)) /\ left.sessions = 1 - k
    BY <1>1, <2>2, <2>3, <2>4, NetIs
  <2>6. b.tokens = f.tokens + left.tokens
    <3>1. b.tokens = w.tokens \/ b.tokens = f.tokens
      BY <1>2, <1>6 DEF w
    <3>2. left.tokens = IF w.tokens >= f.tokens THEN w.tokens - f.tokens ELSE 0
      BY <1>1, <2>2, <2>5, RisesIs
    <3> QED
      BY <1>1, <1>2, <2>2, <3>1, <3>2
  <2>7. Priced(b.cost) = Priced(f.cost) + left.cost
    <3>1. /\ Priced(f.cost) \in Nat /\ Priced(f.cost) = IF f.cost >= 0 THEN f.cost ELSE 0
          /\ Priced(w.cost) \in Nat /\ Priced(w.cost) = IF w.cost >= 0 THEN w.cost ELSE 0
          /\ Priced(b.cost) = IF b.cost >= 0 THEN b.cost ELSE 0
      BY <1>1, <2>2, PricedIs
    <3>2. left.cost = IF Priced(w.cost) >= Priced(f.cost) THEN Priced(w.cost) - Priced(f.cost) ELSE 0
      BY <2>5, <3>1, RisesIs
    <3>3. f.cost \in Int /\ w.cost \in Int /\ b.cost \in Int
      BY <1>1, <2>2 DEF CostsOf, NoCost
    <3>4. b.cost \in {w.cost, f.cost}
      BY <1>2, <1>6 DEF w
    <3> QED
      BY <1>2, <2>2, <3>1, <3>2, <3>3, <3>4
  <2>8. n = 1
    BY <1>1, <2>2 DEF n, b
  <2>9. n = k + left.sessions
    BY <2>4, <2>5, <2>8
  <2>10. Plus(MarkFigure(f, k), left) = MarkFigure(b, n)
    BY <2>6, <2>7, <2>9 DEF Plus, MarkFigure
  <2> QED
    BY <1>3, <1>4, <2>5, <2>10 DEF left, n
<1> QED
  BY <1>5, <1>6

LEMMA TotalIsCounted == UsageInv => TotalIsHighWater
<1> SUFFICES ASSUME UsageInv PROVE TotalIsHighWater
  OBVIOUS
<1>0. /\ LedgerTyped /\ IsFiniteSet(present) /\ present \subseteq Metered
      /\ \A s \in Metered : IsKept(s) /\ OfMarks[s] = OfMark(s) /\ OfMarks[s] \in Figures
      /\ gone \in Figures
  BY MarksAddUp DEF UsageInv, SessionsAreKept, LedgerTyped
<1> DEFINE kept == [s \in present |-> NetOfFold(best[s], Unread, IF best[s].tokens > 0 THEN 1 ELSE 0)]
           left == [s \in present |-> IF IsUnread(s) THEN Nothing ELSE Remainder(s, 0, MaxTick)]
           E == {p \in present : ReadIn(p, 0, MaxTick) # {}}
           shown == [s \in E |-> Remainder(s, 0, MaxTick)]
<1>1. \A s \in present : /\ kept[s] \in Figures /\ left[s] \in Figures /\ OfMarks[s] \in Figures
                         /\ kept[s] = Plus(OfMarks[s], left[s])
  <2>1. ASSUME NEW s \in present
        PROVE  /\ kept[s] \in Figures /\ left[s] \in Figures
               /\ kept[s] = Plus(OfMarks[s], left[s])
    <3>1. s \in Metered /\ IsKept(s) /\ OfMarks[s] = OfMark(s)
      BY <1>0
    <3> QED
      BY <1>0, <3>1, KeptIsCounted
  <2> QED
    BY <1>0, <2>1
<1>2. \A s \in present \ E : left[s] = Nothing
  BY DEF IsUnread
<1>3. shown = [s \in E |-> left[s]] /\ E \in SUBSET present
  BY DEF IsUnread
<1>4. Added(kept) = Sum(kept, present)
  <2>1. kept = [s \in present |-> kept[s]]
    OBVIOUS
  <2> HIDE DEF kept
  <2> QED
    BY <2>1 DEF Sum
<1>5. Summary(0, MaxTick) = Plus(Added(shown), Added([d \in DayOf(0)..DayOf(MaxTick) |-> rolled[d]]))
  BY DEF Summary
<1>6. Added([d \in DayOf(0)..DayOf(MaxTick) |-> rolled[d]]) = Added(rolled)
  <2>1. DayOf(0) = 0
    <3>1. DayTicks \in Nat /\ DayTicks > 0
      BY UsageAssumption
    <3>2. 0 * DayTicks <= 0 /\ 0 < (0 + 1) * DayTicks
      BY <3>1
    <3> QED
      BY <3>2, DayIsOne
  <2>2. DayOf(0)..DayOf(MaxTick) = Days
    BY <2>1, DaysAre
  <2> QED
    BY <1>0, <2>2, MarksAddUp DEF Sum
<1>7. TotalIsHighWater <=> Summary(0, MaxTick) = Plus(gone, Added(kept))
  BY DEF TotalIsHighWater
<1> HIDE DEF kept, left, shown, E
<1>8. Added(shown) = Sum(left, present) /\ Sum(left, present) \in Figures
  <2>1. Sum(left, present) = Sum(left, E)
    BY <1>0, <1>1, <1>2, <1>3, SumWithin
  <2>2. Added(shown) = Sum(left, E)
    BY <1>3 DEF Sum
  <2> QED
    BY <1>0, <1>1, <2>1, <2>2, SumIs
<1>9. Sum(kept, present) = Plus(Sum(OfMarks, present), Sum(left, present))
  BY <1>0, <1>1, SumOfPlus
<1>10. Added(rolled) = Plus(gone, Sum(OfMarks, present)) /\ Sum(OfMarks, present) \in Figures
  <2>1. Sum(OfMarks, present) \in Figures
    BY <1>0, <1>1, SumIs
  <2> QED
    BY <1>0, <2>1, MarksAddUp DEF UsageInv, DaysHoldMarks
<1> DEFINE x == Sum(OfMarks, present)  y == Sum(left, present)
<1> HIDE DEF x, y
<1>11. x \in Figures /\ y \in Figures
  BY <1>8, <1>10 DEF x, y
<1>12. Plus(y, Plus(gone, x)) = Plus(gone, Plus(x, y))
  <2>1. Plus(gone, x) \in Figures
    BY <1>0, <1>11, PlusAdds
  <2>2. Plus(y, Plus(gone, x)) = Plus(Plus(gone, x), y)
    BY <1>11, <2>1, PlusAdds
  <2> QED
    BY <1>0, <1>11, <2>2, PlusAdds
<1> QED
  BY <1>4, <1>5, <1>6, <1>7, <1>8, <1>9, <1>10, <1>12 DEF x, y

LEMMA WindowIsCounted == UsageInv => WindowCountsOnce
<1> SUFFICES ASSUME UsageInv, NEW s \in present \ fell, since >= tick - RollupAfter,
                    ReadIn(s, since, MaxTick) # {}
             PROVE  WindowOf(s, since).tokens = best[s].tokens - before[s].tokens
  BY DEF WindowCountsOnce
<1>1. LedgerTyped /\ s \in Metered /\ IsKept(s) /\ IsWindowed(s)
  BY DEF UsageInv, SessionsAreKept, LedgerTyped
<1>2. ~IsUnread(s)
  <2>1. ReadIn(s, since, MaxTick) \subseteq DOMAIN raw[s]
    BY DEF ReadIn
  <2> QED
    BY <1>1, <2>1, AllReadings
<1>3. Newest(s).tokens = best[s].tokens /\ Standing(s, since).tokens = before[s].tokens
  BY <1>1, <1>2 DEF IsWindowed
<1>4. WindowOf(s, since).tokens = Rises(best[s].tokens, before[s].tokens)
  BY <1>3 DEF WindowOf, NetOfFold
<1>5. best[s].tokens \in Nat /\ before[s].tokens \in Nat /\ before[s].tokens <= best[s].tokens
  BY <1>1 DEF LedgerTyped, Readings, IsKept
<1> QED
  BY <1>4, <1>5, RisesIs

\* The types of UsageLedger hold, of readings, marks, days, and of the round under way.
THEOREM UsageTyped == UsageSpec => []UsageTypeOK
  BY UsageInvHolds, LedgerIsTyped, PTL

\* The total shown is what the sessions have cost: for all sessions, prices, days and
\* bounds, and however readings fell, were folded into days, pruned or lost with their
\* session, it is the sum of the high-water marks, and no rollup, repeated or cut off,
\* counts a token twice (record, rollupOlderThan, summary).
THEOREM TotalCounted == UsageSpec => []TotalIsHighWater
  BY UsageInvHolds, TotalIsCounted, PTL

\* A window counts what a session used within it once, also when the reading it
\* starts from was folded away (agentWindows, readingsBefore).
THEOREM WindowCounted == UsageSpec => []WindowCountsOnce
  BY UsageInvHolds, WindowIsCounted, PTL
=============================================================================
