-------------------------------- MODULE Induction --------------------------------
(* Facts about data of any size that the proofs of several components need. *)
(* The induction theorems of the library take an operator; an induction is  *)
(* therefore written as the choice of the least or the greatest place where *)
(* a statement fails.                                                        *)
EXTENDS Integers, SequencesExt, SequenceTheorems, FunctionTheorems,
        FiniteSetTheorems, WellFoundedInduction, TLAPS

LEMMA Least ==
  ASSUME NEW T, T \subseteq Nat, T # {}
  PROVE  \E m \in T : \A n \in T : m <= n
<1> DEFINE U == {0..n : n \in T}
<1>1. U \subseteq FiniteSubsetsOf(Nat) /\ U # {}
  <2>1. \A n \in T : IsFiniteSet(0..n) /\ 0..n \subseteq Nat
    BY FS_Interval
  <2> QED
    BY <2>1 DEF FiniteSubsetsOf
<1>2. IsWellFoundedOn(StrictSubsetOrdering(Nat), FiniteSubsetsOf(Nat))
  BY FS_StrictSubsetOrderingWellFounded
<1>3. \E x \in U : \A y \in U : ~ (<<y, x>> \in StrictSubsetOrdering(Nat))
  <2> HIDE DEF U
  <2> QED
    BY <1>1, <1>2, WFMin
<1>4. PICK m \in T : \A n \in T : ~ (<<0..n, 0..m>> \in StrictSubsetOrdering(Nat))
  BY <1>3
<1>5. \A n \in T : n < m => <<0..n, 0..m>> \in StrictSubsetOrdering(Nat)
  BY DEF StrictSubsetOrdering
<1>6. ASSUME NEW n \in T PROVE m <= n
  <2>1. m \in Nat /\ n \in Nat /\ ~ (n < m)
    BY <1>4, <1>5
  <2> QED
    BY <2>1
<1> QED
  BY <1>6

LEMMA Greatest ==
  ASSUME NEW L \in Nat, NEW T, T \subseteq 0..L, T # {}
  PROVE  \E m \in T : \A n \in T : n <= m
<1> DEFINE U == {L - n : n \in T}
<1>1. U \subseteq Nat /\ U # {}
  <2>1. \A n \in T : L - n \in Nat
    OBVIOUS
  <2> QED
    BY <2>1
<1>2. PICK u \in U : \A v \in U : u <= v
  <2> HIDE DEF U
  <2> QED
    BY <1>1, Least
<1>3. PICK m \in T : u = L - m
  BY <1>2
<1>4. \A n \in T : L - m <= L - n
  BY <1>2, <1>3
<1>5. \A n \in T : n <= m
  BY <1>4
<1> QED
  BY <1>5

-----------------------------------------------------------------------------
(* FlattenSeq: its recursive function exists, is unique and adds at the end. *)

\* The recursion of FlattenSeq, up to place n.
FlattensTo(f, s, n) ==
  f = [k \in 1..n |-> IF k = 1 THEN s[k] ELSE f[k - 1] \o s[k]]

LEMMA FlattenExists ==
  ASSUME NEW s, NEW n \in Nat
  PROVE  \E f : FlattensTo(f, s, n)
<1> DEFINE Bad == {m \in Nat : ~ \E f : FlattensTo(f, s, m)}
<1> SUFFICES ASSUME Bad # {} PROVE FALSE
  OBVIOUS
<1>1. PICK m \in Bad : \A l \in Bad : m <= l
  <2>1. Bad \subseteq Nat
    OBVIOUS
  <2> HIDE DEF Bad
  <2> QED
    BY <2>1, Least
<1>2. m # 0
  <2>1. FlattensTo([k \in 1..0 |-> s[k]], s, 0)
    BY DEF FlattensTo
  <2> QED
    BY <1>1, <2>1
<1>3. m \in Nat /\ m - 1 \in Nat /\ m - 1 \notin Bad
  BY <1>1, <1>2
<1>4. PICK f : FlattensTo(f, s, m - 1)
  BY <1>3
<1> DEFINE g == [k \in 1..m |-> IF k = 1 THEN s[k] ELSE f[k - 1] \o s[k]]
<1>5. \A k \in 1..m - 1 : g[k] = f[k]
  <2>1. \A k \in 1..m - 1 : f[k] = IF k = 1 THEN s[k] ELSE f[k - 1] \o s[k]
    BY <1>4 DEF FlattensTo
  <2>2. \A k \in 1..m - 1 : k \in 1..m
    BY <1>3
  <2> QED
    BY <2>1, <2>2
<1>6. \A k \in 1..m : g[k] = IF k = 1 THEN s[k] ELSE g[k - 1] \o s[k]
  <2>1. \A k \in 1..m : k # 1 => k - 1 \in 1..m - 1
    BY <1>3
  <2> QED
    BY <1>5, <2>1
<1>7. FlattensTo(g, s, m)
  <2>1. g = [k \in 1..m |-> g[k]]
    OBVIOUS
  <2> HIDE DEF g
  <2> QED
    BY <1>6, <2>1 DEF FlattensTo
<1> QED
  BY <1>1, <1>7

LEMMA FlattenStep ==
  ASSUME NEW f, NEW s, NEW n, FlattensTo(f, s, n), NEW k \in 1..n
  PROVE  f[k] = IF k = 1 THEN s[k] ELSE f[k - 1] \o s[k]
<1>1. f = [l \in 1..n |-> IF l = 1 THEN s[l] ELSE f[l - 1] \o s[l]]
  BY DEF FlattensTo
<1> QED
  BY <1>1

\* Two sequences flatten alike as far as they agree.
LEMMA FlattenUnique ==
  ASSUME NEW n \in Nat, NEW l \in Nat, NEW s, NEW t, NEW f, NEW g,
         FlattensTo(f, s, n), FlattensTo(g, t, l),
         n <= l, \A k \in 1..n : s[k] = t[k]
  PROVE  \A k \in 1..n : f[k] = g[k]
<1> DEFINE Bad == {k \in 1..n : f[k] # g[k]}
<1> SUFFICES ASSUME Bad # {} PROVE FALSE
  OBVIOUS
<1>1. PICK m \in Bad : \A k \in Bad : m <= k
  <2>1. Bad \subseteq Nat
    OBVIOUS
  <2> HIDE DEF Bad
  <2> QED
    BY <2>1, Least
<1>2. /\ f[m] = (IF m = 1 THEN s[m] ELSE f[m - 1] \o s[m])
      /\ g[m] = (IF m = 1 THEN t[m] ELSE g[m - 1] \o t[m])
  <2>1. m \in 1..n /\ m \in 1..l
    OBVIOUS
  <2> QED
    BY <2>1, FlattenStep
<1>3. m # 1 => f[m - 1] = g[m - 1]
  BY <1>1
<1>4. s[m] = t[m]
  OBVIOUS
<1> QED
  BY <1>1, <1>2, <1>3, <1>4

LEMMA FlattenIs ==
  ASSUME NEW S, NEW s \in Seq(S), Len(s) # 0, NEW f, FlattensTo(f, s, Len(s))
  PROVE  FlattenSeq(s) = f[Len(s)]
<1> DEFINE chosen == CHOOSE g : FlattensTo(g, s, Len(s))
<1>0. Len(s) \in Nat
  BY LenProperties
<1>1. FlattenSeq(s) = chosen[Len(s)]
  BY DEF FlattenSeq, FlattensTo
<1>2. FlattensTo(chosen, s, Len(s))
  OBVIOUS
<1> HIDE DEF chosen
<1>3. \A k \in 1..Len(s) : chosen[k] = f[k]
  BY <1>0, <1>2, FlattenUnique
<1> QED
  BY <1>0, <1>1, <1>3

LEMMA FlattenType ==
  ASSUME NEW S, NEW s \in Seq(Seq(S))
  PROVE  FlattenSeq(s) \in Seq(S)
<1>0. Len(s) \in Nat /\ \A k \in 1..Len(s) : s[k] \in Seq(S)
  BY LenProperties
<1>1. CASE Len(s) = 0
  <2>1. s = <<>>
    BY <1>1, EmptySeq
  <2>2. FlattenSeq(s) = s
    BY <1>1 DEF FlattenSeq
  <2> QED
    BY <2>1, <2>2, EmptySeq
<1>2. CASE Len(s) # 0
  <2>1. PICK f : FlattensTo(f, s, Len(s))
    BY <1>0, FlattenExists
  <2> DEFINE Bad == {k \in 1..Len(s) : f[k] \notin Seq(S)}
  <2>2. Bad = {}
    <3> SUFFICES ASSUME Bad # {} PROVE FALSE
      OBVIOUS
    <3>1. PICK m \in Bad : \A k \in Bad : m <= k
      <4>1. Bad \subseteq Nat
        BY <1>0
      <4> HIDE DEF Bad
      <4> QED
        BY <4>1, Least
    <3>2. f[m] = (IF m = 1 THEN s[m] ELSE f[m - 1] \o s[m]) /\ s[m] \in Seq(S)
      BY <1>0, <2>1, FlattenStep
    <3>3. m # 1 => f[m - 1] \in Seq(S)
      BY <1>0, <3>1
    <3>4. f[m] \in Seq(S)
      BY <3>2, <3>3, ConcatProperties
    <3> QED
      BY <3>1, <3>4
  <2>3. f[Len(s)] \in Seq(S)
    BY <1>0, <1>2, <2>2
  <2> QED
    BY <1>2, <2>1, <2>3, FlattenIs
<1> QED
  BY <1>1, <1>2

LEMMA FlattenAppend ==
  ASSUME NEW S, NEW s \in Seq(Seq(S)), NEW x \in Seq(S)
  PROVE  FlattenSeq(Append(s, x)) = FlattenSeq(s) \o x
<1>0. PICK t : t = Append(s, x)
  OBVIOUS
<1> DEFINE n == Len(t)
<1>1. /\ Len(s) \in Nat /\ t \in Seq(Seq(S)) /\ Len(t) = Len(s) + 1 /\ t[Len(s) + 1] = x
      /\ \A k \in 1..Len(s) : t[k] = s[k]
  BY <1>0, LenProperties, AppendProperties
<1>2. PICK g : FlattensTo(g, t, n)
  <2>1. n \in Nat
    BY <1>1
  <2> HIDE DEF n
  <2> QED
    BY <2>1, FlattenExists
<1>3. FlattenSeq(t) = g[Len(t)]
  BY <1>1, <1>2, FlattenIs
<1>4. g[Len(t)] = IF Len(t) = 1 THEN t[Len(t)] ELSE g[Len(t) - 1] \o t[Len(t)]
  <2>1. n \in 1..n
    BY <1>1
  <2>2. g[n] = IF n = 1 THEN t[n] ELSE g[n - 1] \o t[n]
    <3> HIDE DEF n
    <3> QED
      BY <1>2, <2>1, FlattenStep
  <2> QED
    BY <2>2
<1>5. CASE Len(s) = 0
  <2>1. FlattenSeq(t) = x
    BY <1>1, <1>3, <1>4, <1>5
  <2>2. FlattenSeq(s) = <<>>
    BY <1>5, EmptySeq DEF FlattenSeq
  <2> QED
    BY <2>1, <2>2, ConcatEmptySeq, <1>0
<1>6. CASE Len(s) # 0
  <2>1. PICK f : FlattensTo(f, s, Len(s))
    BY <1>1, FlattenExists
  <2>2. FlattenSeq(s) = f[Len(s)]
    BY <1>6, <2>1, FlattenIs
  <2>3. \A k \in 1..Len(s) : f[k] = g[k]
    <3> DEFINE m == Len(s)
    <3>1. m <= n /\ m \in Nat /\ n \in Nat
      BY <1>1
    <3>2. \A k \in 1..m : s[k] = t[k]
      BY <1>1
    <3>3. FlattensTo(f, s, m)
      BY <2>1
    <3>4. \A k \in 1..m : f[k] = g[k]
      <4> HIDE DEF n, m
      <4> QED
        BY <1>2, <3>1, <3>2, <3>3, FlattenUnique
    <3> QED
      BY <3>4
  <2>4. g[Len(s)] = f[Len(s)]
    <3>1. Len(s) \in 1..Len(s)
      BY <1>1, <1>6
    <3> QED
      BY <2>3, <3>1
  <2>5. FlattenSeq(t) = g[Len(s)] \o x
    <3>1. Len(t) # 1 /\ Len(t) - 1 = Len(s) /\ t[Len(t)] = x
      BY <1>1, <1>6
    <3> QED
      BY <1>3, <1>4, <3>1
  <2> QED
    BY <2>2, <2>4, <2>5, <1>0
<1> QED
  BY <1>5, <1>6
-----------------------------------------------------------------------------
(* Sums of natural numbers over a finite set count pairs.                    *)

Total(f, S) == FoldFunctionOnSet(+, 0, f, S)
\* As many pairs for each x as f says.
Marks(f, S) == UNION {{x} \X (1..f[x]) : x \in S}
LEMMA MarksAdd ==
  ASSUME NEW S, IsFiniteSet(S), NEW f, \A x \in S : f[x] \in Nat
  PROVE  /\ IsFiniteSet(Marks(f, S))
         /\ \A x \in S : Cardinality(Marks(f, S)) = f[x] + Cardinality(Marks(f, S \ {x}))
<1>1. ASSUME NEW x \in S
      PROVE  IsFiniteSet({x} \X (1..f[x])) /\ Cardinality({x} \X (1..f[x])) = f[x]
  <2>1. f[x] \in Nat
    OBVIOUS
  <2>2. IsFiniteSet({x}) /\ Cardinality({x}) = 1
    BY FS_Singleton
  <2>3. IsFiniteSet(1..f[x]) /\ Cardinality(1..f[x]) = f[x]
    <3>1. PICK n \in Nat : n = f[x]
      BY <2>1
    <3>2. IsFiniteSet(1..n) /\ Cardinality(1..n) = (IF 1 > n THEN 0 ELSE n - 1 + 1)
      BY FS_Interval
    <3> QED
      BY <3>1, <3>2
  <2>4. /\ IsFiniteSet({x} \X (1..f[x]))
        /\ Cardinality({x} \X (1..f[x])) = Cardinality({x}) * Cardinality(1..f[x])
    BY <2>2, <2>3, FS_Product
  <2> QED
    BY <2>1, <2>2, <2>3, <2>4
<1>2. ASSUME NEW T \in SUBSET S PROVE IsFiniteSet(Marks(f, T))
  <2> DEFINE U == {{x} \X (1..f[x]) : x \in T}
  <2>1. IsFiniteSet(T)
    BY FS_Subset
  <2>2. IsFiniteSet(U)
    <3> DEFINE g == [x \in T |-> {x} \X (1..f[x])]
    <3>1. g \in Surjection(T, U)
      <4>1. g \in [T -> U]
        OBVIOUS
      <4>2. \A V \in U : \E x \in T : g[x] = V
        OBVIOUS
      <4> HIDE DEF g, U
      <4> QED
        BY <4>1, <4>2 DEF Surjection
    <3> HIDE DEF g, U
    <3> QED
      BY <2>1, <3>1, FS_Surjection
  <2>3. \A V \in U : IsFiniteSet(V)
    BY <1>1
  <2> HIDE DEF U
  <2>4. IsFiniteSet(UNION U)
    BY <2>2, <2>3, FS_UNION
  <2> QED
    BY <2>4 DEF U, Marks
<1>3. ASSUME NEW x \in S
      PROVE  Cardinality(Marks(f, S)) = f[x] + Cardinality(Marks(f, S \ {x}))
  <2> DEFINE A == {x} \X (1..f[x])  B == Marks(f, S \ {x})
  <2>1. Marks(f, S) = A \union B /\ A \cap B = {}
    BY DEF Marks
  <2>2. IsFiniteSet(A) /\ Cardinality(A) = f[x] /\ IsFiniteSet(B) /\ f[x] \in Nat
    BY <1>1, <1>2
  <2> HIDE DEF A, B
  <2>3. Cardinality(A \union B) = Cardinality(A) + Cardinality(B) - Cardinality(A \cap B)
    BY <2>2, FS_Union
  <2>4. Cardinality(A \cap B) = 0 /\ Cardinality(B) \in Nat
    BY <2>1, <2>2, FS_EmptySet, FS_CardinalityType
  <2>5. Cardinality(A \union B) = f[x] + Cardinality(B)
    BY <2>2, <2>3, <2>4
  <2> QED
    BY <2>1, <2>5 DEF B
<1> QED
  BY <1>2, <1>3

LEMMA TotalIsCount ==
  ASSUME NEW S, IsFiniteSet(S), NEW f, \A x \in S : f[x] \in Nat
  PROVE  Total(f, S) = Cardinality(Marks(f, S))
<1> DEFINE Choice(s) == CHOOSE x \in s : TRUE
           Iter(w) == w = [s \in SUBSET S |->
                             IF s = {} THEN 0 ELSE f[Choice(s)] + w[s \ {Choice(s)}]]
           Count(s) == Cardinality(Marks(f, s))
           F == [s \in SUBSET S |-> Count(s)]
           iter == CHOOSE w : Iter(w)
<1>1. Total(f, S) = iter[S]
  BY DEF Total, FoldFunctionOnSet, MapThenFoldSet
<1>2. ASSUME NEW s \in SUBSET S
      PROVE  Count(s) = IF s = {} THEN 0 ELSE f[Choice(s)] + Count(s \ {Choice(s)})
  <2>1. CASE s = {}
    BY <2>1, FS_EmptySet DEF Marks
  <2>2. CASE s # {}
    <3>1. Choice(s) \in s
      BY <2>2
    <3>2. IsFiniteSet(s) /\ \A x \in s : f[x] \in Nat
      BY FS_Subset
    <3> HIDE DEF Choice
    <3> QED
      BY <2>2, <3>1, <3>2, MarksAdd
  <2> QED
    BY <2>1, <2>2
<1>3. ASSUME NEW s \in SUBSET S PROVE s \ {Choice(s)} \in SUBSET S
  OBVIOUS
<1> HIDE DEF Choice, Count
<1>4. Iter(F)
  <2>1. ASSUME NEW s \in SUBSET S
        PROVE  F[s] = IF s = {} THEN 0 ELSE f[Choice(s)] + F[s \ {Choice(s)}]
    <3>1. F[s] = Count(s) /\ F[s \ {Choice(s)}] = Count(s \ {Choice(s)})
      BY <1>3
    <3> HIDE DEF F
    <3> QED
      BY <1>2, <3>1
  <2> QED
    BY <2>1
<1>5. ASSUME NEW w, Iter(w) PROVE w[S] = Count(S)
  <2> DEFINE Bad == {s \in SUBSET S : w[s] # Count(s)}
             Sizes == {Cardinality(s) : s \in Bad}
  <2> SUFFICES ASSUME Bad # {} PROVE FALSE
    OBVIOUS
  <2>1. \A s \in SUBSET S : IsFiniteSet(s) /\ Cardinality(s) \in Nat
    BY FS_Subset, FS_CardinalityType
  <2>2. PICK m \in Sizes : \A l \in Sizes : m <= l
    <3>1. Sizes \subseteq Nat /\ Sizes # {}
      BY <2>1
    <3> HIDE DEF Sizes
    <3> QED
      BY <3>1, Least
  <2>3. PICK s \in Bad : m = Cardinality(s)
    BY <2>2
  <2>4. w[s] = IF s = {} THEN 0 ELSE f[Choice(s)] + w[s \ {Choice(s)}]
    BY <1>5
  <2>5. s # {}
    BY <1>2, <2>3, <2>4
  <2> DEFINE r == s \ {Choice(s)}
  <2>6. Choice(s) \in s
    BY <2>5 DEF Choice
  <2>7. Cardinality(r) = Cardinality(s) - 1
    BY <2>1, <2>6, FS_RemoveElement
  <2>8. r \in SUBSET S
    BY <1>3
  <2> HIDE DEF r
  <2>9. r \notin Bad
    <3>1. m \in Nat /\ Cardinality(r) < m
      BY <2>1, <2>3, <2>7
    <3>2. r \in Bad => Cardinality(r) \in Sizes
      OBVIOUS
    <3>3. Cardinality(r) \in Nat
      BY <2>1, <2>8
    <3> HIDE DEF Sizes, Bad
    <3> QED
      BY <2>2, <3>1, <3>2, <3>3
  <2>10. w[r] = Count(r)
    BY <2>8, <2>9
  <2>11. Count(s) = f[Choice(s)] + Count(r)
    BY <1>2, <2>5 DEF r
  <2> QED
    BY <2>3, <2>4, <2>5, <2>10, <2>11 DEF r
<1>6. Iter(iter)
  <2> HIDE DEF Iter, F
  <2> QED
    BY <1>4
<1> HIDE DEF Iter, iter
<1> QED
  BY <1>1, <1>5, <1>6 DEF Count

LEMMA TotalAdds ==
  ASSUME NEW S, IsFiniteSet(S), NEW f, \A x \in S : f[x] \in Nat, NEW x \in S
  PROVE  /\ Total(f, S) = f[x] + Total(f, S \ {x})
         /\ Total(f, S) \in Nat /\ f[x] <= Total(f, S)
<1> DEFINE r == S \ {x}
<1>1. IsFiniteSet(r) /\ \A y \in r : f[y] \in Nat
  BY FS_RemoveElement
<1>2. Total(f, S) = Cardinality(Marks(f, S)) /\ Total(f, r) = Cardinality(Marks(f, r))
  <2> HIDE DEF r
  <2> QED
    BY <1>1, TotalIsCount
<1>3. Cardinality(Marks(f, S)) = f[x] + Cardinality(Marks(f, r))
  BY MarksAdd
<1>4. Cardinality(Marks(f, r)) \in Nat /\ f[x] \in Nat
  <2> HIDE DEF r
  <2> QED
    BY <1>1, MarksAdd, FS_CardinalityType
<1> QED
  BY <1>2, <1>3, <1>4

\* A sum depends on nothing outside its set.
LEMMA TotalSame ==
  ASSUME NEW S, IsFiniteSet(S), NEW f, NEW g, \A x \in S : f[x] \in Nat /\ f[x] = g[x]
  PROVE  Total(f, S) = Total(g, S)
<1>1. Marks(f, S) = Marks(g, S)
  BY DEF Marks
<1>2. \A x \in S : g[x] \in Nat /\ f[x] \in Nat
  OBVIOUS
<1> QED
  BY <1>1, <1>2, TotalIsCount

\* A sum changes by what one of its terms does.
LEMMA TotalChange ==
  ASSUME NEW S, IsFiniteSet(S), NEW f, NEW g, NEW x \in S,
         \A y \in S : f[y] \in Nat /\ g[y] \in Nat /\ (y # x => f[y] = g[y])
  PROVE  Total(f, S) + g[x] = Total(g, S) + f[x] /\ Total(f, S) \in Nat /\ Total(g, S) \in Nat
<1> DEFINE r == S \ {x}
<1>1. IsFiniteSet(r) /\ \A y \in r : f[y] \in Nat /\ f[y] = g[y]
  BY FS_RemoveElement
<1>2. Total(f, r) = Total(g, r)
  <2> HIDE DEF r
  <2> QED
    BY <1>1, TotalSame
<1>3. /\ Total(f, S) = f[x] + Total(f, r) /\ Total(f, S) \in Nat /\ f[x] <= Total(f, S)
      /\ Total(g, S) = g[x] + Total(g, r) /\ Total(g, S) \in Nat
      /\ g[x] <= Total(g, S)
  BY TotalAdds
<1>4. f[x] \in Nat /\ g[x] \in Nat
  OBVIOUS
<1>5. Total(f, r) \in Nat
  <2>1. Total(f, r) = Cardinality(Marks(f, r))
    <3> HIDE DEF r
    <3> QED
      BY <1>1, TotalIsCount
  <2> HIDE DEF r
  <2> QED
    BY <1>1, <2>1, MarksAdd, FS_CardinalityType
<1> HIDE DEF r
<1> QED
  BY <1>2, <1>3, <1>4, <1>5

-----------------------------------------------------------------------------
(* How often something is in a sequence.                                     *)

PlacesIn(c, s) == {i \in DOMAIN s : s[i] = c}
LEMMA PlacesInFinite ==
  ASSUME NEW S, NEW s \in Seq(S), NEW c
  PROVE  /\ IsFiniteSet(PlacesIn(c, s)) /\ Cardinality(PlacesIn(c, s)) \in Nat
         /\ PlacesIn(c, s) \subseteq 1..Len(s)
<1>1. PlacesIn(c, s) \subseteq 1..Len(s) /\ Len(s) \in Int /\ 1 \in Int
  BY LenProperties DEF PlacesIn
<1>2. IsFiniteSet(1..Len(s))
  BY <1>1, FS_Interval
<1>3. IsFiniteSet(PlacesIn(c, s))
  BY <1>1, <1>2, FS_Subset
<1> QED
  BY <1>1, <1>3, FS_CardinalityType

LEMMA PlacesInNone == ASSUME NEW c PROVE Cardinality(PlacesIn(c, <<>>)) = 0
<1>1. PlacesIn(c, <<>>) = {}
  BY DEF PlacesIn
<1> QED
  BY <1>1, FS_EmptySet

\* In two sequences together as often as in the one and in the other.
LEMMA PlacesInJoin ==
  ASSUME NEW S, NEW s \in Seq(S), NEW t \in Seq(S), NEW c
  PROVE  Cardinality(PlacesIn(c, s \o t)) =
           Cardinality(PlacesIn(c, s)) + Cardinality(PlacesIn(c, t))
<1> DEFINE u == s \o t
           l == Len(s)
           A == PlacesIn(c, s)  B == PlacesIn(c, t)
           C == {i \in PlacesIn(c, u) : i > l}
           h == [i \in B |-> i + l]
<1>1. /\ u \in Seq(S) /\ Len(u) = l + Len(t) /\ l \in Nat /\ Len(t) \in Nat
      /\ \A i \in 1..Len(u) : u[i] = IF i <= l THEN s[i] ELSE t[i - l]
      /\ DOMAIN u = 1..Len(u) /\ DOMAIN s = 1..l /\ DOMAIN t = 1..Len(t)
  BY ConcatProperties, LenProperties
<1>2. IsFiniteSet(A) /\ IsFiniteSet(B) /\ Cardinality(A) \in Nat /\ Cardinality(B) \in Nat
  BY PlacesInFinite
<1> HIDE DEF u, l
<1>3. PlacesIn(c, u) = A \union C /\ A \cap C = {}
  <2>1. \A i \in 1..l : i \in 1..Len(u) /\ u[i] = s[i] /\ ~(i > l)
    BY <1>1
  <2>2. \A i \in 1..Len(u) : ~(i > l) => i \in 1..l
    BY <1>1
  <2> QED
    BY <1>1, <2>1, <2>2 DEF PlacesIn
<1>4. h \in Bijection(B, C)
  <2>1. \A i \in B : h[i] = i + l /\ i \in 1..Len(t) /\ t[i] = c
    BY <1>1 DEF PlacesIn
  <2>2. \A i \in B : h[i] \in C
    <3> SUFFICES ASSUME NEW i \in B PROVE h[i] \in C
      OBVIOUS
    <3>1. i + l \in 1..Len(u) /\ i + l > l /\ i + l - l = i
      BY <1>1, <2>1
    <3>2. u[i + l] = c
      BY <1>1, <2>1, <3>1
    <3> QED
      BY <1>1, <2>1, <3>1, <3>2 DEF PlacesIn
  <2>3. \A i, j \in B : h[i] = h[j] => i = j
    BY <1>1, <2>1
  <2>4. \A k \in C : \E i \in B : h[i] = k
    <3> SUFFICES ASSUME NEW k \in C PROVE \E i \in B : h[i] = k
      OBVIOUS
    <3>1. k \in 1..Len(u) /\ k > l /\ u[k] = c
      BY <1>1 DEF PlacesIn
    <3>2. k - l \in 1..Len(t) /\ t[k - l] = c /\ k - l + l = k
      BY <1>1, <3>1
    <3>3. k - l \in B
      BY <1>1, <3>2 DEF PlacesIn
    <3> QED
      BY <2>1, <3>2, <3>3
  <2>5. h \in [B -> C]
    BY <2>1, <2>2
  <2> HIDE DEF h, B, C
  <2> QED
    BY <2>3, <2>4, <2>5, Fun_IsBij
<1>5. IsFiniteSet(C) /\ Cardinality(C) = Cardinality(B)
  <2> HIDE DEF h, C
  <2> QED
    BY <1>2, <1>4, FS_Bijection DEF ExistsBijection
<1>6. Cardinality(A \union C) = Cardinality(A) + Cardinality(C)
  <2> HIDE DEF A, B, C
  <2>1. Cardinality(A \union C) = Cardinality(A) + Cardinality(C) - Cardinality({})
    BY <1>2, <1>3, <1>5, FS_Union
  <2> QED
    BY <1>2, <1>5, <2>1, FS_EmptySet
<1> QED
  BY <1>3, <1>5, <1>6 DEF u
=============================================================================
