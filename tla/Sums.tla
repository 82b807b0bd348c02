---------------------------------- MODULE Sums ----------------------------------
(***************************************************************************)
(* Laws of SumFunctionOnSet of the community modules, the sum of a         *)
(* function's values over a finite set, and of the least elements of a set *)
(* of numbers.  The provers cannot instantiate an induction theorem, so    *)
(* each induction here is on a least counterexample.                       *)
(***************************************************************************)
EXTENDS Functions, FiniteSets, FiniteSetsExt, Integers, FiniteSetTheorems, TLAPS

\* A set of natural numbers that is not empty has a least element.
LEMMA LeastNat ==
    ASSUME NEW T \in SUBSET Nat, T # {}
    PROVE  \E n \in T : \A m \in T : n <= m
  <1> DEFINE R == {ss \in Nat \X Nat : ss[1] < ss[2]}
  <1>1. IsWellFoundedOn(R, Nat)  BY NatLessThanWellFounded DEF OpToRel
  <1> HIDE DEF R
  <1>2. \E x \in T : \A y \in T : ~ (<<y, x>> \in R)  BY <1>1, WFMin
  <1>3. PICK x \in T : \A y \in T : ~ (<<y, x>> \in R)  BY <1>2
  <1>4. ASSUME NEW y \in T  PROVE x <= y
    <2>1. ~ (<<y, x>> \in R)  BY <1>3
    <2> QED  BY <2>1 DEF R
  <1> QED  BY <1>4

\* Among sets of elements of a finite set, one has no other of them as a subset.
LEMMA LeastSet ==
    ASSUME NEW S, IsFiniteSet(S), NEW Bad \in SUBSET (SUBSET S), Bad # {}
    PROVE  \E s \in Bad : \A r \in SUBSET s : r # s => r \notin Bad
  <1> DEFINE Sizes == {n \in Nat : \E s \in Bad : Cardinality(s) = n}
  <1>1. \A s \in SUBSET S : IsFiniteSet(s) /\ Cardinality(s) \in Nat  BY FS_Subset, FS_CardinalityType
  <1>2. Sizes # {} /\ Sizes \in SUBSET Nat  BY <1>1
  <1>3. PICK n \in Sizes : \A m \in Sizes : n <= m
    <2> HIDE DEF Sizes
    <2> QED  BY <1>2, LeastNat
  <1>4. PICK s \in Bad : Cardinality(s) = n  BY <1>3
  <1>5. ASSUME NEW r \in SUBSET s, r # s, r \in Bad  PROVE FALSE
    <2>1. Cardinality(r) <= Cardinality(s) /\ (Cardinality(s) = Cardinality(r) => s = r)
      <3>1. IsFiniteSet(s)  BY <1>1
      <3> QED  BY <3>1, FS_Subset
    <2>2. Cardinality(r) \in Sizes  BY <1>1, <1>5
    <2>3. n <= Cardinality(r)  BY <2>2, <1>3
    <2> QED  BY <2>1, <2>3, <1>4, <1>5, <1>1
  <1> QED  BY <1>5

-----------------------------------------------------------------------------
\* What a sum is, one element after the other, as its definition takes them.
One(s) == CHOOSE x \in s : TRUE
Unfolded(f, S, g) == g = [s \in SUBSET S |-> IF s = {} THEN 0 ELSE f[One(s)] + g[s \ {One(s)}]]

\* The sum is what such a function has at the whole set.
LEMMA SumIsUnfolded ==
    ASSUME NEW f, NEW S
    PROVE  SumFunctionOnSet(f, S) = (CHOOSE g : Unfolded(f, S, g))[S]
  BY DEF SumFunctionOnSet, FoldFunctionOnSet, MapThenFoldSet, Unfolded, One

\* Two functions that unfold so over the subsets of a finite set are the same there.
LEMMA UnfoldedIsUnique ==
    ASSUME NEW f, NEW S, IsFiniteSet(S), NEW g, NEW h, Unfolded(f, S, g), Unfolded(f, S, h)
    PROVE  \A s \in SUBSET S : g[s] = h[s]
  <1> DEFINE Bad == {s \in SUBSET S : g[s] # h[s]}
  <1> SUFFICES ASSUME Bad # {} PROVE FALSE  OBVIOUS
  <1>1. PICK s \in Bad : \A r \in SUBSET s : r # s => r \notin Bad
    <2>1. Bad \in SUBSET (SUBSET S)  OBVIOUS
    <2> HIDE DEF Bad
    <2> QED  BY <2>1, LeastSet
  <1>2. CASE s = {}
    <2>1. g[{}] = 0 /\ h[{}] = 0  BY DEF Unfolded
    <2> QED  BY <2>1, <1>2
  <1>3. CASE s # {}
    <2> DEFINE r == s \ {One(s)}
    <2>1. r \in SUBSET s /\ r # s  BY <1>3 DEF One
    <2>2. g[r] = h[r]  BY <1>1, <2>1
    <2>3. g[s] = f[One(s)] + g[r]  BY <1>3 DEF Unfolded
    <2>4. h[s] = f[One(s)] + h[r]  BY <1>3 DEF Unfolded
    <2> QED  BY <2>2, <2>3, <2>4
  <1> QED  BY <1>2, <1>3

\* The sum unfolds: there is such a function over the subsets of every finite set.
LEMMA SumUnfolds ==
    ASSUME NEW f, NEW S, IsFiniteSet(S)
    PROVE  SumFunctionOnSet(f, S) =
               IF S = {} THEN 0 ELSE f[One(S)] + SumFunctionOnSet(f, S \ {One(S)})
  <1> DEFINE Total(s) == SumFunctionOnSet(f, s)
             Step(s) == IF s = {} THEN 0 ELSE f[One(s)] + Total(s \ {One(s)})
             Bad == {s \in SUBSET S : Total(s) # Step(s)}
  <1> HIDE DEF Total
  <1> SUFFICES ASSUME Bad # {} PROVE FALSE  BY DEF Total
  <1>1. PICK s \in Bad : \A r \in SUBSET s : r # s => r \notin Bad
    <2>1. Bad \in SUBSET (SUBSET S)  OBVIOUS
    <2> HIDE DEF Bad
    <2> QED  BY <2>1, LeastSet
  <1> DEFINE h == [r \in SUBSET s |-> IF r = s THEN Step(s) ELSE Total(r)]
  <1>2. Unfolded(f, s, h)
    <2> SUFFICES ASSUME NEW r \in SUBSET s
                 PROVE  h[r] = IF r = {} THEN 0 ELSE f[One(r)] + h[r \ {One(r)}]
      BY DEF Unfolded
    <2>1. r # {} => r \ {One(r)} # s /\ r \ {One(r)} \in SUBSET s  BY DEF One
    <2>2. h[r] = Step(r)  BY <1>1
    <2>3. r # {} => h[r \ {One(r)}] = Total(r \ {One(r)})  BY <2>1
    <2> QED  BY <2>2, <2>3
  <1> DEFINE g == CHOOSE g : Unfolded(f, s, g)
  <1>3. Unfolded(f, s, g)
    <2>1. \E e : Unfolded(f, s, e)  BY <1>2
    <2> QED  BY <2>1
  <1>4. g[s] = h[s]
    <2> HIDE DEF g, h
    <2>1. IsFiniteSet(s)  BY FS_Subset
    <2> QED  BY <1>2, <1>3, <2>1, UnfoldedIsUnique
  <1>5. Total(s) = h[s]  BY <1>4, SumIsUnfolded DEF Total
  <1> QED  BY <1>5, <1>1

-----------------------------------------------------------------------------
\* The empty sum.
LEMMA SumEmpty ==
    ASSUME NEW f
    PROVE  SumFunctionOnSet(f, {}) = 0
  BY SumUnfolds, FS_EmptySet

\* A sum of integers is one.
LEMMA SumInt ==
    ASSUME NEW S, IsFiniteSet(S), NEW f, \A x \in S : f[x] \in Int
    PROVE  SumFunctionOnSet(f, S) \in Int
  <1> DEFINE Total(s) == SumFunctionOnSet(f, s)
             Bad == {s \in SUBSET S : Total(s) \notin Int}
  <1> HIDE DEF Total
  <1> SUFFICES ASSUME Bad # {} PROVE FALSE  BY DEF Total
  <1>1. PICK s \in Bad : \A r \in SUBSET s : r # s => r \notin Bad
    <2>1. Bad \in SUBSET (SUBSET S)  OBVIOUS
    <2> HIDE DEF Bad
    <2> QED  BY <2>1, LeastSet
  <1>2. Total(s) = IF s = {} THEN 0 ELSE f[One(s)] + Total(s \ {One(s)})
    <2>1. IsFiniteSet(s)  BY FS_Subset
    <2> QED  BY <2>1, SumUnfolds DEF Total
  <1>3. s # {} => One(s) \in s  BY DEF One
  <1>4. s # {} => Total(s \ {One(s)}) \in Int  BY <1>1, <1>3
  <1> QED  BY <1>1, <1>2, <1>3, <1>4

\* Any element may be taken first.
LEMMA SumRemove ==
    ASSUME NEW S, IsFiniteSet(S), NEW f, \A y \in S : f[y] \in Int, NEW x \in S
    PROVE  SumFunctionOnSet(f, S) = f[x] + SumFunctionOnSet(f, S \ {x})
  <1> DEFINE Total(s) == SumFunctionOnSet(f, s)
             Bad == {s \in SUBSET S : \E y \in s : Total(s) # f[y] + Total(s \ {y})}
  <1> HIDE DEF Total
  <1> SUFFICES ASSUME Bad # {} PROVE FALSE  BY DEF Total
  <1>1. PICK s \in Bad : \A r \in SUBSET s : r # s => r \notin Bad
    <2>1. Bad \in SUBSET (SUBSET S)  OBVIOUS
    <2> HIDE DEF Bad
    <2> QED  BY <2>1, LeastSet
  <1>2. PICK y \in s : Total(s) # f[y] + Total(s \ {y})  BY <1>1
  <1> DEFINE z == One(s)
  <1>3. z \in s  BY <1>2 DEF One
  <1>4. Total(s) = f[z] + Total(s \ {z})
    <2>1. IsFiniteSet(s)  BY FS_Subset
    <2> QED  BY <2>1, <1>2, SumUnfolds DEF Total
  <1>5. y # z  BY <1>2, <1>4
  <1> DEFINE rest == s \ {y, z}
  <1>6. Total(s \ {z}) = f[y] + Total(rest)
    <2>1. s \ {z} \notin Bad /\ s \ {z} \in SUBSET S  BY <1>1, <1>3
    <2>2. y \in s \ {z} /\ (s \ {z}) \ {y} = rest  BY <1>5
    <2> QED  BY <2>1, <2>2
  <1>7. Total(s \ {y}) = f[z] + Total(rest)
    <2>1. s \ {y} \notin Bad /\ s \ {y} \in SUBSET S  BY <1>1, <1>2
    <2>2. z \in s \ {y} /\ (s \ {y}) \ {z} = rest  BY <1>3, <1>5
    <2> QED  BY <2>1, <2>2
  <1>8. Total(rest) \in Int /\ f[y] \in Int /\ f[z] \in Int
    <2>1. IsFiniteSet(rest) /\ \A e \in rest : f[e] \in Int  BY FS_Subset
    <2> QED  BY <2>1, <1>3, SumInt DEF Total
  <1> HIDE DEF rest, z
  <1> QED  BY <1>2, <1>4, <1>6, <1>7, <1>8

\* One element more.
LEMMA SumAdd ==
    ASSUME NEW S, IsFiniteSet(S), NEW f, NEW x, x \notin S, \A y \in S \cup {x} : f[y] \in Int
    PROVE  SumFunctionOnSet(f, S \cup {x}) = f[x] + SumFunctionOnSet(f, S)
  <1>1. IsFiniteSet(S \cup {x})  BY FS_AddElement
  <1>2. (S \cup {x}) \ {x} = S  OBVIOUS
  <1> DEFINE T == S \cup {x}
  <1>3. x \in T /\ \A y \in T : f[y] \in Int  OBVIOUS
  <1> HIDE DEF T
  <1>4. SumFunctionOnSet(f, T) = f[x] + SumFunctionOnSet(f, T \ {x})  BY <1>1, <1>3, SumRemove DEF T
  <1> QED  BY <1>2, <1>4 DEF T

\* Greater values have a greater sum.
LEMMA SumMonotone ==
    ASSUME NEW S, IsFiniteSet(S), NEW f, NEW g,
           \A x \in S : f[x] \in Int /\ g[x] \in Int /\ f[x] <= g[x]
    PROVE  SumFunctionOnSet(f, S) <= SumFunctionOnSet(g, S)
  <1> DEFINE F(s) == SumFunctionOnSet(f, s)
             G(s) == SumFunctionOnSet(g, s)
             Bad == {s \in SUBSET S : ~ (F(s) <= G(s))}
  <1> HIDE DEF F, G
  <1> SUFFICES ASSUME Bad # {} PROVE FALSE  BY DEF F, G
  <1>1. PICK s \in Bad : \A r \in SUBSET s : r # s => r \notin Bad
    <2>1. Bad \in SUBSET (SUBSET S)  OBVIOUS
    <2> HIDE DEF Bad
    <2> QED  BY <2>1, LeastSet
  <1>2. IsFiniteSet(s)  BY FS_Subset
  <1>3. CASE s = {}
    <2>1. F(s) = 0 /\ G(s) = 0  BY <1>3, SumEmpty DEF F, G
    <2> QED  BY <2>1, <1>1
  <1>4. CASE s # {}
    <2>1. PICK x \in s : TRUE  BY <1>4
    <2>2. F(s) = f[x] + F(s \ {x}) /\ G(s) = g[x] + G(s \ {x})
      <3>1. \A y \in s : f[y] \in Int /\ g[y] \in Int  OBVIOUS
      <3> QED  BY <3>1, <1>2, SumRemove DEF F, G
    <2>3. F(s \ {x}) <= G(s \ {x})  BY <1>1, <2>1
    <2>4. F(s \ {x}) \in Int /\ G(s \ {x}) \in Int
      <3>1. IsFiniteSet(s \ {x}) /\ \A y \in s \ {x} : f[y] \in Int /\ g[y] \in Int  BY <1>2, FS_RemoveElement
      <3> QED  BY <3>1, SumInt DEF F, G
    <2> QED  BY <2>2, <2>3, <2>4, <1>1
  <1> QED  BY <1>3, <1>4

\* A sum of natural numbers is one.
LEMMA SumNat ==
    ASSUME NEW S, IsFiniteSet(S), NEW f, \A x \in S : f[x] \in Nat
    PROVE  SumFunctionOnSet(f, S) \in Nat
  <1> DEFINE Total(s) == SumFunctionOnSet(f, s)
             Bad == {s \in SUBSET S : Total(s) \notin Nat}
  <1> HIDE DEF Total
  <1> SUFFICES ASSUME Bad # {} PROVE FALSE  BY DEF Total
  <1>1. PICK s \in Bad : \A r \in SUBSET s : r # s => r \notin Bad
    <2>1. Bad \in SUBSET (SUBSET S)  OBVIOUS
    <2> HIDE DEF Bad
    <2> QED  BY <2>1, LeastSet
  <1>2. Total(s) = IF s = {} THEN 0 ELSE f[One(s)] + Total(s \ {One(s)})
    <2>1. IsFiniteSet(s)  BY FS_Subset
    <2> QED  BY <2>1, SumUnfolds DEF Total
  <1>3. s # {} => One(s) \in s  BY DEF One
  <1>4. s # {} => Total(s \ {One(s)}) \in Nat  BY <1>1, <1>3
  <1> QED  BY <1>1, <1>2, <1>3, <1>4

\* The sum of zeros.
LEMMA SumZero ==
    ASSUME NEW S, IsFiniteSet(S), NEW f, \A x \in S : f[x] = 0
    PROVE  SumFunctionOnSet(f, S) = 0
  <1> DEFINE Total(s) == SumFunctionOnSet(f, s)
             Bad == {s \in SUBSET S : Total(s) # 0}
  <1> HIDE DEF Total
  <1> SUFFICES ASSUME Bad # {} PROVE FALSE  BY DEF Total
  <1>1. PICK s \in Bad : \A r \in SUBSET s : r # s => r \notin Bad
    <2>1. Bad \in SUBSET (SUBSET S)  OBVIOUS
    <2> HIDE DEF Bad
    <2> QED  BY <2>1, LeastSet
  <1>3. Total(s) = IF s = {} THEN 0 ELSE f[One(s)] + Total(s \ {One(s)})
    <2>1. IsFiniteSet(s)  BY FS_Subset
    <2> QED  BY <2>1, SumUnfolds DEF Total
  <1>4. s # {} => One(s) \in s  BY DEF One
  <1>5. s # {} => Total(s \ {One(s)}) = 0  BY <1>1, <1>4
  <1> QED  BY <1>1, <1>3, <1>4, <1>5

\* What taking a set apart from its sum leaves.
LEMMA SumSplit ==
    ASSUME NEW S, IsFiniteSet(S), NEW f, \A x \in S : f[x] \in Int, NEW T \in SUBSET S
    PROVE  SumFunctionOnSet(f, S) = SumFunctionOnSet(f, T) + SumFunctionOnSet(f, S \ T)
  <1> DEFINE Total(s) == SumFunctionOnSet(f, s)
             Bad == {s \in SUBSET S : \E t \in SUBSET s : Total(s) # Total(t) + Total(s \ t)}
  <1> HIDE DEF Total
  <1> SUFFICES ASSUME Bad # {} PROVE FALSE  BY DEF Total
  <1>1. PICK s \in Bad : \A r \in SUBSET s : r # s => r \notin Bad
    <2>1. Bad \in SUBSET (SUBSET S)  OBVIOUS
    <2> HIDE DEF Bad
    <2> QED  BY <2>1, LeastSet
  <1>2. PICK t \in SUBSET s : Total(s) # Total(t) + Total(s \ t)  BY <1>1
  <1>3. \A r \in SUBSET s : IsFiniteSet(r) /\ Total(r) \in Int
    <2> TAKE r \in SUBSET s
    <2>1. IsFiniteSet(r) /\ \A x \in r : f[x] \in Int  BY FS_Subset
    <2> QED  BY <2>1, SumInt DEF Total
  <1>4. ASSUME NEW r \in SUBSET s, NEW x \in r  PROVE Total(r) = f[x] + Total(r \ {x})
    <2>1. IsFiniteSet(r) /\ \A y \in r : f[y] \in Int  BY <1>3
    <2> QED  BY <2>1, SumRemove DEF Total
  <1>5. CASE t = {}
    <2>1. Total(t) = 0  BY <1>5, SumEmpty DEF Total
    <2>2. s \ t = s  BY <1>5
    <2>3. Total(s) \in Int  BY <1>3
    <2>4. Total(s) # 0 + Total(s)  BY <2>1, <2>2, <1>2
    <2> QED  BY <2>3, <2>4
  <1>6. CASE t # {}
    <2>1. PICK x \in t : TRUE  BY <1>6
    <2>2. Total(s) = f[x] + Total(s \ {x}) /\ Total(t) = f[x] + Total(t \ {x})  BY <1>4
    <2>3. s \ {x} \notin Bad /\ t \ {x} \in SUBSET (s \ {x})  BY <1>1
    <2>4. Total(s \ {x}) = Total(t \ {x}) + Total((s \ {x}) \ (t \ {x}))  BY <2>3
    <2>5. (s \ {x}) \ (t \ {x}) = s \ t  OBVIOUS
    <2>6. Total(s \ t) \in Int /\ Total(t \ {x}) \in Int /\ f[x] \in Int  BY <1>3
    <2>7. Total(s) = f[x] + (Total(t \ {x}) + Total(s \ t))  BY <2>2, <2>4, <2>5
    <2>8. Total(s) # (f[x] + Total(t \ {x})) + Total(s \ t)  BY <2>2, <1>2
    <2> QED  BY <2>6, <2>7, <2>8
  <1> QED  BY <1>5, <1>6

\* A sum depends on the values at its elements only.
LEMMA SumSame ==
    ASSUME NEW S, IsFiniteSet(S), NEW f, NEW g, \A x \in S : f[x] = g[x] /\ f[x] \in Int
    PROVE  SumFunctionOnSet(f, S) = SumFunctionOnSet(g, S)
  <1>1. SumFunctionOnSet(f, S) <= SumFunctionOnSet(g, S)  BY SumMonotone
  <1>2. SumFunctionOnSet(g, S) <= SumFunctionOnSet(f, S)  BY SumMonotone
  <1>3. SumFunctionOnSet(f, S) \in Int /\ SumFunctionOnSet(g, S) \in Int  BY SumInt
  <1> QED  BY <1>1, <1>2, <1>3

\* The sum of two functions' sums.
LEMMA SumPlus ==
    ASSUME NEW S, IsFiniteSet(S), NEW f, NEW g, NEW h,
           \A x \in S : f[x] \in Int /\ g[x] \in Int /\ h[x] = f[x] + g[x]
    PROVE  SumFunctionOnSet(h, S) = SumFunctionOnSet(f, S) + SumFunctionOnSet(g, S)
  <1> DEFINE F(s) == SumFunctionOnSet(f, s)
             G(s) == SumFunctionOnSet(g, s)
             H(s) == SumFunctionOnSet(h, s)
             Bad == {s \in SUBSET S : H(s) # F(s) + G(s)}
  <1> HIDE DEF F, G, H
  <1> SUFFICES ASSUME Bad # {} PROVE FALSE  BY DEF F, G, H
  <1>1. PICK s \in Bad : \A r \in SUBSET s : r # s => r \notin Bad
    <2>1. Bad \in SUBSET (SUBSET S)  OBVIOUS
    <2> HIDE DEF Bad
    <2> QED  BY <2>1, LeastSet
  <1>2. CASE s = {}
    <2>1. F({}) = 0 /\ G({}) = 0 /\ H({}) = 0  BY SumEmpty DEF F, G, H
    <2> QED  BY <2>1, <1>1, <1>2
  <1>3. CASE s # {}
    <2>1. PICK x \in s : TRUE  BY <1>3
    <2> DEFINE r == s \ {x}
    <2>2. IsFiniteSet(s) /\ IsFiniteSet(r)  BY FS_Subset
    <2>3. H(r) = F(r) + G(r)  BY <1>1, <2>1
    <2>4. F(s) = f[x] + F(r) /\ F(r) \in Int  BY <2>1, <2>2, SumRemove, SumInt DEF F
    <2>5. G(s) = g[x] + G(r) /\ G(r) \in Int  BY <2>1, <2>2, SumRemove, SumInt DEF G
    <2>6. H(s) = h[x] + H(r)  BY <2>1, <2>2, SumRemove DEF H
    <2>7. f[x] \in Int /\ g[x] \in Int /\ h[x] = f[x] + g[x]  BY <2>1
    <2> HIDE DEF r
    <2> QED  BY <1>1, <2>3, <2>4, <2>5, <2>6, <2>7
  <1> QED  BY <1>2, <1>3

\* The sum of a constant.
LEMMA SumConstant ==
    ASSUME NEW S, IsFiniteSet(S), NEW k \in Int, NEW f, \A x \in S : f[x] = k
    PROVE  SumFunctionOnSet(f, S) = k * Cardinality(S)
  <1> DEFINE F(s) == SumFunctionOnSet(f, s)
             Bad == {s \in SUBSET S : F(s) # k * Cardinality(s)}
  <1> HIDE DEF F
  <1> SUFFICES ASSUME Bad # {} PROVE FALSE  BY DEF F
  <1>1. PICK s \in Bad : \A r \in SUBSET s : r # s => r \notin Bad
    <2>1. Bad \in SUBSET (SUBSET S)  OBVIOUS
    <2> HIDE DEF Bad
    <2> QED  BY <2>1, LeastSet
  <1>2. CASE s = {}
    <2>1. F({}) = 0 /\ Cardinality({}) = 0  BY SumEmpty, FS_EmptySet DEF F
    <2> QED  BY <2>1, <1>1, <1>2
  <1>3. CASE s # {}
    <2>1. PICK x \in s : TRUE  BY <1>3
    <2> DEFINE r == s \ {x}
               c == Cardinality(r)
    <2>2. IsFiniteSet(s) /\ IsFiniteSet(r) /\ c \in Nat  BY FS_Subset, FS_CardinalityType
    <2>3. F(r) = k * c  BY <1>1, <2>1
    <2>4. F(s) = f[x] + F(r)  BY <2>1, <2>2, SumRemove DEF F
    <2>5. Cardinality(s) = c + 1
      <3>1. Cardinality(s \ {x}) = Cardinality(s) - 1 /\ Cardinality(s) \in Nat
        BY <2>1, <2>2, FS_RemoveElement, FS_CardinalityType
      <3> QED  BY <3>1
    <2>6. f[x] = k  BY <2>1
    <2> HIDE DEF r, c
    <2>7. k * (c + 1) = k + k * c  BY <2>2
    <2> QED  BY <1>1, <2>3, <2>4, <2>5, <2>6, <2>7
  <1> QED  BY <1>2, <1>3

-----------------------------------------------------------------------------
\* A finite set of integers that is not empty has a greatest element.
LEMMA GreatestElement ==
    ASSUME NEW S \in SUBSET Int, IsFiniteSet(S), S # {}
    PROVE  \E m \in S : \A x \in S : x <= m
  <1> DEFINE Bad == {s \in SUBSET S : s # {} /\ ~ \E m \in s : \A x \in s : x <= m}
  <1> SUFFICES ASSUME Bad # {} PROVE FALSE  OBVIOUS
  <1>1. PICK s \in Bad : \A r \in SUBSET s : r # s => r \notin Bad
    <2>1. Bad \in SUBSET (SUBSET S)  OBVIOUS
    <2> HIDE DEF Bad
    <2> QED  BY <2>1, LeastSet
  <1>2. PICK x \in s : TRUE  BY <1>1
  <1>3. s \ {x} # {}  BY <1>1, <1>2
  <1>4. PICK m \in s \ {x} : \A y \in s \ {x} : y <= m  BY <1>1, <1>3
  <1>5. CASE x <= m  BY <1>5, <1>4, <1>1
  <1>6. CASE ~ (x <= m)
    <2>1. \A y \in s : y <= x  BY <1>6, <1>4
    <2> QED  BY <2>1, <1>1
  <1> QED  BY <1>5, <1>6

\* And a least one.
LEMMA LeastElement ==
    ASSUME NEW S \in SUBSET Int, IsFiniteSet(S), S # {}
    PROVE  \E m \in S : \A x \in S : m <= x
  <1> DEFINE Bad == {s \in SUBSET S : s # {} /\ ~ \E m \in s : \A x \in s : m <= x}
  <1> SUFFICES ASSUME Bad # {} PROVE FALSE  OBVIOUS
  <1>1. PICK s \in Bad : \A r \in SUBSET s : r # s => r \notin Bad
    <2>1. Bad \in SUBSET (SUBSET S)  OBVIOUS
    <2> HIDE DEF Bad
    <2> QED  BY <2>1, LeastSet
  <1>2. PICK x \in s : TRUE  BY <1>1
  <1>3. s \ {x} # {}  BY <1>1, <1>2
  <1>4. PICK m \in s \ {x} : \A y \in s \ {x} : m <= y  BY <1>1, <1>3
  <1>5. CASE m <= x  BY <1>5, <1>4, <1>1
  <1>6. CASE ~ (m <= x)
    <2>1. \A y \in s : x <= y  BY <1>6, <1>4
    <2> QED  BY <2>1, <1>1
  <1> QED  BY <1>5, <1>6

\* Max of the community modules is that element, and Min the other.
LEMMA GreatestOf ==
    ASSUME NEW S \in SUBSET Int, IsFiniteSet(S), S # {}
    PROVE  Max(S) \in S /\ \A x \in S : x <= Max(S)
  <1>1. \E m \in S : \A x \in S : m >= x  BY GreatestElement
  <1> QED  BY <1>1 DEF Max

\* Min of the community modules is the least element.
LEMMA LeastOf ==
    ASSUME NEW S \in SUBSET Int, IsFiniteSet(S), S # {}
    PROVE  Min(S) \in S /\ \A x \in S : Min(S) <= x
  <1>1. \E m \in S : \A x \in S : m <= x  BY LeastElement
  <1> QED  BY <1>1 DEF Min
=============================================================================
