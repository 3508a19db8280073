---------------------------------- MODULE Sums ----------------------------------
(***************************************************************************)
(* What SumFunctionOnSet of the community modules adds up, for functions   *)
(* with integer values on a finite set: the facts that proofs about totals *)
(* of rows need.  Inductions are over the finite subsets of a set: of the  *)
(* subsets for which a fact fails there would be a minimal one.            *)
(***************************************************************************)
EXTENDS Functions, FiniteSetTheorems, TLAPS

\* Among subsets of a finite set there is a minimal one.
LEMMA MinimalSubset ==
    ASSUME NEW S, IsFiniteSet(S), NEW Bad \in SUBSET SUBSET S, Bad # {}
    PROVE  \E T \in Bad : \A U \in Bad : U \subseteq T => U = T
<1>1. Bad \subseteq FiniteSubsetsOf(S)
  BY FS_FiniteSubsetsOfFinite
<1>2. PICK T \in Bad : \A U \in Bad : ~ (<<U, T>> \in StrictSubsetOrdering(S))
  BY <1>1, FS_StrictSubsetOrderingWellFounded, WFMin
<1>3. \A U \in Bad : U \subseteq T => U = T
  BY <1>2 DEF StrictSubsetOrdering
<1> QED
  BY <1>3

-----------------------------------------------------------------------------
(* The fold is well defined *)

Chosen(s) == CHOOSE x \in s : TRUE

\* The function that the fold iterates over the subsets of S.
IsTable(table, f, S) ==
    table = [s \in SUBSET S |->
                IF s = {} THEN 0 ELSE f[Chosen(s)] + table[s \ {Chosen(s)}]]

TableOf(f, S) == CHOOSE table : IsTable(table, f, S)

LEMMA SumIsTable ==
    ASSUME NEW f, NEW S
    PROVE  SumFunctionOnSet(f, S) = TableOf(f, S)[S]
BY DEF SumFunctionOnSet, FoldFunctionOnSet, MapThenFoldSet, TableOf, IsTable, Chosen

LEMMA TablesAgree ==
    ASSUME NEW f, NEW S, IsFiniteSet(S), NEW T, NEW g, NEW h,
           IsTable(g, f, S), IsTable(h, f, T)
    PROVE  \A s \in SUBSET (S \cap T) : g[s] = h[s]
<1> DEFINE Bad == {s \in SUBSET (S \cap T) : g[s] # h[s]}
<1>1. ASSUME Bad # {} PROVE FALSE
  <2>1. Bad \in SUBSET SUBSET S
    OBVIOUS
  <2>2. PICK s \in Bad : \A U \in Bad : U \subseteq s => U = s
    <3> HIDE DEF Bad
    <3> QED  BY <1>1, <2>1, MinimalSubset
  <2>3. CASE s = {}
    BY <2>3 DEF IsTable
  <2>4. CASE s # {}
    <3> DEFINE r == s \ {Chosen(s)}
    <3>1. Chosen(s) \in s
      BY <2>4 DEF Chosen
    <3>2. r \in SUBSET (S \cap T) /\ r \subseteq s /\ r # s
      BY <3>1
    <3>3. g[r] = h[r]
      BY <2>2, <3>2
    <3>4. g[s] = f[Chosen(s)] + g[r] /\ h[s] = f[Chosen(s)] + h[r]
      BY <2>4 DEF IsTable
    <3> QED
      BY <3>3, <3>4
  <2> QED
    BY <2>3, <2>4
<1> QED
  BY <1>1

LEMMA TableExists ==
    ASSUME NEW f, NEW S, IsFiniteSet(S)
    PROVE  IsTable(TableOf(f, S), f, S)
<1> DEFINE Bad == {T \in SUBSET S : ~ IsTable(TableOf(f, T), f, T)}
<1>1. ASSUME Bad # {} PROVE FALSE
  <2>0. Bad \in SUBSET SUBSET S
    OBVIOUS
  <2>1. PICK T \in Bad : \A U \in Bad : U \subseteq T => U = T
    <3> HIDE DEF Bad
    <3> QED  BY <1>1, <2>0, MinimalSubset
  <2>2. \A s \in SUBSET T : s # T => IsTable(TableOf(f, s), f, s)
    BY <2>1
  <2> DEFINE below(s) == IF s = {} THEN 0
                         ELSE f[Chosen(s)] + TableOf(f, s \ {Chosen(s)})[s \ {Chosen(s)}]
             table == [s \in SUBSET T |-> below(s)]
  <2>3. ASSUME NEW s \in SUBSET T, s # T PROVE TableOf(f, s)[s] = below(s)
    <3>1. IsTable(TableOf(f, s), f, s)
      BY <2>2, <2>3
    <3>2. CASE s = {}
      BY <3>1, <3>2 DEF IsTable
    <3>3. CASE s # {}
      <4> DEFINE r == s \ {Chosen(s)}
      <4>1. Chosen(s) \in s
        BY <3>3 DEF Chosen
      <4>2. r \in SUBSET T /\ r # T /\ r \in SUBSET s /\ r \in SUBSET (s \cap r)
        BY <4>1
      <4>3. IsTable(TableOf(f, r), f, r)
        BY <2>2, <4>2
      <4>4. IsFiniteSet(s)
        BY FS_Subset
      <4>5. TableOf(f, s)[r] = TableOf(f, r)[r]
        BY <3>1, <4>2, <4>3, <4>4, TablesAgree
      <4>6. TableOf(f, s)[s] = f[Chosen(s)] + TableOf(f, s)[r]
        BY <3>1, <3>3 DEF IsTable
      <4> QED
        BY <3>3, <4>5, <4>6
    <3> QED
      BY <3>2, <3>3
  <2>4. ASSUME NEW s \in SUBSET T, s # {}
        PROVE  below(s) = f[Chosen(s)] + table[s \ {Chosen(s)}]
    <3> DEFINE r == s \ {Chosen(s)}
    <3>1. Chosen(s) \in s
      BY <2>4 DEF Chosen
    <3>2. r \in SUBSET T /\ r # T
      BY <3>1
    <3>3. table[r] = TableOf(f, r)[r]
      BY <2>3, <3>2
    <3> QED
      BY <2>4, <3>3
  <2>5. IsTable(table, f, T)
    <3>1. \A s \in SUBSET T :
            below(s) = IF s = {} THEN 0 ELSE f[Chosen(s)] + table[s \ {Chosen(s)}]
      BY <2>4
    <3> HIDE DEF below
    <3> QED
      BY <3>1 DEF IsTable
  <2>6. IsTable(TableOf(f, T), f, T)
    <3> HIDE DEF table
    <3> QED  BY <2>5 DEF TableOf
  <2> QED
    BY <2>1, <2>6
<1> QED
  BY <1>1

-----------------------------------------------------------------------------
(* Facts about sums *)

LEMMA SumEmpty == ASSUME NEW f PROVE SumFunctionOnSet(f, {}) = 0
<1>1. IsTable(TableOf(f, {}), f, {})
  BY TableExists, FS_EmptySet
<1> QED
  BY <1>1, SumIsTable DEF IsTable

\* The fold takes out the element it chooses.
LEMMA SumChosen ==
    ASSUME NEW f, NEW S, IsFiniteSet(S), S # {}
    PROVE  /\ Chosen(S) \in S
           /\ SumFunctionOnSet(f, S) =
                  f[Chosen(S)] + SumFunctionOnSet(f, S \ {Chosen(S)})
<1> DEFINE R == S \ {Chosen(S)}
<1>1. Chosen(S) \in S
  BY DEF Chosen
<1>2. IsFiniteSet(R) /\ R \in SUBSET (S \cap R) /\ R \in SUBSET S
  BY FS_Subset
<1>3. IsTable(TableOf(f, S), f, S) /\ IsTable(TableOf(f, R), f, R)
  BY <1>2, TableExists
<1>4. TableOf(f, S)[R] = TableOf(f, R)[R]
  BY <1>2, <1>3, TablesAgree
<1>5. TableOf(f, S)[S] = f[Chosen(S)] + TableOf(f, S)[R]
  BY <1>3 DEF IsTable
<1> QED
  BY <1>1, <1>4, <1>5, SumIsTable

LEMMA SumType ==
    ASSUME NEW f, NEW S, IsFiniteSet(S), \A x \in S : f[x] \in Int
    PROVE  SumFunctionOnSet(f, S) \in Int
<1> DEFINE Bad == {T \in SUBSET S : SumFunctionOnSet(f, T) \notin Int}
<1>1. ASSUME Bad # {} PROVE FALSE
  <2>1. Bad \in SUBSET SUBSET S
    OBVIOUS
  <2>2. PICK T \in Bad : \A U \in Bad : U \subseteq T => U = T
    <3> HIDE DEF Bad
    <3> QED  BY <1>1, <2>1, MinimalSubset
  <2>3. T # {}
    BY <2>2, SumEmpty
  <2> DEFINE R == T \ {Chosen(T)}
  <2>4. /\ Chosen(T) \in T
        /\ SumFunctionOnSet(f, T) = f[Chosen(T)] + SumFunctionOnSet(f, R)
    BY <2>3, SumChosen, FS_Subset
  <2>5. SumFunctionOnSet(f, R) \in Int
    BY <2>2, <2>4
  <2> QED
    BY <2>4, <2>5
<1> QED
  BY <1>1

\* Any element may be taken out.
LEMMA SumTake ==
    ASSUME NEW f, NEW S, IsFiniteSet(S), \A x \in S : f[x] \in Int, NEW y \in S
    PROVE  SumFunctionOnSet(f, S) = f[y] + SumFunctionOnSet(f, S \ {y})
<1> DEFINE Bad == {T \in SUBSET S :
            \E x \in T : SumFunctionOnSet(f, T) # f[x] + SumFunctionOnSet(f, T \ {x})}
<1>1. ASSUME Bad # {} PROVE FALSE
  <2>1. Bad \in SUBSET SUBSET S
    OBVIOUS
  <2>2. PICK T \in Bad : \A U \in Bad : U \subseteq T => U = T
    <3> HIDE DEF Bad
    <3> QED  BY <1>1, <2>1, MinimalSubset
  <2>3. PICK x \in T : SumFunctionOnSet(f, T) # f[x] + SumFunctionOnSet(f, T \ {x})
    BY <2>2
  <2> DEFINE c == Chosen(T)
  <2>4. IsFiniteSet(T) /\ IsFiniteSet(T \ {c}) /\ IsFiniteSet(T \ {x})
    BY FS_Subset, FS_RemoveElement
  <2>5. /\ c \in T
        /\ SumFunctionOnSet(f, T) = f[c] + SumFunctionOnSet(f, T \ {c})
    BY <2>3, <2>4, SumChosen
  <2>6. x # c
    BY <2>3, <2>5
  <2>7. SumFunctionOnSet(f, T \ {c}) = f[x] + SumFunctionOnSet(f, (T \ {c}) \ {x})
    BY <2>2, <2>5, <2>6
  <2>8. SumFunctionOnSet(f, T \ {x}) = f[c] + SumFunctionOnSet(f, (T \ {x}) \ {c})
    BY <2>2, <2>3, <2>5, <2>6
  <2>9. (T \ {x}) \ {c} = (T \ {c}) \ {x}
    OBVIOUS
  <2>10. SumFunctionOnSet(f, (T \ {c}) \ {x}) \in Int
    BY <2>4, SumType, FS_RemoveElement
  <2>11. f[c] \in Int /\ f[x] \in Int
    BY <2>5
  <2> HIDE DEF c
  <2>12. SumFunctionOnSet(f, T \ {x}) = f[c] + SumFunctionOnSet(f, (T \ {c}) \ {x})
    BY <2>8, <2>9
  <2> QED
    BY <2>3, <2>5, <2>7, <2>10, <2>11, <2>12
<1> QED
  BY <1>1

LEMMA SumAdd ==
    ASSUME NEW f, NEW S, IsFiniteSet(S), NEW y, y \notin S,
           \A x \in S \cup {y} : f[x] \in Int
    PROVE  SumFunctionOnSet(f, S \cup {y}) = f[y] + SumFunctionOnSet(f, S)
<1>1. (S \cup {y}) \ {y} = S /\ y \in S \cup {y} /\ IsFiniteSet(S \cup {y})
  BY FS_AddElement
<1> QED
  BY <1>1, SumTake

\* Sums of functions that agree, or are in order, on the set.
LEMMA SumMonotone ==
    ASSUME NEW f, NEW g, NEW S, IsFiniteSet(S),
           \A x \in S : f[x] \in Int /\ g[x] \in Int /\ f[x] <= g[x]
    PROVE  SumFunctionOnSet(f, S) <= SumFunctionOnSet(g, S)
<1> DEFINE Bad == {T \in SUBSET S : ~ (SumFunctionOnSet(f, T) <= SumFunctionOnSet(g, T))}
<1>1. ASSUME Bad # {} PROVE FALSE
  <2>1. Bad \in SUBSET SUBSET S
    OBVIOUS
  <2>2. PICK T \in Bad : \A U \in Bad : U \subseteq T => U = T
    <3> HIDE DEF Bad
    <3> QED  BY <1>1, <2>1, MinimalSubset
  <2>3. PICK x \in T : TRUE
    <3>1. SumFunctionOnSet(f, {}) = 0 /\ SumFunctionOnSet(g, {}) = 0
      BY SumEmpty
    <3>2. {} \notin Bad
      BY <3>1
    <3>3. T # {}
      BY <2>2, <3>2
    <3> QED  BY <3>3
  <2>4. IsFiniteSet(T) /\ IsFiniteSet(T \ {x})
    BY FS_Subset, FS_RemoveElement
  <2>5. /\ SumFunctionOnSet(f, T) = f[x] + SumFunctionOnSet(f, T \ {x})
        /\ SumFunctionOnSet(g, T) = g[x] + SumFunctionOnSet(g, T \ {x})
    BY <2>4, SumTake
  <2>6. SumFunctionOnSet(f, T \ {x}) \in Int /\ SumFunctionOnSet(g, T \ {x}) \in Int
    BY <2>4, SumType
  <2>7. SumFunctionOnSet(f, T \ {x}) <= SumFunctionOnSet(g, T \ {x})
    BY <2>2
  <2>8. f[x] \in Int /\ g[x] \in Int /\ f[x] <= g[x]
    OBVIOUS
  <2>9. SumFunctionOnSet(f, T) <= SumFunctionOnSet(g, T)
    BY <2>5, <2>6, <2>7, <2>8
  <2> QED
    BY <2>9
<1> QED
  BY <1>1

LEMMA SumEqual ==
    ASSUME NEW f, NEW g, NEW S, IsFiniteSet(S), \A x \in S : f[x] \in Int /\ f[x] = g[x]
    PROVE  SumFunctionOnSet(f, S) = SumFunctionOnSet(g, S)
<1>1. SumFunctionOnSet(f, S) \in Int /\ SumFunctionOnSet(g, S) \in Int
  BY SumType
<1>2. SumFunctionOnSet(f, S) <= SumFunctionOnSet(g, S)
      /\ SumFunctionOnSet(g, S) <= SumFunctionOnSet(f, S)
  BY SumMonotone
<1> QED
  BY <1>1, <1>2

\* A change in one place changes the sum by as much.
LEMMA SumChange ==
    ASSUME NEW f, NEW g, NEW S, IsFiniteSet(S), NEW y \in S,
           \A x \in S : f[x] \in Int, g[y] \in Int,
           \A x \in S \ {y} : g[x] = f[x]
    PROVE  SumFunctionOnSet(g, S) = SumFunctionOnSet(f, S) + (g[y] - f[y])
<1>1. IsFiniteSet(S \ {y})
  BY FS_RemoveElement
<1>2. SumFunctionOnSet(g, S \ {y}) = SumFunctionOnSet(f, S \ {y})
  BY <1>1, SumEqual
<1>3. /\ SumFunctionOnSet(f, S) = f[y] + SumFunctionOnSet(f, S \ {y})
      /\ SumFunctionOnSet(g, S) = g[y] + SumFunctionOnSet(g, S \ {y})
  <2>1. \A x \in S : g[x] \in Int
    OBVIOUS
  <2> QED  BY <2>1, SumTake
<1>4. SumFunctionOnSet(f, S \ {y}) \in Int /\ f[y] \in Int
  BY <1>1, SumType
<1> QED
  BY <1>2, <1>3, <1>4

\* Natural numbers add up to a natural number, no less than each of them.
LEMMA SumNat ==
    ASSUME NEW f, NEW S, IsFiniteSet(S), \A x \in S : f[x] \in Nat
    PROVE  /\ SumFunctionOnSet(f, S) \in Nat
           /\ \A x \in S : f[x] <= SumFunctionOnSet(f, S)
<1>1. ASSUME NEW T \in SUBSET S PROVE SumFunctionOnSet(f, T) \in Nat
  <2> DEFINE zero == [x \in T |-> 0]
             Bad == {U \in SUBSET T : SumFunctionOnSet(zero, U) # 0}
  <2>0. IsFiniteSet(T)
    BY FS_Subset
  <2>1. ASSUME Bad # {} PROVE FALSE
    <3>1. Bad \in SUBSET SUBSET T
      OBVIOUS
    <3>2. PICK U \in Bad : \A V \in Bad : V \subseteq U => V = U
      <4> HIDE DEF Bad
      <4> QED  BY <2>0, <2>1, <3>1, MinimalSubset
    <3>3. PICK x \in U : TRUE
      <4>1. U # {}
        BY <3>2, SumEmpty
      <4> QED  BY <4>1
    <3>4. SumFunctionOnSet(zero, U) = zero[x] + SumFunctionOnSet(zero, U \ {x})
      <4>1. IsFiniteSet(U) /\ \A y \in U : zero[y] \in Int
        BY <2>0, FS_Subset
      <4> QED  BY <4>1, SumTake
    <3>5. SumFunctionOnSet(zero, U \ {x}) = 0 /\ zero[x] = 0
      BY <3>2
    <3> QED
      BY <3>2, <3>4, <3>5
  <2>2. SumFunctionOnSet(zero, T) = 0
    BY <2>1
  <2>3. \A x \in T : zero[x] \in Int /\ f[x] \in Int /\ zero[x] <= f[x]
    OBVIOUS
  <2> HIDE DEF zero
  <2>4. SumFunctionOnSet(zero, T) <= SumFunctionOnSet(f, T)
    BY <2>0, <2>3, SumMonotone
  <2>5. SumFunctionOnSet(f, T) \in Int
    BY <2>0, <2>3, SumType
  <2> QED
    BY <2>2, <2>4, <2>5
<1>2. ASSUME NEW x \in S PROVE f[x] <= SumFunctionOnSet(f, S)
  <2>1. SumFunctionOnSet(f, S) = f[x] + SumFunctionOnSet(f, S \ {x})
    BY SumTake
  <2>2. SumFunctionOnSet(f, S \ {x}) \in Nat
    BY <1>1
  <2> QED
    BY <2>1, <2>2
<1> QED
  BY <1>1, <1>2

\* Summands that are zero may be left out.
LEMMA SumOfSubset ==
    ASSUME NEW f, NEW S, IsFiniteSet(S), NEW T \in SUBSET S,
           \A x \in S : f[x] \in Int, \A x \in S \ T : f[x] = 0
    PROVE  SumFunctionOnSet(f, S) = SumFunctionOnSet(f, T)
<1> DEFINE Bad == {U \in SUBSET S :
            T \subseteq U /\ SumFunctionOnSet(f, U) # SumFunctionOnSet(f, T)}
<1>1. ASSUME Bad # {} PROVE FALSE
  <2>1. Bad \in SUBSET SUBSET S
    OBVIOUS
  <2>2. PICK U \in Bad : \A V \in Bad : V \subseteq U => V = U
    <3> HIDE DEF Bad
    <3> QED  BY <1>1, <2>1, MinimalSubset
  <2>3. PICK x \in U : x \notin T
    <3>1. T \subseteq U /\ U # T
      BY <2>2
    <3> QED  BY <3>1
  <2>4. IsFiniteSet(U) /\ IsFiniteSet(U \ {x}) /\ U \in SUBSET S
    BY FS_Subset, FS_RemoveElement
  <2>5. SumFunctionOnSet(f, U) = f[x] + SumFunctionOnSet(f, U \ {x})
    BY <2>4, SumTake
  <2>6. SumFunctionOnSet(f, U \ {x}) \in Int
    BY <2>4, SumType
  <2>7. f[x] = 0
    BY <2>3, <2>4
  <2>8. SumFunctionOnSet(f, U \ {x}) = SumFunctionOnSet(f, T)
    <3>1. U \ {x} \in SUBSET S /\ T \subseteq U \ {x} /\ U \ {x} # U
      BY <2>2, <2>3
    <3> QED  BY <2>2, <3>1
  <2>9. SumFunctionOnSet(f, U) = SumFunctionOnSet(f, T)
    BY <2>5, <2>6, <2>7, <2>8
  <2> QED
    BY <2>2, <2>9
<1>2. S \notin Bad
  BY <1>1
<1> QED
  BY <1>2

\* The same summand everywhere.
LEMMA SumOfConstant ==
    ASSUME NEW f, NEW S, IsFiniteSet(S), NEW n \in Nat, \A x \in S : f[x] = n
    PROVE  SumFunctionOnSet(f, S) = Cardinality(S) * n
<1> DEFINE Bad == {T \in SUBSET S : SumFunctionOnSet(f, T) # Cardinality(T) * n}
<1>1. ASSUME Bad # {} PROVE FALSE
  <2>1. Bad \in SUBSET SUBSET S
    OBVIOUS
  <2>2. PICK T \in Bad : \A U \in Bad : U \subseteq T => U = T
    <3> HIDE DEF Bad
    <3> QED  BY <1>1, <2>1, MinimalSubset
  <2>3. PICK x \in T : TRUE
    <3>1. SumFunctionOnSet(f, {}) = 0 /\ Cardinality({}) = 0
      BY SumEmpty, FS_EmptySet
    <3>2. 0 * n = 0
      OBVIOUS
    <3>3. {} \notin Bad
      BY <3>1, <3>2
    <3>4. T # {}
      BY <2>2, <3>3
    <3> QED  BY <3>4
  <2>4. /\ IsFiniteSet(T) /\ IsFiniteSet(T \ {x})
        /\ Cardinality(T \ {x}) = Cardinality(T) - 1
        /\ Cardinality(T) \in Nat
    BY FS_Subset, FS_RemoveElement, FS_CardinalityType
  <2>5. \A y \in T : f[y] \in Int
    OBVIOUS
  <2>6. SumFunctionOnSet(f, T) = f[x] + SumFunctionOnSet(f, T \ {x}) /\ f[x] = n
    BY <2>4, <2>5, SumTake
  <2>7. SumFunctionOnSet(f, T \ {x}) = Cardinality(T \ {x}) * n
    BY <2>2
  <2>8. SumFunctionOnSet(f, T) = n + (Cardinality(T) - 1) * n
    BY <2>4, <2>6, <2>7
  <2>9. \A m \in Nat : n + (m - 1) * n = m * n
    OBVIOUS
  <2>10. SumFunctionOnSet(f, T) = Cardinality(T) * n
    BY <2>4, <2>8, <2>9
  <2> QED
    BY <2>2, <2>10
<1>2. S \notin Bad
  BY <1>1
<1> QED
  BY <1>2

\* One summand grows by p, and no other one gets smaller.
LEMMA SumGain ==
    ASSUME NEW f, NEW g, NEW S, IsFiniteSet(S), NEW y \in S, NEW p \in Int,
           \A x \in S : f[x] \in Int /\ g[x] \in Int /\ f[x] <= g[x],
           f[y] + p <= g[y]
    PROVE  SumFunctionOnSet(f, S) + p <= SumFunctionOnSet(g, S)
<1> DEFINE middle == [x \in S |-> IF x = y THEN f[y] + p ELSE f[x]]
<1>1. /\ \A x \in S : middle[x] \in Int /\ middle[x] <= g[x]
      /\ middle[y] = f[y] + p /\ \A x \in S \ {y} : middle[x] = f[x]
  OBVIOUS
<1> HIDE DEF middle
<1>2. SumFunctionOnSet(middle, S) = SumFunctionOnSet(f, S) + (middle[y] - f[y])
  BY <1>1, SumChange
<1>3. SumFunctionOnSet(middle, S) <= SumFunctionOnSet(g, S)
  BY <1>1, SumMonotone
<1>4. SumFunctionOnSet(f, S) \in Int /\ SumFunctionOnSet(g, S) \in Int
  BY SumType
<1> QED
  BY <1>1, <1>2, <1>3, <1>4
=============================================================================
