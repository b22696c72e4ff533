-------------------------- MODULE FiniteSums_proofs --------------------------
(* Sums over finite sets.  MapThenSumSet (FiniteSetsExt) folds a set in the order CHOOSE takes its
   members in; the lemmas are what an accounting needs of it: a sum grows by each member added, in any
   order, depends on the summands alone, and is the sum of its parts. *)
EXTENDS Integers, FiniteSetsExt, FiniteSetTheorems, WellFoundedInduction, TLAPS

Total(f, S) == MapThenSumSet(LAMBDA n : f[n], S)

\* The next member the fold takes, and the function it builds.
Chosen(s) == CHOOSE x \in s : TRUE
AddsUp(g, f, D) == g = [s \in D |-> IF s = {} THEN 0 ELSE f[Chosen(s)] + g[s \ {Chosen(s)}]]

LEMMA Taken == \A s : s # {} => Chosen(s) \in s
BY DEF Chosen

\* A set of numbers that is not empty has a least one.
LEMMA LeastNumber ==
  ASSUME NEW B, B \subseteq Nat, B # {}
  PROVE  \E x \in B : \A y \in B : x <= y
<1>1. PICK x \in B : \A y \in B : ~(<<y, x>> \in OpToRel(<, Nat))
  BY NatLessThanWellFounded, WFMin
<1>2. ASSUME NEW y \in B, ~(x <= y) PROVE FALSE
  <2>1. x \in Nat /\ y \in Nat /\ y < x  BY <1>2
  <2>2. <<y, x>> \in OpToRel(<, Nat)  BY <2>1 DEF OpToRel
  <2> QED  BY <1>1, <2>2
<1> QED  BY <1>2

\* A family of finite sets that is not empty has a smallest one.
LEMMA SmallestSet ==
  ASSUME NEW U, IsFiniteSet(U), NEW B \in SUBSET (SUBSET U), B # {}
  PROVE  \E T \in B : \A x \in T : T \ {x} \notin B
<1> DEFINE C == {Cardinality(T) : T \in B}
<1>1. \A T \in B : IsFiniteSet(T) /\ Cardinality(T) \in Nat  BY FS_Subset, FS_CardinalityType
<1>2. C \subseteq Nat /\ C # {}  BY <1>1
<1>3. PICK c \in C : \A d \in C : c <= d
  <2> HIDE DEF C
  <2> QED  BY <1>2, LeastNumber
<1>4. PICK T \in B : Cardinality(T) = c  BY <1>3
<1>5. ASSUME NEW x \in T, T \ {x} \in B PROVE FALSE
  <2>1. Cardinality(T \ {x}) = Cardinality(T) - 1  BY <1>1, <1>5, FS_RemoveElement
  <2>2. c <= Cardinality(T \ {x})  BY <1>3, <1>5
  <2> QED  BY <1>1, <1>4, <2>1, <2>2
<1> QED  BY <1>5

\* The sets of at most m members.
UpTo(U, m) == {s \in SUBSET U : Cardinality(s) <= m}

\* The fold has a function to build, up to each size.
LEMMA FoldBuilds ==
  ASSUME NEW U, IsFiniteSet(U), NEW f, NEW m \in Nat
  PROVE  \E g : AddsUp(g, f, UpTo(U, m))
<1> DEFINE B == {k \in Nat : ~\E g : AddsUp(g, f, UpTo(U, k))}
<1> SUFFICES ASSUME B # {} PROVE FALSE  OBVIOUS
<1>1. PICK k \in B : \A j \in B : k <= j
  <2>1. B \subseteq Nat  OBVIOUS
  <2> HIDE DEF B
  <2> QED  BY <2>1, LeastNumber
<1>2. \A s \in SUBSET U : IsFiniteSet(s) /\ Cardinality(s) \in Nat  BY FS_Subset, FS_CardinalityType
<1>3. k # 0
  <2> SUFFICES ASSUME k = 0 PROVE FALSE  OBVIOUS
  <2>1. \A s \in UpTo(U, 0) : s = {}  BY <1>2, FS_EmptySet DEF UpTo
  <2> DEFINE g == [s \in UpTo(U, 0) |-> 0]
  <2>2. g = [s \in UpTo(U, 0) |-> IF s = {} THEN 0 ELSE f[Chosen(s)] + g[s \ {Chosen(s)}]]
    BY <2>1
  <2> QED  BY <1>1, <2>2 DEF AddsUp
<1>4. k \in Nat /\ k - 1 \in Nat /\ k - 1 \notin B  BY <1>1, <1>3
<1>5. PICK g : AddsUp(g, f, UpTo(U, k - 1))  BY <1>4
<1> DEFINE h == [s \in UpTo(U, k) |-> IF s = {} THEN 0 ELSE f[Chosen(s)] + g[s \ {Chosen(s)}]]
<1>6. ASSUME NEW s \in UpTo(U, k), s # {}
      PROVE  s \ {Chosen(s)} \in UpTo(U, k - 1) /\ s \ {Chosen(s)} \in UpTo(U, k)
  <2>1. Chosen(s) \in s  BY <1>6, Taken
  <2>2. Cardinality(s \ {Chosen(s)}) = Cardinality(s) - 1
    BY <1>2, <2>1, FS_RemoveElement DEF UpTo
  <2> QED  BY <1>2, <1>4, <1>6, <2>2 DEF UpTo
<1>7. ASSUME NEW s \in UpTo(U, k - 1) PROVE h[s] = g[s]
  <2>1. s \in UpTo(U, k)  BY <1>2, <1>4 DEF UpTo
  <2>2. g[s] = IF s = {} THEN 0 ELSE f[Chosen(s)] + g[s \ {Chosen(s)}]  BY <1>5 DEF AddsUp
  <2> QED  BY <2>1, <2>2
<1>8. h = [s \in UpTo(U, k) |-> IF s = {} THEN 0 ELSE f[Chosen(s)] + h[s \ {Chosen(s)}]]
  BY <1>6, <1>7
<1> QED  BY <1>1, <1>8 DEF AddsUp

\* So it has one on all subsets.
LEMMA FoldExists ==
  ASSUME NEW U, IsFiniteSet(U), NEW f
  PROVE  \E g : AddsUp(g, f, SUBSET U)
<1>1. Cardinality(U) \in Nat  BY FS_CardinalityType
<1>2. \A s \in SUBSET U : Cardinality(s) <= Cardinality(U)  BY FS_Subset
<1>3. UpTo(U, Cardinality(U)) = SUBSET U  BY <1>2 DEF UpTo
<1>4. \E g : AddsUp(g, f, UpTo(U, Cardinality(U)))  BY <1>1, FoldBuilds
<1> QED  BY <1>3, <1>4

\* Which is unique where two sets share subsets and summands.
LEMMA FoldUnique ==
  ASSUME NEW U, IsFiniteSet(U), NEW V, NEW f, NEW h, NEW g, NEW k,
         AddsUp(g, f, SUBSET U), AddsUp(k, h, SUBSET V), U \subseteq V, \A n \in U : f[n] = h[n]
  PROVE  \A s \in SUBSET U : g[s] = k[s]
<1> DEFINE B == {s \in SUBSET U : g[s] # k[s]}
<1> SUFFICES ASSUME B # {} PROVE FALSE  OBVIOUS
<1>1. PICK s \in B : \A x \in s : s \ {x} \notin B
  <2>1. B \in SUBSET (SUBSET U)  OBVIOUS
  <2> HIDE DEF B
  <2> QED  BY <2>1, SmallestSet
<1>2. /\ g[s] = IF s = {} THEN 0 ELSE f[Chosen(s)] + g[s \ {Chosen(s)}]
      /\ k[s] = IF s = {} THEN 0 ELSE h[Chosen(s)] + k[s \ {Chosen(s)}]
  BY DEF AddsUp
<1>3. s # {} => g[s \ {Chosen(s)}] = k[s \ {Chosen(s)}] /\ f[Chosen(s)] = h[Chosen(s)]
  BY <1>1, Taken
<1> QED  BY <1>2, <1>3

\* The sum of a set is what the fold over any larger set builds for it.
LEMMA TotalIs ==
  ASSUME NEW U, IsFiniteSet(U), NEW f, NEW g, AddsUp(g, f, SUBSET U), NEW S \in SUBSET U
  PROVE  Total(f, S) = g[S]
<1>1. IsFiniteSet(S)  BY FS_Subset
<1> DEFINE i == CHOOSE i : i = [s \in SUBSET S |->
                  IF s = {} THEN 0 ELSE LET x == CHOOSE x \in s : TRUE IN f[x] + i[s \ {x}]]
<1>2. Total(f, S) = i[S]  BY DEF Total, MapThenSumSet, MapThenFoldSet
<1>3. \E k : k = [s \in SUBSET S |->
                  IF s = {} THEN 0 ELSE LET x == CHOOSE x \in s : TRUE IN f[x] + k[s \ {x}]]
  <2>1. PICK k : AddsUp(k, f, SUBSET S)  BY <1>1, FoldExists
  <2>2. k = [s \in SUBSET S |->
               IF s = {} THEN 0 ELSE LET x == CHOOSE x \in s : TRUE IN f[x] + k[s \ {x}]]
    BY <2>1 DEF AddsUp, Chosen
  <2> QED  BY <2>2
<1>4. i = [s \in SUBSET S |->
             IF s = {} THEN 0 ELSE LET x == CHOOSE x \in s : TRUE IN f[x] + i[s \ {x}]]
  BY <1>3
<1>5. AddsUp(i, f, SUBSET S)  BY <1>4 DEF AddsUp, Chosen
<1> HIDE DEF i
<1>6. PICK j : j = i  OBVIOUS
<1>7. AddsUp(j, f, SUBSET S)  BY <1>5, <1>6
<1>8. S \subseteq U  OBVIOUS
<1>9. \A x \in S : f[x] = f[x]  OBVIOUS
<1>10. S \in SUBSET S  OBVIOUS
<1>11. j[S] = g[S]  BY <1>1, <1>7, <1>8, <1>9, <1>10, FoldUnique
<1> QED  BY <1>2, <1>6, <1>11

-----------------------------------------------------------------------------
(* What a sum of charges is. *)

\* The fold's own step: take some member first.
LEMMA TotalStep ==
  ASSUME NEW S, IsFiniteSet(S), NEW f
  PROVE  /\ Total(f, {}) = 0
         /\ S # {} => Total(f, S) = f[Chosen(S)] + Total(f, S \ {Chosen(S)})
<1>1. PICK g : AddsUp(g, f, SUBSET S)  BY FoldExists
<1>2. \A s \in SUBSET S : Total(f, s) = g[s]  BY <1>1, TotalIs
<1>3. \A s \in SUBSET S : g[s] = IF s = {} THEN 0 ELSE f[Chosen(s)] + g[s \ {Chosen(s)}]
  BY <1>1 DEF AddsUp
<1>4. S \in SUBSET S /\ {} \in SUBSET S /\ S \ {Chosen(S)} \in SUBSET S  OBVIOUS
<1> QED  BY <1>2, <1>3, <1>4

\* A sum of numbers is one.
LEMMA TotalType ==
  ASSUME NEW S, IsFiniteSet(S), NEW f, \A n \in S : f[n] \in Nat
  PROVE  Total(f, S) \in Nat
<1> DEFINE B == {T \in SUBSET S : Total(f, T) \notin Nat}
<1> SUFFICES ASSUME B # {} PROVE FALSE  OBVIOUS
<1>1. PICK T \in B : \A x \in T : T \ {x} \notin B
  <2>1. B \in SUBSET (SUBSET S)  OBVIOUS
  <2> HIDE DEF B
  <2> QED  BY <2>1, SmallestSet
<1>2. IsFiniteSet(T)  BY FS_Subset
<1>3. T # {} => Chosen(T) \in T  BY Taken
<1>4. T # {} => Total(f, T \ {Chosen(T)}) \in Nat  BY <1>1, <1>3
<1>5. /\ Total(f, {}) = 0
      /\ T # {} => Total(f, T) = f[Chosen(T)] + Total(f, T \ {Chosen(T)})
  BY <1>2, TotalStep
<1>6. Total(f, T) \notin Nat /\ T \in SUBSET S  OBVIOUS
<1>7. CASE T = {}  BY <1>5, <1>6, <1>7
<1>8. CASE T # {}
  <2>1. f[Chosen(T)] \in Nat  BY <1>3, <1>6, <1>8
  <2> QED  BY <1>4, <1>5, <1>6, <1>8, <2>1
<1> QED  BY <1>7, <1>8

\* It grows by each member added, in any order.
LEMMA TotalTakes ==
  ASSUME NEW S, IsFiniteSet(S), NEW f, \A n \in S : f[n] \in Nat, NEW k \in S
  PROVE  Total(f, S) = f[k] + Total(f, S \ {k})
<1> DEFINE B == {T \in SUBSET S : \E j \in T : Total(f, T) # f[j] + Total(f, T \ {j})}
<1> SUFFICES ASSUME B # {} PROVE FALSE  OBVIOUS
<1>1. PICK T \in B : \A x \in T : T \ {x} \notin B
  <2>1. B \in SUBSET (SUBSET S)  OBVIOUS
  <2> HIDE DEF B
  <2> QED  BY <2>1, SmallestSet
<1>2. PICK j \in T : Total(f, T) # f[j] + Total(f, T \ {j})  OBVIOUS
<1>3. IsFiniteSet(T) /\ T # {} /\ IsFiniteSet(T \ {j})  BY <1>2, FS_Subset
<1>4. PICK x : x = Chosen(T)  OBVIOUS
<1>5. x \in T /\ Total(f, T) = f[x] + Total(f, T \ {x})  BY <1>3, <1>4, Taken, TotalStep
<1>6. x # j  BY <1>2, <1>5
<1>7. Total(f, T \ {x}) = f[j] + Total(f, (T \ {x}) \ {j})
  <2>1. j \in T \ {x}  BY <1>6
  <2> QED  BY <1>1, <1>5, <2>1
<1>8. Total(f, T \ {j}) = f[x] + Total(f, (T \ {j}) \ {x})
  <2>1. x \in T \ {j} /\ T \ {j} \in SUBSET S  BY <1>5, <1>6
  <2> QED  BY <1>1, <1>2, <2>1
<1>9. (T \ {x}) \ {j} = (T \ {j}) \ {x}  OBVIOUS
<1>10. Total(f, (T \ {j}) \ {x}) \in Nat /\ f[x] \in Nat /\ f[j] \in Nat
  <2>1. IsFiniteSet((T \ {j}) \ {x})  BY <1>3, FS_Subset
  <2> QED  BY <1>5, <2>1, TotalType
<1> QED  BY <1>2, <1>5, <1>7, <1>8, <1>9, <1>10

\* It depends on the summands alone.
LEMMA TotalSame ==
  ASSUME NEW S, IsFiniteSet(S), NEW f, NEW h, \A n \in S : f[n] = h[n]
  PROVE  Total(f, S) = Total(h, S)
<1>1. PICK g : AddsUp(g, f, SUBSET S)  BY FoldExists
<1>2. PICK k : AddsUp(k, h, SUBSET S)  BY FoldExists
<1>3. S \in SUBSET S /\ S \subseteq S  OBVIOUS
<1>4. g[S] = k[S]  BY <1>1, <1>2, <1>3, FoldUnique
<1>5. Total(f, S) = g[S] /\ Total(h, S) = k[S]  BY <1>1, <1>2, <1>3, TotalIs
<1> QED  BY <1>4, <1>5

\* The sum of two sets apart is the sum of their sums.
LEMMA TotalUnion ==
  ASSUME NEW S, IsFiniteSet(S), NEW T, IsFiniteSet(T), S \cap T = {},
         NEW f, \A n \in S \cup T : f[n] \in Nat
  PROVE  Total(f, S \cup T) = Total(f, S) + Total(f, T)
<1> DEFINE B == {R \in SUBSET S : Total(f, R \cup T) # Total(f, R) + Total(f, T)}
<1> SUFFICES ASSUME B # {} PROVE FALSE  OBVIOUS
<1>1. PICK R \in B : \A x \in R : R \ {x} \notin B
  <2>1. B \in SUBSET (SUBSET S)  OBVIOUS
  <2> HIDE DEF B
  <2> QED  BY <2>1, SmallestSet
<1>2. IsFiniteSet(R) /\ IsFiniteSet(R \cup T)  BY FS_Subset, FS_Union
<1>3. Total(f, T) \in Nat  BY TotalType
<1>4. R # {}
  <2>1. Total(f, {}) = 0  BY <1>2, TotalStep
  <2>2. {} \cup T = T  OBVIOUS
  <2> QED  BY <1>1, <1>3, <2>1, <2>2
<1>5. PICK x \in R : TRUE  BY <1>4
<1>6. Total(f, (R \ {x}) \cup T) = Total(f, R \ {x}) + Total(f, T)  BY <1>1
<1>7. Total(f, R) = f[x] + Total(f, R \ {x})  BY <1>2, TotalTakes
<1>8. Total(f, R \cup T) = f[x] + Total(f, (R \ {x}) \cup T)
  <2>1. (R \cup T) \ {x} = (R \ {x}) \cup T  OBVIOUS
  <2>2. x \in R \cup T /\ \A n \in R \cup T : f[n] \in Nat  OBVIOUS
  <2> QED  BY <1>2, <2>1, <2>2, TotalTakes
<1>9. f[x] \in Nat /\ Total(f, R \ {x}) \in Nat
  <2>1. IsFiniteSet(R \ {x})  BY <1>2, FS_Subset
  <2> QED  BY <2>1, TotalType
<1> QED  BY <1>1, <1>3, <1>6, <1>7, <1>8, <1>9

\* So a subset sums to no more, and one member more adds its own.
LEMMA TotalMonotone ==
  ASSUME NEW T, IsFiniteSet(T), NEW S \in SUBSET T, NEW f, \A n \in T : f[n] \in Nat
  PROVE  Total(f, S) <= Total(f, T)
<1>1. IsFiniteSet(S) /\ IsFiniteSet(T \ S)  BY FS_Subset
<1>2. S \cap (T \ S) = {} /\ S \cup (T \ S) = T  OBVIOUS
<1>3. Total(f, T) = Total(f, S) + Total(f, T \ S)  BY <1>1, <1>2, TotalUnion
<1>4. Total(f, S) \in Nat /\ Total(f, T \ S) \in Nat  BY <1>1, TotalType
<1> QED  BY <1>3, <1>4

LEMMA TotalMember ==
  ASSUME NEW S, IsFiniteSet(S), NEW k, k \notin S, NEW f, \A n \in S \cup {k} : f[n] \in Nat
  PROVE  Total(f, S \cup {k}) = Total(f, S) + f[k]
<1>1. IsFiniteSet(S \cup {k})  BY FS_AddElement
<1>2. (S \cup {k}) \ {k} = S  OBVIOUS
<1>3. Total(f, S \cup {k}) = f[k] + Total(f, S)  BY <1>1, <1>2, TotalTakes
<1>4. Total(f, S) \in Nat /\ f[k] \in Nat  BY TotalType
<1> QED  BY <1>3, <1>4

\* A finite set of numbers that is not empty has a largest one, which Max names.
LEMMA MaxIs ==
  ASSUME NEW S, S \subseteq Nat, S # {}, NEW b \in Nat, \A n \in S : n <= b
  PROVE  Max(S) \in S /\ \A n \in S : n <= Max(S)
<1> DEFINE G == {b - n : n \in S}
<1>1. G \subseteq Nat /\ G # {}
  <2>1. \A n \in S : b - n \in Nat  OBVIOUS
  <2> QED  BY <2>1
<1>2. PICK d \in G : \A e \in G : d <= e
  <2> HIDE DEF G
  <2> QED  BY <1>1, LeastNumber
<1>3. PICK m \in S : d = b - m  OBVIOUS
<1>4. \A n \in S : n <= m
  <2> TAKE n \in S
  <2>1. b - n \in G  OBVIOUS
  <2> QED  BY <1>2, <1>3, <2>1
<1>5. \E x \in S : \A y \in S : x >= y  BY <1>4
<1>6. Max(S) \in S /\ \A y \in S : Max(S) >= y  BY <1>5 DEF Max
<1> QED  BY <1>6

=============================================================================
