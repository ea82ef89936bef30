----------------------------- MODULE FoldLemmas -----------------------------
(***************************************************************************)
(* Lemmas about finite sets and the sums over them, which the proofs of    *)
(* several components need.  Induction is stated with sets: a set of       *)
(* numbers that is not empty has a least one, and a family of subsets that *)
(* is closed under adding an element holds every finite one.               *)
(***************************************************************************)
EXTENDS Integers, FiniteSets, FiniteSetsExt, FiniteSetTheorems,
        WellFoundedInduction, TLAPS

(* Every nonempty set of natural numbers has a least element. *)
LEMMA LeastNumber ==
    ASSUME NEW T, T \subseteq Nat, T # {}
    PROVE  \E n \in T : \A m \in T : n <= m
<1> DEFINE R == {ss \in Nat \X Nat : ss[1] < ss[2]}
<1>1. IsWellFoundedOn(R, Nat)
  BY NatLessThanWellFounded DEF OpToRel
<1> HIDE DEF R
<1>2. PICK n \in T : \A m \in T : ~ (<<m, n>> \in R)
  BY <1>1, WFMin
<1>3. \A m \in T : ~(m < n)
  BY <1>2 DEF R
<1> QED
  BY <1>3

(* Induction over the subsets of a finite set. *)
LEMMA SubsetInduction ==
    ASSUME NEW S, IsFiniteSet(S), NEW F, {} \in F,
           \A s \in SUBSET S : s # {} /\ (\A x \in s : s \ {x} \in F) => s \in F
    PROVE  \A s \in SUBSET S : s \in F
<1> DEFINE Bad == {s \in SUBSET S : s \notin F}
           Sizes == {Cardinality(s) : s \in Bad}
<1>1. SUFFICES ASSUME Bad # {} PROVE FALSE
  OBVIOUS
<1>2. \A s \in SUBSET S : IsFiniteSet(s) /\ Cardinality(s) \in Nat
  BY FS_Subset, FS_CardinalityType
<1>3. Sizes \subseteq Nat /\ Sizes # {}
  BY <1>1, <1>2
<1>4. PICK n \in Sizes : \A m \in Sizes : n <= m
  <2> HIDE DEF Sizes
  <2> QED
    BY <1>3, LeastNumber
<1>5. PICK s \in Bad : n = Cardinality(s)
  BY <1>4
<1>6. s \in SUBSET S /\ s \notin F
  BY <1>5
<1>7. \A x \in s : s \ {x} \in F
  <2> TAKE x \in s
  <2>1. Cardinality(s \ {x}) = n - 1 /\ n \in Nat
    BY <1>2, <1>5, <1>6, FS_RemoveElement
  <2>2. s \ {x} \notin Bad
    <3>1. SUFFICES ASSUME s \ {x} \in Bad PROVE FALSE
      OBVIOUS
    <3>2. Cardinality(s \ {x}) \in Sizes
      BY <3>1
    <3>3. n <= Cardinality(s \ {x})
      <4> HIDE DEF Sizes
      <4> QED
        BY <1>4, <3>2
    <3> QED
      BY <2>1, <3>3
  <2> QED
    BY <1>6, <2>2
<1> QED
  BY <1>6, <1>7

(* Finitely many naturals have a largest. *)
LEMMA LargestNumber ==
    ASSUME NEW D, D \subseteq Nat, D # {}, IsFiniteSet(D)
    PROVE  \E d \in D : \A e \in D : e <= d
<1> DEFINE F == {s \in SUBSET D : \E n \in Nat : \A d \in s : d <= n}
           Above == {n \in Nat : \A d \in D : d <= n}
<1>1. {} \in F
  OBVIOUS
<1>2. ASSUME NEW s \in SUBSET D, s # {}, \A x \in s : s \ {x} \in F PROVE s \in F
  <2>1. PICK x \in s : TRUE
    BY <1>2
  <2>2. PICK n \in Nat : \A d \in s \ {x} : d <= n
    BY <1>2, <2>1
  <2>3. PICK m \in Nat : n <= m /\ x <= m
    <3>1. x \in Nat
      BY <2>1
    <3>2. CASE x <= n
      BY <3>2
    <3>3. CASE n <= x
      BY <3>1, <3>3
    <3> QED
      BY <3>1, <3>2, <3>3
  <2>4. \A d \in s : d <= m
    BY <2>2, <2>3
  <2> QED
    BY <2>3, <2>4
<1>3. D \in F
  <2> HIDE DEF F
  <2> QED
    BY <1>1, <1>2, SubsetInduction
<1>4. PICK u \in Above : \A n \in Above : u <= n
  <2>1. Above \subseteq Nat /\ Above # {}
    BY <1>3
  <2> HIDE DEF Above
  <2> QED
    BY <2>1, LeastNumber
<1>5. u \in Nat /\ \A d \in D : d <= u
  BY <1>4
<1>6. CASE u \in D
  BY <1>5, <1>6
<1>7. CASE u \notin D
  <2>1. \A d \in D : d \in Nat /\ d < u
    BY <1>5, <1>7
  <2>2. u - 1 \in Nat
    <3>1. PICK d \in D : TRUE
      OBVIOUS
    <3>2. d \in Nat /\ d < u /\ u \in Nat
      BY <1>5, <2>1
    <3> QED
      BY <3>2
  <2>4. \A d \in D : d <= u - 1
    <3> TAKE d \in D
    <3>1. d \in Nat /\ d < u /\ u \in Nat
      BY <1>5, <2>1
    <3> QED
      BY <3>1
  <2>3. u - 1 \in Above
    BY <2>2, <2>4
  <2> QED
    BY <1>4, <1>5, <2>3
<1> QED
  BY <1>6, <1>7

(***************************************************************************)
(* Sums.                                                                   *)
(***************************************************************************)
SumOver(f, S) == MapThenSumSet(LAMBDA x : f[x], S)

Pick(s) == CHOOSE x \in s : TRUE
Sums(f, s, it) == IF s = {} THEN 0 ELSE f[Pick(s)] + it[s \ {Pick(s)}]

Solves(f, S, it) == it = [s \in SUBSET S |-> Sums(f, s, it)]

(* Pick takes a member of a set that has one. *)
LEMMA PickIn == ASSUME NEW s, s # {} PROVE Pick(s) \in s
BY DEF Pick

(* For every finite set some function solves the sum's recursion on its subsets. *)
LEMMA SumsExist ==
    ASSUME NEW f, NEW S, IsFiniteSet(S)
    PROVE  \E it : Solves(f, S, it)
<1> DEFINE D(n) == {s \in SUBSET S : Cardinality(s) <= n}
           T == {n \in Nat : ~ \E it : it = [s \in D(n) |-> Sums(f, s, it)]}
<1>1. \A s \in SUBSET S : IsFiniteSet(s) /\ Cardinality(s) \in Nat
  BY FS_Subset, FS_CardinalityType
<1>2. T = {}
  <2> SUFFICES ASSUME T # {} PROVE FALSE
    OBVIOUS
  <2>1. PICK n \in T : \A m \in T : n <= m
    <3>1. T \subseteq Nat
      OBVIOUS
    <3> HIDE DEF T
    <3> QED
      BY <3>1, LeastNumber
  <2>2. n # 0
    <3>1. \A s \in D(0) : s = {}
      BY <1>1, FS_EmptySet
    <3> DEFINE it == [s \in D(0) |-> 0]
    <3>2. it = [s \in D(0) |-> Sums(f, s, it)]
      BY <3>1 DEF Sums
    <3> QED
      BY <2>1, <3>2
  <2>3. n - 1 \in Nat /\ n - 1 \notin T
    <3>1. n \in Nat
      BY <2>1
    <3> HIDE DEF T
    <3> QED
      BY <2>1, <2>2, <3>1
  <2>4. PICK it : it = [s \in D(n - 1) |-> Sums(f, s, it)]
    BY <2>3
  <2> DEFINE jt == [s \in D(n) |-> Sums(f, s, it)]
  <2>5. \A s \in D(n) : s # {} => s \ {Pick(s)} \in D(n - 1)
    <3> TAKE s \in D(n)
    <3> HAVE s # {}
    <3>1. Pick(s) \in s
      BY PickIn
    <3>2. Cardinality(s \ {Pick(s)}) = Cardinality(s) - 1
      BY <1>1, <3>1, FS_RemoveElement
    <3>3. Cardinality(s) \in Nat /\ Cardinality(s) <= n
      BY <1>1
    <3> QED
      BY <2>1, <3>2, <3>3
  <2>6. \A s \in D(n - 1) : s \in D(n) /\ jt[s] = it[s]
    <3>1. \A s \in D(n - 1) : s \in D(n)
      BY <1>1, <2>1
    <3>2. \A s \in D(n - 1) : it[s] = Sums(f, s, it)
      BY <2>4
    <3> QED
      BY <3>1, <3>2
  <2>7. \A s \in D(n) : Sums(f, s, it) = Sums(f, s, jt)
    <3> HIDE DEF D, jt
    <3> QED
      BY <2>5, <2>6 DEF Sums
  <2>8. jt = [s \in D(n) |-> Sums(f, s, jt)]
    BY <2>7
  <2> QED
    BY <2>1, <2>8
<1>3. Cardinality(S) \in Nat
  BY FS_CardinalityType
<1>4. PICK it : it = [s \in D(Cardinality(S)) |-> Sums(f, s, it)]
  BY <1>2, <1>3
<1>5. D(Cardinality(S)) = SUBSET S
  BY FS_Subset
<1> QED
  BY <1>4, <1>5 DEF Solves

(* Two solutions of the recursion agree on every finite subset. *)
LEMMA SumsUnique ==
    ASSUME NEW f, NEW S, IsFiniteSet(S), NEW A, NEW B,
           S \subseteq A, S \subseteq B, NEW it, NEW jt,
           Solves(f, A, it), Solves(f, B, jt)
    PROVE  it[S] = jt[S]
<1> DEFINE F == {s \in SUBSET S : it[s] = jt[s]}
<1>1. \A s \in SUBSET S : it[s] = Sums(f, s, it) /\ jt[s] = Sums(f, s, jt)
  <2>1. \A s \in SUBSET A : it[s] = Sums(f, s, it)
    BY DEF Solves
  <2>2. \A s \in SUBSET B : jt[s] = Sums(f, s, jt)
    BY DEF Solves
  <2> QED
    BY <2>1, <2>2
<1>2. {} \in F
  BY <1>1 DEF Sums
<1>3. \A s \in SUBSET S : s # {} /\ (\A x \in s : s \ {x} \in F) => s \in F
  BY <1>1, PickIn DEF Sums
<1>4. \A s \in SUBSET S : s \in F
  <2> HIDE DEF F
  <2> QED
    BY <1>2, <1>3, SubsetInduction
<1> QED
  BY <1>4

(* SumOver of a finite set is what any solution of the recursion gives. *)
LEMMA SumDef ==
    ASSUME NEW f, NEW S, IsFiniteSet(S)
    PROVE  \E it : Solves(f, S, it) /\ SumOver(f, S) = it[S]
<1>1. SumOver(f, S) = (CHOOSE it : Solves(f, S, it))[S]
  BY DEF SumOver, MapThenSumSet, MapThenFoldSet, Sums, Pick, Solves
<1>2. \E it : Solves(f, S, it)
  BY SumsExist
<1> QED
  BY <1>1, <1>2, Zenon

(* The sum over no element, and the sum with one element taken out. *)
LEMMA SumEmpty == ASSUME NEW f PROVE SumOver(f, {}) = 0
<1>1. PICK it : Solves(f, {}, it) /\ SumOver(f, {}) = it[{}]
  BY SumDef, FS_EmptySet
<1>2. it[{}] = Sums(f, {}, it)
  BY <1>1 DEF Solves
<1> QED
  BY <1>1, <1>2 DEF Sums

(* A sum is the value of the member picked first plus the sum of the rest. *)
LEMMA SumPick ==
    ASSUME NEW f, NEW S, IsFiniteSet(S), S # {}
    PROVE  SumOver(f, S) = f[Pick(S)] + SumOver(f, S \ {Pick(S)})
<1> DEFINE U == S \ {Pick(S)}
<1>1. IsFiniteSet(U)
  BY FS_Subset
<1>2. PICK it : Solves(f, S, it) /\ SumOver(f, S) = it[S]
  BY SumDef
<1>3. PICK jt : Solves(f, U, jt) /\ SumOver(f, U) = jt[U]
  BY <1>1, SumDef
<1>4. it[U] = jt[U]
  BY <1>1, <1>2, <1>3, SumsUnique
<1>5. it[S] = Sums(f, S, it)
  BY <1>2 DEF Solves
<1> QED
  BY <1>2, <1>3, <1>4, <1>5 DEF Sums

(* A sum of integers is an integer. *)
LEMMA SumInt ==
    ASSUME NEW f, NEW S, IsFiniteSet(S), \A x \in S : f[x] \in Int
    PROVE  SumOver(f, S) \in Int
<1> DEFINE F == {s \in SUBSET S : SumOver(f, s) \in Int}
<1>1. {} \in F
  BY SumEmpty
<1>2. ASSUME NEW s \in SUBSET S, s # {}, \A x \in s : s \ {x} \in F
      PROVE  s \in F
  <2>1. IsFiniteSet(s) /\ Pick(s) \in s
    BY <1>2, FS_Subset, PickIn
  <2>2. SumOver(f, s) = f[Pick(s)] + SumOver(f, s \ {Pick(s)})
    BY <1>2, <2>1, SumPick
  <2>3. SumOver(f, s \ {Pick(s)}) \in Int /\ f[Pick(s)] \in Int
    BY <1>2, <2>1
  <2> QED
    BY <2>2, <2>3
<1>3. \A s \in SUBSET S : s \in F
  <2> HIDE DEF F
  <2> QED
    BY <1>1, <1>2, SubsetInduction
<1> QED
  BY <1>3

(* A sum of naturals is a natural. *)
LEMMA SumNat ==
    ASSUME NEW f, NEW S, IsFiniteSet(S), \A x \in S : f[x] \in Nat
    PROVE  SumOver(f, S) \in Nat
<1> DEFINE F == {s \in SUBSET S : SumOver(f, s) \in Nat}
<1>1. {} \in F
  BY SumEmpty
<1>2. ASSUME NEW s \in SUBSET S, s # {}, \A x \in s : s \ {x} \in F
      PROVE  s \in F
  <2>1. IsFiniteSet(s) /\ Pick(s) \in s
    BY <1>2, FS_Subset, PickIn
  <2>2. SumOver(f, s) = f[Pick(s)] + SumOver(f, s \ {Pick(s)})
    BY <1>2, <2>1, SumPick
  <2>3. SumOver(f, s \ {Pick(s)}) \in Nat /\ f[Pick(s)] \in Nat
    BY <1>2, <2>1
  <2> QED
    BY <2>2, <2>3
<1>3. \A s \in SUBSET S : s \in F
  <2> HIDE DEF F
  <2> QED
    BY <1>1, <1>2, SubsetInduction
<1> QED
  BY <1>3

(* A sum is the value of any one member plus the sum of the others. *)
LEMMA SumTake ==
    ASSUME NEW f, NEW S, IsFiniteSet(S), \A x \in S : f[x] \in Int, NEW x \in S
    PROVE  SumOver(f, S) = f[x] + SumOver(f, S \ {x})
<1> DEFINE F == {s \in SUBSET S : \A y \in s : SumOver(f, s) = f[y] + SumOver(f, s \ {y})}
<1>1. {} \in F
  OBVIOUS
<1>2. ASSUME NEW s \in SUBSET S, s # {}, \A y \in s : s \ {y} \in F
      PROVE  s \in F
  <2> SUFFICES ASSUME NEW y \in s
               PROVE  SumOver(f, s) = f[y] + SumOver(f, s \ {y})
    OBVIOUS
  <2> DEFINE p == Pick(s)
             U == s \ {p, y}
  <2>1. IsFiniteSet(s) /\ p \in s
    BY <1>2, FS_Subset, PickIn
  <2>2. SumOver(f, s) = f[p] + SumOver(f, s \ {p})
    BY <1>2, <2>1, SumPick
  <2> HIDE DEF p
  <2>3. CASE y = p
    BY <2>2, <2>3
  <2>4. CASE y # p
    <3>1. s \ {p} \in F /\ s \ {y} \in F
      BY <1>2, <2>1
    <3>2. (s \ {p}) \ {y} = U /\ (s \ {y}) \ {p} = U
      OBVIOUS
    <3>3. SumOver(f, s \ {p}) = f[y] + SumOver(f, U)
      BY <2>4, <3>1, <3>2
    <3>4. SumOver(f, s \ {y}) = f[p] + SumOver(f, U)
      BY <2>1, <2>4, <3>1, <3>2
    <3>5. SumOver(f, U) \in Int
      BY <2>1, FS_Subset, SumInt
    <3>6. f[p] \in Int /\ f[y] \in Int
      BY <2>1
    <3> HIDE DEF U
    <3> QED
      BY <2>2, <3>3, <3>4, <3>5, <3>6
  <2> QED
    BY <2>3, <2>4
<1>3. \A s \in SUBSET S : s \in F
  <2> HIDE DEF F
  <2> QED
    BY <1>1, <1>2, SubsetInduction
<1> QED
  BY <1>3

(* So it is for naturals. *)
LEMMA SumRemove ==
    ASSUME NEW f, NEW S, IsFiniteSet(S), \A x \in S : f[x] \in Nat, NEW x \in S
    PROVE  SumOver(f, S) = f[x] + SumOver(f, S \ {x})
<1>1. \A y \in S : f[y] \in Int
  OBVIOUS
<1> QED
  BY <1>1, SumTake

(* The sum depends only on the values it adds up. *)
LEMMA SumSame ==
    ASSUME NEW f, NEW g, NEW S, IsFiniteSet(S), \A x \in S : f[x] = g[x]
    PROVE  SumOver(f, S) = SumOver(g, S)
<1> DEFINE F == {s \in SUBSET S : SumOver(f, s) = SumOver(g, s)}
<1>1. {} \in F
  BY SumEmpty
<1>2. ASSUME NEW s \in SUBSET S, s # {}, \A x \in s : s \ {x} \in F
      PROVE  s \in F
  <2>1. IsFiniteSet(s) /\ Pick(s) \in s
    BY <1>2, FS_Subset, PickIn
  <2>2. /\ SumOver(f, s) = f[Pick(s)] + SumOver(f, s \ {Pick(s)})
        /\ SumOver(g, s) = g[Pick(s)] + SumOver(g, s \ {Pick(s)})
    BY <1>2, <2>1, SumPick
  <2>3. SumOver(f, s \ {Pick(s)}) = SumOver(g, s \ {Pick(s)}) /\ f[Pick(s)] = g[Pick(s)]
    BY <1>2, <2>1
  <2> QED
    BY <2>2, <2>3
<1>3. \A s \in SUBSET S : s \in F
  <2> HIDE DEF F
  <2> QED
    BY <1>1, <1>2, SubsetInduction
<1> QED
  BY <1>3

(* The sum over a set is that over a part of it plus that over the rest. *)
LEMMA SumSplit ==
    ASSUME NEW f, NEW S, IsFiniteSet(S), \A x \in S : f[x] \in Int, NEW T, T \subseteq S
    PROVE  /\ SumOver(f, S) = SumOver(f, S \ T) + SumOver(f, T)
           /\ SumOver(f, S \ T) \in Int /\ SumOver(f, T) \in Int
<1> DEFINE F == {s \in SUBSET S : SumOver(f, S) = SumOver(f, S \ s) + SumOver(f, s)}
<1>0. \A s \in SUBSET S : IsFiniteSet(s) /\ SumOver(f, s) \in Int
  BY FS_Subset, SumInt
<1>1. {} \in F
  <2>1. S \ {} = S /\ SumOver(f, {}) = 0 /\ SumOver(f, S) \in Int
    BY <1>0, SumEmpty
  <2> QED
    BY <2>1
<1>2. ASSUME NEW s \in SUBSET S, s # {}, \A x \in s : s \ {x} \in F
      PROVE  s \in F
  <2>1. PICK x \in s : TRUE
    BY <1>2
  <2> DEFINE u == s \ {x}
             w == S \ u
  <2>2. SumOver(f, S) = SumOver(f, w) + SumOver(f, u)
    BY <1>2, <2>1
  <2>3. SumOver(f, s) = f[x] + SumOver(f, u)
    BY <1>0, <2>1, SumTake
  <2>4. SumOver(f, w) = f[x] + SumOver(f, S \ s)
    <3>1. w \in SUBSET S /\ x \in w /\ w \ {x} = S \ s
      BY <2>1
    <3> HIDE DEF w
    <3>2. SumOver(f, w) = f[x] + SumOver(f, w \ {x})
      BY <1>0, <3>1, SumTake
    <3> QED
      BY <3>1, <3>2
  <2>5. f[x] \in Int /\ SumOver(f, u) \in Int /\ SumOver(f, S \ s) \in Int
    BY <1>0, <2>1
  <2> HIDE DEF u, w
  <2> QED
    BY <2>2, <2>3, <2>4, <2>5
<1>3. \A s \in SUBSET S : s \in F
  <2> HIDE DEF F
  <2> QED
    BY <1>1, <1>2, SubsetInduction
<1> QED
  BY <1>0, <1>3

(* So it is for naturals. *)
LEMMA SumApart ==
    ASSUME NEW f, NEW S, IsFiniteSet(S), \A x \in S : f[x] \in Nat, NEW T, T \subseteq S
    PROVE  /\ SumOver(f, S) = SumOver(f, S \ T) + SumOver(f, T)
           /\ SumOver(f, S \ T) \in Nat /\ SumOver(f, T) \in Nat
<1>1. \A y \in S : f[y] \in Int
  OBVIOUS
<1>2. SumOver(f, S) = SumOver(f, S \ T) + SumOver(f, T)
  BY <1>1, SumSplit
<1>3. IsFiniteSet(S \ T) /\ IsFiniteSet(T)
  BY FS_Subset
<1>4. SumOver(f, S \ T) \in Nat /\ SumOver(f, T) \in Nat
  BY <1>3, SumNat
<1> QED
  BY <1>2, <1>4
=============================================================================
