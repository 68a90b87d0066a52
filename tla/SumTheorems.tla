---------------------------- MODULE SumTheorems ----------------------------
(***************************************************************************)
(* Sums over finite sets: what SumFunctionOnSet computes, for every set    *)
(* and every function.  The operator folds a set from an element CHOOSE    *)
(* picks; these lemmas say that the choice does not matter, which is what  *)
(* every argument about a ledger, a stock or a balance needs.  There is no *)
(* induction scheme to instantiate: each proof takes a minimal             *)
(* counterexample (WFMin) of the subset ordering instead.                  *)
(***************************************************************************)
EXTENDS Integers, Functions, FiniteSetTheorems, WellFoundedInduction, TLAPS

\* g gives the sum of f over every subset of S.
IsSum(g, f, S) ==
  /\ g \in [SUBSET S -> Int] /\ g[{}] = 0
  /\ \A U \in SUBSET S : \A x \in U : g[U] = f[x] + g[U \ {x}]

\* A non-empty set of subsets of a finite set has a minimal member.
LEMMA MinimalSubset ==
  ASSUME NEW S, IsFiniteSet(S), NEW B, B \subseteq SUBSET S, B # {}
  PROVE  \E T \in B : \A x \in T : T \ {x} \notin B
<1>1. B \subseteq FiniteSubsetsOf(S)
  BY FS_FiniteSubsetsOfFinite
<1>2. PICK T \in B : \A U \in B : <<U, T>> \notin StrictSubsetOrdering(S)
  BY <1>1, FS_StrictSubsetOrderingWellFounded, WFMin
<1>3. \A x \in T : <<T \ {x}, T>> \in StrictSubsetOrdering(S)
  BY DEF StrictSubsetOrdering
<1> QED
  BY <1>2, <1>3

\* A non-empty finite set has a member at which a natural value is greatest.
LEMMA GreatestMember ==
  ASSUME NEW S, IsFiniteSet(S), S # {}, NEW f, \A x \in S : f[x] \in Nat
  PROVE  \E x \in S : \A y \in S : f[y] <= f[x]
<1> DEFINE B == {T \in SUBSET S : T # {} /\ ~ \E x \in T : \A y \in T : f[y] <= f[x]}
<1>1. ASSUME NEW T \in B, \A x \in T : T \ {x} \notin B PROVE FALSE
  <2>1. PICK x \in T : T \ {x} \notin B
    BY <1>1
  <2>2. CASE T \ {x} = {}
    BY <2>1, <2>2
  <2>3. CASE T \ {x} # {}
    <3>1. PICK m \in T \ {x} : \A y \in T \ {x} : f[y] <= f[m]
      BY <2>1, <2>3
    <3>2. (\A y \in T : f[y] <= f[m]) \/ (\A y \in T : f[y] <= f[x])
      BY <3>1
    <3> QED
      BY <3>1, <3>2
  <2> QED
    BY <2>2, <2>3
<1> HIDE DEF B
<1>2. B \subseteq SUBSET S
  BY DEF B
<1>3. B = {}
  BY <1>1, <1>2, MinimalSubset
<1> QED
  BY <1>3 DEF B

\* A non-empty set of naturals has a least member.
LEMMA LeastMember ==
  ASSUME NEW S, S \subseteq Nat, S # {}
  PROVE  \E x \in S : \A y \in S : x <= y
<1>1. PICK x \in S : \A y \in S : <<y, x>> \notin OpToRel(<, Nat)
  BY NatLessThanWellFounded, WFMin
<1>2. \A y \in S : ~(y < x)
  BY <1>1 DEF OpToRel
<1> QED
  BY <1>2

\* Every integer function has sums over the subsets of a finite set.
LEMMA SumExists ==
  ASSUME NEW S, IsFiniteSet(S), NEW f, \A x \in S : f[x] \in Int
  PROVE  \E g : IsSum(g, f, S)
<1> DEFINE B == {T \in SUBSET S : ~ \E g : IsSum(g, f, T)}
<1>1. CASE B = {}
  BY <1>1
<1>2. CASE B # {}
  <2>1. PICK T \in B : \A x \in T : T \ {x} \notin B
    BY <1>2, MinimalSubset
  <2>2. CASE T = {}
    <3>1. IsSum([U \in SUBSET T |-> 0], f, T)
      BY <2>2 DEF IsSum
    <3> QED
      BY <2>1, <3>1
  <2>3. CASE T # {}
    <3>1. PICK x \in T : TRUE
      BY <2>3
    <3>2. PICK g : IsSum(g, f, T \ {x})
      BY <2>1, <3>1
    <3> DEFINE h == [U \in SUBSET T |-> IF x \in U THEN f[x] + g[U \ {x}] ELSE g[U]]
    <3>3. f[x] \in Int
      BY <2>1, <3>1
    <3>4. h \in [SUBSET T -> Int] /\ h[{}] = 0
      BY <3>2, <3>3 DEF IsSum
    <3>5. ASSUME NEW U \in SUBSET T, NEW y \in U PROVE h[U] = f[y] + h[U \ {y}]
      <4>1. CASE x \notin U
        BY <3>2, <4>1 DEF IsSum
      <4>2. CASE x \in U /\ y = x
        BY <3>2, <4>2 DEF IsSum
      <4>3. CASE x \in U /\ y # x
        <5>1. U \ {x} \in SUBSET (T \ {x}) /\ y \in U \ {x}
          BY <4>3
        <5>2. g[U \ {x}] = f[y] + g[(U \ {x}) \ {y}]
          BY <3>2, <5>1 DEF IsSum
        <5>3. (U \ {x}) \ {y} = (U \ {y}) \ {x} /\ x \in U \ {y}
          BY <4>3
        <5>4. g[(U \ {x}) \ {y}] \in Int /\ f[y] \in Int
          BY <2>1, <3>2, <5>1 DEF IsSum
        <5> QED
          BY <3>3, <4>3, <5>2, <5>3, <5>4
      <4> QED
        BY <4>1, <4>2, <4>3
    <3>6. IsSum(h, f, T)
      BY <3>4, <3>5 DEF IsSum
    <3> QED
      BY <2>1, <3>6
  <2> QED
    BY <2>2, <2>3
<1> QED
  BY <1>1, <1>2

\* The fold over a finite set is its sum, whichever element it takes first.
LEMMA SumIs ==
  ASSUME NEW S, IsFiniteSet(S), NEW f, NEW g, IsSum(g, f, S)
  PROVE  SumFunctionOnSet(f, S) = g[S]
<1> DEFINE first(s) == CHOOSE x \in s : TRUE
           rec(h) == [s \in SUBSET S |-> IF s = {} THEN 0 ELSE f[first(s)] + h[s \ {first(s)}]]
<1>1. g = rec(g)
  BY DEF IsSum
<1>2. PICK h : h = rec(h) /\ SumFunctionOnSet(f, S) = h[S]
  BY <1>1 DEF SumFunctionOnSet, FoldFunctionOnSet, MapThenFoldSet
<1> DEFINE B == {U \in SUBSET S : h[U] # g[U]}
<1>3. ASSUME NEW T \in B, \A x \in T : T \ {x} \notin B PROVE FALSE
  <2>1. CASE T = {}
    BY <1>1, <1>2, <2>1
  <2>2. CASE T # {}
    <3>1. first(T) \in T
      BY <2>2
    <3> HIDE DEF first
    <3>2. h[T] = f[first(T)] + h[T \ {first(T)}] /\ g[T] = f[first(T)] + g[T \ {first(T)}]
      BY <1>1, <1>2, <2>2
    <3>3. h[T \ {first(T)}] = g[T \ {first(T)}]
      BY <1>3, <3>1
    <3> QED
      BY <3>2, <3>3
  <2> QED
    BY <2>1, <2>2
<1>4. B = {}
  <2> HIDE DEF B
  <2>1. B \subseteq SUBSET S
    BY DEF B
  <2> QED
    BY <1>3, <2>1, MinimalSubset
<1> QED
  BY <1>2, <1>4

\* A sum of integers is an integer.
LEMMA SumInt ==
  ASSUME NEW S, IsFiniteSet(S), NEW f, \A x \in S : f[x] \in Int
  PROVE  SumFunctionOnSet(f, S) \in Int
<1>1. PICK g : IsSum(g, f, S)
  BY SumExists
<1>2. SumFunctionOnSet(f, S) = g[S]
  BY <1>1, SumIs
<1> QED
  BY <1>1, <1>2 DEF IsSum

\* The sum over no element is 0.
LEMMA SumEmpty == ASSUME NEW f PROVE SumFunctionOnSet(f, {}) = 0
<1>1. IsSum([U \in SUBSET {} |-> 0], f, {})
  BY DEF IsSum
<1> QED
  BY <1>1, FS_EmptySet, SumIs

\* Any element can be taken out of a sum.
LEMMA SumRemove ==
  ASSUME NEW S, IsFiniteSet(S), NEW f, \A x \in S : f[x] \in Int, NEW x \in S
  PROVE  SumFunctionOnSet(f, S) = f[x] + SumFunctionOnSet(f, S \ {x})
<1>1. PICK g : IsSum(g, f, S)
  BY SumExists
<1> DEFINE h == [U \in SUBSET (S \ {x}) |-> g[U]]
<1>2. IsSum(h, f, S \ {x})
  BY <1>1 DEF IsSum
<1>3. IsFiniteSet(S \ {x})
  BY FS_RemoveElement
<1>4. SumFunctionOnSet(f, S \ {x}) = g[S \ {x}]
  BY <1>2, <1>3, SumIs
<1>5. SumFunctionOnSet(f, S) = g[S]
  BY <1>1, SumIs
<1> QED
  BY <1>1, <1>4, <1>5 DEF IsSum

\* An element added to a set adds its value to the sum.
LEMMA SumInsert ==
  ASSUME NEW S, IsFiniteSet(S), NEW x, x \notin S, NEW f, f[x] \in Int, \A y \in S : f[y] \in Int
  PROVE  SumFunctionOnSet(f, S \cup {x}) = f[x] + SumFunctionOnSet(f, S)
<1>1. IsFiniteSet(S \cup {x}) /\ (S \cup {x}) \ {x} = S
  BY FS_AddElement
<1> QED
  BY <1>1, SumRemove

\* Functions that agree on a set have the same sum over it.
LEMMA SumAgrees ==
  ASSUME NEW S, IsFiniteSet(S), NEW f, NEW e, \A x \in S : f[x] \in Int /\ e[x] = f[x]
  PROVE  SumFunctionOnSet(e, S) = SumFunctionOnSet(f, S)
<1>1. PICK g : IsSum(g, f, S)
  BY SumExists
<1>2. IsSum(g, e, S)
  BY <1>1 DEF IsSum
<1> QED
  BY <1>1, <1>2, SumIs

\* A change of one value changes the sum by as much.
LEMMA SumChange ==
  ASSUME NEW S, IsFiniteSet(S), NEW f, NEW e, NEW x \in S, e[x] \in Int,
         \A y \in S : f[y] \in Int, \A y \in S \ {x} : e[y] = f[y]
  PROVE  SumFunctionOnSet(e, S) = SumFunctionOnSet(f, S) - f[x] + e[x]
<1>1. IsFiniteSet(S \ {x})
  BY FS_RemoveElement
<1>2. SumFunctionOnSet(e, S \ {x}) = SumFunctionOnSet(f, S \ {x})
  BY <1>1, SumAgrees
<1>3. SumFunctionOnSet(f, S) = f[x] + SumFunctionOnSet(f, S \ {x})
  BY SumRemove
<1>4. SumFunctionOnSet(e, S) = e[x] + SumFunctionOnSet(e, S \ {x})
  BY SumRemove
<1>5. SumFunctionOnSet(f, S \ {x}) \in Int /\ f[x] \in Int
  BY <1>1, SumInt
<1> QED
  BY <1>2, <1>3, <1>4, <1>5

\* The sum of zeros is 0.
LEMMA SumOfZeros ==
  ASSUME NEW S, IsFiniteSet(S), NEW f, \A x \in S : f[x] = 0
  PROVE  SumFunctionOnSet(f, S) = 0
<1>1. IsSum([U \in SUBSET S |-> 0], f, S)
  BY DEF IsSum
<1> QED
  BY <1>1, SumIs

\* The image of a finite set is finite.
LEMMA FiniteImage == ASSUME NEW S, IsFiniteSet(S), NEW f PROVE IsFiniteSet({f[x] : x \in S})
<1>1. [x \in S |-> f[x]] \in Surjection(S, {f[x] : x \in S})
  BY DEF Surjection
<1> QED
  BY <1>1, FS_Surjection

\* Sets that have nothing in common have the sum of their sizes together.
LEMMA SumOfParts ==
  ASSUME NEW C, IsFiniteSet(C), NEW P, \A c \in C : IsFiniteSet(P[c]),
         \A c, d \in C : c # d => P[c] \cap P[d] = {}
  PROVE  SumFunctionOnSet([c \in C |-> Cardinality(P[c])], C) = Cardinality(UNION {P[c] : c \in C})
<1> DEFINE size == [c \in C |-> Cardinality(P[c])]
           all(T) == UNION {P[c] : c \in T}
           B == {T \in SUBSET C : SumFunctionOnSet(size, T) # Cardinality(all(T))}
<1>1. \A c \in C : size[c] = Cardinality(P[c]) /\ size[c] \in Nat
  BY FS_CardinalityType
<1>2. \A T \in SUBSET C : IsFiniteSet(T) /\ IsFiniteSet(all(T))
  <2> TAKE T \in SUBSET C
  <2>1. IsFiniteSet(T)
    BY FS_Subset
  <2>2. IsFiniteSet({P[c] : c \in T})
    BY <2>1, FiniteImage
  <2> QED BY <2>1, <2>2, FS_UNION
<1>3. ASSUME NEW T \in B, \A x \in T : T \ {x} \notin B PROVE FALSE
  <2> HIDE DEF size
  <2>1. T \in SUBSET C /\ SumFunctionOnSet(size, T) # Cardinality(all(T))
    BY <1>3
  <2>2. CASE T = {}
    BY <2>1, <2>2, SumEmpty, FS_EmptySet
  <2>3. CASE T # {}
    <3>1. PICK x \in T : SumFunctionOnSet(size, T \ {x}) = Cardinality(all(T \ {x}))
      BY <1>3, <2>1, <2>3
    <3>2. SumFunctionOnSet(size, T) = size[x] + SumFunctionOnSet(size, T \ {x})
      <4>1. IsFiniteSet(T) /\ \A y \in T : size[y] \in Int
        BY <1>1, <2>1, FS_Subset
      <4> HIDE DEF B, all
      <4> QED BY <4>1, SumRemove
    <3>3. all(T) = P[x] \cup all(T \ {x}) /\ P[x] \cap all(T \ {x}) = {}
      BY <2>1
    <3>4. IsFiniteSet(P[x]) /\ IsFiniteSet(all(T \ {x}))
      BY <1>2, <2>1
    <3> HIDE DEF all
    <3>5. Cardinality(all(T)) = Cardinality(P[x]) + Cardinality(all(T \ {x}))
      <4>1. /\ Cardinality(P[x]) \in Nat /\ Cardinality(all(T \ {x})) \in Nat
            /\ Cardinality(P[x] \cap all(T \ {x})) = 0
        BY <3>3, <3>4, FS_CardinalityType, FS_EmptySet
      <4>2. Cardinality(P[x] \cup all(T \ {x})) = Cardinality(P[x]) + Cardinality(all(T \ {x}))
                                                 - Cardinality(P[x] \cap all(T \ {x}))
        BY <3>4, FS_Union
      <4> QED BY <3>3, <4>1, <4>2
    <3> QED BY <1>1, <2>1, <3>1, <3>2, <3>5
  <2> QED BY <2>2, <2>3
<1>4. B = {}
  <2> SUFFICES ASSUME B # {} PROVE FALSE
    OBVIOUS
  <2>1. B \subseteq SUBSET C
    OBVIOUS
  <2> HIDE DEF B
  <2>2. PICK T \in B : \A x \in T : T \ {x} \notin B
    BY <2>1, MinimalSubset
  <2> QED BY <1>3, <2>2
<1>5. C \notin B
  BY <1>4
<1> QED BY <1>5

\* The sum of what two functions add up to is what their sums add up to.
LEMMA SumPlus ==
  ASSUME NEW S, IsFiniteSet(S), NEW f, NEW g, NEW e,
         \A x \in S : f[x] \in Int /\ g[x] \in Int /\ e[x] = f[x] + g[x]
  PROVE  SumFunctionOnSet(e, S) = SumFunctionOnSet(f, S) + SumFunctionOnSet(g, S)
<1>1. PICK sf : IsSum(sf, f, S)
  BY SumExists
<1>2. PICK sg : IsSum(sg, g, S)
  BY SumExists
<1> DEFINE h == [U \in SUBSET S |-> sf[U] + sg[U]]
<1>3. IsSum(h, e, S)
  <2>1. h \in [SUBSET S -> Int] /\ h[{}] = 0
    BY <1>1, <1>2 DEF IsSum
  <2>2. ASSUME NEW U \in SUBSET S, NEW x \in U PROVE h[U] = e[x] + h[U \ {x}]
    <3>1. /\ sf[U] = f[x] + sf[U \ {x}] /\ sg[U] = g[x] + sg[U \ {x}]
          /\ sf[U \ {x}] \in Int /\ sg[U \ {x}] \in Int /\ U \ {x} \in SUBSET S
      BY <1>1, <1>2 DEF IsSum
    <3>2. f[x] \in Int /\ g[x] \in Int /\ e[x] = f[x] + g[x]
      OBVIOUS
    <3>3. h[U] = sf[U] + sg[U] /\ h[U \ {x}] = sf[U \ {x}] + sg[U \ {x}]
      BY <3>1
    <3> HIDE DEF h
    <3> QED BY <3>1, <3>2, <3>3
  <2> QED BY <2>1, <2>2 DEF IsSum
<1>4. SumFunctionOnSet(e, S) = h[S] /\ SumFunctionOnSet(f, S) = sf[S] /\ SumFunctionOnSet(g, S) = sg[S]
  BY <1>1, <1>2, <1>3, SumIs
<1> QED BY <1>4

\* The sum over two sets that have nothing in common.
LEMMA SumUnion ==
  ASSUME NEW S, IsFiniteSet(S), NEW T, IsFiniteSet(T), S \cap T = {},
         NEW f, \A x \in S \cup T : f[x] \in Int
  PROVE  SumFunctionOnSet(f, S \cup T) = SumFunctionOnSet(f, S) + SumFunctionOnSet(f, T)
<1>1. PICK s : IsSum(s, f, S)
  BY SumExists
<1>2. PICK t : IsSum(t, f, T)
  BY SumExists
<1> DEFINE W == S \cup T
           inS(U) == U \cap S
           inT(U) == U \cap T
           h == [U \in SUBSET W |-> s[inS(U)] + t[inT(U)]]
<1>3. /\ \A U \in SUBSET W : inS(U) \in SUBSET S /\ inT(U) \in SUBSET T
      /\ inS({}) = {} /\ inT({}) = {} /\ inS(W) = S /\ inT(W) = T
  OBVIOUS
<1>4. \A U \in SUBSET W : \A x \in U :
        \/ x \in inS(U) /\ inS(U \ {x}) = inS(U) \ {x} /\ inT(U \ {x}) = inT(U)
        \/ x \in inT(U) /\ inT(U \ {x}) = inT(U) \ {x} /\ inS(U \ {x}) = inS(U)
  OBVIOUS
<1>5. IsFiniteSet(W) /\ \A x \in W : f[x] \in Int
  BY FS_Union
<1> HIDE DEF W, inS, inT
<1>6. \A U \in SUBSET W : s[inS(U)] \in Int /\ t[inT(U)] \in Int
  BY <1>1, <1>2, <1>3 DEF IsSum
<1>7. IsSum(h, f, W)
  <2>1. h \in [SUBSET W -> Int] /\ h[{}] = 0
    <3>1. s[inS({})] = 0 /\ t[inT({})] = 0
      BY <1>1, <1>2, <1>3 DEF IsSum
    <3> QED BY <1>6, <3>1
  <2>2. ASSUME NEW U \in SUBSET W, NEW x \in U PROVE h[U] = f[x] + h[U \ {x}]
    <3> DEFINE hu == h[U]
               hv == h[U \ {x}]
    <3>1. /\ hu = s[inS(U)] + t[inT(U)] /\ hv = s[inS(U \ {x})] + t[inT(U \ {x})]
          /\ s[inS(U)] \in Int /\ t[inT(U)] \in Int /\ s[inS(U \ {x})] \in Int /\ t[inT(U \ {x})] \in Int
          /\ f[x] \in Int
      BY <1>5, <1>6
    <3> HIDE DEF hu, hv
    <3> SUFFICES hu = f[x] + hv
      BY DEF hu, hv
    <3> HIDE DEF h
    <3>2. CASE x \in inS(U) /\ inS(U \ {x}) = inS(U) \ {x} /\ inT(U \ {x}) = inT(U)
      <4>1. inS(U) \in SUBSET S
        BY <1>3
      <4>2. s[inS(U)] = f[x] + s[inS(U) \ {x}]
        BY <1>1, <3>2, <4>1 DEF IsSum
      <4>3. s[inS(U)] = f[x] + s[inS(U \ {x})] /\ t[inT(U)] = t[inT(U \ {x})]
        BY <3>2, <4>2, Zenon
      <4> QED BY <3>1, <4>3
    <3>3. CASE x \in inT(U) /\ inT(U \ {x}) = inT(U) \ {x} /\ inS(U \ {x}) = inS(U)
      <4>1. inT(U) \in SUBSET T
        BY <1>3
      <4>2. t[inT(U)] = f[x] + t[inT(U) \ {x}]
        BY <1>2, <3>3, <4>1 DEF IsSum
      <4>3. t[inT(U)] = f[x] + t[inT(U \ {x})] /\ s[inS(U)] = s[inS(U \ {x})]
        BY <3>3, <4>2, Zenon
      <4> QED BY <3>1, <4>3
    <3> QED BY <1>4, <3>2, <3>3
  <2> QED BY <2>1, <2>2 DEF IsSum
<1>8. h[W] = s[S] + t[T]
  BY <1>3
<1> HIDE DEF h
<1>9. SumFunctionOnSet(f, W) = h[W] /\ SumFunctionOnSet(f, S) = s[S] /\ SumFunctionOnSet(f, T) = t[T]
  BY <1>1, <1>2, <1>5, <1>7, SumIs
<1> QED BY <1>8, <1>9 DEF W

\* What adds nothing can be left out of a sum.
LEMMA SumOfSome ==
  ASSUME NEW S, IsFiniteSet(S), NEW T, T \subseteq S, NEW f, \A x \in S : f[x] \in Int,
         \A x \in S \ T : f[x] = 0
  PROVE  SumFunctionOnSet(f, T) = SumFunctionOnSet(f, S)
<1> DEFINE R == S \ T
<1>1. IsFiniteSet(T) /\ IsFiniteSet(R) /\ S = T \cup R /\ T \cap R = {}
  BY FS_Subset, FS_Difference
<1>2. \A x \in R : f[x] = 0
  OBVIOUS
<1> HIDE DEF R
<1>3. SumFunctionOnSet(f, R) = 0
  BY <1>1, <1>2, SumOfZeros
<1>4. SumFunctionOnSet(f, S) = SumFunctionOnSet(f, T) + SumFunctionOnSet(f, R)
  BY <1>1, SumUnion
<1>5. SumFunctionOnSet(f, T) \in Int
  BY <1>1, SumInt
<1> QED BY <1>3, <1>4, <1>5

\* The sums over sets that have nothing in common add up to the sum over all of them.
LEMMA SumOfSums ==
  ASSUME NEW C, IsFiniteSet(C), NEW P, \A c \in C : IsFiniteSet(P[c]),
         \A c, d \in C : c # d => P[c] \cap P[d] = {},
         NEW f, \A c \in C : \A x \in P[c] : f[x] \in Int,
         NEW e, \A c \in C : e[c] = SumFunctionOnSet(f, P[c])
  PROVE  SumFunctionOnSet(e, C) = SumFunctionOnSet(f, UNION {P[c] : c \in C})
<1> DEFINE all(T) == UNION {P[c] : c \in T}
           h == [T \in SUBSET C |-> SumFunctionOnSet(f, all(T))]
<1>1. \A T \in SUBSET C : IsFiniteSet(T) /\ IsFiniteSet(all(T)) /\ \A x \in all(T) : f[x] \in Int
  <2> TAKE T \in SUBSET C
  <2>1. IsFiniteSet(T)
    BY FS_Subset
  <2>2. IsFiniteSet({P[c] : c \in T})
    BY <2>1, FiniteImage
  <2> QED BY <2>1, <2>2, FS_UNION
<1>2. IsSum(h, e, C)
  <2>1. h \in [SUBSET C -> Int] /\ h[{}] = 0
    <3>1. \A T \in SUBSET C : SumFunctionOnSet(f, all(T)) \in Int
      <4> TAKE T \in SUBSET C
      <4>1. IsFiniteSet(all(T)) /\ \A x \in all(T) : f[x] \in Int
        BY <1>1
      <4> HIDE DEF all
      <4> QED BY <4>1, SumInt
    <3>2. all({}) = {}
      OBVIOUS
    <3> HIDE DEF all
    <3>3. h[{}] = SumFunctionOnSet(f, {})
      BY <3>2
    <3> QED BY <3>1, <3>3, SumEmpty
  <2>2. ASSUME NEW T \in SUBSET C, NEW c \in T PROVE h[T] = e[c] + h[T \ {c}]
    <3>1. all(T) = P[c] \cup all(T \ {c}) /\ P[c] \cap all(T \ {c}) = {}
      OBVIOUS
    <3>2. /\ IsFiniteSet(P[c]) /\ IsFiniteSet(all(T \ {c}))
          /\ \A x \in P[c] \cup all(T \ {c}) : f[x] \in Int
      <4>1. c \in C /\ T \ {c} \in SUBSET C
        OBVIOUS
      <4> HIDE DEF all
      <4>2. IsFiniteSet(all(T \ {c})) /\ \A x \in all(T \ {c}) : f[x] \in Int
        BY <1>1, <4>1
      <4> QED BY <4>1, <4>2
    <3> HIDE DEF all
    <3> DEFINE rest == all(T \ {c})
               part == P[c]
    <3>3. SumFunctionOnSet(f, part \cup rest) = SumFunctionOnSet(f, part) + SumFunctionOnSet(f, rest)
      <4>1. IsFiniteSet(part) /\ IsFiniteSet(rest) /\ part \cap rest = {} /\ \A x \in part \cup rest : f[x] \in Int
        BY <3>1, <3>2
      <4> HIDE DEF part, rest
      <4> QED BY <4>1, SumUnion
    <3>4. h[T] = SumFunctionOnSet(f, all(T)) /\ h[T \ {c}] = SumFunctionOnSet(f, all(T \ {c}))
      OBVIOUS
    <3>5. e[c] = SumFunctionOnSet(f, P[c])
      OBVIOUS
    <3> QED BY <3>1, <3>3, <3>4, <3>5
  <2> QED BY <2>1, <2>2 DEF IsSum
<1> HIDE DEF all
<1>3. h[C] = SumFunctionOnSet(f, all(C))
  OBVIOUS
<1> HIDE DEF h
<1>4. SumFunctionOnSet(e, C) = h[C]
  BY <1>2, SumIs
<1> QED BY <1>3, <1>4 DEF all

\* g is the table f, its rows and columns exchanged.
IsTransposed(g, f, A, B) == \A a \in A : \A b \in B : f[a][b] \in Int /\ g[b][a] = f[a][b]

\* Rows summed and added up are columns summed and added up.
LEMMA SumOfRows ==
  ASSUME NEW A, IsFiniteSet(A), NEW B, IsFiniteSet(B),
         NEW f, NEW g, IsTransposed(g, f, A, B),
         NEW rows, \A a \in A : rows[a] = SumFunctionOnSet(f[a], B),
         NEW cols, \A b \in B : cols[b] = SumFunctionOnSet(g[b], A)
  PROVE  SumFunctionOnSet(rows, A) = SumFunctionOnSet(cols, B)
<1> DEFINE part(T) == [b \in B |-> SumFunctionOnSet(g[b], T)]
           h == [T \in SUBSET A |-> SumFunctionOnSet(part(T), B)]
<1>1. \A b \in B : \A a \in A : g[b][a] = f[a][b] /\ g[b][a] \in Int
  BY DEF IsTransposed
<1>2. \A b \in B : cols[b] = SumFunctionOnSet(g[b], A)
  OBVIOUS
<1>3. \A T \in SUBSET A : \A b \in B : part(T)[b] = SumFunctionOnSet(g[b], T) /\ part(T)[b] \in Int
  <2> TAKE T \in SUBSET A
  <2> TAKE b \in B
  <2>1. IsFiniteSet(T)
    BY FS_Subset
  <2>2. SumFunctionOnSet(g[b], T) \in Int
    BY <1>1, <2>1, SumInt
  <2> QED BY <2>2
<1> HIDE DEF part
<1>4. IsSum(h, rows, A)
  <2>1. h \in [SUBSET A -> Int]
    <3>1. \A T \in SUBSET A : SumFunctionOnSet(part(T), B) \in Int
      BY <1>3, SumInt
    <3> QED BY <3>1
  <2>2. h[{}] = 0
    <3>1. \A b \in B : part({})[b] = 0
      BY <1>3, SumEmpty
    <3>2. SumFunctionOnSet(part({}), B) = 0
      BY <3>1, SumOfZeros
    <3> QED BY <3>2
  <2>3. ASSUME NEW T \in SUBSET A, NEW a \in T PROVE h[T] = rows[a] + h[T \ {a}]
    <3>1. IsFiniteSet(T) /\ a \in A /\ T \ {a} \in SUBSET A
      BY FS_Subset
    <3>2. \A b \in B : part(T)[b] = f[a][b] + part(T \ {a})[b]
      <4> TAKE b \in B
      <4>1. SumFunctionOnSet(g[b], T) = g[b][a] + SumFunctionOnSet(g[b], T \ {a})
        BY <1>1, <3>1, SumRemove
      <4> QED BY <1>1, <1>3, <3>1, <4>1
    <3>3. \A b \in B : f[a][b] \in Int /\ part(T \ {a})[b] \in Int
      BY <1>1, <1>3, <3>1
    <3>4. SumFunctionOnSet(part(T), B) = SumFunctionOnSet(f[a], B) + SumFunctionOnSet(part(T \ {a}), B)
      BY <3>2, <3>3, SumPlus
    <3>5. h[T] = SumFunctionOnSet(part(T), B) /\ h[T \ {a}] = SumFunctionOnSet(part(T \ {a}), B)
      BY <3>1
    <3>6. rows[a] = SumFunctionOnSet(f[a], B)
      BY <3>1
    <3> QED BY <3>4, <3>5, <3>6
  <2> QED BY <2>1, <2>2, <2>3 DEF IsSum
<1>5. h[A] = SumFunctionOnSet(part(A), B)
  OBVIOUS
<1> HIDE DEF h
<1>6. SumFunctionOnSet(rows, A) = h[A]
  BY <1>4, SumIs
<1>7. SumFunctionOnSet(cols, B) = SumFunctionOnSet(part(A), B)
  BY <1>2, <1>3, SumAgrees
<1> QED BY <1>5, <1>6, <1>7
=============================================================================
