-------------------------------- MODULE Sums --------------------------------
(***************************************************************************)
(* Facts about SumFunctionOnSet, the sum of the values a function has on a *)
(* finite set: what the amounts of AuctionHouse and WalletTx add up to.    *)
(*                                                                         *)
(* The induction is over a set: a counterexample that is minimal among the *)
(* subsets of a finite set would have to be one again without an element.  *)
(***************************************************************************)
EXTENDS Integers, FiniteSets, Functions, FiniteSetTheorems, TLAPS

(* The element the fold takes first, and the equation its iteration solves.  *)
First(s) == CHOOSE x \in s : TRUE
Adds(v, s, g) == IF s = {} THEN 0 ELSE v[First(s)] + g[s \ {First(s)}]
Solves(v, D, g) == g = [s \in D |-> Adds(v, s, g)]

(* Among the naturals with a property there is a least one.                  *)
LEMMA LeastNatural ==
  ASSUME NEW T \in SUBSET Nat, T # {}
  PROVE  \E m \in T : \A k \in T : ~(k < m)
<1>1. PICK m \in T : \A k \in T : <<k, m>> \notin OpToRel(<, Nat)
  BY NatLessThanWellFounded, WFMin
<1> QED BY <1>1 DEF OpToRel

(* Among finite sets with a property there is one that contains no other.    *)
LEMMA LeastSubset ==
  ASSUME NEW S, IsFiniteSet(S), NEW T \in SUBSET SUBSET S, T # {}
  PROVE  \E t \in T : \A u \in T : u \subseteq t => u = t
<1>1. T \subseteq FiniteSubsetsOf(S)
  BY FS_Subset DEF FiniteSubsetsOf
<1>2. PICK t \in T : \A u \in T : <<u, t>> \notin StrictSubsetOrdering(S)
  BY <1>1, FS_StrictSubsetOrderingWellFounded, WFMin
<1> QED BY <1>2 DEF StrictSubsetOrdering

(* The equation has a solution on the subsets of a finite set.               *)
LEMMA SolutionExists ==
  ASSUME NEW v, NEW S, IsFiniteSet(S)
  PROVE  \E g : Solves(v, SUBSET S, g)
<1> DEFINE Small(n) == {s \in SUBSET S : Cardinality(s) <= n}
           Bad == {n \in Nat : ~ \E g : Solves(v, Small(n), g)}
<1>0. \A s \in SUBSET S : IsFiniteSet(s) /\ Cardinality(s) \in Nat
                          /\ Cardinality(s) <= Cardinality(S)
  BY FS_Subset, FS_CardinalityType
<1>1. Cardinality(S) \in Nat /\ Small(Cardinality(S)) = SUBSET S
  BY <1>0
<1>2. Bad = {}
  <2>1. SUFFICES ASSUME NEW m \in Bad, \A k \in Bad : ~(k < m)
                 PROVE  FALSE
    BY LeastNatural
  <2>2. CASE m = 0
    <3> DEFINE g == [s \in Small(0) |-> 0]
    <3>1. \A s \in Small(0) : s = {}
      BY <1>0, FS_EmptySet
    <3>2. Solves(v, Small(0), g)
      BY <3>1 DEF Solves, Adds
    <3> QED BY <2>2, <3>2
  <2>3. CASE m # 0
    <3>1. m - 1 \in Nat /\ m - 1 \notin Bad
      <4>1. m \in Nat
        BY <2>1
      <4>2. m - 1 \in Nat /\ m - 1 < m
        BY <2>3, <4>1
      <4> HIDE DEF Bad
      <4> QED BY <2>1, <4>2
    <3>2. PICK g : Solves(v, Small(m - 1), g)
      BY <3>1
    <3> DEFINE h == [s \in Small(m) |-> Adds(v, s, g)]
    <3>3. ASSUME NEW s \in Small(m), s # {}
          PROVE  s \ {First(s)} \in Small(m - 1)
      <4>1. First(s) \in s
        BY <3>3 DEF First
      <4>2. Cardinality(s \ {First(s)}) = Cardinality(s) - 1
        BY <1>0, <4>1, FS_RemoveElement
      <4> QED BY <1>0, <4>2
    <3>4. \A s \in Small(m - 1) : h[s] = g[s]
      <4>1. Small(m - 1) \subseteq Small(m)
        BY <1>0, <3>1
      <4>2. \A s \in Small(m - 1) : g[s] = Adds(v, s, g)
        BY <3>2 DEF Solves
      <4> QED BY <4>1, <4>2
    <3>5. \A s \in Small(m) : Adds(v, s, g) = Adds(v, s, h)
      BY <3>3, <3>4 DEF Adds
    <3>6. Solves(v, Small(m), h)
      BY <3>5 DEF Solves
    <3> QED BY <3>6
  <2> QED BY <2>2, <2>3
<1> QED BY <1>1, <1>2

(* Two solutions agree wherever both are defined.                            *)
LEMMA SolutionsAgree ==
  ASSUME NEW v, NEW S, NEW R, NEW g, NEW h, IsFiniteSet(S), R \subseteq S,
         Solves(v, SUBSET S, g), Solves(v, SUBSET R, h)
  PROVE  \A t \in SUBSET R : g[t] = h[t]
<1> DEFINE Bad == {t \in SUBSET R : g[t] # h[t]}
<1>1. SUFFICES ASSUME Bad # {} PROVE FALSE
  OBVIOUS
<1>2. PICK t \in Bad : \A u \in Bad : u \subseteq t => u = t
  <2>1. Bad \in SUBSET SUBSET S
    OBVIOUS
  <2> HIDE DEF Bad
  <2> QED BY <1>1, <2>1, LeastSubset
<1>3. g[t] = Adds(v, t, g) /\ h[t] = Adds(v, t, h)
  BY <1>2 DEF Solves
<1>4. t # {}
  BY <1>2, <1>3 DEF Adds
<1>5. First(t) \in t
  BY <1>4 DEF First
<1>6. g[t \ {First(t)}] = h[t \ {First(t)}]
  BY <1>2, <1>5
<1> QED BY <1>2, <1>3, <1>4, <1>6 DEF Adds

(* The sum over no index is 0; over some it is the value of the first and    *)
(* the sum over the others.                                                  *)
LEMMA SumFirst ==
  ASSUME NEW v, NEW S, IsFiniteSet(S)
  PROVE  SumFunctionOnSet(v, S) =
           IF S = {} THEN 0
           ELSE v[First(S)] + SumFunctionOnSet(v, S \ {First(S)})
<1> DEFINE Sol(s) == CHOOSE g : Solves(v, SUBSET s, g)
<1>1. \A s : SumFunctionOnSet(v, s) = Sol(s)[s]
  BY DEF SumFunctionOnSet, FoldFunctionOnSet, MapThenFoldSet, Solves, Adds, First
<1>2. \A s \in SUBSET S : Solves(v, SUBSET s, Sol(s))
  BY SolutionExists, FS_Subset
<1> HIDE DEF Sol
<1>3. Sol(S)[S] = Adds(v, S, Sol(S))
  <2>1. Solves(v, SUBSET S, Sol(S)) /\ S \in SUBSET S
    BY <1>2
  <2> QED BY <2>1 DEF Solves
<1>4. CASE S = {}
  BY <1>1, <1>3, <1>4 DEF Adds
<1>5. CASE S # {}
  <2> DEFINE R == S \ {First(S)}
  <2>1. Solves(v, SUBSET S, Sol(S)) /\ Solves(v, SUBSET R, Sol(R)) /\ R \subseteq S
    <3>1. S \in SUBSET S /\ R \in SUBSET S
      OBVIOUS
    <3> HIDE DEF R
    <3> QED BY <1>2, <3>1
  <2>2. R \in SUBSET R
    OBVIOUS
  <2> HIDE DEF R
  <2>3. \A t \in SUBSET R : Sol(S)[t] = Sol(R)[t]
    BY <2>1, SolutionsAgree
  <2>4. Sol(S)[R] = Sol(R)[R]
    BY <2>2, <2>3
  <2> QED BY <1>1, <1>3, <1>5, <2>4 DEF Adds, R
<1> QED BY <1>4, <1>5

(* The sum of integers is one, whichever of them is taken first.             *)
LEMMA SumTake ==
  ASSUME NEW v, NEW S, IsFiniteSet(S), \A x \in S : v[x] \in Int
  PROVE  /\ SumFunctionOnSet(v, {}) = 0
         /\ SumFunctionOnSet(v, S) \in Int
         /\ \A x \in S : SumFunctionOnSet(v, S) = v[x] + SumFunctionOnSet(v, S \ {x})
<1> DEFINE Sum(s) == SumFunctionOnSet(v, s)
           Right(s) == /\ Sum(s) \in Int
                       /\ \A x \in s : Sum(s) = v[x] + Sum(s \ {x})
           Bad == {s \in SUBSET S : ~Right(s)}
<1>1. \A s \in SUBSET S :
         Sum(s) = IF s = {} THEN 0 ELSE v[First(s)] + Sum(s \ {First(s)})
  BY SumFirst, FS_Subset
<1>2. \A s : s # {} => First(s) \in s
  BY DEF First
<1>3. SUFFICES ASSUME Bad # {} PROVE FALSE
  BY <1>1
<1>4. PICK t \in Bad : \A u \in Bad : u \subseteq t => u = t
  <2>1. Bad \in SUBSET SUBSET S
    OBVIOUS
  <2> HIDE DEF Bad
  <2> QED BY <1>3, <2>1, LeastSubset
<1>5. \A x \in t : Right(t \ {x})
  BY <1>4
<1> DEFINE y == First(t)
<1>6. t # {} /\ y \in t /\ t \in SUBSET S
  BY <1>1, <1>2, <1>4
<1>7. Sum(t) = v[y] + Sum(t \ {y}) /\ v[y] \in Int /\ Sum(t \ {y}) \in Int
  BY <1>1, <1>5, <1>6
<1> HIDE DEF y, Sum
<1>8. ASSUME NEW x \in t
      PROVE  Sum(t) = v[x] + Sum(t \ {x})
  <2>1. CASE x = y
    BY <1>7, <2>1
  <2>2. CASE x # y
    <3> DEFINE P == (t \ {x}) \ {y}
               Q == (t \ {y}) \ {x}
    <3>1. y \in t \ {x} /\ x \in t \ {y} /\ P = Q
      BY <1>6, <2>2
    <3>2. Sum(t \ {x}) = v[y] + Sum(P) /\ Sum(t \ {y}) = v[x] + Sum(Q)
      BY <1>5, <1>6, <3>1
    <3>3. /\ Sum(t \ {x}) \in Int /\ Sum(t \ {y}) \in Int
          /\ v[x] \in Int /\ v[y] \in Int
      BY <1>4, <1>5, <1>6
    <3>4. Sum(P) \in Int
      <4>1. P \in SUBSET S /\ P \subseteq t /\ x \in t /\ x \notin P
        BY <1>6
      <4>2. P \notin Bad
        BY <1>4, <4>1
      <4> QED BY <4>1, <4>2
    <3> HIDE DEF P, Q
    <3>5. Sum(P) = Sum(Q)
      BY <3>1
    <3> QED BY <1>7, <3>2, <3>3, <3>4, <3>5
  <2> QED BY <2>1, <2>2
<1>9. Right(t)
  BY <1>7, <1>8
<1> QED BY <1>4, <1>9

(* A sum over one index more.                                                *)
LEMMA SumAdd ==
  ASSUME NEW v, NEW S, NEW y, IsFiniteSet(S), y \notin S,
         \A x \in S \cup {y} : v[x] \in Int
  PROVE  SumFunctionOnSet(v, S \cup {y}) = SumFunctionOnSet(v, S) + v[y]
<1> DEFINE T == S \cup {y}
           R == T \ {y}
<1>1. IsFiniteSet(T)
  BY FS_AddElement
<1>2. y \in T /\ R = S /\ \A x \in T : v[x] \in Int
  OBVIOUS
<1>3. SumFunctionOnSet(v, S) \in Int
  BY SumTake
<1> HIDE DEF T
<1>4. SumFunctionOnSet(v, T) = v[y] + SumFunctionOnSet(v, R)
  BY <1>1, <1>2, SumTake
<1> HIDE DEF R
<1>5. SumFunctionOnSet(v, T) = v[y] + SumFunctionOnSet(v, S) /\ v[y] \in Int
  BY <1>2, <1>4
<1> QED BY <1>3, <1>5 DEF T

(* Functions that add up on every index add up over all of them.             *)
LEMMA SumPlus ==
  ASSUME NEW v, NEW d, NEW w, NEW S, IsFiniteSet(S),
         \A x \in S : v[x] \in Int /\ d[x] \in Int /\ w[x] = v[x] + d[x]
  PROVE  SumFunctionOnSet(w, S) = SumFunctionOnSet(v, S) + SumFunctionOnSet(d, S)
<1> DEFINE Sum(f, s) == SumFunctionOnSet(f, s)
           Bad == {s \in SUBSET S : Sum(w, s) # Sum(v, s) + Sum(d, s)}
<1>1. SUFFICES ASSUME Bad # {} PROVE FALSE
  OBVIOUS
<1>2. PICK t \in Bad : \A u \in Bad : u \subseteq t => u = t
  <2>1. Bad \in SUBSET SUBSET S
    OBVIOUS
  <2> HIDE DEF Bad
  <2> QED BY <1>1, <2>1, LeastSubset
<1>3. t \in SUBSET S /\ IsFiniteSet(t)
  BY <1>2, FS_Subset
<1>4. \A x \in t : v[x] \in Int /\ d[x] \in Int /\ w[x] \in Int /\ w[x] = v[x] + d[x]
  BY <1>3
<1>5. /\ Sum(w, {}) = 0 /\ Sum(v, {}) = 0 /\ Sum(d, {}) = 0
      /\ \A x \in t : /\ Sum(w, t) = w[x] + Sum(w, t \ {x})
                      /\ Sum(v, t) = v[x] + Sum(v, t \ {x})
                      /\ Sum(d, t) = d[x] + Sum(d, t \ {x})
  BY <1>3, <1>4, SumTake
<1>6. PICK x \in t : TRUE
  <2>1. {} \notin Bad /\ t \in Bad
    BY <1>2, <1>5
  <2>2. t # {}
    <3> HIDE DEF Bad
    <3> QED BY <2>1, Zenon
  <2> QED BY <2>2
<1> DEFINE r == t \ {x}
<1>7. IsFiniteSet(r) /\ \A y \in r : v[y] \in Int /\ d[y] \in Int
  BY <1>3, <1>4, FS_Subset
<1>8. Sum(w, r) = Sum(v, r) + Sum(d, r)
  BY <1>2, <1>3, <1>6
<1>9. Sum(v, r) \in Int /\ Sum(d, r) \in Int
  <2> HIDE DEF r
  <2> QED BY <1>7, SumTake
<1>10. Sum(w, t) = Sum(v, t) + Sum(d, t)
  BY <1>4, <1>5, <1>6, <1>8, <1>9
<1> QED BY <1>2, <1>10

(* Functions that are equal on every index have the same sum.                *)
LEMMA SumSame ==
  ASSUME NEW v, NEW w, NEW S, IsFiniteSet(S),
         \A x \in S : v[x] \in Int /\ w[x] = v[x]
  PROVE  SumFunctionOnSet(w, S) = SumFunctionOnSet(v, S)
<1> DEFINE z == [x \in S |-> 0]
<1>1. /\ SumFunctionOnSet(z, S) \in Int /\ SumFunctionOnSet(v, S) \in Int
      /\ SumFunctionOnSet(z, S) = SumFunctionOnSet(z, S) + SumFunctionOnSet(z, S)
      /\ SumFunctionOnSet(w, S) = SumFunctionOnSet(v, S) + SumFunctionOnSet(z, S)
  <2>1. \A x \in S : z[x] = 0
    OBVIOUS
  <2> HIDE DEF z
  <2>2. \A x \in S : z[x] \in Int /\ v[x] \in Int
    BY <2>1
  <2>3. SumFunctionOnSet(z, S) \in Int /\ SumFunctionOnSet(v, S) \in Int
    BY <2>2, SumTake
  <2>4. \A x \in S : z[x] \in Int /\ z[x] \in Int /\ z[x] = z[x] + z[x]
    BY <2>1
  <2>5. \A x \in S : v[x] \in Int /\ z[x] \in Int /\ w[x] = v[x] + z[x]
    BY <2>1
  <2>6. SumFunctionOnSet(z, S) = SumFunctionOnSet(z, S) + SumFunctionOnSet(z, S)
    BY <2>4, SumPlus
  <2>7. SumFunctionOnSet(w, S) = SumFunctionOnSet(v, S) + SumFunctionOnSet(z, S)
    BY <2>5, SumPlus
  <2> QED BY <2>3, <2>6, <2>7
<1> HIDE DEF z
<1> DEFINE a == SumFunctionOnSet(z, S)
           b == SumFunctionOnSet(v, S)
           c == SumFunctionOnSet(w, S)
<1>2. a \in Int /\ b \in Int /\ a = a + a /\ c = b + a
  BY <1>1
<1> HIDE DEF a, b, c
<1>3. c = b
  BY <1>2
<1> QED BY <1>3 DEF b, c

(* Changing the value of one index changes the sum by as much.               *)
LEMMA SumChange ==
  ASSUME NEW v, NEW w, NEW S, NEW y \in S, IsFiniteSet(S),
         w[y] \in Int, \A x \in S : v[x] \in Int,
         \A x \in S : x # y => w[x] = v[x]
  PROVE  SumFunctionOnSet(w, S) = SumFunctionOnSet(v, S) + w[y] - v[y]
<1> DEFINE r == S \ {y}
<1>1. IsFiniteSet(r) /\ \A x \in r : v[x] \in Int /\ w[x] = v[x]
  BY FS_Subset
<1>2. \A x \in S : w[x] \in Int
  OBVIOUS
<1>3. /\ SumFunctionOnSet(v, S) = v[y] + SumFunctionOnSet(v, r)
      /\ SumFunctionOnSet(w, S) = w[y] + SumFunctionOnSet(w, r)
  BY <1>2, SumTake
<1> HIDE DEF r
<1>4. SumFunctionOnSet(w, r) = SumFunctionOnSet(v, r) /\ SumFunctionOnSet(v, r) \in Int
  BY <1>1, SumSame, SumTake
<1> QED BY <1>3, <1>4

(* A sum over two sets that have no index in common.                         *)
LEMMA SumUnion ==
  ASSUME NEW v, NEW S, NEW T, IsFiniteSet(S), IsFiniteSet(T), S \cap T = {},
         \A x \in S \cup T : v[x] \in Int
  PROVE  SumFunctionOnSet(v, S \cup T) = SumFunctionOnSet(v, S) + SumFunctionOnSet(v, T)
<1> DEFINE Sum(s) == SumFunctionOnSet(v, s)
           Bad == {t \in SUBSET T : Sum(S \cup t) # Sum(S) + Sum(t)}
<1>1. SUFFICES ASSUME Bad # {} PROVE FALSE
  OBVIOUS
<1>2. PICK t \in Bad : \A u \in Bad : u \subseteq t => u = t
  <2>1. Bad \in SUBSET SUBSET T
    OBVIOUS
  <2> HIDE DEF Bad
  <2> QED BY <1>1, <2>1, LeastSubset
<1>3. t \in SUBSET T /\ Sum(S \cup t) # Sum(S) + Sum(t)
  BY <1>2
<1>4. Sum(S) \in Int /\ Sum({}) = 0
  BY SumTake
<1>5. CASE t = {}
  <2>1. S \cup t = S
    BY <1>5
  <2> QED BY <1>3, <1>4, <1>5, <2>1
<1>6. CASE t # {}
  <2>1. PICK y \in t : TRUE
    BY <1>6
  <2> DEFINE r == t \ {y}
             A == S \cup r
             B == A \cup {y}
             C == r \cup {y}
  <2>2. /\ IsFiniteSet(r) /\ IsFiniteSet(A)
        /\ y \notin r /\ y \notin A /\ \A x \in A \cup {y} : v[x] \in Int
        /\ \A x \in r \cup {y} : v[x] \in Int
    <3>1. IsFiniteSet(r)
      BY <1>3, FS_Subset
    <3>2. IsFiniteSet(A)
      BY <3>1, FS_Union
    <3> QED BY <1>3, <2>1, <3>1, <3>2
  <2>3. B = S \cup t /\ C = t
    BY <2>1
  <2>4. Sum(A) = Sum(S) + Sum(r)
    BY <1>2, <2>1
  <2> HIDE DEF A, r
  <2>5. Sum(B) = Sum(A) + v[y] /\ Sum(C) = Sum(r) + v[y]
    BY <2>2, SumAdd
  <2>6. Sum(r) \in Int /\ v[y] \in Int
    BY <2>2, SumTake
  <2> HIDE DEF B, C
  <2>7. Sum(B) = Sum(S) + Sum(C)
    BY <1>4, <2>4, <2>5, <2>6
  <2> QED BY <1>3, <2>3, <2>7
<1> QED BY <1>5, <1>6

(* What is summed for each owner sums up to what is summed at once.          *)
OwnerSums(v, S, o, U) == [u \in U |-> SumFunctionOnSet(v, {x \in S : o[x] = u})]

LEMMA SumByOwner ==
  ASSUME NEW v, NEW S, NEW o, NEW U, IsFiniteSet(S), IsFiniteSet(U),
         \A x \in S : v[x] \in Int /\ o[x] \in U
  PROVE  SumFunctionOnSet(OwnerSums(v, S, o, U), U) = SumFunctionOnSet(v, S)
<1> DEFINE Sum(s) == SumFunctionOnSet(v, s)
           Part(s, u) == {x \in s : o[x] = u}
           Parts(s) == [u \in U |-> Sum(Part(s, u))]
           Bad == {s \in SUBSET S : SumFunctionOnSet(Parts(s), U) # Sum(s)}
<1>0. \A s \in SUBSET S : /\ IsFiniteSet(s) /\ Sum(s) \in Int
                          /\ \A u : IsFiniteSet(Part(s, u)) /\ Sum(Part(s, u)) \in Int
  <2>1. ASSUME NEW s \in SUBSET S
        PROVE  IsFiniteSet(s) /\ Sum(s) \in Int
    BY FS_Subset, SumTake
  <2>2. \A s \in SUBSET S : \A u : Part(s, u) \in SUBSET S
    OBVIOUS
  <2> HIDE DEF Sum, Part
  <2> QED BY <2>1, <2>2
<1>1. Bad = {}
  <2>1. SUFFICES ASSUME Bad # {} PROVE FALSE
    OBVIOUS
  <2>2. PICK t \in Bad : \A u \in Bad : u \subseteq t => u = t
    <3>1. Bad \in SUBSET SUBSET S
      OBVIOUS
    <3> HIDE DEF Bad
    <3> QED BY <2>1, <3>1, LeastSubset
  <2>3. t \in SUBSET S /\ SumFunctionOnSet(Parts(t), U) # Sum(t)
    BY <2>2
  <2>4. CASE t = {}
    <3> DEFINE z == [u \in U |-> 0]
    <3>1. /\ SumFunctionOnSet(z, U) \in Int
          /\ SumFunctionOnSet(z, U) = SumFunctionOnSet(z, U) + SumFunctionOnSet(z, U)
      <4>1. \A u \in U : z[u] = 0
        OBVIOUS
      <4> HIDE DEF z
      <4> QED BY <4>1, SumTake, SumPlus
    <3>2. Sum(t) = 0
      BY <2>4, SumTake, FS_EmptySet
    <3>3. Parts(t) = z
      <4>1. \A u \in U : Part(t, u) = t
        BY <2>4
      <4> HIDE DEF Sum, Part
      <4> QED BY <3>2, <4>1
    <3> DEFINE f == Parts(t)
               a == SumFunctionOnSet(z, U)
               b == SumFunctionOnSet(f, U)
    <3>4. b # 0 /\ f = z /\ a \in Int /\ a = a + a
      BY <2>3, <3>1, <3>2, <3>3
    <3>5. a = b
      <4> HIDE DEF f, z
      <4> QED BY <3>4
    <3> HIDE DEF a, b, f
    <3> QED BY <3>4, <3>5
  <2>5. CASE t # {}
    <3>1. PICK y \in t : TRUE
      BY <2>5
    <3> DEFINE r == t \ {y}
    <3>2. /\ r \in SUBSET S /\ o[y] \in U /\ v[y] \in Int
          /\ SumFunctionOnSet(Parts(r), U) = Sum(r)
      BY <2>2, <2>3, <3>1
    <3>3. Sum(t) = v[y] + Sum(r)
      <4>1. IsFiniteSet(t) /\ \A x \in t : v[x] \in Int
        BY <1>0, <2>3
      <4> QED BY <3>1, <4>1, SumTake
    <3>4. Sum(Part(t, o[y])) = v[y] + Sum(Part(r, o[y]))
      <4> DEFINE P == Part(t, o[y])
                 Q == P \ {y}
      <4>1. IsFiniteSet(P) /\ \A x \in P : v[x] \in Int
        BY <1>0, <2>3
      <4>2. y \in P /\ Q = Part(r, o[y])
        BY <3>1
      <4> HIDE DEF P
      <4>3. Sum(P) = v[y] + Sum(Q)
        BY <4>1, <4>2, SumTake
      <4> HIDE DEF Q, Sum, Part
      <4>4. Sum(P) = v[y] + Sum(Part(r, o[y]))
        BY <4>2, <4>3
      <4> QED BY <4>4 DEF P
    <3>5. \A u \in U : u # o[y] => Part(t, u) = Part(r, u)
      OBVIOUS
    <3> DEFINE f == Parts(r)
               g == Parts(t)
    <3>6. /\ \A u \in U : f[u] \in Int /\ g[u] \in Int
          /\ \A u \in U : u # o[y] => g[u] = f[u]
          /\ g[o[y]] = v[y] + f[o[y]]
      <4> HIDE DEF Sum, Part, r
      <4> QED BY <1>0, <2>3, <3>2, <3>4, <3>5
    <3>7. SumFunctionOnSet(f, U) = Sum(r) /\ SumFunctionOnSet(g, U) # Sum(t)
      BY <2>3, <3>2
    <3>8. Sum(r) \in Int
      BY <1>0, <3>2
    <3> DEFINE u == o[y]
    <3>9. /\ u \in U /\ v[y] \in Int /\ g[u] \in Int /\ f[u] \in Int
          /\ \A x \in U : f[x] \in Int
          /\ \A x \in U : x # u => g[x] = f[x]
          /\ g[u] = v[y] + f[u]
      <4> HIDE DEF f, g
      <4> QED BY <3>2, <3>6
    <3> HIDE DEF f, g, r, u
    <3>10. SumFunctionOnSet(g, U) = SumFunctionOnSet(f, U) + g[u] - f[u]
      <4>1. u \in U /\ IsFiniteSet(U) /\ g[u] \in Int
        BY <3>9
      <4>2. \A x \in U : f[x] \in Int
        BY <3>9
      <4>3. \A x \in U : x # u => g[x] = f[x]
        BY <3>9
      <4> QED BY <4>1, <4>2, <4>3, SumChange
    <3> HIDE DEF Sum
    <3> QED BY <3>3, <3>7, <3>8, <3>9, <3>10
  <2> QED BY <2>4, <2>5
<1>2. SumFunctionOnSet(Parts(S), U) = Sum(S)
  <2>1. S \in SUBSET S
    OBVIOUS
  <2> HIDE DEF Sum, Parts
  <2> QED BY <1>1, <2>1
<1> QED BY <1>2 DEF OwnerSums

(* A sum of equal values is their number times the value.                    *)
LEMMA SumConstant ==
  ASSUME NEW v, NEW S, NEW c \in Int, IsFiniteSet(S), \A x \in S : v[x] = c
  PROVE  SumFunctionOnSet(v, S) = c * Cardinality(S)
<1> DEFINE Sum(s) == SumFunctionOnSet(v, s)
           Bad == {s \in SUBSET S : Sum(s) # c * Cardinality(s)}
<1>1. SUFFICES ASSUME Bad # {} PROVE FALSE
  OBVIOUS
<1>2. PICK t \in Bad : \A u \in Bad : u \subseteq t => u = t
  <2>1. Bad \in SUBSET SUBSET S
    OBVIOUS
  <2> HIDE DEF Bad
  <2> QED BY <1>1, <2>1, LeastSubset
<1>3. t \in SUBSET S /\ IsFiniteSet(t) /\ Sum(t) # c * Cardinality(t)
  BY <1>2, FS_Subset
<1>4. Sum({}) = 0 /\ \A x \in t : Sum(t) = v[x] + Sum(t \ {x})
  BY <1>3, SumTake
<1>5. CASE t = {}
  BY <1>3, <1>4, <1>5, FS_EmptySet
<1>6. CASE t # {}
  <2>1. PICK y \in t : v[y] = c
    BY <1>3, <1>6
  <2> DEFINE r == t \ {y}
             n == Cardinality(r)
  <2>2. Cardinality(t) = n + 1 /\ n \in Nat
    <3>1. /\ IsFiniteSet(t \ {y}) /\ Cardinality(t) \in Nat
          /\ Cardinality(t \ {y}) = Cardinality(t) - 1
      BY <1>3, FS_RemoveElement, FS_CardinalityType
    <3>2. Cardinality(t \ {y}) \in Nat
      BY <3>1, FS_CardinalityType
    <3> QED BY <3>1, <3>2
  <2>3. Sum(r) = c * n
    BY <1>2, <1>3, <2>1
  <2>4. Sum(t) = c + Sum(r)
    BY <1>4, <2>1
  <2> HIDE DEF n, r, Sum
  <2>5. c * (n + 1) = c + c * n
    BY <2>2
  <2> QED BY <1>3, <2>2, <2>3, <2>4, <2>5
<1> QED BY <1>5, <1>6

(* A sum of naturals is none the smaller for more of them.                   *)
LEMMA SumOfNaturals ==
  ASSUME NEW v, NEW S, IsFiniteSet(S), \A x \in S : v[x] \in Nat
  PROVE  SumFunctionOnSet(v, S) >= 0
<1> DEFINE Sum(s) == SumFunctionOnSet(v, s)
           Bad == {s \in SUBSET S : ~(Sum(s) >= 0)}
<1>1. SUFFICES ASSUME Bad # {} PROVE FALSE
  OBVIOUS
<1>2. PICK t \in Bad : \A u \in Bad : u \subseteq t => u = t
  <2>1. Bad \in SUBSET SUBSET S
    OBVIOUS
  <2> HIDE DEF Bad
  <2> QED BY <1>1, <2>1, LeastSubset
<1>3. t \in SUBSET S /\ IsFiniteSet(t)
  BY <1>2, FS_Subset
<1>4. Sum({}) = 0 /\ Sum(t) \in Int /\ \A x \in t : Sum(t) = v[x] + Sum(t \ {x})
  BY <1>3, SumTake
<1>5. PICK y \in t : v[y] \in Nat
  <2>1. {} \notin Bad /\ t \in Bad
    BY <1>2, <1>4
  <2>2. t # {}
    <3> HIDE DEF Bad
    <3> QED BY <2>1, Zenon
  <2> QED BY <1>3, <2>2
<1> DEFINE r == t \ {y}
<1>6. Sum(r) >= 0
  BY <1>2, <1>3, <1>5
<1>7. Sum(r) \in Int
  <2>1. IsFiniteSet(r) /\ \A x \in r : v[x] \in Int
    BY <1>3, FS_Subset
  <2> HIDE DEF r
  <2> QED BY <2>1, SumTake
<1> QED BY <1>2, <1>4, <1>5, <1>6, <1>7
=============================================================================
