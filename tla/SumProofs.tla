------------------------------- MODULE SumProofs -------------------------------
(***************************************************************************)
(* Sums over finite sets.  The balances of the token, the stakes behind a  *)
(* proposal and the gas of a block are sums that the model writes with the *)
(* folds of Functions; these lemmas say what such a fold computes, for     *)
(* every finite set.                                                       *)
(*                                                                         *)
(* A fold is the value of a recursive function, chosen by its equation.    *)
(* Induction is a statement about sets here: the numbers that break a      *)
(* claim have a least element (LeastNumber), hence a set that holds a set  *)
(* s whenever it holds the proper subsets of s holds every finite set      *)
(* (SubsetInduction).  From it follow that the function exists (SumExists) *)
(* and is unique (SameSum), and then the facts that the components use.    *)
(***************************************************************************)
EXTENDS Functions, Integers, FiniteSets, FiniteSetTheorems, NaturalsInduction,
        WellFoundedInduction, TLAPS

(* A nonempty set of natural numbers has a least element. *)
LEMMA LeastNumber ==
    ASSUME NEW T, T \subseteq Nat, T # {}
    PROVE  \E x \in T : \A y \in T : x <= y
<1> DEFINE R == OpToRel(<, Nat)
<1>1. \A x, y \in Nat : <<y, x>> \in R <=> y < x
  BY DEF OpToRel
<1>2. IsWellFoundedOn(R, Nat)
  BY NatLessThanWellFounded
<1> HIDE DEF R
<1>3. PICK x \in T : \A y \in T : ~(<<y, x>> \in R)
  BY <1>2, WFMin
<1>4. \A y \in T : x \in Nat /\ y \in Nat /\ ~(y < x)
  BY <1>1, <1>3
<1>5. QED
  BY <1>4

(* Induction over the subsets of a finite set S: if T holds a subset       *)
(* whenever it holds the proper subsets of that one, T holds them all.     *)
LEMMA SubsetInduction ==
    ASSUME NEW S, IsFiniteSet(S), NEW T,
           \A s \in SUBSET S : (\A t \in SUBSET s : t # s => t \in T) => s \in T
    PROVE  \A s \in SUBSET S : s \in T
<1> SUFFICES ASSUME NEW s0 \in SUBSET S, s0 \notin T
             PROVE  FALSE
  OBVIOUS
<1> DEFINE Bad == {s \in SUBSET S : s \notin T}
           Sizes == {Cardinality(s) : s \in Bad}
<1>1. \A s \in SUBSET S : IsFiniteSet(s) /\ Cardinality(s) \in Nat
  BY FS_Subset, FS_CardinalityType
<1>2. Sizes \subseteq Nat /\ Sizes # {}
  BY <1>1
<1>3. PICK n \in Sizes : \A m \in Sizes : n <= m
  <2> HIDE DEF Sizes
  <2> QED BY <1>2, LeastNumber
<1>4. PICK s \in Bad : n = Cardinality(s)
  BY <1>3
<1>5. \A t \in SUBSET s : t # s => t \in T
  <2> SUFFICES ASSUME NEW t \in SUBSET s, t # s, t \notin T
               PROVE  FALSE
    OBVIOUS
  <2>1. t \in Bad /\ Cardinality(t) \in Sizes
    OBVIOUS
  <2>2. Cardinality(t) < Cardinality(s)
    BY <1>1, FS_Subset
  <2>3. Cardinality(t) \in Nat /\ Cardinality(s) \in Nat /\ n <= Cardinality(t)
    BY <2>1, <1>1, <1>3
  <2>4. QED
    BY <2>2, <2>3, <1>4
<1>6. QED
  BY <1>5

-----------------------------------------------------------------------------
(* The element a fold takes next, and the equation of the function behind  *)
(* the sum of f over S.                                                    *)
AnyOf(s) == CHOOSE x \in s : TRUE
IsSum(f, S, g) ==
    g = [s \in SUBSET S |-> IF s = {} THEN 0 ELSE f[AnyOf(s)] + g[s \ {AnyOf(s)}]]

LEMMA AnyOfIn == ASSUME NEW s, s # {}
                 PROVE  AnyOf(s) \in s
  BY DEF AnyOf

(* A sum is the value of the function that its equation determines. *)
LEMMA SumUnfold ==
    ASSUME NEW f, NEW S
    PROVE  SumFunctionOnSet(f, S) = (CHOOSE g : IsSum(f, S, g))[S]
  BY Zenon DEF SumFunctionOnSet, FoldFunctionOnSet, MapThenFoldSet, IsSum, AnyOf

(* Two functions that agree on the empty set, and on a set when they do on *)
(* the set without its next element, agree everywhere.                     *)
LEMMA SameFold ==
    ASSUME NEW S, IsFiniteSet(S), NEW g, NEW h, g[{}] = h[{}],
           \A s \in SUBSET S : /\ s # {}
                               /\ g[s \ {AnyOf(s)}] = h[s \ {AnyOf(s)}]
                               => g[s] = h[s]
    PROVE  \A s \in SUBSET S : g[s] = h[s]
<1> DEFINE T == {s \in SUBSET S : g[s] = h[s]}
<1>1. ASSUME NEW s \in SUBSET S, \A t \in SUBSET s : t # s => t \in T
      PROVE  s \in T
  <2>1. CASE s = {}
    BY <2>1
  <2>2. CASE s # {}
    <3>1. s \ {AnyOf(s)} \in SUBSET s /\ s \ {AnyOf(s)} # s
      BY <2>2, AnyOfIn
    <3>2. s \ {AnyOf(s)} \in T
      BY <3>1, <1>1
    <3>3. QED
      BY <3>2, <2>2
  <2>3. QED
    BY <2>1, <2>2
<1>2. \A s \in SUBSET S : s \in T
  <2> HIDE DEF T
  <2> QED BY <1>1, SubsetInduction
<1>3. QED
  BY <1>2

LEMMA SameSum ==
    ASSUME NEW f, NEW S, IsFiniteSet(S), NEW g, NEW h, IsSum(f, S, g), IsSum(f, S, h)
    PROVE  g = h
<1>1. /\ DOMAIN g = SUBSET S /\ DOMAIN h = SUBSET S
      /\ g = [s \in DOMAIN g |-> g[s]] /\ h = [s \in DOMAIN h |-> h[s]]
  BY DEF IsSum
<1>2. g[{}] = 0 /\ h[{}] = 0
  BY DEF IsSum
<1>3. \A s \in SUBSET S : s # {} => /\ g[s] = f[AnyOf(s)] + g[s \ {AnyOf(s)}]
                                    /\ h[s] = f[AnyOf(s)] + h[s \ {AnyOf(s)}]
  BY DEF IsSum
<1>4. \A s \in SUBSET S : /\ s # {}
                          /\ g[s \ {AnyOf(s)}] = h[s \ {AnyOf(s)}]
                          => g[s] = h[s]
  BY <1>3
<1>5. g[{}] = h[{}]
  BY <1>2
<1>6. \A s \in SUBSET S : g[s] = h[s]
  BY <1>4, <1>5, SameFold
<1>7. QED
  BY <1>1, <1>6

(* The function restricted to the subsets of a smaller set is the one of   *)
(* that set.                                                               *)
LEMMA SumRestrict ==
    ASSUME NEW f, NEW S, IsFiniteSet(S), NEW g, IsSum(f, S, g), NEW R \in SUBSET S
    PROVE  g[R] = SumFunctionOnSet(f, R)
<1> DEFINE h == [s \in SUBSET R |-> g[s]]
<1>1. \A s \in SUBSET R : g[s] = IF s = {} THEN 0 ELSE f[AnyOf(s)] + g[s \ {AnyOf(s)}]
  BY DEF IsSum
<1>2. \A s \in SUBSET R : s \ {AnyOf(s)} \in SUBSET R
  OBVIOUS
<1>3. IsSum(f, R, h)
  BY <1>1, <1>2 DEF IsSum
<1> DEFINE k == CHOOSE x : IsSum(f, R, x)
<1>4. IsSum(f, R, k)
  <2> HIDE DEF h
  <2> QED BY <1>3
<1>5. IsFiniteSet(R)
  BY FS_Subset
<1>6. h = k
  <2> HIDE DEF h, k
  <2> QED BY <1>3, <1>4, <1>5, SameSum
<1>7. SumFunctionOnSet(f, R) = k[R]
  BY SumUnfold
<1>8. h[R] = g[R]
  OBVIOUS
<1>9. QED
  BY <1>6, <1>7, <1>8

(* The function exists, and its values are integers. *)
LEMMA SumExists ==
    ASSUME NEW S, IsFiniteSet(S), NEW f, \A x \in S : f[x] \in Int
    PROVE  \E g \in [SUBSET S -> Int] : IsSum(f, S, g)
<1> DEFINE T == {s \in SUBSET S : \E g \in [SUBSET s -> Int] : IsSum(f, s, g)}
<1>1. ASSUME NEW s \in SUBSET S, \A t \in SUBSET s : t # s => t \in T
      PROVE  s \in T
  <2> DEFINE V(t) == IF t = {} THEN 0
                     ELSE f[AnyOf(t)] + SumFunctionOnSet(f, t \ {AnyOf(t)})
             g == [t \in SUBSET s |-> V(t)]
  <2>1. ASSUME NEW t \in SUBSET s, t # s
        PROVE  SumFunctionOnSet(f, t) = V(t) /\ SumFunctionOnSet(f, t) \in Int
    <3>1. PICK h \in [SUBSET t -> Int] : IsSum(f, t, h)
      BY <2>1, <1>1
    <3>2. IsFiniteSet(t)
      BY FS_Subset
    <3>3. h[t] = SumFunctionOnSet(f, t)
      BY <3>1, <3>2, SumRestrict
    <3>4. t # {} => h[t \ {AnyOf(t)}] = SumFunctionOnSet(f, t \ {AnyOf(t)})
      BY <3>1, <3>2, SumRestrict
    <3>5. h[t] = IF t = {} THEN 0 ELSE f[AnyOf(t)] + h[t \ {AnyOf(t)}]
      BY <3>1 DEF IsSum
    <3>6. h[t] \in Int
      BY <3>1
    <3>7. QED
      BY <3>3, <3>4, <3>5, <3>6
  <2>2. ASSUME NEW t \in SUBSET s, t # {}
        PROVE  /\ t \ {AnyOf(t)} \in SUBSET s /\ t \ {AnyOf(t)} # s
               /\ AnyOf(t) \in S
    BY <2>2, AnyOfIn
  <2>3. ASSUME NEW t \in SUBSET s
        PROVE  g[t] \in Int /\ g[t] = IF t = {} THEN 0 ELSE f[AnyOf(t)] + g[t \ {AnyOf(t)}]
    <3>1. CASE t = {}
      BY <3>1
    <3>2. CASE t # {}
      <4> DEFINE u == t \ {AnyOf(t)}
      <4>1. u \in SUBSET s /\ u # s /\ f[AnyOf(t)] \in Int
        BY <3>2, <2>2
      <4>2. SumFunctionOnSet(f, u) = g[u] /\ SumFunctionOnSet(f, u) \in Int
        <5>1. SumFunctionOnSet(f, u) = V(u) /\ SumFunctionOnSet(f, u) \in Int
          <6> HIDE DEF u, V
          <6> QED BY <4>1, <2>1
        <5>2. g[u] = V(u)
          <6> HIDE DEF u, V
          <6> QED BY <4>1
        <5>3. QED
          BY <5>1, <5>2
      <4>3. g[t] = f[AnyOf(t)] + SumFunctionOnSet(f, u)
        BY <3>2
      <4> HIDE DEF u, V, g
      <4>4. g[t] \in Int /\ g[t] = f[AnyOf(t)] + g[u]
        BY <4>1, <4>2, <4>3
      <4>5. QED
        BY <4>4, <3>2 DEF u
    <3>3. QED
      BY <3>1, <3>2
  <2>4. g \in [SUBSET s -> Int] /\ IsSum(f, s, g)
    BY <2>3 DEF IsSum
  <2>5. QED
    <3> HIDE DEF g
    <3> QED BY <2>4
<1>2. S \in T
  <2> HIDE DEF T
  <2> QED BY <1>1, SubsetInduction
<1>3. QED
  BY <1>2

-----------------------------------------------------------------------------
(* A sum is an integer, 0 over the empty set, and over any other set it is *)
(* what the element chosen and the rest add up to.                         *)
LEMMA SumType ==
    ASSUME NEW S, IsFiniteSet(S), NEW f, \A x \in S : f[x] \in Int
    PROVE  SumFunctionOnSet(f, S) \in Int
<1>1. PICK g \in [SUBSET S -> Int] : IsSum(f, S, g)
  BY SumExists
<1>2. g[S] = SumFunctionOnSet(f, S)
  BY <1>1, SumRestrict
<1>3. QED
  BY <1>1, <1>2

LEMMA SumEmpty ==
    ASSUME NEW f
    PROVE  SumFunctionOnSet(f, {}) = 0
<1>1. PICK g \in [SUBSET {} -> Int] : IsSum(f, {}, g)
  BY SumExists, FS_EmptySet
<1>2. SumFunctionOnSet(f, {}) = g[{}]
  BY <1>1, SumRestrict, FS_EmptySet
<1>3. QED
  BY <1>1, <1>2 DEF IsSum

LEMMA SumChosen ==
    ASSUME NEW S, IsFiniteSet(S), S # {}, NEW f, \A x \in S : f[x] \in Int
    PROVE  SumFunctionOnSet(f, S)
               = f[AnyOf(S)] + SumFunctionOnSet(f, S \ {AnyOf(S)})
<1>1. PICK g \in [SUBSET S -> Int] : IsSum(f, S, g)
  BY SumExists
<1>2. /\ g[S] = SumFunctionOnSet(f, S)
      /\ g[S \ {AnyOf(S)}] = SumFunctionOnSet(f, S \ {AnyOf(S)})
  BY <1>1, SumRestrict
<1>3. g[S] = f[AnyOf(S)] + g[S \ {AnyOf(S)}]
  BY <1>1 DEF IsSum
<1>4. QED
  BY <1>2, <1>3

(* The order in which a sum is taken makes no difference: any element can  *)
(* be split off.                                                           *)
LEMMA SumSplit ==
    ASSUME NEW S, IsFiniteSet(S), NEW f, \A x \in S : f[x] \in Int, NEW e \in S
    PROVE  SumFunctionOnSet(f, S) = f[e] + SumFunctionOnSet(f, S \ {e})
<1> DEFINE Sum(s) == SumFunctionOnSet(f, s)
           T == {s \in SUBSET S : \A x \in s : Sum(s) = f[x] + Sum(s \ {x})}
<1>1. \A s \in SUBSET S : IsFiniteSet(s) /\ Sum(s) \in Int
  BY FS_Subset, SumType
<1>2. \A s \in SUBSET S : s # {} => Sum(s) = f[AnyOf(s)] + Sum(s \ {AnyOf(s)})
  BY <1>1, SumChosen
<1> HIDE DEF Sum
<1>3. ASSUME NEW s \in SUBSET S, \A t \in SUBSET s : t # s => t \in T
      PROVE  s \in T
  <2> SUFFICES ASSUME NEW x \in s
               PROVE  Sum(s) = f[x] + Sum(s \ {x})
    OBVIOUS
  <2> DEFINE c == AnyOf(s)
  <2>1. c \in s /\ Sum(s) = f[c] + Sum(s \ {c})
    BY <1>2, AnyOfIn
  <2> HIDE DEF c
  <2>2. CASE x = c
    BY <2>1, <2>2
  <2>3. CASE x # c
    <3>1. s \ {c} \in T /\ s \ {x} \in T
      BY <2>1, <1>3
    <3>2. /\ Sum(s \ {c}) = f[x] + Sum((s \ {c}) \ {x})
          /\ Sum(s \ {x}) = f[c] + Sum((s \ {x}) \ {c})
      BY <3>1, <2>1, <2>3
    <3>3. (s \ {c}) \ {x} = (s \ {x}) \ {c}
      OBVIOUS
    <3>4. f[x] \in Int /\ f[c] \in Int /\ Sum((s \ {x}) \ {c}) \in Int
      BY <1>1, <2>1
    <3> DEFINE r == Sum((s \ {x}) \ {c})
    <3>5. /\ Sum(s) = f[c] + (f[x] + r)
          /\ Sum(s \ {x}) = f[c] + r
      BY <2>1, <3>2, <3>3
    <3>6. f[x] \in Int /\ f[c] \in Int /\ r \in Int
      BY <3>4
    <3> HIDE DEF r
    <3>7. QED
      BY <3>5, <3>6
  <2>4. QED
    BY <2>2, <2>3
<1>4. S \in T
  <2> HIDE DEF T
  <2> QED BY <1>3, SubsetInduction
<1>5. QED
  BY <1>4 DEF Sum

LEMMA SumAdd ==
    ASSUME NEW S, IsFiniteSet(S), NEW e, e \notin S,
           NEW f, \A x \in S \cup {e} : f[x] \in Int
    PROVE  SumFunctionOnSet(f, S \cup {e}) = f[e] + SumFunctionOnSet(f, S)
<1>1. IsFiniteSet(S \cup {e}) /\ (S \cup {e}) \ {e} = S
  BY FS_AddElement
<1>2. QED
  BY <1>1, SumSplit

(* Only the values on the set count, and larger values make larger sums.   *)
LEMMA SumMonotone ==
    ASSUME NEW S, IsFiniteSet(S), NEW f, NEW g,
           \A x \in S : f[x] \in Int /\ g[x] \in Int /\ f[x] <= g[x]
    PROVE  SumFunctionOnSet(f, S) <= SumFunctionOnSet(g, S)
<1> DEFINE F(s) == SumFunctionOnSet(f, s)
           G(s) == SumFunctionOnSet(g, s)
           T == {s \in SUBSET S : F(s) <= G(s)}
<1>1. \A s \in SUBSET S : IsFiniteSet(s) /\ F(s) \in Int /\ G(s) \in Int
  BY FS_Subset, SumType
<1>2. \A s \in SUBSET S : s # {} => /\ F(s) = f[AnyOf(s)] + F(s \ {AnyOf(s)})
                                    /\ G(s) = g[AnyOf(s)] + G(s \ {AnyOf(s)})
  BY <1>1, SumChosen
<1>3. F({}) = 0 /\ G({}) = 0
  BY SumEmpty
<1> HIDE DEF F, G
<1>4. ASSUME NEW s \in SUBSET S, \A t \in SUBSET s : t # s => t \in T
      PROVE  s \in T
  <2>1. CASE s = {}
    BY <2>1, <1>3
  <2>2. CASE s # {}
    <3>1. AnyOf(s) \in s /\ s \ {AnyOf(s)} \in T
      BY <2>2, <1>4, AnyOfIn
    <3>2. /\ f[AnyOf(s)] \in Int /\ g[AnyOf(s)] \in Int /\ f[AnyOf(s)] <= g[AnyOf(s)]
          /\ F(s \ {AnyOf(s)}) \in Int /\ G(s \ {AnyOf(s)}) \in Int
          /\ F(s \ {AnyOf(s)}) <= G(s \ {AnyOf(s)})
      BY <3>1, <1>1
    <3>3. F(s) <= G(s)
      BY <3>2, <1>2, <2>2
    <3>4. QED
      BY <3>3
  <2>3. QED
    BY <2>1, <2>2
<1>5. S \in T
  <2> HIDE DEF T
  <2> QED BY <1>4, SubsetInduction
<1>6. QED
  BY <1>5 DEF F, G

LEMMA SumSame ==
    ASSUME NEW S, IsFiniteSet(S), NEW f, NEW g,
           \A x \in S : f[x] \in Int /\ g[x] = f[x]
    PROVE  SumFunctionOnSet(f, S) = SumFunctionOnSet(g, S)
<1>1. \A x \in S : f[x] \in Int /\ g[x] \in Int /\ f[x] <= g[x] /\ g[x] <= f[x]
  OBVIOUS
<1>2. /\ SumFunctionOnSet(f, S) <= SumFunctionOnSet(g, S)
      /\ SumFunctionOnSet(g, S) <= SumFunctionOnSet(f, S)
      /\ SumFunctionOnSet(f, S) \in Int /\ SumFunctionOnSet(g, S) \in Int
  BY <1>1, SumMonotone, SumType
<1>3. QED
  BY <1>2

(* A sum of zeros. *)
LEMMA SumZero ==
    ASSUME NEW S, IsFiniteSet(S), NEW f, \A x \in S : f[x] = 0
    PROVE  SumFunctionOnSet(f, S) = 0
<1> DEFINE T == {s \in SUBSET S : SumFunctionOnSet(f, s) = 0}
<1>1. ASSUME NEW s \in SUBSET S, \A t \in SUBSET s : t # s => t \in T
      PROVE  s \in T
  <2>1. CASE s = {}
    BY <2>1, SumEmpty
  <2>2. CASE s # {}
    <3>1. AnyOf(s) \in s /\ s \ {AnyOf(s)} \in T /\ IsFiniteSet(s)
      BY <2>2, <1>1, AnyOfIn, FS_Subset
    <3>2. SumFunctionOnSet(f, s) = f[AnyOf(s)] + SumFunctionOnSet(f, s \ {AnyOf(s)})
      <4>1. \A x \in s : f[x] \in Int
        OBVIOUS
      <4>2. QED
        BY <2>2, <3>1, <4>1, SumChosen
    <3>3. QED
      BY <3>1, <3>2
  <2>3. QED
    BY <2>1, <2>2
<1>2. S \in T
  <2> HIDE DEF T
  <2> QED BY <1>1, SubsetInduction
<1>3. QED
  BY <1>2

(* A sum of natural numbers is one. *)
LEMMA SumNat ==
    ASSUME NEW S, IsFiniteSet(S), NEW f, \A x \in S : f[x] \in Nat
    PROVE  SumFunctionOnSet(f, S) \in Nat
<1> DEFINE z == [x \in S |-> 0]
<1>1. \A x \in S : z[x] \in Int /\ f[x] \in Int /\ z[x] <= f[x]
  OBVIOUS
<1>2. SumFunctionOnSet(z, S) = 0
  BY SumZero
<1>3. SumFunctionOnSet(z, S) <= SumFunctionOnSet(f, S) /\ SumFunctionOnSet(f, S) \in Int
  <2> HIDE DEF z
  <2> QED BY <1>1, SumMonotone, SumType
<1>4. QED
  BY <1>2, <1>3

(* Changing one summand changes the sum by the difference. *)
LEMMA SumChange ==
    ASSUME NEW S, IsFiniteSet(S), NEW f, NEW g, NEW e \in S,
           \A x \in S : f[x] \in Int, g[e] \in Int,
           \A x \in S : x # e => g[x] = f[x]
    PROVE  SumFunctionOnSet(g, S) = SumFunctionOnSet(f, S) + g[e] - f[e]
<1>1. /\ SumFunctionOnSet(f, S) = f[e] + SumFunctionOnSet(f, S \ {e})
      /\ SumFunctionOnSet(g, S) = g[e] + SumFunctionOnSet(g, S \ {e})
  BY SumSplit
<1>2. IsFiniteSet(S \ {e})
  BY FS_RemoveElement
<1>3. \A x \in S \ {e} : f[x] \in Int /\ g[x] = f[x]
  OBVIOUS
<1>4. /\ SumFunctionOnSet(f, S \ {e}) = SumFunctionOnSet(g, S \ {e})
      /\ SumFunctionOnSet(f, S \ {e}) \in Int
  BY <1>2, <1>3, SumSame, SumType
<1>5. QED
  BY <1>1, <1>4

-----------------------------------------------------------------------------
(* Counting modulo W: the remainder may be taken before or after an        *)
(* addition.                                                               *)
LEMMA RemainderUnique ==
    ASSUME NEW W \in Nat \ {0}, NEW q \in Int, NEW r \in 0..(W - 1)
    PROVE  (W * q + r) % W = r
  BY Z3

LEMMA RemainderOfSum ==
    ASSUME NEW W \in Nat \ {0}, NEW a \in Int, NEW b \in Int
    PROVE  (a + (b % W)) % W = (a + b) % W
<1> DEFINE q == b \div W
           r == b % W
           p == (a + r) \div W
           t == (a + r) % W
<1>1. q \in Int /\ r \in 0..(W - 1) /\ b = W * q + r
  BY Z3
<1>2. p \in Int /\ t \in 0..(W - 1) /\ a + r = W * p + t
  BY <1>1, Z3
<1> HIDE DEF q, r, p, t
<1>3. q + p \in Int /\ a + b = W * (q + p) + t
  BY <1>1, <1>2, Z3
<1>4. (a + b) % W = t
  BY <1>3, <1>2, RemainderUnique
<1>5. QED
  BY <1>4 DEF r, t

(* The equation of the function behind a sum that is reduced modulo W at   *)
(* every addition: the remainder of the sum.                               *)
IsSumModulo(f, S, W, g) ==
    g = [s \in SUBSET S |->
            IF s = {} THEN 0 ELSE (f[AnyOf(s)] + g[s \ {AnyOf(s)}]) % W]

LEMMA SumModulo ==
    ASSUME NEW S, IsFiniteSet(S), NEW f, \A x \in S : f[x] \in Int, NEW W \in Nat \ {0}
    PROVE  (CHOOSE g : IsSumModulo(f, S, W, g))[S] = SumFunctionOnSet(f, S) % W
<1> DEFINE Sum(s) == SumFunctionOnSet(f, s)
           h == [s \in SUBSET S |-> Sum(s) % W]
           k == CHOOSE g : IsSumModulo(f, S, W, g)
<1>1. \A s \in SUBSET S : IsFiniteSet(s) /\ Sum(s) \in Int
  BY FS_Subset, SumType
<1>2. \A s \in SUBSET S : s # {} => Sum(s) = f[AnyOf(s)] + Sum(s \ {AnyOf(s)})
  BY <1>1, SumChosen
<1>3. Sum({}) = 0
  BY SumEmpty
<1> HIDE DEF Sum
<1>4. ASSUME NEW s \in SUBSET S, s # {}
      PROVE  h[s] = (f[AnyOf(s)] + h[s \ {AnyOf(s)}]) % W
  <2> DEFINE a == f[AnyOf(s)]
             b == Sum(s \ {AnyOf(s)})
             v == h[s \ {AnyOf(s)}]
  <2>1. a \in Int /\ b \in Int
    BY <1>1, <1>4, AnyOfIn
  <2>2. h[s] = (a + b) % W /\ v = b % W
    BY <1>2, <1>4
  <2> HIDE DEF a, b, h, v
  <2>3. (a + (b % W)) % W = (a + b) % W
    BY <2>1, RemainderOfSum
  <2>4. h[s] = (a + v) % W
    BY <2>2, <2>3
  <2>5. QED
    BY <2>4 DEF a, v
<1>5. h[{}] = 0
  <2>1. 0 % W = 0
    BY Z3
  <2>2. QED
    BY <1>3, <2>1
<1>6. IsSumModulo(f, S, W, h)
  <2>1. \A s \in SUBSET S : h[s] = IF s = {} THEN 0 ELSE (f[AnyOf(s)] + h[s \ {AnyOf(s)}]) % W
    BY <1>4, <1>5
  <2>2. h = [s \in SUBSET S |-> h[s]]
    OBVIOUS
  <2> HIDE DEF h
  <2>3. QED
    BY <2>1, <2>2 DEF IsSumModulo
<1>7. IsSumModulo(f, S, W, k)
  <2> HIDE DEF h
  <2> QED BY <1>6
<1>8. h[S] = k[S]
  <2> HIDE DEF h, k
  <2>1. \A s \in SUBSET S : s # {} => /\ h[s] = (f[AnyOf(s)] + h[s \ {AnyOf(s)}]) % W
                                      /\ k[s] = (f[AnyOf(s)] + k[s \ {AnyOf(s)}]) % W
    BY <1>6, <1>7 DEF IsSumModulo
  <2>2. \A s \in SUBSET S : /\ s # {}
                            /\ h[s \ {AnyOf(s)}] = k[s \ {AnyOf(s)}]
                            => h[s] = k[s]
    BY <2>1
  <2>3. h[{}] = k[{}]
    BY <1>5, <1>7 DEF IsSumModulo
  <2>4. \A s \in SUBSET S : h[s] = k[s]
    BY <2>2, <2>3, SameFold
  <2>5. QED
    BY <2>4
<1>9. QED
  BY <1>8 DEF Sum

=============================================================================
