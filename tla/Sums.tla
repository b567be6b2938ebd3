--------------------------------- MODULE Sums --------------------------------
(***************************************************************************)
(* Induction and sums.  The library's induction theorems are about an      *)
(* operator; here they are about sets: a set of numbers has a least        *)
(* element, a set of subsets of a finite set has a smallest one.  A claim  *)
(* is proved for all by looking at the least of those of which it does not *)
(* hold.  From this follows what the folds of the community modules, which *)
(* are defined by recursion on the subsets of a set, compute when they add *)
(* up the weights of its members.                                          *)
(***************************************************************************)
EXTENDS Integers, FiniteSetsExt, FiniteSetTheorems, WellFoundedInduction, TLAPS

LEMMA LeastNumber ==
  ASSUME NEW T \in SUBSET Nat, T # {}
  PROVE  \E n \in T : \A m \in T : n <= m
<1> DEFINE R == {ss \in Nat \X Nat : ss[1] < ss[2]}
<1>1. IsWellFoundedOn(R, Nat)
  BY NatLessThanWellFounded DEF OpToRel
<1>2. PICK x \in T : \A y \in T : ~ (<<y, x>> \in R)
  BY <1>1, WFMin
<1>3. \A y \in T : ~ (y < x)
  BY <1>2
<1> QED BY <1>3

LEMMA SmallestSubset ==
  ASSUME NEW S, IsFiniteSet(S), NEW B \in SUBSET (SUBSET S), B # {}
  PROVE  \E t \in B : \A u \in B : u \subseteq t => u = t
<1> DEFINE R == StrictSubsetOrdering(S)
<1>1. IsWellFoundedOn(R, SUBSET S)
  BY FS_StrictSubsetOrderingWellFounded, FS_FiniteSubsetsOfFinite
<1>2. PICK t \in B : \A u \in B : ~ (<<u, t>> \in R)
  <2> HIDE DEF R
  <2> QED BY <1>1, WFMin
<1>3. ASSUME NEW u \in B, u \subseteq t, u # t PROVE FALSE
  BY <1>2, <1>3 DEF StrictSubsetOrdering
<1> QED BY <1>3

LEMMA GreatestNumber ==
  ASSUME NEW S, \A x \in S : x \in Nat, IsFiniteSet(S), S # {}
  PROVE  \E x \in S : \A y \in S : x >= y
<1> DEFINE B == {t \in SUBSET S : t # {} /\ ~ \E x \in t : \A y \in t : x >= y}
<1>1. SUFFICES ASSUME B # {} PROVE FALSE
  OBVIOUS
<1>2. PICK t \in B : \A o \in B : o \subseteq t => o = t
  <2> HIDE DEF B
  <2>1. B \in SUBSET (SUBSET S)
    BY DEF B
  <2> QED BY <1>1, <2>1, SmallestSubset
<1>3. t \subseteq S /\ t # {} /\ ~ \E x \in t : \A y \in t : x >= y
  BY <1>2
<1>4. PICK a : a \in t
  BY <1>3
<1>5. t \ {a} # {}
  <2>1. SUFFICES ASSUME t \ {a} = {} PROVE FALSE
    OBVIOUS
  <2>2. t = {a} /\ a \in Nat
    BY <1>3, <1>4, <2>1
  <2>3. \A y \in t : a >= y
    BY <2>2
  <2> QED BY <1>3, <1>4, <2>3
<1>6. t \ {a} \notin B
  <2> HIDE DEF B
  <2>1. t \ {a} # t
    BY <1>4
  <2> QED BY <1>2, <2>1
<1>7. PICK x \in t \ {a} : \A y \in t \ {a} : x >= y
  BY <1>3, <1>5, <1>6
<1> QED BY <1>3, <1>4, <1>7

(* What a function makes of a finite set.                                  *)
LEMMA ImageIsFinite ==
  ASSUME NEW S, IsFiniteSet(S), NEW f, NEW T, f = [x \in S |-> f[x]], T = {f[x] : x \in S}
  PROVE  /\ IsFiniteSet(T)
         /\ (\A x, y \in S : f[x] = f[y] => x = y) => Cardinality(T) = Cardinality(S)
<1>1. f \in Surjection(S, T)
  BY DEF Surjection
<1>2. (\A x, y \in S : f[x] = f[y] => x = y) => f \in Injection(S, T)
  BY DEF Injection, IsInjective
<1> QED BY <1>1, <1>2, FS_Surjection

----------------------------------------------------------------------------
(* The folds choose the members of a set in an order of their own.         *)

First(t) == CHOOSE x \in t : TRUE
IsSum(g, w, S) == g = [t \in SUBSET S |-> IF t = {} THEN 0 ELSE w[First(t)] + g[t \ {First(t)}]]

(* The sum of the weights of the members of S. *)
Total(w, S) == (CHOOSE g : IsSum(g, w, S))[S]

LEMMA FirstIsIn == \A t : t # {} => First(t) \in t
BY DEF First

(* What a sum is of a set does not depend on the set it was defined over,  *)
(* nor on the weights of what is not in it.                                *)
LEMMA SumIsOne ==
  ASSUME NEW S, IsFiniteSet(S), NEW w, NEW T, NEW v, NEW g, NEW h, IsSum(g, w, S), IsSum(h, v, T),
         \A x \in S \cap T : w[x] = v[x],
         NEW t, t \subseteq S, t \subseteq T
  PROVE  g[t] = h[t]
<1> DEFINE B == {u \in SUBSET S : u \subseteq T /\ g[u] # h[u]}
<1>1. SUFFICES ASSUME B # {} PROVE FALSE
  OBVIOUS
<1>2. PICK u \in B : \A o \in B : o \subseteq u => o = u
  <2> HIDE DEF B
  <2>1. B \in SUBSET (SUBSET S)
    BY DEF B
  <2> QED BY <1>1, <2>1, SmallestSubset
<1>3. u \in SUBSET S /\ u \in SUBSET T /\ g[u] # h[u]
  BY <1>2
<1>4. /\ g[u] = IF u = {} THEN 0 ELSE w[First(u)] + g[u \ {First(u)}]
      /\ h[u] = IF u = {} THEN 0 ELSE v[First(u)] + h[u \ {First(u)}]
  BY <1>3 DEF IsSum
<1>5. CASE u = {}
  BY <1>3, <1>4, <1>5
<1>6. CASE u # {}
  <2>1. First(u) \in u /\ w[First(u)] = v[First(u)]
    BY <1>3, <1>6, FirstIsIn
  <2>2. u \ {First(u)} \notin B
    BY <1>2, <2>1
  <2>3. g[u \ {First(u)}] = h[u \ {First(u)}]
    BY <1>3, <2>2
  <2> QED BY <1>3, <1>4, <1>6, <2>1, <2>3
<1> QED BY <1>5, <1>6

LEMMA SumExists ==
  ASSUME NEW S, IsFiniteSet(S), NEW w
  PROVE  \E g : IsSum(g, w, S)
<1> DEFINE B == {t \in SUBSET S : ~ \E g : IsSum(g, w, t)}
<1>1. SUFFICES ASSUME B # {} PROVE FALSE
  BY DEF B
<1>2. PICK t \in B : \A o \in B : o \subseteq t => o = t
  <2> HIDE DEF B
  <2>1. B \in SUBSET (SUBSET S)
    BY DEF B
  <2> QED BY <1>1, <2>1, SmallestSubset
<1>3. t \in SUBSET S /\ ~ \E g : IsSum(g, w, t)
  BY <1>2
<1> DEFINE h(u) == CHOOSE g : IsSum(g, w, u)
           g == [u \in SUBSET t |-> IF u = {} THEN 0 ELSE w[First(u)] + h(u \ {First(u)})[u \ {First(u)}]]
<1>4. ASSUME NEW u \in SUBSET t, u # t PROVE IsSum(h(u), w, u)
  <2>1. u \in SUBSET S /\ u \notin B
    BY <1>2, <1>3, <1>4
  <2> QED BY <2>1
<1>5. ASSUME NEW u \in SUBSET t, u # {} PROVE g[u \ {First(u)}] = h(u \ {First(u)})[u \ {First(u)}]
  <2>1. PICK r : r = u \ {First(u)}
    OBVIOUS
  <2>2. r \in SUBSET t /\ r # t /\ IsFiniteSet(r)
    BY <1>3, <1>5, <2>1, FirstIsIn, FS_Subset
  <2>3. g[r] = IF r = {} THEN 0 ELSE w[First(r)] + h(r \ {First(r)})[r \ {First(r)}]
    BY <2>2
  <2>4. IsSum(h(r), w, r)
    BY <1>4, <2>2
  <2>5. h(r)[r] = IF r = {} THEN 0 ELSE w[First(r)] + h(r)[r \ {First(r)}]
    <3> HIDE DEF h
    <3> QED BY <2>4 DEF IsSum
  <2>6. CASE r # {}
    <3>1. PICK o : o = r \ {First(r)}
      OBVIOUS
    <3>2. o \subseteq r /\ o \in SUBSET t /\ o # t
      BY <2>2, <2>6, <3>1, FirstIsIn
    <3>3. IsSum(h(o), w, o)
      BY <1>4, <3>2
    <3>4. h(r)[o] = h(o)[o]
      <4> HIDE DEF h
      <4> QED BY <2>2, <2>4, <3>2, <3>3, SumIsOne
    <3> QED BY <2>1, <2>3, <2>5, <2>6, <3>1, <3>4
  <2> QED BY <2>1, <2>3, <2>5, <2>6
<1>6. IsSum(g, w, t)
  <2>1. ASSUME NEW u \in SUBSET t
        PROVE  g[u] = IF u = {} THEN 0 ELSE w[First(u)] + g[u \ {First(u)}]
    <3>1. g[u] = IF u = {} THEN 0 ELSE w[First(u)] + h(u \ {First(u)})[u \ {First(u)}]
      OBVIOUS
    <3> HIDE DEF g, h
    <3> QED BY <1>5, <3>1
  <2>2. g = [u \in SUBSET t |-> g[u]]
    OBVIOUS
  <2>3. [u \in SUBSET t |-> g[u]] = [u \in SUBSET t |-> IF u = {} THEN 0 ELSE w[First(u)] + g[u \ {First(u)}]]
    <3> HIDE DEF g
    <3> QED BY <2>1
  <2> HIDE DEF g
  <2> QED BY <2>2, <2>3 DEF IsSum
<1> QED BY <1>3, <1>6

LEMMA TotalIs ==
  ASSUME NEW S, IsFiniteSet(S), NEW w
  PROVE  \E g : /\ IsSum(g, w, S) /\ \A t \in SUBSET S : g[t] = Total(w, t)
<1>1. PICK g : g = CHOOSE h : IsSum(h, w, S)
  OBVIOUS
<1>2. IsSum(g, w, S)
  BY <1>1, SumExists
<1>3. ASSUME NEW t \in SUBSET S PROVE g[t] = Total(w, t)
  <2>1. PICK h : h = CHOOSE k : IsSum(k, w, t)
    OBVIOUS
  <2>2. IsFiniteSet(t)
    BY FS_Subset
  <2>3. IsSum(h, w, t)
    BY <2>1, <2>2, SumExists
  <2>4. Total(w, t) = h[t]
    BY <2>1 DEF Total
  <2> QED BY <1>2, <2>3, <2>4, SumIsOne
<1> QED BY <1>2, <1>3

LEMMA TotalOfNone == \A w : Total(w, {}) = 0
<1>1. ASSUME NEW w PROVE Total(w, {}) = 0
  <2>1. PICK g : IsSum(g, w, {}) /\ \A t \in SUBSET {} : g[t] = Total(w, t)
    BY TotalIs, FS_EmptySet
  <2> QED BY <2>1 DEF IsSum
<1> QED BY <1>1

LEMMA TotalOfSome ==
  ASSUME NEW S, IsFiniteSet(S), S # {}, NEW w
  PROVE  Total(w, S) = w[First(S)] + Total(w, S \ {First(S)})
<1>1. PICK g : IsSum(g, w, S) /\ \A t \in SUBSET S : g[t] = Total(w, t)
  BY TotalIs
<1>2. g[S] = w[First(S)] + g[S \ {First(S)}]
  BY <1>1 DEF IsSum
<1> QED BY <1>1, <1>2

LEMMA TotalIsNat ==
  ASSUME NEW S, IsFiniteSet(S), NEW w, \A x \in S : w[x] \in Nat
  PROVE  Total(w, S) \in Nat
<1> DEFINE B == {t \in SUBSET S : Total(w, t) \notin Nat}
<1>1. SUFFICES ASSUME B # {} PROVE FALSE
  BY DEF B
<1>2. PICK t \in B : \A o \in B : o \subseteq t => o = t
  <2> HIDE DEF B
  <2>1. B \in SUBSET (SUBSET S)
    BY DEF B
  <2> QED BY <1>1, <2>1, SmallestSubset
<1>3. t \in SUBSET S /\ Total(w, t) \notin Nat /\ IsFiniteSet(t)
  BY <1>2, FS_Subset
<1>4. t # {}
  BY <1>3, TotalOfNone
<1>5. First(t) \in t
  BY <1>4, FirstIsIn
<1>6. t \ {First(t)} \notin B
  BY <1>2, <1>5
<1>7. Total(w, t \ {First(t)}) \in Nat
  BY <1>3, <1>6
<1>8. Total(w, t) = w[First(t)] + Total(w, t \ {First(t)})
  BY <1>3, <1>4, TotalOfSome
<1> QED BY <1>3, <1>5, <1>7, <1>8

(* The order of a fold does not matter. *)
LEMMA TotalWithout ==
  ASSUME NEW S, IsFiniteSet(S), NEW w, \A x \in S : w[x] \in Nat
  PROVE  \A x \in S : Total(w, S) = w[x] + Total(w, S \ {x})
<1> DEFINE B == {t \in SUBSET S : \E x \in t : Total(w, t) # w[x] + Total(w, t \ {x})}
<1>1. SUFFICES ASSUME B # {} PROVE FALSE
  BY DEF B
<1>2. PICK t \in B : \A o \in B : o \subseteq t => o = t
  <2> HIDE DEF B
  <2>1. B \in SUBSET (SUBSET S)
    BY DEF B
  <2> QED BY <1>1, <2>1, SmallestSubset
<1>3. PICK x \in t : Total(w, t) # w[x] + Total(w, t \ {x})
  BY <1>2
<1>4. t \in SUBSET S /\ IsFiniteSet(t)
  BY <1>2, FS_Subset
<1>5. PICK y : y = First(t)
  OBVIOUS
<1>6. y \in t /\ Total(w, t) = w[y] + Total(w, t \ {y})
  BY <1>3, <1>4, <1>5, FirstIsIn, TotalOfSome
<1>7. x # y
  BY <1>3, <1>4, <1>6
<1>8. PICK r : r = t \ {x, y}
  OBVIOUS
<1>9. r \in SUBSET S /\ t \ {y} \in SUBSET S /\ t \ {x} \in SUBSET S
  BY <1>3, <1>4, <1>8
<1>10. Total(w, t \ {y}) = w[x] + Total(w, r)
  <2>1. t \ {y} \notin B
    BY <1>2, <1>6
  <2>2. (t \ {y}) \ {x} = r /\ x \in t \ {y}
    BY <1>3, <1>4, <1>7, <1>8
  <2> QED BY <1>9, <2>1, <2>2
<1>11. /\ w[x] \in Nat /\ w[y] \in Nat /\ Total(w, r) \in Nat
       /\ Total(w, t \ {x}) \in Nat /\ Total(w, t \ {y}) \in Nat
  <2>1. IsFiniteSet(r) /\ IsFiniteSet(t \ {x}) /\ IsFiniteSet(t \ {y})
    BY <1>9, FS_Subset
  <2>2. /\ \A z \in r : w[z] \in Nat
        /\ \A z \in t \ {x} : w[z] \in Nat
        /\ \A z \in t \ {y} : w[z] \in Nat
    BY <1>9
  <2>3. Total(w, r) \in Nat /\ Total(w, t \ {x}) \in Nat /\ Total(w, t \ {y}) \in Nat
    BY <2>1, <2>2, TotalIsNat
  <2> QED BY <1>3, <1>4, <1>6, <2>3
<1>12. Total(w, t \ {x}) = w[y] + Total(w, r)
  <2>1. t \ {x} \notin B
    BY <1>2, <1>3
  <2>2. (t \ {x}) \ {y} = r /\ y \in t \ {x}
    BY <1>6, <1>7, <1>8
  <2> QED BY <1>9, <2>1, <2>2
<1> QED BY <1>3, <1>4, <1>6, <1>10, <1>11, <1>12

LEMMA TotalWith ==
  ASSUME NEW S, IsFiniteSet(S), NEW x, x \notin S, NEW w, \A y \in S \cup {x} : w[y] \in Nat
  PROVE  Total(w, S \cup {x}) = w[x] + Total(w, S)
<1>1. PICK T : T = S \cup {x}
  OBVIOUS
<1>2. IsFiniteSet(T) /\ x \in T /\ T \ {x} = S
  BY <1>1, FS_AddElement
<1> QED BY <1>1, <1>2, TotalWithout

LEMMA TotalOfPart ==
  ASSUME NEW S, IsFiniteSet(S), NEW w, \A x \in S : w[x] \in Nat, NEW T \in SUBSET S
  PROVE  Total(w, T) <= Total(w, S)
<1> DEFINE B == {t \in SUBSET S : T \subseteq t /\ ~ (Total(w, T) <= Total(w, t))}
<1>1. SUFFICES ASSUME B # {} PROVE FALSE
  BY DEF B
<1>2. PICK t \in B : \A o \in B : o \subseteq t => o = t
  <2> HIDE DEF B
  <2>1. B \in SUBSET (SUBSET S)
    BY DEF B
  <2> QED BY <1>1, <2>1, SmallestSubset
<1>3. t \in SUBSET S /\ T \subseteq t /\ ~ (Total(w, T) <= Total(w, t)) /\ IsFiniteSet(t) /\ IsFiniteSet(T)
  BY <1>2, FS_Subset
<1>4. Total(w, T) \in Nat
  BY <1>3, TotalIsNat
<1>5. PICK x \in t : x \notin T
  BY <1>3, <1>4
<1>6. PICK r : r = t \ {x}
  OBVIOUS
<1>7. r \in SUBSET S /\ IsFiniteSet(r) /\ T \subseteq r /\ r \notin B
  BY <1>2, <1>3, <1>5, <1>6, FS_Subset
<1>8. Total(w, T) <= Total(w, r)
  BY <1>7
<1>9. Total(w, t) = w[x] + Total(w, r) /\ w[x] \in Nat
  BY <1>3, <1>5, <1>6, TotalWithout
<1>10. Total(w, r) \in Nat
  BY <1>7, TotalIsNat
<1> QED BY <1>3, <1>4, <1>8, <1>9, <1>10

LEMMA TotalOfSame ==
  ASSUME NEW S, IsFiniteSet(S), NEW w, NEW v, \A x \in S : w[x] = v[x]
  PROVE  Total(w, S) = Total(v, S)
<1>1. PICK g : IsSum(g, w, S) /\ \A t \in SUBSET S : g[t] = Total(w, t)
  BY TotalIs
<1>2. PICK h : IsSum(h, v, S) /\ \A t \in SUBSET S : h[t] = Total(v, t)
  BY TotalIs
<1>3. g[S] = h[S]
  BY <1>1, <1>2, SumIsOne
<1> QED BY <1>1, <1>2, <1>3

(* What is added up in steps, from nothing, is not more than where the     *)
(* steps lead: the steps in K add the weight of a member, the others do    *)
(* not take away.                                                          *)
AddsUp(u, n, r, K, w) ==
  /\ n \in Nat /\ K \subseteq 1 .. n
  /\ \A i, j \in K : r[i] = r[j] => i = j
  /\ \A i \in 0 .. n : u[i] \in Nat
  /\ \A i \in K : w[r[i]] \in Nat /\ u[i] = u[i - 1] + w[r[i]]
  /\ \A i \in (1 .. n) \ K : u[i] >= u[i - 1]

LEMMA AddedInSteps ==
  ASSUME NEW u, NEW n, NEW r, NEW K, NEW w, AddsUp(u, n, r, K, w)
  PROVE  Total(w, {r[i] : i \in K}) <= u[n]
<1>0. /\ n \in Nat /\ K \subseteq 1 .. n
      /\ \A i, j \in K : r[i] = r[j] => i = j
      /\ \A i \in 0 .. n : u[i] \in Nat
      /\ \A i \in K : w[r[i]] \in Nat /\ u[i] = u[i - 1] + w[r[i]]
      /\ \A i \in (1 .. n) \ K : u[i] >= u[i - 1]
  BY DEF AddsUp
<1> USE <1>0
<1> DEFINE R(i) == {r[j] : j \in {j \in K : j <= i}}
           B == {i \in 0 .. n : ~ (Total(w, R(i)) <= u[i])}
<1>1. ASSUME NEW i \in 0 .. n
      PROVE  IsFiniteSet(R(i)) /\ (\A x \in R(i) : w[x] \in Nat) /\ Total(w, R(i)) \in Nat
  <2>1. PICK J, f : J = {j \in K : j <= i} /\ f = [j \in J |-> r[j]]
    OBVIOUS
  <2>2. IsFiniteSet(J)
    <3>1. IsFiniteSet(1 .. n)
      BY FS_Interval
    <3>2. J \in SUBSET (1 .. n)
      BY <2>1
    <3> QED BY <3>1, <3>2, FS_Subset
  <2>3. PICK X : X = {f[j] : j \in J}
    OBVIOUS
  <2>4. f = [j \in J |-> f[j]]
    BY <2>1
  <2>5. IsFiniteSet(X)
    BY <2>2, <2>3, <2>4, ImageIsFinite
  <2>6. X = R(i) /\ \A x \in X : w[x] \in Nat
    BY <2>1, <2>3
  <2>7. Total(w, X) \in Nat
    <3>1. \A x \in X : w[x] \in Nat
      BY <2>6
    <3> QED BY <2>5, <3>1, TotalIsNat
  <2> QED BY <2>5, <2>6, <2>7
<1>2. B = {}
  <2>1. SUFFICES ASSUME B # {} PROVE FALSE
    OBVIOUS
  <2>2. PICK i \in B : \A j \in B : i <= j
    <3> HIDE DEF B
    <3>1. B \in SUBSET Nat
      BY DEF B
    <3> QED BY <2>1, <3>1, LeastNumber
  <2>3. i \in 0 .. n /\ ~ (Total(w, R(i)) <= u[i])
    <3> HIDE DEF R
    <3> QED BY <2>2
  <2>4. CASE i = 0
    <3>1. R(i) = {}
      BY <2>4
    <3>2. Total(w, R(i)) = 0
      BY <3>1, TotalOfNone
    <3>3. u[i] \in Nat
      BY <2>3
    <3> HIDE DEF R, B
    <3> QED BY <2>3, <3>2, <3>3
  <2>5. CASE i # 0
    <3>1. i \in 1 .. n /\ i - 1 \in 0 .. n /\ ~ (i <= i - 1)
      <4> HIDE DEF R, B
      <4> QED BY <2>3, <2>5
    <3>2. Total(w, R(i - 1)) <= u[i - 1]
      <4>1. i - 1 \notin B
        <5> HIDE DEF B
        <5> QED BY <2>2, <3>1
      <4> HIDE DEF R
      <4> QED BY <3>1, <4>1
    <3>3. PICK X, Y : X = R(i - 1) /\ Y = R(i)
      OBVIOUS
    <3>4. IsFiniteSet(X) /\ (\A x \in X : w[x] \in Nat) /\ Total(w, X) \in Nat /\ Total(w, X) <= u[i - 1]
      <4> HIDE DEF R
      <4> QED BY <1>1, <3>1, <3>2, <3>3
    <3>5. \A j \in K : j <= i <=> j <= i - 1 \/ j = i
      <4> HIDE DEF R, B
      <4> QED BY <3>1
    <3>6. u[i] \in Nat /\ u[i - 1] \in Nat
      BY <3>1
    <3>7. CASE i \in K
      <4>1. Y = X \cup {r[i]}
        BY <3>1, <3>3, <3>5, <3>7
      <4>2. r[i] \notin X
        BY <3>1, <3>3, <3>7
      <4>3. w[r[i]] \in Nat /\ u[i] = u[i - 1] + w[r[i]]
        BY <3>7
      <4>4. Total(w, X \cup {r[i]}) = w[r[i]] + Total(w, X)
        <5>1. PICK x : x = r[i] /\ x \notin X /\ w[x] \in Nat
          BY <4>2, <4>3
        <5>2. \A y \in X \cup {x} : w[y] \in Nat
          BY <3>4, <5>1
        <5>3. Total(w, X \cup {x}) = w[x] + Total(w, X)
          BY <3>4, <5>1, <5>2, TotalWith
        <5> QED BY <5>1, <5>3
      <4>5. Total(w, Y) <= u[i]
        <5> HIDE DEF R, B
        <5> QED BY <3>4, <3>6, <4>1, <4>3, <4>4
      <4> QED BY <2>3, <3>3, <4>5
    <3>8. CASE i \notin K
      <4>1. Y = X
        BY <3>3, <3>5, <3>8
      <4>2. u[i] >= u[i - 1]
        BY <3>1, <3>8
      <4>3. Total(w, Y) <= u[i]
        <5> HIDE DEF R, B
        <5> QED BY <3>4, <3>6, <4>1, <4>2
      <4> QED BY <2>3, <3>3, <4>3
    <3> QED BY <3>7, <3>8
  <2> QED BY <2>4, <2>5
<1>3. n \in 0 .. n /\ R(n) = {r[i] : i \in K}
  OBVIOUS
<1>4. Total(w, R(n)) <= u[n]
  <2>1. n \notin B
    BY <1>2
  <2> HIDE DEF R
  <2> QED BY <1>3, <2>1
<1> QED BY <1>3, <1>4

=============================================================================
