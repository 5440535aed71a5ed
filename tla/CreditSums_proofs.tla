-------------------------- MODULE CreditSums_proofs --------------------------
(***************************************************************************)
(* The operators CreditLedger computes with: what the sum over a finite    *)
(* set does when one element or one value changes, that the items of a     *)
(* month can be put in the order of their price, and what a draw takes     *)
(* from the credit and from its allocations.                               *)
(*                                                                         *)
(* An induction over a finite set is a minimal counterexample here: a      *)
(* nonempty collection of its subsets has a member that is contained in    *)
(* no other way than by being equal (FiniteMinimum).                       *)
(***************************************************************************)
EXTENDS CreditLedger, FiniteSetTheorems, WellFoundedInduction, TLAPS

-----------------------------------------------------------------------------
(***************************************************************************)
(* Sums over finite sets.                                                  *)
(***************************************************************************)

\* A nonempty collection of subsets of a finite set has a minimal member.
LEMMA FiniteMinimum ==
  ASSUME NEW S, IsFiniteSet(S), NEW B \in SUBSET (SUBSET S), B # {}
  PROVE  \E s \in B : \A t \in B : t \subseteq s => t = s
<1> DEFINE Inside == StrictSubsetOrdering(S)
<1>1. IsWellFoundedOn(Inside, SUBSET S)
  BY FS_StrictSubsetOrderingWellFounded, FS_FiniteSubsetsOfFinite, Zenon
<1>2. \E s \in B : \A t \in B : ~ (<<t, s>> \in Inside)
  <2> HIDE DEF Inside
  <2> QED
    BY <1>1, WFMin, Zenon
<1>3. PICK s \in B : \A t \in B : ~ (<<t, s>> \in Inside)
  BY <1>2
<1>4. ASSUME NEW t \in B, t \subseteq s PROVE t = s
  BY <1>3, <1>4 DEF StrictSubsetOrdering
<1> QED
  BY <1>4

\* A nonempty set of numbers has a least one.
LEMMA LeastNumber ==
  ASSUME NEW S \in SUBSET Nat, S # {}
  PROVE  \E n \in S : \A k \in S : n <= k
<1> DEFINE Below == OpToRel(<, Nat)
<1>1. \E n \in S : \A k \in S : ~ (<<k, n>> \in Below)
  <2>1. IsWellFoundedOn(Below, Nat)
    BY NatLessThanWellFounded
  <2> HIDE DEF Below
  <2> QED
    BY <2>1, WFMin, Zenon
<1>2. PICK n \in S : \A k \in S : ~ (<<k, n>> \in Below)
  BY <1>1
<1>3. \A k \in S : ~ (k < n)
  BY <1>2, Zenon DEF OpToRel
<1> QED
  BY <1>3

\* The element a sum takes first, and the function that sums over the subsets
\* of a set.
Pick(s) == CHOOSE x \in s : TRUE
Entry(g, f, s) == IF s = {} THEN 0 ELSE f[Pick(s)] + g[s \ {Pick(s)}]
IsSum(g, f, S) == g = [s \in SUBSET S |-> Entry(g, f, s)]
SumFcn(f, S) == CHOOSE g : IsSum(g, f, S)

LEMMA TotalIs ==
  ASSUME NEW f, NEW S
  PROVE  Total(f, S) = SumFcn(f, S)[S]
BY Zenon DEF Total, MapThenSumSet, MapThenFoldSet, SumFcn, IsSum, Entry, Pick

LEMMA PickIsIn ==
  ASSUME NEW s, s # {}
  PROVE  Pick(s) \in s
BY DEF Pick

\* What a summing function says of one set.
LEMMA SumValue ==
  ASSUME NEW f, NEW T, NEW g, IsSum(g, f, T), NEW s, s \subseteq T
  PROVE  g[s] = Entry(g, f, s)
<1>1. g = [r \in SUBSET T |-> Entry(g, f, r)] /\ s \in SUBSET T
  BY Zenon DEF IsSum
<1> QED
  BY <1>1, Zenon

\* Two summing functions agree where both are defined.
LEMMA SumsAgree ==
  ASSUME NEW f, NEW S, IsFiniteSet(S), NEW T, NEW U, NEW g, NEW h,
         IsSum(g, f, T), IsSum(h, f, U), S \subseteq T, S \subseteq U
  PROVE  g[S] = h[S]
<1> DEFINE B == {s \in SUBSET S : g[s] # h[s]}
<1>1. SUFFICES ASSUME B # {} PROVE FALSE
  BY Zenon
<1>2. PICK s \in B : \A t \in B : t \subseteq s => t = s
  <2>1. B \in SUBSET (SUBSET S)
    OBVIOUS
  <2> HIDE DEF B
  <2> QED
    BY <1>1, <2>1, FiniteMinimum
<1>3. s \subseteq T /\ s \subseteq U /\ s \subseteq S /\ g[s] # h[s]
  OBVIOUS
<1>4. g[s] = Entry(g, f, s) /\ h[s] = Entry(h, f, s)
  BY <1>3, SumValue
<1>5. s # {}
  BY <1>3, <1>4, Zenon DEF Entry
<1>6. s \ {Pick(s)} \notin B
  BY <1>2, <1>5, PickIsIn
<1>7. g[s \ {Pick(s)}] = h[s \ {Pick(s)}]
  BY <1>3, <1>6
<1> QED
  BY <1>3, <1>4, <1>5, <1>7, Zenon DEF Entry

\* A finite set has a summing function.
LEMMA SumExists ==
  ASSUME NEW f, NEW S, IsFiniteSet(S)
  PROVE  IsSum(SumFcn(f, S), f, S)
<1> DEFINE B == {s \in SUBSET S : ~ IsSum(SumFcn(f, s), f, s)}
<1>1. SUFFICES ASSUME B # {} PROVE FALSE
  BY Zenon
<1>2. PICK T \in B : \A t \in B : t \subseteq T => t = T
  <2>1. B \in SUBSET (SUBSET S)
    OBVIOUS
  <2> HIDE DEF B
  <2> QED
    BY <1>1, <2>1, FiniteMinimum
<1>3. T \subseteq S /\ ~ IsSum(SumFcn(f, T), f, T)
  OBVIOUS
<1>4. ASSUME NEW r, r \subseteq T, r # T PROVE IsSum(SumFcn(f, r), f, r)
  BY <1>2, <1>3, <1>4
\* The value at s by way of the function that sums up the rest of s.
<1> DEFINE Value(s) == IF s = {} THEN 0
                       ELSE f[Pick(s)] + SumFcn(f, s \ {Pick(s)})[s \ {Pick(s)}]
           g == [s \in SUBSET T |-> Value(s)]
<1>5. ASSUME NEW r, r \subseteq T, r # T PROVE SumFcn(f, r)[r] = Value(r)
  <2> DEFINE k == SumFcn(f, r)
             q == r \ {Pick(r)}
             h == SumFcn(f, q)
  <2>1. IsSum(k, f, r) /\ r \subseteq r
    BY <1>4, <1>5
  <2>2. k[r] = Entry(k, f, r)
    <3> HIDE DEF k
    <3> QED
      BY <2>1, SumValue
  <2>3. CASE r = {}
    BY <2>2, <2>3, Zenon DEF Entry
  <2>4. CASE r # {}
    <3>1. q \subseteq T /\ q # T /\ q \subseteq r /\ q \subseteq q
      BY <1>5, <2>4, PickIsIn
    <3>2. IsFiniteSet(q) /\ IsSum(h, f, q)
      <4>1. IsFiniteSet(q)
        BY <3>1, <1>3, FS_Subset
      <4> HIDE DEF q
      <4> QED
        BY <3>1, <1>4, <4>1
    <3>3. k[q] = h[q]
      <4> HIDE DEF k, h, q
      <4> QED
        BY <2>1, <3>1, <3>2, SumsAgree
    <3> QED
      BY <2>2, <2>4, <3>3, Zenon DEF Entry
  <2> QED
    BY <2>3, <2>4
<1>6. ASSUME NEW s \in SUBSET T PROVE Value(s) = Entry(g, f, s)
  <2>1. CASE s = {}
    BY <2>1, Zenon DEF Entry
  <2>2. CASE s # {}
    <3> DEFINE q == s \ {Pick(s)}
    <3>1. q \in SUBSET T /\ q # T
      BY <2>2, PickIsIn
    <3>2. SumFcn(f, q)[q] = Value(q)
      BY <3>1, <1>5
    <3>3. g[q] = Value(q)
      <4> HIDE DEF Value, q
      <4> QED
        BY <3>1
    <3> QED
      BY <2>2, <3>2, <3>3, Zenon DEF Entry
  <2> QED
    BY <2>1, <2>2
<1>7. IsSum(g, f, T)
  <2>1. [s \in SUBSET T |-> Value(s)] = [s \in SUBSET T |-> Entry(g, f, s)]
    <3> HIDE DEF Value, g
    <3> QED
      BY <1>6
  <2> QED
    BY <2>1, Zenon DEF IsSum
<1>8. IsSum(SumFcn(f, T), f, T)
  <2> HIDE DEF g
  <2> QED
    BY <1>7, Zenon DEF SumFcn
<1> QED
  BY <1>3, <1>8

-----------------------------------------------------------------------------
\* The sum takes one element and goes on with the others.
LEMMA TotalStep ==
  ASSUME NEW f, NEW S, IsFiniteSet(S)
  PROVE  Total(f, S) = IF S = {} THEN 0 ELSE f[Pick(S)] + Total(f, S \ {Pick(S)})
<1> DEFINE q == S \ {Pick(S)}
           g == SumFcn(f, S)
           h == SumFcn(f, q)
<1>1. S \subseteq S /\ IsFiniteSet(q) /\ q \subseteq S /\ q \subseteq q
  BY FS_Subset
<1>2. IsSum(g, f, S)
  BY SumExists, Zenon
<1>3. IsSum(h, f, q)
  <2> HIDE DEF q
  <2> QED
    BY <1>1, SumExists, Zenon
<1>4. Total(f, S) = g[S] /\ Total(f, q) = h[q]
  BY TotalIs, Zenon
<1>5. g[S] = Entry(g, f, S)
  <2> HIDE DEF g
  <2> QED
    BY <1>1, <1>2, SumValue
<1>6. g[q] = h[q]
  <2> HIDE DEF g, h, q
  <2> QED
    BY <1>1, <1>2, <1>3, SumsAgree
<1> QED
  BY <1>4, <1>5, <1>6, Zenon DEF Entry

\* Integers add up to an integer, natural numbers to a natural number.
LEMMA TotalIsInt ==
  ASSUME NEW f, NEW S, IsFiniteSet(S), \A x \in S : f[x] \in Int
  PROVE  Total(f, S) \in Int
<1> DEFINE B == {s \in SUBSET S : Total(f, s) \notin Int}
<1>1. SUFFICES ASSUME B # {} PROVE FALSE
  BY Zenon
<1>2. PICK s \in B : \A t \in B : t \subseteq s => t = s
  <2>1. B \in SUBSET (SUBSET S)
    OBVIOUS
  <2> HIDE DEF B
  <2> QED
    BY <1>1, <2>1, FiniteMinimum
<1>3. s \subseteq S /\ IsFiniteSet(s) /\ Total(f, s) \notin Int
  BY FS_Subset
<1>4. Total(f, s) = IF s = {} THEN 0 ELSE f[Pick(s)] + Total(f, s \ {Pick(s)})
  BY <1>3, TotalStep
<1>5. s # {} /\ f[Pick(s)] \in Int
  BY <1>3, <1>4, PickIsIn
<1>6. Total(f, s \ {Pick(s)}) \in Int
  BY <1>2, <1>3, <1>5, PickIsIn
<1> QED
  BY <1>3, <1>4, <1>5, <1>6

LEMMA TotalIsNat ==
  ASSUME NEW f, NEW S, IsFiniteSet(S), \A x \in S : f[x] \in Nat
  PROVE  Total(f, S) \in Nat
<1> DEFINE B == {s \in SUBSET S : Total(f, s) \notin Nat}
<1>1. SUFFICES ASSUME B # {} PROVE FALSE
  BY Zenon
<1>2. PICK s \in B : \A t \in B : t \subseteq s => t = s
  <2>1. B \in SUBSET (SUBSET S)
    OBVIOUS
  <2> HIDE DEF B
  <2> QED
    BY <1>1, <2>1, FiniteMinimum
<1>3. s \subseteq S /\ IsFiniteSet(s) /\ Total(f, s) \notin Nat
  BY FS_Subset
<1>4. Total(f, s) = IF s = {} THEN 0 ELSE f[Pick(s)] + Total(f, s \ {Pick(s)})
  BY <1>3, TotalStep
<1>5. s # {} /\ f[Pick(s)] \in Nat
  BY <1>3, <1>4, PickIsIn
<1>6. Total(f, s \ {Pick(s)}) \in Nat
  BY <1>2, <1>3, <1>5, PickIsIn
<1> QED
  BY <1>3, <1>4, <1>5, <1>6

\* Functions that agree on a set have the same total there.
LEMMA TotalsEqual ==
  ASSUME NEW f, NEW g, NEW S, IsFiniteSet(S), \A x \in S : f[x] = g[x]
  PROVE  Total(f, S) = Total(g, S)
<1> DEFINE B == {s \in SUBSET S : Total(f, s) # Total(g, s)}
<1>1. SUFFICES ASSUME B # {} PROVE FALSE
  BY Zenon
<1>2. PICK s \in B : \A t \in B : t \subseteq s => t = s
  <2>1. B \in SUBSET (SUBSET S)
    OBVIOUS
  <2> HIDE DEF B
  <2> QED
    BY <1>1, <2>1, FiniteMinimum
<1>3. s \subseteq S /\ IsFiniteSet(s) /\ Total(f, s) # Total(g, s)
  BY FS_Subset
<1>4. /\ Total(f, s) = IF s = {} THEN 0 ELSE f[Pick(s)] + Total(f, s \ {Pick(s)})
      /\ Total(g, s) = IF s = {} THEN 0 ELSE g[Pick(s)] + Total(g, s \ {Pick(s)})
  BY <1>3, TotalStep
<1>5. s # {} /\ f[Pick(s)] = g[Pick(s)]
  BY <1>3, <1>4, PickIsIn
<1>6. Total(f, s \ {Pick(s)}) = Total(g, s \ {Pick(s)})
  BY <1>2, <1>3, <1>5, PickIsIn
<1> QED
  BY <1>3, <1>4, <1>5, <1>6

LEMMA TotalOfNothing ==
  ASSUME NEW f, NEW S, IsFiniteSet(S), \A x \in S : f[x] = 0
  PROVE  Total(f, S) = 0
<1> DEFINE B == {s \in SUBSET S : Total(f, s) # 0}
<1>1. SUFFICES ASSUME B # {} PROVE FALSE
  BY Zenon
<1>2. PICK s \in B : \A t \in B : t \subseteq s => t = s
  <2>1. B \in SUBSET (SUBSET S)
    OBVIOUS
  <2> HIDE DEF B
  <2> QED
    BY <1>1, <2>1, FiniteMinimum
<1>3. s \subseteq S /\ IsFiniteSet(s) /\ Total(f, s) # 0
  BY FS_Subset
<1>4. Total(f, s) = IF s = {} THEN 0 ELSE f[Pick(s)] + Total(f, s \ {Pick(s)})
  BY <1>3, TotalStep
<1>5. s # {} /\ f[Pick(s)] = 0
  BY <1>3, <1>4, PickIsIn
<1>6. Total(f, s \ {Pick(s)}) = 0
  BY <1>2, <1>3, <1>5, PickIsIn
<1> QED
  BY <1>3, <1>4, <1>5, <1>6

\* Any element can be taken out of the sum.
LEMMA TotalWithout ==
  ASSUME NEW f, NEW S, IsFiniteSet(S), \A y \in S : f[y] \in Int, NEW x \in S
  PROVE  Total(f, S) = f[x] + Total(f, S \ {x})
<1> DEFINE Bad(s, e) == Total(f, s) # f[e] + Total(f, s \ {e})
           B == {s \in SUBSET S : \E e \in s : Bad(s, e)}
<1>1. SUFFICES ASSUME B # {} PROVE FALSE
  <2> HIDE DEF Bad
  <2> SUFFICES ASSUME Bad(S, x) PROVE FALSE
    BY DEF Bad
  <2>1. S \in B
    OBVIOUS
  <2> QED
    BY <2>1
<1>2. PICK s \in B : \A t \in B : t \subseteq s => t = s
  <2>1. B \in SUBSET (SUBSET S)
    OBVIOUS
  <2> HIDE DEF B
  <2> QED
    BY <1>1, <2>1, FiniteMinimum
<1>3. PICK e \in s : Bad(s, e)
  OBVIOUS
<1> DEFINE p == Pick(s)
           q == s \ {p}
           r == s \ {e}
           both == s \ {e, p}
<1>4. s \subseteq S /\ IsFiniteSet(s) /\ IsFiniteSet(both) /\ p \in s
  BY FS_Subset, PickIsIn
<1>5. Total(f, s) = f[p] + Total(f, q)
  BY <1>4, TotalStep
<1>6. p # e
  BY <1>3, <1>5
<1>7. Total(f, q) = f[e] + Total(f, both)
  <2>1. q \subseteq s /\ q # s /\ e \in q /\ q \in SUBSET S /\ q \ {e} = both
    BY <1>4, <1>6
  <2>2. ~ Bad(q, e)
    <3> HIDE DEF Bad, p, q
    <3> QED
      BY <1>2, <2>1
  <2> QED
    BY <2>1, <2>2
<1>8. Total(f, r) = f[p] + Total(f, both)
  <2>1. r \subseteq s /\ r # s /\ p \in r /\ r \in SUBSET S /\ r \ {p} = both
    BY <1>4, <1>6
  <2>2. ~ Bad(r, p)
    <3> HIDE DEF Bad, p, r
    <3> QED
      BY <1>2, <2>1
  <2> QED
    BY <2>1, <2>2
<1>9. Total(f, both) \in Int /\ f[e] \in Int /\ f[p] \in Int
  BY <1>4, TotalIsInt
<1> QED
  BY <1>3, <1>5, <1>7, <1>8, <1>9

\* One more element.
LEMMA TotalWith ==
  ASSUME NEW f, NEW S, IsFiniteSet(S), NEW x, x \notin S,
         \A y \in S \cup {x} : f[y] \in Int
  PROVE  Total(f, S \cup {x}) = f[x] + Total(f, S)
<1> DEFINE T == S \cup {x}
<1>1. IsFiniteSet(T) /\ x \in T /\ T \ {x} = S
  BY FS_AddElement
<1> QED
  BY <1>1, TotalWithout

\* One value that changes.
LEMMA TotalChange ==
  ASSUME NEW f, NEW g, NEW S, IsFiniteSet(S), NEW x \in S,
         \A y \in S : f[y] \in Int, g[x] \in Int,
         \A y \in S \ {x} : g[y] = f[y]
  PROVE  Total(g, S) = Total(f, S) + g[x] - f[x]
<1> DEFINE r == S \ {x}
<1>1. IsFiniteSet(r) /\ \A y \in S : g[y] \in Int
  BY FS_Subset
<1>2. Total(f, S) = f[x] + Total(f, r) /\ Total(g, S) = g[x] + Total(g, r)
  BY <1>1, TotalWithout
<1>3. Total(f, r) = Total(g, r) /\ Total(f, r) \in Int
  BY <1>1, TotalsEqual, TotalIsInt
<1> QED
  BY <1>2, <1>3

\* The total of a sum is the sum of the totals.
LEMMA TotalOfSums ==
  ASSUME NEW f, NEW g, NEW h, NEW S, IsFiniteSet(S),
         \A x \in S : f[x] \in Int /\ g[x] \in Int /\ h[x] = f[x] + g[x]
  PROVE  Total(h, S) = Total(f, S) + Total(g, S)
<1> DEFINE B == {s \in SUBSET S : Total(h, s) # Total(f, s) + Total(g, s)}
<1>1. SUFFICES ASSUME B # {} PROVE FALSE
  <2>1. SUFFICES ASSUME Total(h, S) # Total(f, S) + Total(g, S) PROVE FALSE
    OBVIOUS
  <2>2. S \in B
    BY <2>1
  <2> QED
    BY <2>2
<1>2. PICK s \in B : \A t \in B : t \subseteq s => t = s
  <2>1. B \in SUBSET (SUBSET S)
    OBVIOUS
  <2> HIDE DEF B
  <2> QED
    BY <1>1, <2>1, FiniteMinimum
<1> DEFINE x == Pick(s)
           r == s \ {x}
<1>3. /\ s \subseteq S /\ IsFiniteSet(s) /\ IsFiniteSet(r)
      /\ Total(h, s) # Total(f, s) + Total(g, s)
  BY FS_Subset
<1>4. /\ Total(f, s) = IF s = {} THEN 0 ELSE f[x] + Total(f, r)
      /\ Total(g, s) = IF s = {} THEN 0 ELSE g[x] + Total(g, r)
      /\ Total(h, s) = IF s = {} THEN 0 ELSE h[x] + Total(h, r)
  BY <1>3, TotalStep
<1>5. s # {}
  BY <1>3, <1>4
<1>6. x \in S /\ r \subseteq s /\ r # s /\ r \in SUBSET S
  BY <1>3, <1>5, PickIsIn
<1>7. Total(h, r) = Total(f, r) + Total(g, r)
  <2> HIDE DEF r, x
  <2> QED
    BY <1>2, <1>6
<1>8. Total(f, r) \in Int /\ Total(g, r) \in Int
  <2>1. (\A y \in r : f[y] \in Int) /\ (\A y \in r : g[y] \in Int)
    BY <1>6
  <2> HIDE DEF r, x
  <2> QED
    BY <1>3, <2>1, TotalIsInt
<1>9. f[x] \in Int /\ g[x] \in Int /\ h[x] = f[x] + g[x]
  BY <1>6
<1> HIDE DEF x, r
<1> QED
  BY <1>3, <1>4, <1>5, <1>7, <1>8, <1>9

-----------------------------------------------------------------------------
(***************************************************************************)
(* The items in the order of their price.                                  *)
(***************************************************************************)

\* A finite set of priced things has a most expensive one.
LEMMA DearestExists ==
  ASSUME NEW f, NEW S, IsFiniteSet(S), S # {}, \A x \in S : f[x] \in Nat
  PROVE  \E x \in S : \A y \in S : f[y] <= f[x]
<1> DEFINE Tops(s) == {x \in s : \A y \in s : f[y] <= f[x]}
           B == {s \in SUBSET S : s # {} /\ Tops(s) = {}}
<1>1. SUFFICES ASSUME B # {} PROVE FALSE
  BY Zenon
<1>2. PICK s \in B : \A t \in B : t \subseteq s => t = s
  <2>1. B \in SUBSET (SUBSET S)
    OBVIOUS
  <2> HIDE DEF B
  <2> QED
    BY <1>1, <2>1, FiniteMinimum
<1>3. PICK x \in s : TRUE
  OBVIOUS
<1> DEFINE r == s \ {x}
<1>4. s \subseteq S /\ Tops(s) = {} /\ r # s /\ r \subseteq s /\ r \in SUBSET S
  OBVIOUS
<1>5. CASE r = {}
  <2>1. x \in Tops(s)
    BY <1>4, <1>5
  <2> QED
    BY <1>4, <2>1
<1>6. CASE r # {}
  <2>1. Tops(r) # {}
    BY <1>2, <1>4, <1>6
  <2>2. PICK z \in r : \A y \in r : f[y] <= f[z]
    BY <2>1
  <2>3. f[x] \in Nat /\ f[z] \in Nat /\ \A y \in s : f[y] \in Nat
    BY <1>4
  <2>4. x \in Tops(s) \/ z \in Tops(s)
    BY <2>2, <2>3
  <2> QED
    BY <1>4, <2>4
<1> QED
  BY <1>5, <1>6

\* A finite set of priced things can be listed by price, each thing once.
Listings(f, S) ==
  {s \in [1..Cardinality(S) -> S] :
     \A i, j \in DOMAIN s : i < j => s[i] # s[j] /\ f[s[i]] <= f[s[j]]}

LEMMA ListingExists ==
  ASSUME NEW f, NEW S, IsFiniteSet(S), \A x \in S : f[x] \in Nat
  PROVE  Listings(f, S) # {}
<1> DEFINE B == {s \in SUBSET S : Listings(f, s) = {}}
<1>1. SUFFICES ASSUME B # {} PROVE FALSE
  BY Zenon
<1>2. PICK T \in B : \A t \in B : t \subseteq T => t = T
  <2>1. B \in SUBSET (SUBSET S)
    OBVIOUS
  <2> HIDE DEF B
  <2> QED
    BY <1>1, <2>1, FiniteMinimum
<1>3. T \subseteq S /\ IsFiniteSet(T) /\ Listings(f, T) = {}
  BY FS_Subset
<1>4. CASE T = {}
  <2>1. Cardinality(T) = 0
    BY <1>4, FS_EmptySet
  <2>2. [i \in 1..0 |-> 0] \in Listings(f, T)
    BY <1>4, <2>1 DEF Listings
  <2> QED
    BY <1>3, <2>2
<1>5. CASE T # {}
  <2>1. PICK x \in T : \A y \in T : f[y] <= f[x]
    BY <1>3, <1>5, DearestExists
  <2> DEFINE r == T \ {x}
             n == Cardinality(r)
  <2>2. IsFiniteSet(r) /\ Cardinality(T) = n + 1 /\ n \in Nat
    <3>1. IsFiniteSet(r) /\ Cardinality(r) = Cardinality(T) - 1
      BY <1>3, FS_RemoveElement
    <3>2. Cardinality(T) \in Nat /\ Cardinality(r) \in Nat
      BY <1>3, <3>1, FS_CardinalityType
    <3> QED
      BY <3>1, <3>2
  <2>3. r \notin B
    BY <1>2
  <2>4. PICK s \in [1..n -> r] :
          \A i, j \in 1..n : i < j => s[i] # s[j] /\ f[s[i]] <= f[s[j]]
    BY <1>3, <2>3 DEF Listings
  <2> DEFINE t == [i \in 1..(n + 1) |-> IF i = n + 1 THEN x ELSE s[i]]
  <2> HIDE DEF n
  <2>5. t \in [1..(n + 1) -> T]
    BY <2>2
  <2>6. ASSUME NEW i \in 1..(n + 1), NEW j \in 1..(n + 1), i < j
        PROVE  t[i] # t[j] /\ f[t[i]] <= f[t[j]]
    <3>1. i \in 1..n /\ t[i] = s[i] /\ s[i] \in r
      BY <2>2, <2>6
    <3>2. CASE j = n + 1
      BY <2>1, <3>1, <3>2
    <3>3. CASE j # n + 1
      <4>1. j \in 1..n /\ t[j] = s[j]
        BY <2>2, <3>3
      <4> QED
        BY <2>4, <2>6, <3>1, <4>1
    <3> QED
      BY <3>2, <3>3
  <2>7. t \in Listings(f, T)
    BY <2>2, <2>5, <2>6 DEF Listings
  <2> QED
    BY <1>3, <2>7
<1> QED
  BY <1>4, <1>5

\* The loop over the items visits every one of them once, the cheapest first.
LEMMA PricesOrdered ==
  ASSUME NEW m \in Months
  PROVE  /\ ByPrice(m) \in [1..Cardinality(Projects) -> Projects]
         /\ \A i, j \in 1..Cardinality(Projects) :
              i < j => /\ ByPrice(m)[i] # ByPrice(m)[j]
                       /\ Cost[m][ByPrice(m)[i]] <= Cost[m][ByPrice(m)[j]]
<1> DEFINE n == Cardinality(Projects)
           Sorted(s) == \A i, j \in DOMAIN s :
                          i < j => s[i] # s[j] /\ Cost[m][s[i]] <= Cost[m][s[j]]
<1>1. IsFiniteSet(Projects) /\ \A p \in Projects : Cost[m][p] \in Nat
  BY ScopeAssumption
<1>2. Listings(Cost[m], Projects) # {}
  BY <1>1, ListingExists
<1>3. \E s \in [1..n -> Projects] : Sorted(s)
  BY <1>2 DEF Listings
<1>4. ByPrice(m) \in [1..n -> Projects] /\ Sorted(ByPrice(m))
  <2>1. ByPrice(m) = CHOOSE s \in [1..n -> Projects] : Sorted(s)
    BY Zenon DEF ByPrice
  <2> HIDE DEF Sorted, n
  <2> QED
    BY <1>3, <2>1
<1> QED
  BY <1>4

-----------------------------------------------------------------------------
(***************************************************************************)
(* A draw.                                                                 *)
(***************************************************************************)

\* What the credit, the allocations and the items of a month come to; D are
\* the projects with an allocation.
Positions(D) == [org : Int, alloc : [D -> Int], item : [Projects -> Int]]

\* Position d is position c after some more was drawn: what the organization
\* lost the items gained, and so for each allocation.
Balanced(c, d, D) ==
  /\ d.org + Total(d.item, Projects) = c.org + Total(c.item, Projects)
  /\ \A p \in D : d.alloc[p] + d.item[p] = c.alloc[p] + c.item[p]

\* Where every project holds an allocation or none does, nothing is ever
\* overdrawn: the items are no refunds, the allocations are not negative, and
\* neither is a credit that is not shared out.
Solvent(c, D) ==
  /\ D \in {{}, Projects}
  /\ D = {} => c.org >= 0
  /\ \A p \in D : c.alloc[p] >= 0
  /\ \A p \in Projects : c.item[p] >= 0

LEMMA ItemTotals ==
  ASSUME NEW D, NEW c \in Positions(D)
  PROVE  Total(c.item, Projects) \in Int
<1>1. \A p \in Projects : c.item[p] \in Int
  BY DEF Positions
<1> QED
  BY <1>1, ScopeAssumption, TotalIsInt

\* One item drawn.
LEMMA DrawItemKeeps ==
  ASSUME NEW D \in SUBSET Projects, NEW c \in Positions(D), NEW m \in Months,
         NEW p \in Projects
  PROVE  /\ DrawItem(m, c, p) \in Positions(D)
         /\ Balanced(c, DrawItem(m, c, p), D)
         /\ Solvent(c, D) => Solvent(DrawItem(m, c, p), D)
<1>1. Total(c.item, Projects) \in Int
  BY ItemTotals
<1>2. CASE c.org = 0
  BY <1>1, <1>2 DEF DrawItem, Balanced, Positions
<1>3. CASE c.org # 0
  <2> DEFINE limit == IF p \in D THEN c.alloc[p] ELSE c.org
             draw == Least(Cost[m][p], limit)
             org == c.org - draw
             alloc == [q \in D |-> IF q = p THEN c.alloc[q] - draw ELSE c.alloc[q]]
             items == [c.item EXCEPT ![p] = @ + draw]
             d == [org |-> org, alloc |-> alloc, item |-> items]
  <2>1. Cost[m][p] \in Nat
    BY ScopeAssumption
  <2>2. draw \in Int /\ limit \in Int /\ (limit >= 0 => draw >= 0) /\ draw <= limit
    BY <2>1 DEF Positions, Least
  <2>3. DrawItem(m, c, p) = d
    <3>1. DOMAIN c.alloc = D
      BY DEF Positions
    <3> QED
      BY <1>3, <3>1, Zenon DEF DrawItem
  <2> HIDE DEF limit, draw
  <2>4. /\ org \in Int /\ alloc \in [D -> Int] /\ items \in [Projects -> Int]
        /\ items[p] = c.item[p] + draw
        /\ \A q \in Projects \ {p} : items[q] = c.item[q]
        /\ c.org \in Int /\ c.item \in [Projects -> Int] /\ c.alloc \in [D -> Int]
    BY <2>2 DEF Positions
  <2>5. Total(items, Projects) = Total(c.item, Projects) + draw
    <3>1. c.item[p] \in Int
      BY <2>4
    <3>2. Total(items, Projects) = Total(c.item, Projects) + items[p] - c.item[p]
      <4> HIDE DEF items
      <4> QED
        BY <2>4, ScopeAssumption, TotalChange
    <3> QED
      BY <1>1, <2>2, <2>4, <3>1, <3>2
  <2>6. \A q \in D : alloc[q] + items[q] = c.alloc[q] + c.item[q]
    BY <2>2, <2>4
  <2>7. d \in Positions(D) /\ d.org = org /\ d.alloc = alloc /\ d.item = items
    <3> HIDE DEF org, alloc, items
    <3> QED
      BY <2>4 DEF Positions
  <2>8. Balanced(c, d, D)
    <3>1. org + Total(items, Projects) = c.org + Total(c.item, Projects)
      BY <1>1, <2>2, <2>4, <2>5
    <3> HIDE DEF d, org, alloc, items
    <3> QED
      BY <2>6, <2>7, <3>1 DEF Balanced
  <2>9. ASSUME Solvent(c, D) PROVE Solvent(d, D)
    <3>1. draw >= 0
      BY <1>3, <2>2, <2>4, <2>9 DEF Solvent, limit
    <3>2. D = {} => org >= 0
      BY <2>2, <2>4, <2>9 DEF Solvent, limit
    <3>3. \A q \in D : alloc[q] >= 0
      <4>1. p \in D => draw <= c.alloc[p]
        BY <2>2 DEF limit
      <4> QED
        BY <2>2, <2>4, <2>9, <4>1 DEF Solvent
    <3>4. \A q \in Projects : items[q] >= 0
      BY <2>2, <2>4, <2>9, <3>1 DEF Solvent
    <3>5. D \in {{}, Projects}
      BY <2>9 DEF Solvent
    <3> HIDE DEF d, org, alloc, items
    <3> QED
      BY <2>7, <3>2, <3>3, <3>4, <3>5 DEF Solvent
  <2> QED
    BY <2>3, <2>7, <2>8, <2>9
<1> QED
  BY <1>2, <1>3 DEF Positions

\* The positions of the loop, and that there are such positions however many
\* items there are.
Items == Cardinality(Projects)
Place(m, c, d, i) == IF i = 0 THEN c ELSE DrawItem(m, d[i - 1], ByPrice(m)[i])

LEMMA ItemsAreFinite == Items \in Nat
  BY ScopeAssumption, FS_CardinalityType DEF Items

LEMMA DrawsExist ==
  ASSUME NEW m, NEW c, NEW n \in Nat
  PROVE  \E d : d = [i \in 0..n |-> Place(m, c, d, i)]
<1> DEFINE Has(k) == \E d : d = [i \in 0..k |-> Place(m, c, d, i)]
           B == {k \in Nat : ~ Has(k)}
<1>1. SUFFICES ASSUME B # {} PROVE FALSE
  BY Zenon
<1>2. PICK k \in B : \A j \in B : k <= j
  <2>1. B \in SUBSET Nat
    OBVIOUS
  <2> HIDE DEF B
  <2> QED
    BY <1>1, <2>1, LeastNumber
<1>3. k \in Nat /\ ~ Has(k)
  OBVIOUS
<1>4. CASE k = 0
  <2> DEFINE d == [i \in 0..0 |-> c]
  <2>1. \A i \in 0..0 : Place(m, c, d, i) = c
    BY DEF Place
  <2>2. d = [i \in 0..0 |-> Place(m, c, d, i)]
    <3> HIDE DEF d
    <3>1. d = [i \in 0..0 |-> c]
      BY DEF d
    <3> QED
      BY <2>1, <3>1
  <2> QED
    BY <1>3, <1>4, <2>2
<1>5. CASE k # 0
  <2>1. k - 1 \in Nat /\ k - 1 \notin B
    BY <1>2, <1>3, <1>5
  <2>2. PICK e : e = [i \in 0..(k - 1) |-> Place(m, c, e, i)]
    BY <2>1
  <2> DEFINE d == [i \in 0..k |-> Place(m, c, e, i)]
  <2>3. ASSUME NEW i \in 0..k PROVE Place(m, c, e, i) = Place(m, c, d, i)
    <3>1. CASE i = 0
      BY <3>1 DEF Place
    <3>2. CASE i # 0
      <4>1. i - 1 \in 0..(k - 1) /\ i - 1 \in 0..k
        BY <1>3, <3>2
      <4>2. e[i - 1] = Place(m, c, e, i - 1)
        BY <2>2, <4>1
      <4>3. d[i - 1] = Place(m, c, e, i - 1)
        BY <4>1
      <4> HIDE DEF d
      <4> QED
        BY <3>2, <4>2, <4>3, Zenon DEF Place
    <3> QED
      BY <3>1, <3>2
  <2>4. d = [i \in 0..k |-> Place(m, c, d, i)]
    <3> HIDE DEF d
    <3>1. d = [i \in 0..k |-> Place(m, c, e, i)]
      BY DEF d
    <3> QED
      BY <2>3, <3>1
  <2> QED
    BY <1>3, <2>4
<1> QED
  BY <1>4, <1>5

LEMMA DrawsValue ==
  ASSUME NEW m, NEW c
  PROVE  /\ Draws(m, c)[0] = c
         /\ \A i \in 1..Items :
              Draws(m, c)[i] = DrawItem(m, Draws(m, c)[i - 1], ByPrice(m)[i])
<1> DEFINE e == Draws(m, c)
<1>1. e = CHOOSE d : d = [i \in 0..Items |-> Place(m, c, d, i)]
  BY Zenon DEF Draws, Place, Items
<1>2. \E d : d = [i \in 0..Items |-> Place(m, c, d, i)]
  BY ItemsAreFinite, DrawsExist, Zenon
<1>3. e = [i \in 0..Items |-> Place(m, c, e, i)]
  <2> HIDE DEF e
  <2> QED
    BY <1>1, <1>2, Zenon
<1>4. \A i \in 0..Items : e[i] = Place(m, c, e, i)
  <2> HIDE DEF e
  <2> QED
    BY <1>3, Zenon
<1>5. 0 \in 0..Items /\ \A i \in 1..Items : i \in 0..Items /\ i # 0
  BY ItemsAreFinite
<1> HIDE DEF e
<1>6. e[0] = c
  BY <1>4, <1>5, Zenon DEF Place
<1>7. ASSUME NEW i \in 1..Items PROVE e[i] = DrawItem(m, e[i - 1], ByPrice(m)[i])
  BY <1>4, <1>5, Zenon DEF Place
<1> QED
  BY <1>6, <1>7 DEF e

\* The whole loop.
LEMMA DrawsKeep ==
  ASSUME NEW D \in SUBSET Projects, NEW c \in Positions(D), NEW m \in Months
  PROVE  /\ Draws(m, c)[Items] \in Positions(D)
         /\ Balanced(c, Draws(m, c)[Items], D)
         /\ Solvent(c, D) => Solvent(Draws(m, c)[Items], D)
<1> DEFINE at(i) == Draws(m, c)[i]
           Fine(i) == /\ at(i) \in Positions(D) /\ Balanced(c, at(i), D)
                      /\ Solvent(c, D) => Solvent(at(i), D)
           B == {i \in 0..Items : ~ Fine(i)}
<1>1. SUFFICES ASSUME B # {} PROVE FALSE
  <2>1. Items \in 0..Items
    BY ItemsAreFinite
  <2> HIDE DEF Fine
  <2>2. SUFFICES ASSUME ~ Fine(Items) PROVE FALSE
    BY DEF Fine
  <2> QED
    BY <2>1, <2>2
<1>2. PICK k \in B : \A j \in B : k <= j
  <2>1. B \in SUBSET Nat
    OBVIOUS
  <2> HIDE DEF B
  <2> QED
    BY <1>1, <2>1, LeastNumber
<1>3. k \in 0..Items /\ ~ Fine(k)
  OBVIOUS
<1>4. k # 0
  <2>1. Total(c.item, Projects) \in Int /\ at(0) = c
    BY ItemTotals, DrawsValue
  <2>2. Fine(0)
    BY <2>1 DEF Balanced, Positions
  <2> QED
    BY <1>3, <2>2
<1>5. k \in 1..Items /\ k - 1 \in 0..Items /\ ~ (k <= k - 1)
  BY <1>3, <1>4, ItemsAreFinite
<1>6. Fine(k - 1)
  <2> HIDE DEF Fine
  <2> QED
    BY <1>2, <1>5
<1> DEFINE b == Draws(m, c)[k - 1]
           d == DrawItem(m, b, ByPrice(m)[k])
<1>7. at(k) = d /\ ByPrice(m)[k] \in Projects
  <2>1. ByPrice(m) \in [1..Items -> Projects]
    BY PricesOrdered DEF Items
  <2> QED
    BY <1>5, <2>1, DrawsValue
<1>8. b \in Positions(D) /\ Balanced(c, b, D) /\ (Solvent(c, D) => Solvent(b, D))
  BY <1>6
<1>9. d \in Positions(D) /\ Balanced(b, d, D) /\ (Solvent(b, D) => Solvent(d, D))
  <2> HIDE DEF b
  <2> QED
    BY <1>7, <1>8, DrawItemKeeps
<1>10. Balanced(c, d, D)
  <2> HIDE DEF b, d
  <2> QED
    BY <1>8, <1>9 DEF Balanced
<1> HIDE DEF b, d
<1> QED
  BY <1>3, <1>7, <1>8, <1>9, <1>10

\* calculate_current_compensations: whatever the minimal consumption, the
\* items of a project are what its allocation gave; without a minimal
\* consumption the same holds of the organization.
LEMMA DrawnKeeps ==
  ASSUME NEW D \in SUBSET Projects, NEW c \in Positions(D), NEW m \in Months,
         floor[Org] \in Nat, \A p \in D : floor[p] = 0
  PROVE  /\ Drawn(c, m) \in Positions(D)
         /\ \A p \in D : Drawn(c, m).alloc[p] + Drawn(c, m).item[p]
                           = c.alloc[p] + c.item[p]
         /\ floor[Org] = 0 => /\ Balanced(c, Drawn(c, m), D)
                              /\ Solvent(c, D) => Solvent(Drawn(c, m), D)
<1>1. Total(c.item, Projects) \in Int
  BY ItemTotals
<1>2. CASE c.org = 0
  BY <1>1, <1>2 DEF Drawn, Balanced, Positions
<1>3. CASE c.org # 0
  <2> DEFINE zero == [p \in Projects |-> 0]
             fresh == [org |-> c.org, alloc |-> c.alloc, item |-> zero]
             d == Draws(m, fresh)[Items]
             top == TopUp(d.org, Total(d.item, Projects), floor[Org])
             org == d.org - top
             alloc == [p \in DOMAIN d.alloc |->
                         d.alloc[p] - TopUp(d.alloc[p], d.item[p], floor[p])]
             items == [p \in Projects |-> c.item[p] + d.item[p]]
             e == [org |-> org, alloc |-> alloc, item |-> items]
  <2>1. Drawn(c, m) = e
    BY <1>3, Zenon DEF Drawn, Items
  <2>2. /\ c.org \in Int /\ c.alloc \in [D -> Int] /\ c.item \in [Projects -> Int]
        /\ fresh \in Positions(D) /\ Total(zero, Projects) = 0
    <3>1. Total(zero, Projects) = 0
      <4>1. \A p \in Projects : zero[p] = 0
        OBVIOUS
      <4> HIDE DEF zero
      <4> QED
        BY <4>1, ScopeAssumption, TotalOfNothing
    <3> QED
      BY <3>1 DEF Positions
  <2>3. d \in Positions(D) /\ Balanced(fresh, d, D) /\ (Solvent(fresh, D) => Solvent(d, D))
    <3> HIDE DEF fresh
    <3> QED
      BY <2>2, DrawsKeep
  <2> HIDE DEF d
  <2>4. /\ d.org \in Int /\ d.alloc \in [D -> Int] /\ d.item \in [Projects -> Int]
        /\ DOMAIN d.alloc = D /\ Total(d.item, Projects) \in Int
    BY <2>3, ItemTotals DEF Positions
  <2>5. /\ d.org + Total(d.item, Projects) = c.org
        /\ \A p \in D : d.alloc[p] + d.item[p] = c.alloc[p]
    <3>1. \A p \in D : zero[p] = 0
      OBVIOUS
    <3>2. fresh.org = c.org /\ fresh.alloc = c.alloc /\ fresh.item = zero
      OBVIOUS
    <3> HIDE DEF zero, fresh
    <3> QED
      BY <2>2, <2>3, <2>4, <3>1, <3>2 DEF Balanced
  <2>6. top \in Int /\ (floor[Org] = 0 => top = 0)
    BY <2>4 DEF TopUp, Least
  <2>7. \A p \in D : TopUp(d.alloc[p], d.item[p], floor[p]) = 0
    BY DEF TopUp
  <2>8. /\ org \in Int /\ alloc \in [D -> Int] /\ items \in [Projects -> Int]
        /\ \A p \in D : alloc[p] = d.alloc[p]
        /\ \A p \in Projects : items[p] = c.item[p] + d.item[p]
    <3>1. org \in Int
      BY <2>4, <2>6
    <3>2. alloc \in [D -> Int] /\ \A p \in D : alloc[p] = d.alloc[p]
      BY <2>4, <2>7
    <3>3. items \in [Projects -> Int] /\ \A p \in Projects : items[p] = c.item[p] + d.item[p]
      BY <2>2, <2>4
    <3> QED
      BY <3>1, <3>2, <3>3
  <2>9. e \in Positions(D) /\ e.org = org /\ e.alloc = alloc /\ e.item = items
    <3> HIDE DEF org, alloc, items
    <3> QED
      BY <2>8 DEF Positions
  <2>10. \A p \in D : alloc[p] + items[p] = c.alloc[p] + c.item[p]
    <3> HIDE DEF org, alloc, items
    <3> QED
      BY <2>2, <2>4, <2>5, <2>8
  <2>11. ASSUME floor[Org] = 0 PROVE Balanced(c, e, D)
    <3>1. Total(items, Projects) = Total(c.item, Projects) + Total(d.item, Projects)
      <4>1. \A p \in Projects : c.item[p] \in Int /\ d.item[p] \in Int
        BY <2>2, <2>4
      <4> HIDE DEF items
      <4> QED
        BY <2>8, <4>1, ScopeAssumption, TotalOfSums
    <3>2. org = d.org
      BY <2>4, <2>6, <2>11
    <3>3. org + Total(items, Projects) = c.org + Total(c.item, Projects)
      <4> HIDE DEF org, items
      <4> QED
        BY <1>1, <2>2, <2>4, <2>5, <3>1, <3>2
    <3> HIDE DEF e, org, alloc, items
    <3> QED
      BY <2>9, <2>10, <3>3 DEF Balanced
  <2>12. ASSUME floor[Org] = 0, Solvent(c, D) PROVE Solvent(e, D)
    <3>1. Solvent(fresh, D)
      BY <2>12 DEF Solvent
    <3>2. Solvent(d, D) /\ org = d.org
      <4> HIDE DEF fresh
      <4> QED
        BY <2>3, <2>4, <2>6, <2>12, <3>1
    <3> HIDE DEF e, org, alloc, items
    <3> QED
      BY <2>2, <2>4, <2>8, <2>9, <2>12, <3>2 DEF Solvent
  <2> HIDE DEF e, org, alloc, items
  <2> QED
    BY <2>1, <2>9, <2>10, <2>11, <2>12
<1> QED
  BY <1>2, <1>3 DEF Positions
=============================================================================
