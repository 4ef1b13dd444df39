-------------------------------- MODULE Sums --------------------------------
(***************************************************************************)
(* Sums over a finite set: what SumFunctionOnSet adds up, whatever the     *)
(* order, and how it follows a change.                                     *)
(***************************************************************************)
EXTENDS Integers, FiniteSetsExt, FiniteSetTheorems, WellFoundedInduction, TLAPS

\* The value of SumFunctionOnSet is that of a function on the subsets of S.
AnyOf(s) == CHOOSE x \in s : TRUE
Adds(g, f, S) ==
  g = [s \in SUBSET S |-> IF s = {} THEN 0 ELSE f[AnyOf(s)] + g[s \ {AnyOf(s)}]]
Adder(f, S) == CHOOSE g : Adds(g, f, S)

LEMMA SumIsAdder ==
  ASSUME NEW f, NEW S
  PROVE  SumFunctionOnSet(f, S) = Adder(f, S)[S]
BY DEF SumFunctionOnSet, FoldFunctionOnSet, MapThenFoldSet, Adder, Adds, AnyOf

\* Induction over the finite subsets of a set: a counterexample would have a least one.
LEMMA LeastSubset ==
  ASSUME NEW S, NEW T \in SUBSET FiniteSubsetsOf(S), T # {}
  PROVE  \E u \in T : \A v \in T : v \subseteq u => v = u
<1>1. PICK u \in T : \A v \in T : ~(<<v, u>> \in StrictSubsetOrdering(S))
  BY FS_StrictSubsetOrderingWellFounded, WFMin
<1>2. ASSUME NEW v \in T, v \subseteq u, v # u PROVE FALSE
  <2>1. <<v, u>> \in (SUBSET S) \X (SUBSET S)
    BY DEF FiniteSubsetsOf
  <2>2. <<v, u>> \in StrictSubsetOrdering(S)
    BY <1>2, <2>1 DEF StrictSubsetOrdering
  <2> QED BY <1>1, <2>2
<1> QED BY <1>2

LEMMA AnyOfIsIn ==
  ASSUME NEW s, s # {}
  PROVE  AnyOf(s) \in s
BY DEF AnyOf

\* Two of them agree where both are defined.
LEMMA AddersAgree ==
  ASSUME NEW f, NEW g, NEW S, NEW a, NEW b, NEW U, NEW V, IsFiniteSet(S),
         U \in SUBSET S, V \in SUBSET S,
         Adds(a, f, U), Adds(b, g, V), \A x \in U \cap V : f[x] = g[x]
  PROVE  \A s \in SUBSET (U \cap V) : a[s] = b[s]
<1> DEFINE Bad == {s \in SUBSET (U \cap V) : a[s] # b[s]}
<1>1. SUFFICES ASSUME Bad # {} PROVE FALSE
  OBVIOUS
<1>2. Bad \in SUBSET FiniteSubsetsOf(S)
  <2>1. \A s \in Bad : s \in SUBSET S /\ IsFiniteSet(s)
    BY FS_Subset
  <2> QED BY <2>1 DEF FiniteSubsetsOf
<1>3. PICK u \in Bad : \A v \in Bad : v \subseteq u => v = u
  <2> HIDE DEF Bad
  <2> QED BY <1>1, <1>2, LeastSubset
<1>4. u \in SUBSET U /\ u \in SUBSET V /\ a[u] # b[u]
  OBVIOUS
<1>5. /\ a[u] = IF u = {} THEN 0 ELSE f[AnyOf(u)] + a[u \ {AnyOf(u)}]
      /\ b[u] = IF u = {} THEN 0 ELSE g[AnyOf(u)] + b[u \ {AnyOf(u)}]
  <2>1. a[u] = IF u = {} THEN 0 ELSE f[AnyOf(u)] + a[u \ {AnyOf(u)}]
    BY <1>4 DEF Adds
  <2>2. b[u] = IF u = {} THEN 0 ELSE g[AnyOf(u)] + b[u \ {AnyOf(u)}]
    BY <1>4 DEF Adds
  <2> QED BY <2>1, <2>2
<1>6. u # {}
  BY <1>4, <1>5
<1>7. AnyOf(u) \in u
  BY <1>6, AnyOfIsIn
<1>8. u \ {AnyOf(u)} \notin Bad
  BY <1>3, <1>7
<1>9. a[u \ {AnyOf(u)}] = b[u \ {AnyOf(u)}]
  BY <1>4, <1>8
<1>10. f[AnyOf(u)] = g[AnyOf(u)]
  BY <1>4, <1>7
<1> QED BY <1>4, <1>5, <1>6, <1>9, <1>10

\* There is one, for every finite set.
LEMMA AdderExists ==
  ASSUME NEW f, NEW S, IsFiniteSet(S)
  PROVE  Adds(Adder(f, S), f, S)
<1> DEFINE Bad == {s \in SUBSET S : ~Adds(Adder(f, s), f, s)}
<1>1. SUFFICES ASSUME Bad # {} PROVE FALSE
  OBVIOUS
<1>2. Bad \in SUBSET FiniteSubsetsOf(S)
  <2>1. \A s \in Bad : s \in SUBSET S /\ IsFiniteSet(s)
    BY FS_Subset
  <2> QED BY <2>1 DEF FiniteSubsetsOf
<1>3. PICK u \in Bad : \A v \in Bad : v \subseteq u => v = u
  <2> HIDE DEF Bad
  <2> QED BY <1>1, <1>2, LeastSubset
<1>4. \A v \in SUBSET u : v # u => Adds(Adder(f, v), f, v)
  BY <1>3
<1> DEFINE h == [s \in SUBSET u |-> IF s = {} THEN 0
                   ELSE f[AnyOf(s)] + Adder(f, s \ {AnyOf(s)})[s \ {AnyOf(s)}]]
<1>5. ASSUME NEW s \in SUBSET u, s # {}
      PROVE  h[s \ {AnyOf(s)}] = Adder(f, s \ {AnyOf(s)})[s \ {AnyOf(s)}]
  <2> DEFINE t == s \ {AnyOf(s)}
  <2>1. AnyOf(s) \in s
    BY <1>5, AnyOfIsIn
  <2>2. t \in SUBSET u /\ t # u
    BY <2>1
  <2>3. Adds(Adder(f, t), f, t)
    BY <1>4, <2>2
  <2>4. CASE t = {}
    BY <2>2, <2>3, <2>4 DEF Adds
  <2>5. CASE t # {}
    <3> DEFINE r == t \ {AnyOf(t)}
    <3>1. AnyOf(t) \in t
      BY <2>5, AnyOfIsIn
    <3>2. r \in SUBSET t /\ r \in SUBSET u /\ r # u
      BY <2>2, <3>1
    <3>3. Adds(Adder(f, r), f, r)
      BY <1>4, <3>2
    <3>4. h[t] = f[AnyOf(t)] + Adder(f, r)[r]
      BY <2>2, <2>5
    <3>5. Adder(f, t)[t] = f[AnyOf(t)] + Adder(f, t)[r]
      <4> HIDE DEF t, h
      <4>1. t \in SUBSET t
        OBVIOUS
      <4> QED BY <2>3, <2>5, <4>1 DEF Adds
    <3>6. Adder(f, t)[r] = Adder(f, r)[r]
      <4>1. r \in SUBSET (t \cap r) /\ t \in SUBSET S /\ r \in SUBSET S
        BY <2>2, <3>2
      <4> HIDE DEF t, r, h
      <4> QED BY <2>3, <3>3, <4>1, AddersAgree
    <3> QED BY <3>4, <3>5, <3>6
  <2> QED BY <2>4, <2>5
<1>6. Adds(h, f, u)
  <2>1. h = [s \in SUBSET u |-> IF s = {} THEN 0 ELSE f[AnyOf(s)] + h[s \ {AnyOf(s)}]]
    BY <1>5
  <2> HIDE DEF h
  <2> QED BY <2>1 DEF Adds
<1>7. Adds(Adder(f, u), f, u)
  <2> HIDE DEF h
  <2> QED BY <1>6 DEF Adder
<1> QED BY <1>3, <1>7

\* Nothing adds up to nothing, and what is picked is added to the rest.
LEMMA SumStep ==
  ASSUME NEW f, NEW S, IsFiniteSet(S)
  PROVE  SumFunctionOnSet(f, S)
           = IF S = {} THEN 0 ELSE f[AnyOf(S)] + SumFunctionOnSet(f, S \ {AnyOf(S)})
<1>1. Adds(Adder(f, S), f, S) /\ SumFunctionOnSet(f, S) = Adder(f, S)[S]
  BY AdderExists, SumIsAdder
<1>2. Adder(f, S)[S] = IF S = {} THEN 0 ELSE f[AnyOf(S)] + Adder(f, S)[S \ {AnyOf(S)}]
  <2>1. S \in SUBSET S
    OBVIOUS
  <2> QED BY <1>1, <2>1 DEF Adds
<1>3. Adder(f, S)[S \ {AnyOf(S)}] = SumFunctionOnSet(f, S \ {AnyOf(S)})
  <2> DEFINE r == S \ {AnyOf(S)}
  <2>1. r \in SUBSET S /\ S \in SUBSET S /\ r \in SUBSET (S \cap r)
    OBVIOUS
  <2>2. IsFiniteSet(r)
    BY FS_Subset
  <2>3. Adds(Adder(f, r), f, r) /\ SumFunctionOnSet(f, r) = Adder(f, r)[r]
    BY <2>2, AdderExists, SumIsAdder
  <2> HIDE DEF r
  <2>4. Adder(f, S)[r] = Adder(f, r)[r]
    BY <1>1, <2>1, <2>3, AddersAgree
  <2> QED BY <2>3, <2>4 DEF r
<1> QED BY <1>1, <1>2, <1>3

\* The sum is that of the values on S.
LEMMA SumsAgree ==
  ASSUME NEW f, NEW g, NEW S, IsFiniteSet(S), \A x \in S : f[x] = g[x]
  PROVE  SumFunctionOnSet(f, S) = SumFunctionOnSet(g, S)
<1>1. /\ Adds(Adder(f, S), f, S) /\ SumFunctionOnSet(f, S) = Adder(f, S)[S]
      /\ Adds(Adder(g, S), g, S) /\ SumFunctionOnSet(g, S) = Adder(g, S)[S]
  BY AdderExists, SumIsAdder
<1>2. S \in SUBSET (S \cap S) /\ S \in SUBSET S
  OBVIOUS
<1> QED BY <1>1, <1>2, AddersAgree

LEMMA SumIsNat ==
  ASSUME NEW f, NEW S, IsFiniteSet(S), \A x \in S : f[x] \in Nat
  PROVE  SumFunctionOnSet(f, S) \in Nat
<1> DEFINE Bad == {s \in SUBSET S : SumFunctionOnSet(f, s) \notin Nat}
<1>1. SUFFICES ASSUME Bad # {} PROVE FALSE
  OBVIOUS
<1>2. Bad \in SUBSET FiniteSubsetsOf(S)
  <2>1. \A s \in Bad : s \in SUBSET S /\ IsFiniteSet(s)
    BY FS_Subset
  <2> QED BY <2>1 DEF FiniteSubsetsOf
<1>3. PICK u \in Bad : \A v \in Bad : v \subseteq u => v = u
  <2> HIDE DEF Bad
  <2> QED BY <1>1, <1>2, LeastSubset
<1>4. IsFiniteSet(u) /\ u \subseteq S
  BY FS_Subset
<1>5. SumFunctionOnSet(f, u) = IF u = {} THEN 0 ELSE f[AnyOf(u)] + SumFunctionOnSet(f, u \ {AnyOf(u)})
  BY <1>4, SumStep
<1>6. CASE u = {}
  BY <1>5, <1>6
<1>7. CASE u # {}
  <2>1. AnyOf(u) \in u
    BY <1>7, AnyOfIsIn
  <2>2. SumFunctionOnSet(f, u \ {AnyOf(u)}) \in Nat
    BY <1>3, <2>1
  <2> QED BY <1>4, <1>5, <1>7, <2>1, <2>2
<1> QED BY <1>6, <1>7

\* A sum of zeros is zero.
LEMMA SumOfZeros ==
  ASSUME NEW f, NEW S, IsFiniteSet(S), \A x \in S : f[x] = 0
  PROVE  SumFunctionOnSet(f, S) = 0
<1> DEFINE Bad == {s \in SUBSET S : SumFunctionOnSet(f, s) # 0}
<1>1. SUFFICES ASSUME Bad # {} PROVE FALSE
  OBVIOUS
<1>2. Bad \in SUBSET FiniteSubsetsOf(S)
  <2>1. \A s \in Bad : s \in SUBSET S /\ IsFiniteSet(s)
    BY FS_Subset
  <2> QED BY <2>1 DEF FiniteSubsetsOf
<1>3. PICK u \in Bad : \A v \in Bad : v \subseteq u => v = u
  <2> HIDE DEF Bad
  <2> QED BY <1>1, <1>2, LeastSubset
<1>4. IsFiniteSet(u) /\ u \subseteq S
  BY FS_Subset
<1>5. SumFunctionOnSet(f, u) = IF u = {} THEN 0 ELSE f[AnyOf(u)] + SumFunctionOnSet(f, u \ {AnyOf(u)})
  BY <1>4, SumStep
<1>6. CASE u = {}
  BY <1>5, <1>6
<1>7. CASE u # {}
  <2>1. AnyOf(u) \in u
    BY <1>7, AnyOfIsIn
  <2>2. SumFunctionOnSet(f, u \ {AnyOf(u)}) = 0
    BY <1>3, <2>1
  <2> QED BY <1>4, <1>5, <1>7, <2>1, <2>2
<1> QED BY <1>6, <1>7

\* Any element may be the last one added.
LEMMA SumAdds ==
  ASSUME NEW f, NEW S, IsFiniteSet(S), NEW x \in S, \A y \in S : f[y] \in Nat
  PROVE  SumFunctionOnSet(f, S) = f[x] + SumFunctionOnSet(f, S \ {x})
<1> DEFINE Bad == {s \in SUBSET S : \E y \in s : SumFunctionOnSet(f, s) # f[y] + SumFunctionOnSet(f, s \ {y})}
<1>1. SUFFICES ASSUME Bad # {} PROVE FALSE
  OBVIOUS
<1>2. Bad \in SUBSET FiniteSubsetsOf(S)
  <2>1. \A s \in Bad : s \in SUBSET S /\ IsFiniteSet(s)
    BY FS_Subset
  <2> QED BY <2>1 DEF FiniteSubsetsOf
<1>3. PICK u \in Bad : \A v \in Bad : v \subseteq u => v = u
  <2> HIDE DEF Bad
  <2> QED BY <1>1, <1>2, LeastSubset
<1>4. PICK y \in u : SumFunctionOnSet(f, u) # f[y] + SumFunctionOnSet(f, u \ {y})
  OBVIOUS
<1>5. \A v \in SUBSET u : v # u => \A z \in v : SumFunctionOnSet(f, v) = f[z] + SumFunctionOnSet(f, v \ {z})
  BY <1>3
<1> DEFINE c == AnyOf(u)
<1>6. /\ IsFiniteSet(u) /\ u \subseteq S /\ c \in u
  BY FS_Subset, AnyOfIsIn
<1> HIDE DEF Bad
<1>7. SumFunctionOnSet(f, u) = f[c] + SumFunctionOnSet(f, u \ {c})
  BY <1>6, SumStep
<1> HIDE DEF c
<1>8. y # c
  BY <1>4, <1>7
<1>9. SumFunctionOnSet(f, u \ {c}) = f[y] + SumFunctionOnSet(f, (u \ {c}) \ {y})
  BY <1>5, <1>6, <1>8
<1>10. SumFunctionOnSet(f, u \ {y}) = f[c] + SumFunctionOnSet(f, (u \ {y}) \ {c})
  BY <1>5, <1>6, <1>8
<1>11. (u \ {c}) \ {y} = (u \ {y}) \ {c}
  OBVIOUS
<1>12. /\ f[y] \in Nat /\ f[c] \in Nat
       /\ SumFunctionOnSet(f, (u \ {c}) \ {y}) \in Nat
  <2>1. (u \ {c}) \ {y} \in SUBSET u
    OBVIOUS
  <2>2. IsFiniteSet((u \ {c}) \ {y})
    BY <1>6, <2>1, FS_Subset
  <2>3. \A z \in (u \ {c}) \ {y} : f[z] \in Nat
    BY <1>6
  <2> QED BY <1>6, <2>2, <2>3, SumIsNat
<1>13. SumFunctionOnSet(f, u) = f[y] + SumFunctionOnSet(f, u \ {y})
  <2> DEFINE q == SumFunctionOnSet(f, (u \ {c}) \ {y})
  <2>1. SumFunctionOnSet(f, u) = f[c] + (f[y] + q) /\ SumFunctionOnSet(f, u \ {y}) = f[c] + q
    BY <1>7, <1>9, <1>10, <1>11
  <2>2. q \in Nat
    BY <1>12
  <2> HIDE DEF q
  <2> QED BY <1>12, <2>1, <2>2
<1> QED BY <1>4, <1>13

\* An element more, and another value at one place.
LEMMA SumOfMore ==
  ASSUME NEW f, NEW S, IsFiniteSet(S), NEW x, x \notin S, \A y \in S \cup {x} : f[y] \in Nat
  PROVE  SumFunctionOnSet(f, S \cup {x}) = SumFunctionOnSet(f, S) + f[x]
<1>1. IsFiniteSet(S \cup {x}) /\ (S \cup {x}) \ {x} = S
  BY FS_AddElement
<1>2. SumFunctionOnSet(f, S \cup {x}) = f[x] + SumFunctionOnSet(f, S)
  BY <1>1, SumAdds
<1>3. f[x] \in Nat /\ SumFunctionOnSet(f, S) \in Nat
  BY SumIsNat
<1> QED BY <1>2, <1>3

LEMMA SumOfChange ==
  ASSUME NEW f, NEW g, NEW S, IsFiniteSet(S), NEW x \in S,
         \A y \in S : f[y] \in Nat, \A y \in S \ {x} : g[y] = f[y], NEW n \in Nat, g[x] = f[x] + n
  PROVE  SumFunctionOnSet(g, S) = SumFunctionOnSet(f, S) + n
<1>1. IsFiniteSet(S \ {x})
  BY FS_Subset
<1>2. \A y \in S : g[y] \in Nat
  OBVIOUS
<1>3. SumFunctionOnSet(f, S) = f[x] + SumFunctionOnSet(f, S \ {x})
  BY SumAdds
<1>4. SumFunctionOnSet(g, S) = g[x] + SumFunctionOnSet(g, S \ {x})
  BY <1>2, SumAdds
<1>5. SumFunctionOnSet(g, S \ {x}) = SumFunctionOnSet(f, S \ {x})
  BY <1>1, SumsAgree
<1>6. SumFunctionOnSet(f, S \ {x}) \in Nat /\ f[x] \in Nat
  BY <1>1, SumIsNat
<1> QED BY <1>3, <1>4, <1>5, <1>6
=============================================================================
