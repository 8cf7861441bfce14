-------------------------------- MODULE Sums --------------------------------
(***************************************************************************)
(* Sums over finite sets and sequences, SumFunctionOnSet of the community  *)
(* modules, for the invariants that say that money is conserved.  The fold *)
(* is a recursive function over the subsets of the set.  That it exists,   *)
(* and does not depend on the order, follows by induction: a property that *)
(* fails for some subset of a finite set fails for a smallest one.  At the *)
(* end, arithmetic with a symbolic word size, recursive functions along a  *)
(* rank and loops, products and bounds of sums, and lists: without an      *)
(* entry, and of a set of numbers in their order.                          *)
(***************************************************************************)
EXTENDS Integers, Sequences, FiniteSets, Functions, SequencesExt, FiniteSetTheorems,
        SequenceTheorems, WellFoundedInduction, TLAPS

\* A set of subsets of a finite set has a smallest element.
LEMMA SmallestSubset ==
  ASSUME NEW S, IsFiniteSet(S), NEW T, T \subseteq SUBSET S, T # {}
  PROVE  \E s \in T : \A t \in T : ~(t \subseteq s /\ t # s)
<1>1. IsWellFoundedOn(StrictSubsetOrdering(S), SUBSET S)
  BY FS_StrictSubsetOrderingWellFounded, FS_FiniteSubsetsOfFinite
<1>2. PICK s \in T : \A t \in T : ~(<<t, s>> \in StrictSubsetOrdering(S))
  BY <1>1, WFMin
<1>3. QED
  BY <1>2 DEF StrictSubsetOrdering

\* The element the fold takes next, and what the fold is.
Some(s) == CHOOSE x \in s : TRUE

Summing(g, f, S) ==
  g = [s \in SUBSET S |-> IF s = {} THEN 0 ELSE f[Some(s)] + g[s \ {Some(s)}]]

LEMMA SumUnfolds ==
  ASSUME NEW f, NEW S
  PROVE  SumFunctionOnSet(f, S) = (CHOOSE g : Summing(g, f, S))[S]
BY DEF SumFunctionOnSet, FoldFunctionOnSet, MapThenFoldSet, Summing, Some

\* There is at most one such function, and the sum follows its equation.
LEMMA SummingUnique ==
  ASSUME NEW f, NEW S, IsFiniteSet(S), NEW g, NEW h,
         Summing(g, f, S), Summing(h, f, S)
  PROVE  g = h
<1>. DEFINE Bad == {s \in SUBSET S : g[s] # h[s]}
<1>1. SUFFICES Bad = {}
  BY DEF Summing
<1>2. SUFFICES ASSUME Bad # {} PROVE FALSE
  OBVIOUS
<1>3. PICK s \in Bad : \A t \in Bad : ~(t \subseteq s /\ t # s)
  <2>1. Bad \subseteq SUBSET S
    OBVIOUS
  <2>. HIDE DEF Bad
  <2>2. QED
    BY <1>2, <2>1, SmallestSubset
<1>4. CASE s = {}
  BY <1>3, <1>4 DEF Summing
<1>5. CASE s # {}
  <2>1. Some(s) \in s
    BY <1>5 DEF Some
  <2>2. s \ {Some(s)} \in SUBSET S /\ s \ {Some(s)} \notin Bad
    BY <1>3, <2>1
  <2>3. g[s \ {Some(s)}] = h[s \ {Some(s)}]
    BY <2>2
  <2>4. g[s] = f[Some(s)] + g[s \ {Some(s)}] /\ h[s] = f[Some(s)] + h[s \ {Some(s)}]
    BY <1>3, <1>5 DEF Summing
  <2>5. QED
    BY <1>3, <2>3, <2>4
<1>6. QED
  BY <1>4, <1>5

LEMMA SumStep ==
  ASSUME NEW f, NEW S, IsFiniteSet(S)
  PROVE  SumFunctionOnSet(f, S) =
           IF S = {} THEN 0
           ELSE f[Some(S)] + SumFunctionOnSet(f, S \ {Some(S)})
<1>. DEFINE V(s) == SumFunctionOnSet(f, s)
            Step(s) == IF s = {} THEN 0 ELSE f[Some(s)] + V(s \ {Some(s)})
            Bad == {s \in SUBSET S : V(s) # Step(s)}
<1>1. SUFFICES Bad = {}
  OBVIOUS
<1>2. SUFFICES ASSUME Bad # {} PROVE FALSE
  OBVIOUS
<1>3. PICK s \in Bad : \A t \in Bad : ~(t \subseteq s /\ t # s)
  <2>1. Bad \subseteq SUBSET S
    OBVIOUS
  <2>. HIDE DEF Bad
  <2>2. QED
    BY <1>2, <2>1, SmallestSubset
<1>. DEFINE g == [t \in SUBSET s |-> Step(t)]
<1>4. \A t \in SUBSET s : t # s => V(t) = Step(t)
  <2>. HIDE DEF V, Step
  <2>1. QED
    BY <1>3
<1>5. Summing(g, f, s)
  <2>1. ASSUME NEW t \in SUBSET s, t # {}
        PROVE  g[t \ {Some(t)}] = V(t \ {Some(t)})
    <3>1. Some(t) \in t
      BY <2>1 DEF Some
    <3>2. t \ {Some(t)} \in SUBSET s /\ t \ {Some(t)} # s
      BY <3>1
    <3>. HIDE DEF V, Step
    <3>3. QED
      BY <3>2, <1>4
  <2>. HIDE DEF V
  <2>2. QED
    BY <2>1 DEF Summing
<1>6. IsFiniteSet(s)
  BY <1>3, FS_Subset
<1>7. (CHOOSE h : Summing(h, f, s)) = g
  <2>. HIDE DEF g
  <2>1. QED
    BY <1>5, <1>6, SummingUnique
<1>8. V(s) = g[s]
  <2>. HIDE DEF g
  <2>1. QED
    BY <1>7, SumUnfolds
<1>9. V(s) = Step(s)
  <2>. HIDE DEF V, Step
  <2>1. QED
    BY <1>8
<1>10. QED
  <2>. HIDE DEF V, Step
  <2>1. QED
    BY <1>3, <1>9

(* The sum over no element is zero. *)
THEOREM SumEmpty == \A f : SumFunctionOnSet(f, {}) = 0
BY SumStep, FS_EmptySet

LEMMA SumType ==
  ASSUME NEW S, IsFiniteSet(S), NEW f, \A x \in S : f[x] \in Int
  PROVE  SumFunctionOnSet(f, S) \in Int
<1>. DEFINE Bad == {s \in SUBSET S : SumFunctionOnSet(f, s) \notin Int}
<1>1. SUFFICES ASSUME Bad # {} PROVE FALSE
  OBVIOUS
<1>2. PICK s \in Bad : \A t \in Bad : ~(t \subseteq s /\ t # s)
  <2>1. Bad \subseteq SUBSET S
    OBVIOUS
  <2>. HIDE DEF Bad
  <2>2. QED
    BY <1>1, <2>1, SmallestSubset
<1>3. IsFiniteSet(s)
  BY FS_Subset
<1>4. CASE s = {}
  BY <1>2, <1>4, SumEmpty
<1>5. CASE s # {}
  <2>1. Some(s) \in s
    BY <1>5 DEF Some
  <2>2. SumFunctionOnSet(f, s \ {Some(s)}) \in Int
    BY <2>1, <1>2
  <2>3. SumFunctionOnSet(f, s) = f[Some(s)] + SumFunctionOnSet(f, s \ {Some(s)})
    BY <1>3, <1>5, SumStep
  <2>4. QED
    BY <2>1, <2>2, <2>3, <1>2
<1>6. QED
  BY <1>4, <1>5

(* An element counts once, whichever the fold takes first. *)
THEOREM SumRemove ==
  ASSUME NEW S, IsFiniteSet(S), NEW f, \A x \in S : f[x] \in Int, NEW x \in S
  PROVE  SumFunctionOnSet(f, S) = f[x] + SumFunctionOnSet(f, S \ {x})
<1>. DEFINE V(s) == SumFunctionOnSet(f, s)
            Bad == {s \in SUBSET S : \E y \in s : V(s) # f[y] + V(s \ {y})}
<1>1. SUFFICES ASSUME Bad # {} PROVE FALSE
  OBVIOUS
<1>2. PICK s \in Bad : \A t \in Bad : ~(t \subseteq s /\ t # s)
  <2>1. Bad \subseteq SUBSET S
    OBVIOUS
  <2>. HIDE DEF Bad
  <2>2. QED
    BY <1>1, <2>1, SmallestSubset
<1>. DEFINE c == Some(s)
<1>3. PICK y \in s : V(s) # f[y] + V(s \ {y})
  BY <1>2
<1>4. IsFiniteSet(s) /\ c \in s
  BY <1>3, FS_Subset DEF Some
<1>5. V(s) = f[c] + V(s \ {c})
  BY <1>3, <1>4, SumStep
<1>6. y # c
  BY <1>3, <1>5
<1>7. s \ {c} \notin Bad /\ s \ {y} \notin Bad
  <2>. HIDE DEF Bad, c
  <2>1. QED
    BY <1>2, <1>3, <1>4
<1>8. V(s \ {c}) = f[y] + V(s \ {c, y})
  <2>1. (s \ {c}) \ {y} = s \ {c, y} /\ y \in s \ {c} /\ s \ {c} \in SUBSET S
    BY <1>6
  <2>. HIDE DEF V, c
  <2>2. QED
    BY <1>7, <2>1
<1>9. V(s \ {y}) = f[c] + V(s \ {c, y})
  <2>1. (s \ {y}) \ {c} = s \ {c, y} /\ c \in s \ {y} /\ s \ {y} \in SUBSET S
    BY <1>4, <1>6
  <2>. HIDE DEF V, c
  <2>2. QED
    BY <1>7, <2>1
<1>10. V(s \ {c, y}) \in Int /\ f[c] \in Int /\ f[y] \in Int
  <2>1. IsFiniteSet(s \ {c, y}) /\ s \ {c, y} \subseteq S
    BY <1>4, FS_Subset
  <2>. HIDE DEF c
  <2>2. V(s \ {c, y}) \in Int
    BY <2>1, SumType
  <2>3. QED
    BY <2>2, <1>3, <1>4
<1>11. QED
  <2>. HIDE DEF V, c
  <2>1. QED
    BY <1>3, <1>5, <1>8, <1>9, <1>10

(* The sum over one element. *)
THEOREM SumOne ==
  ASSUME NEW f, NEW x, f[x] \in Int
  PROVE  SumFunctionOnSet(f, {x}) = f[x]
<1>1. IsFiniteSet({x}) /\ \A y \in {x} : f[y] \in Int
  BY FS_Singleton
<1>2. SumFunctionOnSet(f, {x}) = f[x] + SumFunctionOnSet(f, {x} \ {x})
  BY <1>1, SumRemove
<1>3. {x} \ {x} = {}
  OBVIOUS
<1>4. SumFunctionOnSet(f, {x} \ {x}) = 0
  BY <1>3, SumEmpty
<1>5. QED
  BY <1>2, <1>4

\* What is added to a set adds its summand.
THEOREM SumAdd ==
  ASSUME NEW S, IsFiniteSet(S), NEW x, x \notin S,
         NEW f, \A y \in S \cup {x} : f[y] \in Int
  PROVE  SumFunctionOnSet(f, S \cup {x}) = f[x] + SumFunctionOnSet(f, S)
<1>1. IsFiniteSet(S \cup {x}) /\ (S \cup {x}) \ {x} = S
  BY FS_AddElement
<1>2. QED
  BY <1>1, SumRemove

\* Only the summands count.
THEOREM SumSame ==
  ASSUME NEW S, IsFiniteSet(S), NEW f, NEW g, \A x \in S : f[x] = g[x]
  PROVE  SumFunctionOnSet(f, S) = SumFunctionOnSet(g, S)
<1>. DEFINE Bad == {s \in SUBSET S : SumFunctionOnSet(f, s) # SumFunctionOnSet(g, s)}
<1>1. SUFFICES ASSUME Bad # {} PROVE FALSE
  OBVIOUS
<1>2. PICK s \in Bad : \A t \in Bad : ~(t \subseteq s /\ t # s)
  <2>1. Bad \subseteq SUBSET S
    OBVIOUS
  <2>. HIDE DEF Bad
  <2>2. QED
    BY <1>1, <2>1, SmallestSubset
<1>3. IsFiniteSet(s)
  BY FS_Subset
<1>4. s # {}
  BY SumEmpty
<1>5. Some(s) \in s
  BY <1>4 DEF Some
<1>6. SumFunctionOnSet(f, s \ {Some(s)}) = SumFunctionOnSet(g, s \ {Some(s)})
  BY <1>2, <1>5
<1>7. QED
  BY <1>2, <1>3, <1>4, <1>5, <1>6, SumStep

\* One summand changes.
THEOREM SumChange ==
  ASSUME NEW S, IsFiniteSet(S), NEW k \in S,
         NEW f, \A x \in S : f[x] \in Int,
         NEW g, \A x \in S \ {k} : g[x] = f[x], g[k] \in Int
  PROVE  SumFunctionOnSet(g, S) = SumFunctionOnSet(f, S) - f[k] + g[k]
<1>1. IsFiniteSet(S \ {k})
  BY FS_RemoveElement
<1>2. SumFunctionOnSet(f, S \ {k}) = SumFunctionOnSet(g, S \ {k})
  BY <1>1, SumSame
<1>3. SumFunctionOnSet(f, S \ {k}) \in Int
  BY <1>1, SumType
<1>4. SumFunctionOnSet(f, S) = f[k] + SumFunctionOnSet(f, S \ {k})
  BY SumRemove
<1>5. SumFunctionOnSet(g, S) = g[k] + SumFunctionOnSet(g, S \ {k})
  BY SumRemove
<1>6. QED
  BY <1>2, <1>3, <1>4, <1>5

\* Summands that are not negative add up to something that is none either,
\* and to at least each of them.
THEOREM SumNat ==
  ASSUME NEW S, IsFiniteSet(S), NEW f, \A x \in S : f[x] \in Nat
  PROVE  SumFunctionOnSet(f, S) \in Nat
<1>. DEFINE Bad == {s \in SUBSET S : SumFunctionOnSet(f, s) \notin Nat}
<1>1. SUFFICES ASSUME Bad # {} PROVE FALSE
  OBVIOUS
<1>2. PICK s \in Bad : \A t \in Bad : ~(t \subseteq s /\ t # s)
  <2>1. Bad \subseteq SUBSET S
    OBVIOUS
  <2>. HIDE DEF Bad
  <2>2. QED
    BY <1>1, <2>1, SmallestSubset
<1>3. IsFiniteSet(s)
  BY FS_Subset
<1>4. s # {}
  <2>1. SumFunctionOnSet(f, {}) \in Nat
    BY SumEmpty
  <2>2. QED
    BY <2>1
<1>5. Some(s) \in s
  BY <1>4 DEF Some
<1>6. SumFunctionOnSet(f, s \ {Some(s)}) \in Nat
  BY <1>2, <1>5
<1>7. SumFunctionOnSet(f, s) = f[Some(s)] + SumFunctionOnSet(f, s \ {Some(s)})
  BY <1>3, <1>4, SumStep
<1>8. QED
  BY <1>2, <1>5, <1>6, <1>7

THEOREM SumBounds ==
  ASSUME NEW S, IsFiniteSet(S), NEW f, \A x \in S : f[x] \in Nat, NEW k \in S
  PROVE  f[k] <= SumFunctionOnSet(f, S)
<1>1. IsFiniteSet(S \ {k})
  BY FS_RemoveElement
<1>2. SumFunctionOnSet(f, S \ {k}) \in Nat
  BY <1>1, SumNat
<1>3. SumFunctionOnSet(f, S) = f[k] + SumFunctionOnSet(f, S \ {k})
  BY SumRemove
<1>4. QED
  BY <1>2, <1>3

THEOREM SumZero ==
  ASSUME NEW S, IsFiniteSet(S), NEW f, \A x \in S : f[x] = 0
  PROVE  SumFunctionOnSet(f, S) = 0
<1>. DEFINE Bad == {s \in SUBSET S : SumFunctionOnSet(f, s) # 0}
<1>1. SUFFICES ASSUME Bad # {} PROVE FALSE
  OBVIOUS
<1>2. PICK s \in Bad : \A t \in Bad : ~(t \subseteq s /\ t # s)
  <2>1. Bad \subseteq SUBSET S
    OBVIOUS
  <2>. HIDE DEF Bad
  <2>2. QED
    BY <1>1, <2>1, SmallestSubset
<1>3. IsFiniteSet(s)
  BY FS_Subset
<1>4. s # {}
  BY <1>2, SumEmpty
<1>5. Some(s) \in s
  BY <1>4 DEF Some
<1>6. SumFunctionOnSet(f, s \ {Some(s)}) = 0
  BY <1>2, <1>5
<1>7. SumFunctionOnSet(f, s) = f[Some(s)] + SumFunctionOnSet(f, s \ {Some(s)})
  BY <1>3, <1>4, SumStep
<1>8. QED
  BY <1>2, <1>5, <1>6, <1>7

\* The sum over two disjoint sets.
THEOREM SumUnion ==
  ASSUME NEW S, IsFiniteSet(S), NEW T, IsFiniteSet(T), S \cap T = {},
         NEW f, \A x \in S \cup T : f[x] \in Int
  PROVE  SumFunctionOnSet(f, S \cup T) = SumFunctionOnSet(f, S) + SumFunctionOnSet(f, T)
<1>. DEFINE V(s) == SumFunctionOnSet(f, s)
            Bad == {t \in SUBSET T : V(S \cup t) # V(S) + V(t)}
<1>1. SUFFICES Bad = {}
  OBVIOUS
<1>2. SUFFICES ASSUME Bad # {} PROVE FALSE
  OBVIOUS
<1>3. PICK t \in Bad : \A u \in Bad : ~(u \subseteq t /\ u # t)
  <2>1. Bad \subseteq SUBSET T
    OBVIOUS
  <2>. HIDE DEF Bad
  <2>2. QED
    BY <1>2, <2>1, SmallestSubset
<1>4. CASE t = {}
  <2>1. V(t) = 0 /\ V(S \cup t) = V(S)
    <3>1. S \cup t = S
      BY <1>4
    <3>2. V(S \cup t) = V(S)
      BY <3>1, Zenon
    <3>3. QED
      BY <1>4, <3>2, SumEmpty
  <2>2. V(S) \in Int
    BY SumType
  <2>. HIDE DEF V
  <2>3. V(S \cup t) = V(S) + V(t)
    BY <2>1, <2>2
  <2>4. QED
    BY <1>3, <2>3
<1>5. CASE t # {}
  <2>1. PICK x \in t : TRUE
    BY <1>5
  <2>2. PICK u : u = t \ {x}
    OBVIOUS
  <2>3. u \in SUBSET T /\ u \notin Bad /\ x \notin u /\ t = u \cup {x}
    BY <1>3, <2>1, <2>2
  <2>4. V(S \cup u) = V(S) + V(u)
    BY <2>3
  <2>5. IsFiniteSet(u) /\ IsFiniteSet(S \cup u) /\ x \notin S \cup u /\ x \in T
    BY <2>1, <2>3, FS_Subset, FS_Union
  <2>6. V(u \cup {x}) = f[x] + V(u)
    BY <2>3, <2>5, SumAdd
  <2>7. V((S \cup u) \cup {x}) = f[x] + V(S \cup u)
    BY <2>3, <2>5, SumAdd
  <2>8. V(S) \in Int /\ V(u) \in Int /\ f[x] \in Int
    BY <2>3, <2>5, SumType
  <2>9. V(S \cup t) = V((S \cup u) \cup {x}) /\ V(t) = V(u \cup {x})
    <3>1. S \cup t = (S \cup u) \cup {x}
      BY <2>3
    <3>2. QED
      BY <2>3, <3>1, Zenon
  <2>. HIDE DEF V
  <2>10. V(S \cup t) = V(S) + V(t)
    BY <2>4, <2>6, <2>7, <2>8, <2>9
  <2>11. QED
    BY <1>3, <2>10
<1>6. QED
  BY <1>4, <1>5

\* A smaller set has a smaller sum.
THEOREM SumSubset ==
  ASSUME NEW S, IsFiniteSet(S), NEW T \in SUBSET S, NEW f, \A x \in S : f[x] \in Nat
  PROVE  SumFunctionOnSet(f, T) <= SumFunctionOnSet(f, S)
<1>. PICK R : R = S \ T
  OBVIOUS
<1>1. IsFiniteSet(T) /\ IsFiniteSet(R) /\ T \cap R = {} /\ S = T \cup R
  BY FS_Subset
<1>5. SumFunctionOnSet(f, S) = SumFunctionOnSet(f, T \cup R)
  BY <1>1, Zenon
<1>2. SumFunctionOnSet(f, T \cup R) = SumFunctionOnSet(f, T) + SumFunctionOnSet(f, R)
  BY <1>1, SumUnion
<1>3. SumFunctionOnSet(f, T) \in Nat /\ SumFunctionOnSet(f, R) \in Nat
  BY <1>1, SumNat
<1>6. PICK t, r, s : /\ t = SumFunctionOnSet(f, T) /\ r = SumFunctionOnSet(f, R)
                     /\ s = SumFunctionOnSet(f, S)
  OBVIOUS
<1>7. s = t + r /\ t \in Nat /\ r \in Nat
  BY <1>2, <1>3, <1>5, <1>6
<1>8. QED
  BY <1>6, <1>7

\* The sum of what is added member by member.
THEOREM SumPlus ==
  ASSUME NEW S, IsFiniteSet(S), NEW f, NEW g, NEW h,
         \A x \in S : g[x] \in Int /\ h[x] \in Int /\ f[x] = g[x] + h[x]
  PROVE  SumFunctionOnSet(f, S) = SumFunctionOnSet(g, S) + SumFunctionOnSet(h, S)
<1>. DEFINE F(s) == SumFunctionOnSet(f, s)
            G(s) == SumFunctionOnSet(g, s)
            H(s) == SumFunctionOnSet(h, s)
            Bad == {s \in SUBSET S : F(s) # G(s) + H(s)}
<1>1. SUFFICES ASSUME Bad # {} PROVE FALSE
  OBVIOUS
<1>2. PICK s \in Bad : \A t \in Bad : ~(t \subseteq s /\ t # s)
  <2>1. Bad \subseteq SUBSET S
    OBVIOUS
  <2>. HIDE DEF Bad
  <2>2. QED
    BY <1>1, <2>1, SmallestSubset
<1>3. IsFiniteSet(s)
  BY FS_Subset
<1>4. s # {}
  <2>1. SUFFICES ASSUME s = {} PROVE FALSE
    OBVIOUS
  <2>2. F(s) = 0 /\ G(s) = 0 /\ H(s) = 0
    BY <2>1, SumEmpty
  <2>3. F(s) # G(s) + H(s)
    BY <1>2
  <2>. HIDE DEF F, G, H, Bad
  <2>4. QED
    BY <2>2, <2>3
<1>5. PICK x \in s : x = Some(s)
  BY <1>4 DEF Some
<1>6. PICK r : r = s \ {x}
  OBVIOUS
<1>7. r \in SUBSET S /\ r \subseteq s /\ r # s /\ IsFiniteSet(r)
  BY <1>3, <1>5, <1>6, FS_Subset
<1>8. F(r) = G(r) + H(r)
  BY <1>2, <1>7
<1>9. F(s) = f[x] + F(r) /\ G(s) = g[x] + G(r) /\ H(s) = h[x] + H(r)
  BY <1>3, <1>4, <1>5, <1>6, SumStep
<1>10. G(r) \in Int /\ H(r) \in Int
  BY <1>7, SumType
<1>11. g[x] \in Int /\ h[x] \in Int /\ f[x] = g[x] + h[x] /\ F(s) # G(s) + H(s)
  BY <1>2, <1>5
<1>12. QED
  <2>. HIDE DEF F, G, H
  <2>1. QED
    BY <1>8, <1>9, <1>10, <1>11

\* A sum over the values of an injective function, counted by its arguments.
THEOREM SumImage ==
  ASSUME NEW A, IsFiniteSet(A), NEW e, \A x, y \in A : e[x] = e[y] => x = y,
         NEW f, \A x \in A : f[e[x]] \in Int
  PROVE  SumFunctionOnSet(f, {e[x] : x \in A}) = SumFunctionOnSet([x \in A |-> f[e[x]]], A)
<1>. DEFINE g == [x \in A |-> f[e[x]]]
            V(s) == SumFunctionOnSet(f, {e[x] : x \in s})
            U(s) == SumFunctionOnSet(g, s)
            Bad == {s \in SUBSET A : V(s) # U(s)}
<1>1. SUFFICES Bad = {}
  OBVIOUS
<1>2. SUFFICES ASSUME Bad # {} PROVE FALSE
  OBVIOUS
<1>3. PICK s \in Bad : \A u \in Bad : ~(u \subseteq s /\ u # s)
  <2>1. Bad \subseteq SUBSET A
    OBVIOUS
  <2>. HIDE DEF Bad
  <2>2. QED
    BY <1>2, <2>1, SmallestSubset
<1>4. CASE s = {}
  <2>1. {e[x] : x \in s} = {}
    BY <1>4
  <2>2. V(s) = 0 /\ U(s) = 0
    BY <1>4, <2>1, SumEmpty
  <2>3. QED
    BY <1>3, <2>2
<1>5. CASE s # {}
  <2>1. PICK y \in s : TRUE
    BY <1>5
  <2>2. PICK u : u = s \ {y}
    OBVIOUS
  <2>3. u \in SUBSET A /\ u \notin Bad /\ y \notin u /\ s = u \cup {y} /\ y \in A
    BY <1>3, <2>1, <2>2
  <2>4. V(u) = U(u)
    BY <2>3
  <2>5. PICK E : E = {e[x] : x \in u}
    OBVIOUS
  <2>6. {e[x] : x \in s} = E \cup {e[y]} /\ e[y] \notin E
    BY <2>3, <2>5
  <2>7. IsFiniteSet(u) /\ IsFiniteSet(E)
    <3>1. IsFiniteSet(u)
      BY <2>3, FS_Subset
    <3>. DEFINE h == [x \in u |-> e[x]]
    <3>2. h \in Surjection(u, E)
      BY <2>5 DEF Surjection
    <3>. HIDE DEF h
    <3>3. QED
      BY <3>1, <3>2, FS_Surjection
  <2>8. \A z \in E \cup {e[y]} : f[z] \in Int
    BY <2>3, <2>5
  <2>9. SumFunctionOnSet(f, E \cup {e[y]}) = f[e[y]] + SumFunctionOnSet(f, E)
    BY <2>6, <2>7, <2>8, SumAdd
  <2>10. (\A x \in u \cup {y} : g[x] \in Int) /\ g[y] = f[e[y]]
    BY <2>3
  <2>. HIDE DEF g
  <2>11. SumFunctionOnSet(g, u \cup {y}) = g[y] + SumFunctionOnSet(g, u)
    BY <2>3, <2>7, <2>10, SumAdd
  <2>12. V(s) = f[e[y]] + V(u)
    BY <2>5, <2>6, <2>9
  <2>13. U(s) = f[e[y]] + U(u)
    BY <2>3, <2>10, <2>11
  <2>. HIDE DEF V, U
  <2>14. V(s) = U(s)
    BY <2>4, <2>12, <2>13
  <2>15. QED
    BY <1>3, <2>14
<1>6. QED
  BY <1>4, <1>5

\* The sum over a sequence, when an element is appended.
THEOREM SumOfAppend ==
  ASSUME NEW s \in Seq(Int), NEW x \in Int
  PROVE  SumFunction(Append(s, x)) = SumFunction(s) + x
<1>. DEFINE t == Append(s, x)
            n == Len(s)
<1>1. n \in Nat /\ DOMAIN s = 1..n /\ DOMAIN t = 1..n \cup {n + 1}
  OBVIOUS
<1>2. n + 1 \notin 1..n /\ IsFiniteSet(1..n)
  BY <1>1, FS_Interval
<1>3. (\A i \in 1..n : t[i] = s[i] /\ s[i] \in Int) /\ t[n + 1] = x
  BY <1>1
<1>. HIDE DEF t, n
<1>4. SumFunctionOnSet(t, 1..n \cup {n + 1}) = t[n + 1] + SumFunctionOnSet(t, 1..n)
  BY <1>2, <1>3, SumAdd
<1>5. SumFunctionOnSet(t, 1..n) = SumFunctionOnSet(s, 1..n)
  BY <1>2, <1>3, SumSame
<1>6. SumFunctionOnSet(s, 1..n) \in Int
  BY <1>2, <1>3, SumType
<1>7. SumFunction(t) = SumFunctionOnSet(t, 1..n \cup {n + 1})
      /\ SumFunction(s) = SumFunctionOnSet(s, 1..n)
  BY <1>1, Zenon DEF SumFunction
<1>8. QED
  BY <1>3, <1>4, <1>5, <1>6, <1>7 DEF t

-----------------------------------------------------------------------------
(* Rests: what 64-bit arithmetic keeps of a sum.                           *)
THEOREM DivisionWithRest ==
  ASSUME NEW w \in Nat, w # 0, NEW x \in Int
  PROVE  /\ x = w * (x \div w) + (x % w)
         /\ x \div w \in Int /\ x % w \in 0..(w - 1)
<1>1. x = w * (x \div w) + (x % w)
  OBVIOUS
<1>2. x \div w \in Int
  OBVIOUS
<1>3. x % w \in 0..(w - 1)
  OBVIOUS
<1>4. QED
  BY <1>1, <1>2, <1>3

\* Of numbers, one is the smallest.
THEOREM SmallestNumber ==
  ASSUME NEW T \in SUBSET Nat, T # {} PROVE \E x \in T : \A y \in T : x <= y
<1>1. PICK x \in T : \A y \in T : ~(<<y, x>> \in OpToRel(<, Nat))
  BY NatLessThanWellFounded, WFMin
<1>2. \A y \in T : ~(y < x)
  BY <1>1 DEF OpToRel
<1>3. QED
  BY <1>2

\* A multiple of w that is less than w is none.
THEOREM SmallProduct ==
  ASSUME NEW w \in Nat, NEW k \in Int, -w < w * k, w * k < w PROVE k = 0
<1>1. ASSUME k >= 1 PROVE FALSE
  <2>1. w * k >= w
    BY <1>1
  <2>2. QED
    BY <2>1
<1>2. ASSUME k <= -1 PROVE FALSE
  <2>1. w * k <= -w
    BY <1>2
  <2>2. QED
    BY <2>1
<1>3. QED
  BY <1>1, <1>2

\* Numbers that differ by a multiple of w have the same rest.
THEOREM SameRest ==
  ASSUME NEW w \in Nat, w # 0, NEW a \in Int, NEW b \in Int, NEW k \in Int, a = b + k * w
  PROVE  a % w = b % w
<1>1. PICK p \in Int : p = a \div w
  BY DivisionWithRest
<1>2. PICK q \in Int : q = b \div w
  BY DivisionWithRest
<1>3. PICK x \in Int : x = a % w /\ 0 <= x /\ x < w
  BY DivisionWithRest
<1>4. PICK y \in Int : y = b % w /\ 0 <= y /\ y < w
  BY DivisionWithRest
<1>5. a = w * p + x /\ b = w * q + y
  BY <1>1, <1>2, <1>3, <1>4, DivisionWithRest
<1>6. PICK m \in Int : m = q + k - p
  OBVIOUS
<1>7. w * m = w * q + w * k - w * p
  BY <1>6
<1>8. k * w = w * k
  OBVIOUS
<1>9. w * q \in Int /\ w * k \in Int /\ w * p \in Int /\ w * m \in Int
  OBVIOUS
<1>10. w * m = x - y
  BY <1>5, <1>7, <1>8, <1>9
<1>11. m = 0
  BY <1>3, <1>4, <1>10, SmallProduct
<1>12. w * m = 0
  BY <1>11
<1>13. x = y
  BY <1>10, <1>12
<1>14. QED
  BY <1>3, <1>4, <1>13
(* A quotient grows where the rest starts anew.                            *)
LEMMA NextQuotient ==
  ASSUME NEW w \in Nat, w # 0, NEW b \in Nat
  PROVE  (b + 1) \div w = IF (b + 1) % w = 0 THEN (b \div w) + 1 ELSE b \div w
<1>1. PICK q \in Int, r \in Int : q = b \div w /\ r = b % w /\ b = w * q + r /\ 0 <= r /\ r < w
  BY DivisionWithRest
<1>2. PICK c \in Nat : c = b + 1 OBVIOUS
<1>3. PICK p \in Int, s \in Int : p = c \div w /\ s = c % w /\ c = w * p + s /\ 0 <= s /\ s < w
  BY DivisionWithRest
<1>4. w * p \in Int /\ w * q \in Int OBVIOUS
<1>5. CASE s = 0
  <2>1. PICK k \in Int : k = p - q - 1 OBVIOUS
  <2>2. w * k = w * p - w * q - w BY <2>1
  <2>3. w * k = r + 1 - w BY <1>1, <1>2, <1>3, <1>4, <1>5, <2>2
  <2>4. k = 0 BY <1>1, <2>3, SmallProduct
  <2>5. QED BY <1>1, <1>2, <1>3, <1>5, <2>1, <2>4
<1>6. CASE s # 0
  <2>1. PICK k \in Int : k = p - q OBVIOUS
  <2>2. w * k = w * p - w * q BY <2>1
  <2>3. w * k = r + 1 - s BY <1>1, <1>2, <1>3, <1>4, <2>2
  <2>4. k = 0 BY <1>1, <1>3, <1>6, <2>3, SmallProduct
  <2>5. QED BY <1>1, <1>2, <1>3, <1>6, <2>1, <2>4
<1>7. QED BY <1>5, <1>6

-----------------------------------------------------------------------------
(* A recursive function exists when every call goes down a bounded rank.   *)
Recursive(f, S, stop, b, nx, st) ==
  \A x \in S : f[x] = IF x \in stop THEN b[x] ELSE st[<<x, f[nx[x]]>>]

THEOREM RecursionDefines ==
  ASSUME NEW S, NEW V, NEW N \in Nat, NEW r, \A x \in S : r[x] \in 0..N,
         NEW stop, NEW b, \A x \in S \cap stop : b[x] \in V,
         NEW nx, \A x \in S \ stop : nx[x] \in S /\ r[nx[x]] < r[x],
         NEW st \in [S \X V -> V]
  PROVE  \E f \in [S -> V] : Recursive(f, S, stop, b, nx, st)
<1>. DEFINE Low(n) == {x \in S : r[x] < n}
            Good(n) == \E f \in [Low(n) -> V] : Recursive(f, Low(n), stop, b, nx, st)
            Bad == {n \in Nat : ~Good(n)}
<1>1. Bad = {}
  <2>1. SUFFICES ASSUME Bad # {} PROVE FALSE OBVIOUS
  <2>2. PICK n \in Bad : \A m \in Bad : n <= m
    <3>1. Bad \in SUBSET Nat OBVIOUS
    <3>. HIDE DEF Bad
    <3>2. QED BY <2>1, <3>1, SmallestNumber
  <2>3. n \in Nat /\ ~Good(n) OBVIOUS
  <2>4. CASE n = 0
    <3>1. Low(0) = {}
      <4>1. \A x \in S : ~(r[x] < 0) OBVIOUS
      <4>2. QED BY <4>1
    <3>2. [x \in {} |-> x] \in [Low(0) -> V] /\ Recursive([x \in {} |-> x], Low(0), stop, b, nx, st)
      BY <3>1 DEF Recursive
    <3>3. QED BY <2>3, <2>4, <3>2
  <2>5. CASE n # 0
    <3>1. PICK m \in Nat : n = m + 1
      <4>1. n - 1 \in Nat /\ n = (n - 1) + 1 BY <2>3, <2>5
      <4>2. QED BY <4>1
    <3>2. Good(m)
      <4>1. m \notin Bad
        <5>1. ~(n <= m) BY <3>1
        <5>. HIDE DEF Bad
        <5>2. QED BY <2>2, <5>1
      <4>2. QED BY <4>1
    <3>3. PICK L, M : L = Low(m) /\ M = Low(n) OBVIOUS
    <3>4. PICK f \in [L -> V] : Recursive(f, L, stop, b, nx, st) BY <3>2, <3>3
    <3>5. \A x \in M : x \in S /\ r[x] \in Nat /\ r[x] < m + 1 BY <3>1, <3>3
    <3>6. ASSUME NEW x \in M, x \notin stop PROVE nx[x] \in L
      <4>1. x \in S \ stop BY <3>5, <3>6
      <4>2. nx[x] \in S /\ r[nx[x]] < r[x] BY <4>1
      <4>3. r[nx[x]] \in Nat /\ r[x] \in Nat /\ r[x] < m + 1 BY <3>5, <4>2
      <4>4. r[nx[x]] < m BY <4>2, <4>3
      <4>5. QED BY <3>3, <4>2, <4>4
    <3>7. PICK g : g = [x \in M |-> IF x \in stop THEN b[x] ELSE st[<<x, f[nx[x]]>>]] OBVIOUS
    <3>8. ASSUME NEW x \in M PROVE g[x] \in V
      <4>1. x \in S BY <3>5
      <4>2. CASE x \in stop BY <3>7, <4>1, <4>2
      <4>3. CASE x \notin stop
        <5>1. f[nx[x]] \in V BY <3>4, <3>6, <4>3
        <5>2. <<x, f[nx[x]]>> \in S \X V BY <4>1, <5>1
        <5>3. st[<<x, f[nx[x]]>>] \in V BY <5>2
        <5>4. QED BY <3>7, <4>3, <5>3
      <4>4. QED BY <4>2, <4>3
    <3>9. g \in [M -> V] BY <3>7, <3>8
    <3>10. \A x \in L : x \in M
      <4>1. ASSUME NEW x \in L PROVE x \in S /\ r[x] < m + 1
        <5>1. x \in S /\ r[x] < m /\ r[x] \in Nat BY <3>3
        <5>2. QED BY <5>1
      <4>2. QED BY <3>1, <3>3, <4>1
    <3>11. \A x \in L : g[x] = f[x] BY <3>4, <3>7, <3>10 DEF Recursive
    <3>12. \A x \in M : g[x] = IF x \in stop THEN b[x] ELSE st[<<x, g[nx[x]]>>]
      BY <3>6, <3>7, <3>11
    <3>13. Recursive(g, M, stop, b, nx, st) BY <3>12 DEF Recursive
    <3>14. QED BY <2>3, <3>3, <3>9, <3>13
  <2>6. QED BY <2>4, <2>5
<1>2. N + 1 \in Nat /\ Good(N + 1)
  <2>1. N + 1 \in Nat OBVIOUS
  <2>2. N + 1 \notin Bad BY <1>1
  <2>3. QED BY <2>1, <2>2
<1>3. Low(N + 1) = S
  <2>1. ASSUME NEW x \in S PROVE r[x] < N + 1
    <3>1. r[x] \in 0..N OBVIOUS
    <3>2. QED BY <3>1
  <2>2. QED BY <2>1
<1>4. PICK T : T = Low(N + 1) OBVIOUS
<1>5. T = S BY <1>3, <1>4
<1>6. \E f \in [T -> V] : Recursive(f, T, stop, b, nx, st) BY <1>2, <1>4
<1>7. QED BY <1>5, <1>6

(* Induction along a rank, for a set of the cases that are settled.        *)
THEOREM RankInduction ==
  ASSUME NEW S, NEW r, \A x \in S : r[x] \in Nat, NEW P,
         \A x \in S : (\A y \in S : r[y] < r[x] => y \in P) => x \in P
  PROVE  \A x \in S : x \in P
<1>. DEFINE Bad == {n \in Nat : \E x \in S : r[x] = n /\ x \notin P}
<1>1. SUFFICES ASSUME NEW z \in S, z \notin P PROVE FALSE OBVIOUS
<1>2. r[z] \in Bad BY <1>1
<1>3. PICK n \in Bad : \A m \in Bad : n <= m
  <2>1. Bad \in SUBSET Nat /\ Bad # {} BY <1>2
  <2>. HIDE DEF Bad
  <2>2. QED BY <2>1, SmallestNumber
<1>4. PICK x \in S : r[x] = n /\ x \notin P OBVIOUS
<1>5. ASSUME NEW y \in S, r[y] < r[x] PROVE y \in P
  <2>1. SUFFICES ASSUME y \notin P PROVE FALSE OBVIOUS
  <2>2. r[y] \in Bad BY <2>1
  <2>. HIDE DEF Bad
  <2>3. n <= r[y] BY <1>3, <2>2
  <2>4. r[y] \in Nat /\ n \in Nat BY <1>4
  <2>5. QED BY <1>4, <1>5, <2>3, <2>4
<1>6. QED BY <1>4, <1>5

(* A factor can be taken out of a sum.                                     *)
THEOREM SumTimes ==
  ASSUME NEW S, IsFiniteSet(S), NEW c \in Int, NEW f, NEW g,
         \A x \in S : f[x] \in Int /\ g[x] = c * f[x]
  PROVE  SumFunctionOnSet(g, S) = c * SumFunctionOnSet(f, S)
<1>0. PICK K : K = SUBSET S OBVIOUS
<1>1. PICK r : r = [T \in K |-> Cardinality(T)] OBVIOUS
<1>2. PICK P : P = {T \in K : SumFunctionOnSet(g, T) = c * SumFunctionOnSet(f, T)} OBVIOUS
<1>3. \A T \in K : IsFiniteSet(T) /\ Cardinality(T) \in Nat BY <1>0, FS_Subset, FS_CardinalityType
<1>4. ASSUME NEW T \in K, \A U \in K : r[U] < r[T] => U \in P PROVE T \in P
  <2>1. CASE T = {}
    <3>1. SumFunctionOnSet(g, T) = 0 /\ SumFunctionOnSet(f, T) = 0 BY <2>1, SumEmpty
    <3>2. QED BY <1>2, <3>1
  <2>2. CASE T # {}
    <3>1. PICK x : x \in T BY <2>2
    <3>2. PICK U : U = T \ {x} OBVIOUS
    <3>0. T \subseteq S BY <1>0
    <3>3. U \in K /\ U \subseteq S /\ IsFiniteSet(T) BY <1>0, <1>3, <3>0, <3>2
    <3>4. Cardinality(U) = Cardinality(T) - 1 BY <1>3, <3>1, <3>2, FS_RemoveElement
    <3>5. U \in P
      <4>1. r[U] = Cardinality(U) /\ r[T] = Cardinality(T) /\ Cardinality(T) \in Nat BY <1>1, <1>3, <3>3
      <4>2. r[U] < r[T] BY <3>4, <4>1
      <4>3. QED BY <1>4, <3>3, <4>2
    <3>6. \A y \in T : f[y] \in Int /\ g[y] \in Int BY <3>0
    <3>7. SumFunctionOnSet(f, T) = f[x] + SumFunctionOnSet(f, U) BY <3>1, <3>2, <3>3, <3>6, SumRemove
    <3>8. SumFunctionOnSet(g, T) = g[x] + SumFunctionOnSet(g, U) BY <3>1, <3>2, <3>3, <3>6, SumRemove
    <3>9. SumFunctionOnSet(g, U) = c * SumFunctionOnSet(f, U) BY <1>2, <3>5
    <3>10. PICK a \in Int, b \in Int : a = f[x] /\ b = SumFunctionOnSet(f, U)
      <4>1. IsFiniteSet(U) BY <1>3, <3>3
      <4>2. SumFunctionOnSet(f, U) \in Int BY <3>3, <4>1, SumType
      <4>3. QED BY <3>0, <3>1, <4>2
    <3>11. g[x] = c * a BY <3>0, <3>1, <3>10
    <3>12. c * (a + b) = c * a + c * b OBVIOUS
    <3>13. QED BY <1>2, <3>7, <3>8, <3>9, <3>10, <3>11, <3>12
  <2>3. QED BY <2>1, <2>2
<1>5. \A T \in K : r[T] \in Nat BY <1>1, <1>3
<1>6. \A T \in K : T \in P BY <1>4, <1>5, RankInduction
<1>7. QED BY <1>0, <1>2, <1>6

(* A sum of numbers that are at most m.                                    *)
THEOREM SumMost ==
  ASSUME NEW S, IsFiniteSet(S), NEW m \in Nat, NEW f, \A x \in S : f[x] \in Int /\ f[x] <= m
  PROVE  SumFunctionOnSet(f, S) <= m * Cardinality(S)
<1>0. PICK K : K = SUBSET S OBVIOUS
<1>1. PICK r : r = [T \in K |-> Cardinality(T)] OBVIOUS
<1>2. PICK P : P = {T \in K : SumFunctionOnSet(f, T) <= m * Cardinality(T)} OBVIOUS
<1>3. \A T \in K : IsFiniteSet(T) /\ Cardinality(T) \in Nat BY <1>0, FS_Subset, FS_CardinalityType
<1>4. ASSUME NEW T \in K, \A U \in K : r[U] < r[T] => U \in P PROVE T \in P
  <2>1. CASE T = {}
    <3>1. SumFunctionOnSet(f, T) = 0 /\ Cardinality(T) = 0 BY <2>1, SumEmpty, FS_EmptySet
    <3>2. QED BY <1>2, <3>1
  <2>2. CASE T # {}
    <3>1. PICK x : x \in T BY <2>2
    <3>2. PICK U : U = T \ {x} OBVIOUS
    <3>0. T \subseteq S BY <1>0
    <3>3. U \in K /\ U \subseteq S /\ IsFiniteSet(T) BY <1>0, <1>3, <3>0, <3>2
    <3>4. Cardinality(U) = Cardinality(T) - 1 BY <1>3, <3>1, <3>2, FS_RemoveElement
    <3>5. U \in P
      <4>1. r[U] = Cardinality(U) /\ r[T] = Cardinality(T) /\ Cardinality(T) \in Nat BY <1>1, <1>3, <3>3
      <4>2. r[U] < r[T] BY <3>4, <4>1
      <4>3. QED BY <1>4, <3>3, <4>2
    <3>6. SumFunctionOnSet(f, T) = f[x] + SumFunctionOnSet(f, U) BY <3>0, <3>1, <3>2, <3>3, SumRemove
    <3>7. PICK k \in Nat : k = Cardinality(U) BY <1>3, <3>3
    <3>8. Cardinality(T) = k + 1 BY <1>3, <3>4, <3>7
    <3>9. PICK a \in Int, b \in Int : a = f[x] /\ b = SumFunctionOnSet(f, U)
      <4>1. IsFiniteSet(U) BY <1>3, <3>3
      <4>2. SumFunctionOnSet(f, U) \in Int BY <3>3, <4>1, SumType
      <4>3. QED BY <3>0, <3>1, <4>2
    <3>10. a <= m /\ b <= m * k BY <1>2, <3>0, <3>1, <3>5, <3>7, <3>9
    <3>11. m * (k + 1) = m * k + m /\ m * k \in Nat OBVIOUS
    <3>12. a + b <= m * (k + 1) BY <3>10, <3>11
    <3>13. QED BY <1>2, <3>6, <3>8, <3>9, <3>12
  <2>3. QED BY <2>1, <2>2
<1>5. \A T \in K : r[T] \in Nat BY <1>1, <1>3
<1>6. \A T \in K : T \in P BY <1>4, <1>5, RankInduction
<1>7. QED BY <1>0, <1>2, <1>6

(* A sum does not fall when what is summed does not.                       *)
THEOREM SumOrder ==
  ASSUME NEW S, IsFiniteSet(S), NEW f, NEW g, \A x \in S : f[x] \in Int /\ g[x] \in Int /\ f[x] <= g[x]
  PROVE  SumFunctionOnSet(f, S) <= SumFunctionOnSet(g, S)
<1>1. PICK h : h = [x \in S |-> g[x] - f[x]] OBVIOUS
<1>2. \A x \in S : h[x] \in Nat /\ g[x] = f[x] + h[x] BY <1>1
<1>3. SumFunctionOnSet(g, S) = SumFunctionOnSet(f, S) + SumFunctionOnSet(h, S) BY <1>2, SumPlus
<1>4. SumFunctionOnSet(h, S) \in Nat BY <1>2, SumNat
<1>5. SumFunctionOnSet(f, S) \in Int BY SumType
<1>6. QED BY <1>3, <1>4, <1>5

-----------------------------------------------------------------------------
\* A list without its entry at i.
Shortened(s, t, i, X) ==
  t \in Seq(X) /\ Len(t) = Len(s) - 1 /\ \A k \in 1..Len(s) - 1 : t[k] = s[IF k < i THEN k ELSE k + 1]

LEMMA RemovedAt ==
  ASSUME NEW X, NEW s \in Seq(X), NEW i \in DOMAIN s PROVE Shortened(s, RemoveAt(s, i), i, X)
<1>1. PICK n \in Nat : n = Len(s) /\ DOMAIN s = 1..n OBVIOUS
<1>0. i \in 1..n BY <1>1
<1>2. PICK a : a = SubSeq(s, 1, i - 1) OBVIOUS
<1>11. PICK b : b = SubSeq(s, i + 1, n) OBVIOUS
<1>12. PICK t : t = a \o b OBVIOUS
<1>3. a \in Seq(X) /\ Len(a) = i - 1 /\ \A k \in 1..(i - 1) : a[k] = s[k]
  <2>1. i - 1 \in Int /\ \A k \in 1..(i - 1) : s[k] \in X BY <1>1
  <2>2. QED BY <1>0, <1>2, <2>1, SubSeqProperties
<1>4. b \in Seq(X) /\ Len(b) = n - i /\ \A k \in 1..(n - i) : b[k] = s[i + k]
  <2>1. i + 1 \in Int /\ \A k \in (i + 1)..n : s[k] \in X BY <1>1
  <2>2. QED BY <1>0, <1>1, <1>11, <2>1, SubSeqProperties
<1>5. PICK l \in Nat, m \in Nat : l = i - 1 /\ m = n - i
  <2>1. i \in 1..n BY <1>1
  <2>2. i - 1 \in Nat /\ n - i \in Nat BY <2>1
  <2>3. QED BY <2>2
<1>6. Len(a) = l /\ Len(b) = m /\ l + m = n - 1
  <2>1. Len(a) = l /\ Len(b) = m BY <1>3, <1>4, <1>5
  <2>2. l + m = n - 1 BY <1>0, <1>5
  <2>3. QED BY <2>1, <2>2
<1>7. /\ t \in Seq(X) /\ Len(t) = l + m
      /\ \A k \in 1..(l + m) : t[k] = IF k <= l THEN a[k] ELSE b[k - l]
  <2>1. /\ a \o b \in Seq(X) /\ Len(a \o b) = Len(a) + Len(b)
        /\ \A k \in 1..(Len(a) + Len(b)) : (a \o b)[k] = IF k <= Len(a) THEN a[k] ELSE b[k - Len(a)]
    BY <1>3, <1>4, ConcatProperties
  <2>2. QED BY <1>6, <1>12, <2>1
<1>8. ASSUME NEW k \in 1..(n - 1) PROVE t[k] = s[IF k < i THEN k ELSE k + 1]
  <2>1. CASE k < i
    <3>1. k <= l /\ k \in 1..(i - 1) /\ k \in 1..(l + m) BY <1>5, <1>6, <2>1
    <3>2. QED BY <1>3, <1>7, <2>1, <3>1
  <2>2. CASE ~(k < i)
    <3>1. PICK h \in 1..(n - i) : h = k - l
      <4>1. k - l \in 1..(n - i) BY <1>1, <1>5, <2>2
      <4>2. QED BY <4>1
    <3>2. ~(k <= l) /\ k \in 1..(l + m) /\ i + h = k + 1
      <4>1. l = i - 1 /\ l + m = n - 1 /\ h = k - l BY <1>5, <1>6, <3>1
      <4>2. k \in Int /\ i \in Int /\ l \in Int /\ m \in Int /\ h \in Int /\ k >= i /\ k <= l + m BY <1>0, <1>6, <2>2
      <4>3. ~(k <= l)
        <5>1. l < i BY <4>1, <4>2
        <5>2. QED BY <4>2, <5>1
      <4>6. i + h = k + 1
        <5>1. i = l + 1 BY <4>1, <4>2
        <5>2. i + h = l + 1 + (k - l) BY <4>1, <5>1
        <5>3. QED BY <4>2, <5>2
      <4>4. k \in 1..(l + m) BY <1>6
      <4>5. QED BY <4>3, <4>4, <4>6
    <3>3. t[k] = b[h] BY <1>7, <3>1, <3>2
    <3>4. QED BY <1>4, <2>2, <3>1, <3>2, <3>3
  <2>3. QED BY <2>1, <2>2
<1>9. t = RemoveAt(s, i) BY <1>1, <1>2, <1>11, <1>12 DEF RemoveAt
<1>10. QED BY <1>1, <1>6, <1>7, <1>8, <1>9 DEF Shortened

-----------------------------------------------------------------------------
(* Induction from one number to the next, for a set of numbers.            *)
THEOREM StepByStep ==
  ASSUME NEW P, 0 \in P, \A n \in Nat : n \in P => n + 1 \in P PROVE \A n \in Nat : n \in P
<1>1. PICK S : S = Nat OBVIOUS
<1>2. PICK r : r = [n \in S |-> n] OBVIOUS
<1>3. \A n \in S : r[n] \in Nat BY <1>1, <1>2
<1>4. ASSUME NEW n \in S, \A m \in S : r[m] < r[n] => m \in P PROVE n \in P
  <2>1. CASE n = 0 BY <2>1
  <2>2. CASE n # 0
    <3>1. PICK m \in Nat : n = m + 1
      <4>1. n - 1 \in Nat /\ n = (n - 1) + 1 BY <1>1, <2>2
      <4>2. QED BY <4>1
    <3>2. r[m] < r[n] BY <1>1, <1>2, <3>1
    <3>3. QED BY <1>1, <1>4, <3>1, <3>2
  <2>3. QED BY <2>1, <2>2
<1>5. \A n \in S : n \in P BY <1>3, <1>4, RankInduction
<1>6. QED BY <1>1, <1>5

(* A loop is the function of its steps, which exists.                      *)
Iterated(f, N, start, st) == f = [k \in 0..N |-> IF k = 0 THEN start ELSE st[<<k, f[k - 1]>>]]

THEOREM LoopDefines ==
  ASSUME NEW N \in Nat, NEW V, NEW start \in V, NEW st \in [(1..N) \X V -> V]
  PROVE  \E f \in [0..N -> V] : Iterated(f, N, start, st)
<1>1. PICK P : P = {n \in Nat : n <= N =>
         \E f \in [0..n -> V] : f = [k \in 0..n |-> IF k = 0 THEN start ELSE st[<<k, f[k - 1]>>]]} OBVIOUS
<1>2. 0 \in P
  <2>1. PICK f : f = [k \in 0..0 |-> start] OBVIOUS
  <2>2. f = [k \in 0..0 |-> IF k = 0 THEN start ELSE st[<<k, f[k - 1]>>]] /\ f \in [0..0 -> V] BY <2>1
  <2>3. QED BY <1>1, <2>2
<1>3. ASSUME NEW n \in Nat, n \in P PROVE n + 1 \in P
  <2>1. SUFFICES ASSUME n + 1 <= N PROVE \E f \in [0..(n + 1) -> V] :
               f = [k \in 0..(n + 1) |-> IF k = 0 THEN start ELSE st[<<k, f[k - 1]>>]] BY <1>1
  <2>2. n <= N /\ n + 1 \in 1..N BY <2>1
  <2>3. PICK f \in [0..n -> V] : f = [k \in 0..n |-> IF k = 0 THEN start ELSE st[<<k, f[k - 1]>>]]
    BY <1>1, <1>3, <2>2
  <2>4. PICK v : v = st[<<n + 1, f[n]>>] OBVIOUS
  <2>5. v \in V
    <3>1. f[n] \in V BY <2>3
    <3>2. QED BY <2>2, <2>4, <3>1
  <2>6. PICK g : g = [k \in 0..(n + 1) |-> IF k = n + 1 THEN v ELSE f[k]] OBVIOUS
  <2>7. g \in [0..(n + 1) -> V] BY <2>3, <2>5, <2>6
  <2>8. ASSUME NEW k \in 0..(n + 1) PROVE g[k] = IF k = 0 THEN start ELSE st[<<k, g[k - 1]>>]
    <3>1. CASE k = n + 1
      <4>1. k # 0 /\ k - 1 = n /\ n \in 0..(n + 1) /\ n # n + 1 BY <3>1
      <4>2. g[k] = v /\ g[n] = f[n] BY <2>6, <3>1, <4>1
      <4>3. QED BY <2>4, <3>1, <4>1, <4>2
    <3>2. CASE k # n + 1
      <4>1. k \in 0..n BY <3>2
      <4>2. f[k] = IF k = 0 THEN start ELSE st[<<k, f[k - 1]>>] BY <2>3, <4>1
      <4>3. g[k] = f[k] BY <2>6, <3>2
      <4>4. k # 0 => k - 1 \in 0..(n + 1) /\ k - 1 # n + 1 BY <4>1
      <4>5. k # 0 => g[k - 1] = f[k - 1] BY <2>6, <4>4
      <4>6. QED BY <4>2, <4>3, <4>5
    <3>3. QED BY <3>1, <3>2
  <2>9. g = [k \in 0..(n + 1) |-> IF k = 0 THEN start ELSE st[<<k, g[k - 1]>>]] BY <2>6, <2>8
  <2>10. QED BY <2>7, <2>9
<1>4. N \in P BY <1>2, <1>3, StepByStep
<1>5. QED BY <1>1, <1>4 DEF Iterated

-----------------------------------------------------------------------------
LEMMA CountUpTo == ASSUME NEW n \in Nat PROVE IsFiniteSet(1..n) /\ Cardinality(1..n) = n
<1>1. 1 \in Int /\ n \in Int OBVIOUS
<1>2. IsFiniteSet(1..n) /\ Cardinality(1..n) = IF 1 > n THEN 0 ELSE n - 1 + 1 BY <1>1, FS_Interval, Zenon
<1>3. QED BY <1>2

LEMMA LenOfFunction == ASSUME NEW n \in Nat, NEW f, DOMAIN f = 1..n PROVE Len(f) = n
BY LenProperties

(* The list of a set of numbers: each at its rank.                         *)
Different(s) == \A i, j \in DOMAIN s : s[i] = s[j] => i = j
RankOf(cs, c) == Cardinality({d \in cs : d < c})

LEMMA RanksGrow ==
  ASSUME NEW cs \in SUBSET Nat, IsFiniteSet(cs), NEW c \in cs, NEW d \in cs, c < d
  PROVE  RankOf(cs, c) < RankOf(cs, d)
<1>1. PICK A : A = {x \in cs : x < c} OBVIOUS
<1>2. PICK B : B = {x \in cs : x < d} OBVIOUS
<1>3. IsFiniteSet(B) /\ c \in B BY <1>2, FS_Subset
<1>4. A \subseteq B \ {c}
  <2>1. SUFFICES ASSUME NEW x \in A PROVE x \in B /\ x # c OBVIOUS
  <2>2. x \in cs /\ x < c /\ x \in Nat /\ c \in Nat /\ d \in Nat BY <1>1
  <2>3. QED BY <1>2, <2>2
<1>5. IsFiniteSet(B \ {c}) /\ Cardinality(B \ {c}) = Cardinality(B) - 1 BY <1>3, FS_RemoveElement
<1>6. Cardinality(A) <= Cardinality(B \ {c}) BY <1>4, <1>5, FS_Subset
<1>7. Cardinality(B) \in Nat /\ Cardinality(A) \in Nat BY <1>3, <1>4, <1>5, FS_Subset, FS_CardinalityType
<1>8. QED BY <1>1, <1>2, <1>5, <1>6, <1>7 DEF RankOf

LEMMA RankBound ==
  ASSUME NEW cs \in SUBSET Nat, IsFiniteSet(cs), NEW c \in cs
  PROVE  RankOf(cs, c) \in Nat /\ RankOf(cs, c) < Cardinality(cs)
<1>1. PICK A : A = {x \in cs : x < c} OBVIOUS
<1>2. A \subseteq cs \ {c} BY <1>1
<1>3. IsFiniteSet(cs \ {c}) /\ Cardinality(cs \ {c}) = Cardinality(cs) - 1 BY FS_RemoveElement
<1>4. IsFiniteSet(A) /\ Cardinality(A) <= Cardinality(cs \ {c}) BY <1>2, <1>3, FS_Subset
<1>5. Cardinality(A) \in Nat /\ Cardinality(cs) \in Nat BY <1>4, FS_CardinalityType
<1>6. QED BY <1>1, <1>3, <1>4, <1>5 DEF RankOf

ByRank(S) == [i \in 1..Cardinality(S) |-> CHOOSE x \in S : Cardinality({y \in S : y < x}) = i - 1]

THEOREM ListOfRanks ==
  ASSUME NEW cs \in SUBSET Nat, IsFiniteSet(cs), NEW n \in Nat, n = Cardinality(cs), NEW s, s = ByRank(cs)
  PROVE  /\ DOMAIN s = 1..n /\ s = [i \in 1..n |-> s[i]] /\ Different(s)
         /\ \A i \in 1..n : s[i] \in cs
         /\ \A c \in cs : RankOf(cs, c) + 1 \in 1..n /\ s[RankOf(cs, c) + 1] = c
<1>1. s = [i \in 1..n |-> CHOOSE c \in cs : RankOf(cs, c) = i - 1] BY DEF RankOf, ByRank
<1>2. PICK r : r = [c \in cs |-> RankOf(cs, c) + 1] OBVIOUS
<1>3. \A c \in cs : RankOf(cs, c) \in Nat /\ RankOf(cs, c) < n BY RankBound
<1>4. ASSUME NEW c \in cs, NEW d \in cs, RankOf(cs, c) = RankOf(cs, d) PROVE c = d
  <2>1. ~(c < d)
    <3>1. SUFFICES ASSUME c < d PROVE FALSE OBVIOUS
    <3>2. RankOf(cs, c) < RankOf(cs, d) BY <3>1, RanksGrow
    <3>3. QED BY <1>3, <1>4, <3>2
  <2>2. ~(d < c)
    <3>1. SUFFICES ASSUME d < c PROVE FALSE OBVIOUS
    <3>2. RankOf(cs, d) < RankOf(cs, c) BY <3>1, RanksGrow
    <3>3. QED BY <1>3, <1>4, <3>2
  <2>3. c \in Nat /\ d \in Nat OBVIOUS
  <2>4. QED BY <2>1, <2>2, <2>3
<1>5. \A c \in cs : r[c] \in 1..n
  <2>1. SUFFICES ASSUME NEW c \in cs PROVE r[c] \in 1..n OBVIOUS
  <2>2. PICK k : k = RankOf(cs, c) OBVIOUS
  <2>3. k \in Nat /\ k < n BY <1>3, <2>2
  <2>4. k + 1 \in 1..n BY <2>3
  <2>5. QED BY <1>2, <2>2, <2>4
<1>6. r \in Injection(cs, 1..n)
  <2>1. r \in [cs -> 1..n] BY <1>2, <1>5
  <2>2. \A c, d \in cs : r[c] = r[d] => c = d
    <3>1. SUFFICES ASSUME NEW c \in cs, NEW d \in cs, r[c] = r[d] PROVE c = d OBVIOUS
    <3>2. PICK k \in Nat, l \in Nat : k = RankOf(cs, c) /\ l = RankOf(cs, d) BY <1>3
    <3>3. k + 1 = l + 1 BY <1>2, <3>1, <3>2
    <3>4. QED BY <1>4, <3>2, <3>3
  <2>3. QED BY <2>1, <2>2 DEF Injection, IsInjective
<1>7. IsFiniteSet(1..n) /\ Cardinality(1..n) = n BY CountUpTo
<1>8. r \in Surjection(cs, 1..n) BY <1>6, <1>7, FS_Injection
<1>9. ASSUME NEW i \in 1..n PROVE s[i] \in cs /\ RankOf(cs, s[i]) = i - 1
  <2>1. PICK c \in cs : r[c] = i BY <1>8 DEF Surjection
  <2>2. PICK k \in Nat : k = RankOf(cs, c) BY <1>3
  <2>3. k + 1 = i BY <1>2, <2>1, <2>2
  <2>4. \E d \in cs : RankOf(cs, d) = i - 1 BY <2>2, <2>3
  <2>5. s[i] = CHOOSE d \in cs : RankOf(cs, d) = i - 1 BY <1>1
  <2>6. QED BY <2>4, <2>5
<1>10. ASSUME NEW c \in cs PROVE RankOf(cs, c) + 1 \in 1..n /\ s[RankOf(cs, c) + 1] = c
  <2>1. PICK k \in Nat : k = RankOf(cs, c) /\ k < n BY <1>3
  <2>2. PICK i \in 1..n : i = k + 1 BY <2>1
  <2>3. s[i] \in cs /\ RankOf(cs, s[i]) = i - 1 BY <1>9
  <2>4. RankOf(cs, s[i]) = RankOf(cs, c) BY <2>1, <2>2, <2>3
  <2>5. s[i] = c BY <1>4, <2>3, <2>4
  <2>6. QED BY <2>1, <2>2, <2>5
<1>11. ASSUME NEW i \in 1..n, NEW j \in 1..n, s[i] = s[j] PROVE i = j
  <2>1. i - 1 = j - 1 BY <1>9, <1>11
  <2>2. QED BY <2>1
<1>12. DOMAIN s = 1..n /\ s = [i \in 1..n |-> s[i]] BY <1>1
<1>13. QED BY <1>9, <1>10, <1>11, <1>12 DEF Different

=============================================================================
