----------------------------- MODULE SumProofs ------------------------------
(***************************************************************************)
(* Induction over a finite set, in terms of a set of subsets, and what it  *)
(* shows of the sum of a function over a finite set.                       *)
(***************************************************************************)
EXTENDS Sums, FiniteSetTheorems, TLAPS

\* A set of subsets that has T whenever it has all smaller ones has every finite one.
LEMMA StrongSetInduction ==
    ASSUME NEW S, IsFiniteSet(S), NEW G,
           \A T \in SUBSET S : (\A U \in SUBSET T : U # T => U \in G) => T \in G
    PROVE  \A T \in SUBSET S : T \in G
<1> DEFINE Bad == FiniteSubsetsOf(S) \ G
<1>1. \A T \in SUBSET S : T \in FiniteSubsetsOf(S)
    BY FS_FiniteSubsetsOfFinite
<1>2. CASE Bad = {}
    BY <1>1, <1>2
<1>3. CASE Bad # {}
    <2>1. IsWellFoundedOn(StrictSubsetOrdering(S), FiniteSubsetsOf(S))
        BY FS_StrictSubsetOrderingWellFounded
    <2>2. Bad \subseteq FiniteSubsetsOf(S)
        OBVIOUS
    <2> HIDE DEF Bad
    <2>3. PICK T \in Bad : \A U \in Bad : <<U, T>> \notin StrictSubsetOrdering(S)
        BY <1>3, <2>1, <2>2, WFMin
    <2> USE DEF Bad
    <2>4. T \in SUBSET S /\ T \notin G
        BY DEF FiniteSubsetsOf
    <2>5. PICK U \in SUBSET T : U # T /\ U \notin G
        BY <2>4
    <2>6. U \in Bad /\ <<U, T>> \in StrictSubsetOrdering(S)
        BY <1>1, <2>4, <2>5 DEF StrictSubsetOrdering
    <2> QED
        BY <2>3, <2>6
<1> QED
    BY <1>2, <1>3

\* The same, one element at a time.
LEMMA SetInduction ==
    ASSUME NEW S, IsFiniteSet(S), NEW G, {} \in G,
           \A T \in SUBSET S : \A x \in S \ T : T \in G => T \cup {x} \in G
    PROVE  \A T \in SUBSET S : T \in G
<1>1. ASSUME NEW T \in SUBSET S, \A U \in SUBSET T : U # T => U \in G
      PROVE  T \in G
    <2>1. CASE T = {}
        BY <2>1
    <2>2. CASE T # {}
        <3>1. PICK x \in T : TRUE
            BY <2>2
        <3>2. T \ {x} \in G
            BY <1>1, <3>1
        <3>3. (T \ {x}) \cup {x} = T /\ x \in S \ (T \ {x}) /\ T \ {x} \in SUBSET S
            BY <3>1
        <3> QED
            BY <3>2, <3>3
    <2> QED
        BY <2>1, <2>2
<1> QED
    BY <1>1, StrongSetInduction

\* A recursion over the subsets of a finite set, one picked element at a time, whose values
\* stay in V, has a solution.
Solves(g, S, base, step, pick) ==
    \A s \in SUBSET S : g[s] = IF s = {} THEN base ELSE step[pick[s]][g[s \ {pick[s]}]]

\* A recursion over the subsets of a finite set, taking one picked element away at a
\* time, has a solution.
LEMMA SubsetRecursion ==
    ASSUME NEW S, IsFiniteSet(S), NEW V, NEW base \in V, NEW step \in [S -> [V -> V]],
           NEW pick, \A s \in SUBSET S : s # {} => pick[s] \in s
    PROVE  \E g \in [SUBSET S -> V] : Solves(g, S, base, step, pick)
<1> DEFINE Next(g, s) == IF s = {} THEN base ELSE step[pick[s]][g[s \ {pick[s]}]]
           Upto(g, n) == \A s \in SUBSET S : Cardinality(s) <= n => g[s] = Next(g, s)
           G == {T \in SUBSET S : \E g \in [SUBSET S -> V] : Upto(g, Cardinality(T))}
<1>1. \A s \in SUBSET S : IsFiniteSet(s) /\ Cardinality(s) \in Nat
                          /\ Cardinality(s) <= Cardinality(S)
    BY FS_Subset, FS_CardinalityType
<1>2. {} \in G
    <2> DEFINE g == [s \in SUBSET S |-> base]
    <2>1. ASSUME NEW s \in SUBSET S, Cardinality(s) <= 0
          PROVE  s = {}
        BY <1>1, <2>1, FS_EmptySet
    <2>2. Upto(g, 0)
        BY <2>1
    <2>3. g \in [SUBSET S -> V]
        OBVIOUS
    <2> HIDE DEF g
    <2>4. Cardinality({}) = 0
        BY FS_EmptySet
    <2> QED
        BY <2>2, <2>3, <2>4
<1>3. ASSUME NEW T \in SUBSET S, NEW x \in S \ T, T \in G
      PROVE  T \cup {x} \in G
    <2>1. PICK g \in [SUBSET S -> V] : Upto(g, Cardinality(T))
        BY <1>3
    <2>2. Cardinality(T \cup {x}) = Cardinality(T) + 1
        BY <1>1, FS_AddElement
    <2> DEFINE h == [s \in SUBSET S |-> Next(g, s)]
    <2>3. h \in [SUBSET S -> V]
        <3> SUFFICES ASSUME NEW s \in SUBSET S PROVE Next(g, s) \in V
            OBVIOUS
        <3>1. CASE s = {}
            BY <3>1
        <3>2. CASE s # {}
            <4>1. pick[s] \in S /\ g[s \ {pick[s]}] \in V
                BY <3>2
            <4> QED
                BY <3>2, <4>1
        <3> QED
            BY <3>1, <3>2
    <2>4. ASSUME NEW s \in SUBSET S, Cardinality(s) <= Cardinality(T) + 1
          PROVE  h[s] = Next(h, s)
        <3>1. CASE s = {}
            BY <3>1
        <3>2. CASE s # {}
            <4> DEFINE u == s \ {pick[s]}
            <4>1. pick[s] \in s
                BY <3>2
            <4>2. u \in SUBSET S
                OBVIOUS
            <4>3. Cardinality(u) = Cardinality(s) - 1
                BY <1>1, <4>1, FS_RemoveElement
            <4>4. Cardinality(u) <= Cardinality(T)
                BY <1>1, <2>4, <4>2, <4>3
            <4>5. g[u] = Next(g, u)
                BY <2>1, <4>2, <4>4
            <4>6. h[u] = g[u]
                BY <4>2, <4>5
            <4>7. h[s] = Next(g, s)
                OBVIOUS
            <4> HIDE DEF h
            <4> QED
                BY <3>2, <4>6, <4>7
        <3> QED
            BY <3>1, <3>2
    <2> HIDE DEF h
    <2>5. Upto(h, Cardinality(T \cup {x}))
        BY <2>2, <2>4
    <2>6. T \cup {x} \in SUBSET S
        OBVIOUS
    <2> QED
        BY <2>3, <2>5, <2>6
<1> HIDE DEF G
<1>4. \A T \in SUBSET S : T \in G
    BY <1>2, <1>3, SetInduction
<1> USE DEF G
<1>5. PICK g \in [SUBSET S -> V] : Upto(g, Cardinality(S))
    BY <1>4
<1>6. \A s \in SUBSET S : g[s] = Next(g, s)
    BY <1>1, <1>5
<1> QED
    BY <1>6 DEF Solves

-----------------------------------------------------------------------------
(* The sum, as the fold computes it. *)

Chosen(s) == CHOOSE x \in s : TRUE
Rec(f, g, s) == IF s = {} THEN 0 ELSE f[Chosen(s)] + g[s \ {Chosen(s)}]
Partial(f, S) == CHOOSE g : g = [s \in SUBSET S |-> Rec(f, g, s)]

LEMMA ChosenIsElement == ASSUME NEW s, s # {} PROVE Chosen(s) \in s
BY DEF Chosen

\* The sum over S, unfolded from the community fold, is the recursive function Partial
\* at S.
LEMMA SumIsPartial == ASSUME NEW f, NEW S PROVE SumOver(f, S) = Partial(f, S)[S]
BY DEF SumOver, MapThenSumSet, MapThenFoldSet, Partial, Rec, Chosen

\* The recursion of the fold defines a function of the subsets of a finite set.
LEMMA PartialIsDefined ==
    ASSUME NEW f, NEW S, IsFiniteSet(S)
    PROVE  \A s \in SUBSET S : Partial(f, S)[s] = Rec(f, Partial(f, S), s)
<1> DEFINE Upto(g, n) == \A s \in SUBSET S : Cardinality(s) <= n => g[s] = Rec(f, g, s)
           G == {T \in SUBSET S : \E g : g = [s \in SUBSET S |-> g[s]] /\ Upto(g, Cardinality(T))}
<1>1. \A s \in SUBSET S : IsFiniteSet(s) /\ Cardinality(s) \in Nat
                          /\ Cardinality(s) <= Cardinality(S)
    BY FS_Subset, FS_CardinalityType
<1>2. {} \in G
    <2> DEFINE g == [s \in SUBSET S |-> 0]
    <2>1. ASSUME NEW s \in SUBSET S, Cardinality(s) <= 0
          PROVE  s = {}
        BY <1>1, <2>1, FS_EmptySet
    <2>2. Upto(g, 0)
        BY <2>1 DEF Rec
    <2>3. g = [s \in SUBSET S |-> g[s]]
        OBVIOUS
    <2> HIDE DEF g
    <2>4. Cardinality({}) = 0
        BY FS_EmptySet
    <2> QED
        BY <2>2, <2>3, <2>4
<1>3. ASSUME NEW T \in SUBSET S, NEW x \in S \ T, T \in G
      PROVE  T \cup {x} \in G
    <2>1. PICK g : g = [s \in SUBSET S |-> g[s]] /\ Upto(g, Cardinality(T))
        BY <1>3
    <2>2. Cardinality(T \cup {x}) = Cardinality(T) + 1
        BY <1>1, FS_AddElement
    <2> DEFINE h == [s \in SUBSET S |-> Rec(f, g, s)]
    <2>3. h = [s \in SUBSET S |-> h[s]]
        OBVIOUS
    <2>4. ASSUME NEW s \in SUBSET S, Cardinality(s) <= Cardinality(T) + 1
          PROVE  h[s] = Rec(f, h, s)
        <3>1. CASE s = {}
            BY <3>1 DEF Rec
        <3>2. CASE s # {}
            <4> DEFINE u == s \ {Chosen(s)}
            <4>1. Chosen(s) \in s
                BY <3>2, ChosenIsElement
            <4>2. u \in SUBSET S
                OBVIOUS
            <4>3. Cardinality(u) = Cardinality(s) - 1
                BY <1>1, <4>1, FS_RemoveElement
            <4>4. Cardinality(u) <= Cardinality(T)
                BY <1>1, <2>4, <4>2, <4>3
            <4>5. g[u] = Rec(f, g, u)
                BY <2>1, <4>2, <4>4
            <4>6. h[u] = g[u]
                BY <4>2, <4>5
            <4>7. h[s] = Rec(f, g, s)
                OBVIOUS
            <4> HIDE DEF h
            <4> QED
                BY <3>2, <4>6, <4>7 DEF Rec
        <3> QED
            BY <3>1, <3>2
    <2>5. Upto(h, Cardinality(T \cup {x}))
        BY <2>2, <2>4
    <2> HIDE DEF h
    <2> QED
        BY <2>3, <2>5
<1> HIDE DEF G
<1>4. \A T \in SUBSET S : T \in G
    BY <1>2, <1>3, SetInduction
<1> USE DEF G
<1>5. PICK g : g = [s \in SUBSET S |-> g[s]] /\ Upto(g, Cardinality(S))
    BY <1>4
<1>6. g = [s \in SUBSET S |-> Rec(f, g, s)]
    <2>1. \A s \in SUBSET S : g[s] = Rec(f, g, s)
        BY <1>1, <1>5
    <2> QED
        BY <1>5, <2>1
<1>7. Partial(f, S) = [s \in SUBSET S |-> Rec(f, Partial(f, S), s)]
    BY <1>6 DEF Partial
<1> DEFINE p == Partial(f, S)
<1>8. p = [s \in SUBSET S |-> Rec(f, p, s)]
    BY <1>7
<1> HIDE DEF p
<1>9. \A s \in SUBSET S : p[s] = Rec(f, p, s)
    BY <1>8
<1> QED
    BY <1>9 DEF p

\* Within a larger set the fold computes the same.
LEMMA PartialIsSum ==
    ASSUME NEW f, NEW S, IsFiniteSet(S), NEW T \in SUBSET S
    PROVE  Partial(f, S)[T] = SumOver(f, T)
<1> DEFINE g == Partial(f, S)
           h == Partial(f, T)
           G == {U \in SUBSET T : g[U] = h[U]}
<1>1. IsFiniteSet(T)
    BY FS_Subset
<1>2. \A U \in SUBSET S : g[U] = Rec(f, g, U)
    BY PartialIsDefined
<1>3. \A U \in SUBSET T : h[U] = Rec(f, h, U)
    BY <1>1, PartialIsDefined
<1> HIDE DEF g, h
<1>4. ASSUME NEW V \in SUBSET T, \A U \in SUBSET V : U # V => U \in G
      PROVE  V \in G
    <2>1. g[V] = Rec(f, g, V) /\ h[V] = Rec(f, h, V)
        BY <1>2, <1>3
    <2>2. CASE V = {}
        BY <2>1, <2>2 DEF Rec
    <2>3. CASE V # {}
        <3>1. Chosen(V) \in V
            BY <2>3, ChosenIsElement
        <3>2. g[V \ {Chosen(V)}] = h[V \ {Chosen(V)}]
            BY <1>4, <3>1
        <3> QED
            BY <2>1, <2>3, <3>2 DEF Rec
    <2> QED
        BY <2>2, <2>3
<1> HIDE DEF G
<1>5. \A U \in SUBSET T : U \in G
    BY <1>1, <1>4, StrongSetInduction
<1>6. g[T] = h[T]
    BY <1>5 DEF G
<1> QED
    BY <1>6, SumIsPartial DEF g, h

-----------------------------------------------------------------------------
(* What a reader expects of a sum. *)

\* The sum over no index is zero.
LEMMA SumEmpty == \A f : SumOver(f, {}) = 0
<1> SUFFICES ASSUME NEW f PROVE SumOver(f, {}) = 0
    OBVIOUS
<1>1. IsFiniteSet({})
    BY FS_EmptySet
<1>2. Partial(f, {})[{}] = Rec(f, Partial(f, {}), {})
    BY <1>1, PartialIsDefined
<1> QED
    BY <1>2, SumIsPartial DEF Rec

\* A sum is its chosen term plus the sum of the rest.
LEMMA SumStep ==
    ASSUME NEW f, NEW S, IsFiniteSet(S), S # {}
    PROVE  SumOver(f, S) = f[Chosen(S)] + SumOver(f, S \ {Chosen(S)})
<1> DEFINE g == Partial(f, S)
<1>1. \A s \in SUBSET S : g[s] = Rec(f, g, s)
    BY PartialIsDefined
<1>2. SumOver(f, S) = g[S] /\ SumOver(f, S \ {Chosen(S)}) = g[S \ {Chosen(S)}]
    BY SumIsPartial, PartialIsSum
<1> HIDE DEF g
<1>3. g[S] = Rec(f, g, S)
    BY <1>1
<1> QED
    BY <1>2, <1>3 DEF Rec

\* A sum of integers is an integer.
LEMMA SumIsInt ==
    ASSUME NEW S, IsFiniteSet(S), NEW f, \A x \in S : f[x] \in Int
    PROVE  \A T \in SUBSET S : SumOver(f, T) \in Int
<1> DEFINE G == {T \in SUBSET S : SumOver(f, T) \in Int}
<1>1. ASSUME NEW T \in SUBSET S, \A U \in SUBSET T : U # T => U \in G
      PROVE  T \in G
    <2>1. CASE T = {}
        BY <2>1, SumEmpty
    <2>2. CASE T # {}
        <3>1. Chosen(T) \in T /\ IsFiniteSet(T)
            BY <2>2, ChosenIsElement, FS_Subset
        <3>2. SumOver(f, T \ {Chosen(T)}) \in Int
            BY <1>1, <3>1
        <3>3. SumOver(f, T) = f[Chosen(T)] + SumOver(f, T \ {Chosen(T)})
            BY <2>2, <3>1, SumStep
        <3> QED
            BY <3>1, <3>2, <3>3
    <2> QED
        BY <2>1, <2>2
<1> HIDE DEF G
<1>2. \A T \in SUBSET S : T \in G
    BY <1>1, StrongSetInduction
<1> QED
    BY <1>2 DEF G

\* Any element may be summed first.
LEMMA SumRemove ==
    ASSUME NEW S, IsFiniteSet(S), NEW f, \A x \in S : f[x] \in Int, NEW y \in S
    PROVE  SumOver(f, S) = f[y] + SumOver(f, S \ {y})
<1> DEFINE G == {T \in SUBSET S : \A x \in T : SumOver(f, T) = f[x] + SumOver(f, T \ {x})}
<1>0. \A T \in SUBSET S : SumOver(f, T) \in Int /\ IsFiniteSet(T)
    BY SumIsInt, FS_Subset
<1>1. ASSUME NEW T \in SUBSET S, \A U \in SUBSET T : U # T => U \in G
      PROVE  T \in G
    <2> SUFFICES ASSUME NEW x \in T
                 PROVE  SumOver(f, T) = f[x] + SumOver(f, T \ {x})
        OBVIOUS
    <2> DEFINE c == Chosen(T)
    <2>1. c \in T
        BY ChosenIsElement
    <2>2. SumOver(f, T) = f[c] + SumOver(f, T \ {c})
        BY <1>0, SumStep
    <2> HIDE DEF c
    <2>3. CASE x = c
        BY <2>2, <2>3
    <2>4. CASE x # c
        <3>1. T \ {c} \in G /\ x \in T \ {c} /\ T \ {x} \in G /\ c \in T \ {x}
            BY <1>1, <2>1, <2>4
        <3>2. SumOver(f, T \ {c}) = f[x] + SumOver(f, (T \ {c}) \ {x})
            BY <3>1
        <3>3. SumOver(f, T \ {x}) = f[c] + SumOver(f, (T \ {x}) \ {c})
            BY <3>1
        <3>4. (T \ {c}) \ {x} = (T \ {x}) \ {c}
            OBVIOUS
        <3> DEFINE rest == SumOver(f, (T \ {x}) \ {c})
        <3>5. rest \in Int /\ f[x] \in Int /\ f[c] \in Int
            BY <1>0, <2>1
        <3>6. SumOver(f, T) = f[c] + (f[x] + rest)
            BY <2>2, <3>2, <3>4
        <3>7. SumOver(f, T \ {x}) = f[c] + rest
            BY <3>3
        <3> HIDE DEF rest
        <3> QED
            BY <3>5, <3>6, <3>7
    <2> QED
        BY <2>3, <2>4
<1> HIDE DEF G
<1>2. S \in G
    BY <1>1, StrongSetInduction
<1> QED
    BY <1>2 DEF G

\* A new index adds its term, whichever term the fold chooses first.
LEMMA SumAdd ==
    ASSUME NEW S, IsFiniteSet(S), NEW f, NEW y, y \notin S,
           \A x \in S \cup {y} : f[x] \in Int
    PROVE  SumOver(f, S \cup {y}) = SumOver(f, S) + f[y]
<1>1. IsFiniteSet(S \cup {y}) /\ (S \cup {y}) \ {y} = S
    BY FS_AddElement
<1>2. SumOver(f, S) \in Int
    BY SumIsInt
<1>3. SumOver(f, S \cup {y}) = f[y] + SumOver(f, (S \cup {y}) \ {y})
    BY <1>1, SumRemove
<1>4. SumOver(f, S \cup {y}) = f[y] + SumOver(f, S) /\ f[y] \in Int
    BY <1>1, <1>3
<1> QED
    BY <1>2, <1>4

\* Only the summands matter.
LEMMA SumCongruent ==
    ASSUME NEW S, IsFiniteSet(S), NEW f, NEW g, \A x \in S : f[x] = g[x]
    PROVE  SumOver(f, S) = SumOver(g, S)
<1> DEFINE G == {T \in SUBSET S : SumOver(f, T) = SumOver(g, T)}
<1>1. ASSUME NEW T \in SUBSET S, \A U \in SUBSET T : U # T => U \in G
      PROVE  T \in G
    <2>1. CASE T = {}
        BY <2>1, SumEmpty
    <2>2. CASE T # {}
        <3>1. Chosen(T) \in T /\ IsFiniteSet(T)
            BY <2>2, ChosenIsElement, FS_Subset
        <3>2. SumOver(f, T \ {Chosen(T)}) = SumOver(g, T \ {Chosen(T)})
            BY <1>1, <3>1
        <3>3. /\ SumOver(f, T) = f[Chosen(T)] + SumOver(f, T \ {Chosen(T)})
              /\ SumOver(g, T) = g[Chosen(T)] + SumOver(g, T \ {Chosen(T)})
            BY <2>2, <3>1, SumStep
        <3> QED
            BY <3>1, <3>2, <3>3
    <2> QED
        BY <2>1, <2>2
<1> HIDE DEF G
<1>2. S \in G
    BY <1>1, StrongSetInduction
<1> QED
    BY <1>2 DEF G

\* A sum is monotone in its terms.
LEMMA SumLeq ==
    ASSUME NEW S, IsFiniteSet(S), NEW f, NEW g,
           \A x \in S : f[x] \in Int /\ g[x] \in Int /\ f[x] <= g[x]
    PROVE  SumOver(f, S) <= SumOver(g, S)
<1> DEFINE G == {T \in SUBSET S : SumOver(f, T) <= SumOver(g, T)}
<1>0. \A T \in SUBSET S : SumOver(f, T) \in Int /\ SumOver(g, T) \in Int
    BY SumIsInt
<1>1. ASSUME NEW T \in SUBSET S, \A U \in SUBSET T : U # T => U \in G
      PROVE  T \in G
    <2>1. CASE T = {}
        BY <2>1, SumEmpty
    <2>2. CASE T # {}
        <3>1. Chosen(T) \in T /\ IsFiniteSet(T)
            BY <2>2, ChosenIsElement, FS_Subset
        <3>2. SumOver(f, T \ {Chosen(T)}) <= SumOver(g, T \ {Chosen(T)})
            BY <1>1, <3>1
        <3>3. /\ SumOver(f, T) = f[Chosen(T)] + SumOver(f, T \ {Chosen(T)})
              /\ SumOver(g, T) = g[Chosen(T)] + SumOver(g, T \ {Chosen(T)})
            BY <2>2, <3>1, SumStep
        <3>4. /\ SumOver(f, T \ {Chosen(T)}) \in Int /\ SumOver(g, T \ {Chosen(T)}) \in Int
              /\ f[Chosen(T)] \in Int /\ g[Chosen(T)] \in Int /\ f[Chosen(T)] <= g[Chosen(T)]
            BY <1>0, <3>1
        <3> QED
            BY <3>2, <3>3, <3>4
    <2> QED
        BY <2>1, <2>2
<1> HIDE DEF G
<1>2. S \in G
    BY <1>1, StrongSetInduction
<1> QED
    BY <1>2 DEF G

\* A sum of zeros is zero.
LEMMA SumOfZeros ==
    ASSUME NEW S, IsFiniteSet(S), NEW f, \A x \in S : f[x] = 0
    PROVE  SumOver(f, S) = 0
<1> DEFINE G == {T \in SUBSET S : SumOver(f, T) = 0}
<1>1. {} \in G
    BY SumEmpty
<1>2. ASSUME NEW T \in SUBSET S, NEW x \in S \ T, T \in G PROVE T \cup {x} \in G
    <2>1. IsFiniteSet(T)
        BY FS_Subset
    <2>2. \A y \in T \cup {x} : f[y] \in Int
        OBVIOUS
    <2>3. SumOver(f, T \cup {x}) = SumOver(f, T) + f[x]
        BY <2>1, <2>2, SumAdd
    <2> QED
        BY <1>2, <2>3
<1> HIDE DEF G
<1>3. S \in G
    BY <1>1, <1>2, SetInduction
<1> QED
    BY <1>3 DEF G

\* A sum of natural numbers is one, and no part of it is larger.
LEMMA SumIsNat ==
    ASSUME NEW S, IsFiniteSet(S), NEW f, \A x \in S : f[x] \in Nat
    PROVE  SumOver(f, S) \in Nat
<1> DEFINE z == [x \in S |-> 0]
<1>1. SumOver(z, S) = 0
    BY SumOfZeros
<1>2. SumOver(z, S) <= SumOver(f, S)
    BY SumLeq
<1>3. SumOver(f, S) \in Int
    BY SumIsInt
<1> QED
    BY <1>1, <1>2, <1>3

\* One summand changes.
LEMMA SumUpdate ==
    ASSUME NEW S, IsFiniteSet(S), NEW f, NEW g, NEW y \in S,
           \A x \in S : f[x] \in Int /\ g[x] \in Int,
           \A x \in S \ {y} : f[x] = g[x]
    PROVE  SumOver(g, S) = SumOver(f, S) - f[y] + g[y]
<1>1. IsFiniteSet(S \ {y})
    BY FS_RemoveElement
<1>2. SumOver(f, S \ {y}) = SumOver(g, S \ {y})
    BY <1>1, SumCongruent
<1>3. SumOver(f, S) = f[y] + SumOver(f, S \ {y})
    BY SumRemove
<1>4. SumOver(g, S) = g[y] + SumOver(g, S \ {y})
    BY SumRemove
<1>5. SumOver(f, S \ {y}) \in Int
    BY SumIsInt
<1> QED
    BY <1>2, <1>3, <1>4, <1>5

\* The sum over two disjoint sets.
LEMMA SumUnion ==
    ASSUME NEW S, IsFiniteSet(S), NEW f, \A x \in S : f[x] \in Int, NEW T \in SUBSET S
    PROVE  \A U \in SUBSET (S \ T) : SumOver(f, T \cup U) = SumOver(f, T) + SumOver(f, U)
<1> DEFINE D == S \ T
           G == {U \in SUBSET D : SumOver(f, T \cup U) = SumOver(f, T) + SumOver(f, U)}
<1>0. IsFiniteSet(D) /\ \A U \in SUBSET S : IsFiniteSet(U) /\ SumOver(f, U) \in Int
    BY FS_Subset, SumIsInt
<1>1. {} \in G
    <2>1. SumOver(f, T \cup {}) = SumOver(f, T) /\ SumOver(f, T) \in Int
        BY <1>0, T \cup {} = T
    <2> QED
        BY <2>1, SumEmpty
<1>2. ASSUME NEW U \in SUBSET D, NEW x \in D \ U, U \in G
      PROVE  U \cup {x} \in G
    <2>1. SumOver(f, U \cup {x}) = SumOver(f, U) + f[x]
        BY <1>0, SumAdd
    <2> DEFINE V == T \cup U
    <2>2. V \in SUBSET S /\ x \notin V /\ T \cup (U \cup {x}) = V \cup {x}
        OBVIOUS
    <2>3. IsFiniteSet(V) /\ \A y \in V \cup {x} : f[y] \in Int
        BY <1>0, <2>2
    <2>4. SumOver(f, V) = SumOver(f, T) + SumOver(f, U)
        BY <1>2
    <2> HIDE DEF V
    <2>5. SumOver(f, V \cup {x}) = SumOver(f, V) + f[x]
        BY <2>2, <2>3, SumAdd
    <2>6. SumOver(f, T) \in Int /\ SumOver(f, U) \in Int /\ f[x] \in Int
        BY <1>0
    <2>7. SumOver(f, V \cup {x}) = SumOver(f, T) + SumOver(f, U \cup {x})
        BY <2>1, <2>4, <2>5, <2>6
    <2> QED
        BY <2>2, <2>7
<1> HIDE DEF G
<1>3. \A U \in SUBSET D : U \in G
    BY <1>0, <1>1, <1>2, SetInduction
<1> QED
    BY <1>3 DEF G

\* A part of natural summands sums up to no more than all of them.
LEMMA SumOfPart ==
    ASSUME NEW S, IsFiniteSet(S), NEW f, \A x \in S : f[x] \in Nat, NEW T \in SUBSET S
    PROVE  SumOver(f, T) <= SumOver(f, S)
<1>1. IsFiniteSet(S \ T) /\ IsFiniteSet(T)
    BY FS_Subset
<1>2. SumOver(f, T) \in Nat /\ SumOver(f, S \ T) \in Nat
    BY <1>1, SumIsNat
<1>3. SumOver(f, T \cup (S \ T)) = SumOver(f, T) + SumOver(f, S \ T)
    BY SumUnion
<1>4. T \cup (S \ T) = S
    OBVIOUS
<1>5. SumOver(f, S) = SumOver(f, T) + SumOver(f, S \ T)
    BY <1>3, <1>4
<1> QED
    BY <1>2, <1>5

\* One natural summand grows by one.
LEMMA SumBump ==
    ASSUME NEW S, IsFiniteSet(S), NEW f, \A x \in S : f[x] \in Nat, NEW g, NEW y \in S,
           g[y] = f[y] + 1, \A x \in S \ {y} : f[x] = g[x]
    PROVE  SumOver(f, S) \in Nat /\ SumOver(g, S) = SumOver(f, S) + 1
<1>1. \A x \in S : f[x] \in Int /\ g[x] \in Int
    OBVIOUS
<1>2. SumOver(g, S) = SumOver(f, S) - f[y] + g[y]
    BY <1>1, SumUpdate
<1>3. SumOver(f, S) \in Nat /\ f[y] \in Int
    BY SumIsNat
<1> QED
    BY <1>2, <1>3
=============================================================================
