--------------------------- MODULE CollectionLemmas ---------------------------
(***************************************************************************)
(* What the collections of the models come to, for every finite set and    *)
(* every sequence: sums over sets do not depend on the order in which      *)
(* elements are chosen, and taking an element out of a queue without       *)
(* repetition leaves the others in their order.  The induction is over     *)
(* sets of naturals and not over predicates.                               *)
(***************************************************************************)
EXTENDS Integers, Sequences, SequencesExt, FiniteSets, FiniteSetsExt, Functions,
        FiniteSetTheorems, SequenceTheorems, WellFoundedInduction, TLAPS

LEMMA NatInductionOnSets ==
    ASSUME NEW S, 0 \in S, \A n \in Nat : n \in S => n + 1 \in S
    PROVE  Nat \subseteq S
<1> DEFINE R == OpToRel(<, Nat)
<1>1. IsWellFoundedOn(R, Nat)
  BY NatLessThanWellFounded
<1>2. \A x, y \in Nat : y < x => <<y, x>> \in R
  BY DEF OpToRel
<1> HIDE DEF R
<1> SUFFICES ASSUME Nat \ S # {} PROVE FALSE
  OBVIOUS
<1>3. PICK x \in Nat \ S : \A y \in Nat \ S : ~(<<y, x>> \in R)
  BY <1>1, WFMin
<1>4. x # 0 /\ x - 1 \in Nat
  OBVIOUS
<1>5. x - 1 \in Nat \ S
  BY <1>4
<1>6. x - 1 < x
  OBVIOUS
<1>7. <<x - 1, x>> \in R
  BY <1>2, <1>4, <1>6
<1> QED BY <1>3, <1>5, <1>7

-----------------------------------------------------------------------------
(* Sums.  The recursive function behind SumFunctionOnSet is any function   *)
(* that satisfies its equation; there is one, and only one.                *)

ChosenFrom(s) == CHOOSE x \in s : TRUE
SumStep(f, g, s) == IF s = {} THEN 0 ELSE f[ChosenFrom(s)] + g[s \ {ChosenFrom(s)}]
Sums(f, S, g) == g = [s \in SUBSET S |-> SumStep(f, g, s)]
IntegersOn(f, S) == \A x \in S : f[x] \in Int

LEMMA SumDef ==
    ASSUME NEW f, NEW S
    PROVE  SumFunctionOnSet(f, S) = (CHOOSE g : Sums(f, S, g))[S]
BY DEF SumFunctionOnSet, FoldFunctionOnSet, MapThenFoldSet, Sums, SumStep, ChosenFrom

LEMMA ChosenFromShrinks ==
    ASSUME NEW S, IsFiniteSet(S), NEW s \in SUBSET S, s # {}
    PROVE  /\ ChosenFrom(s) \in s /\ s \ {ChosenFrom(s)} \in SUBSET S
           /\ Cardinality(s) \in Nat \ {0}
           /\ Cardinality(s \ {ChosenFrom(s)}) = Cardinality(s) - 1
<1>1. ChosenFrom(s) \in s
  BY DEF ChosenFrom
<1>2. IsFiniteSet(s)
  BY FS_Subset
<1>3. Cardinality(s) \in Nat /\ Cardinality(s) # 0
  BY <1>2, FS_CardinalityType, FS_EmptySet
<1>4. Cardinality(s \ {ChosenFrom(s)}) = Cardinality(s) - 1
  BY <1>1, <1>2, FS_RemoveElement
<1> QED BY <1>1, <1>3, <1>4

LEMMA SumExists ==
    ASSUME NEW S, IsFiniteSet(S), NEW f, IntegersOn(f, S)
    PROVE  \E g \in [SUBSET S -> Int] : Sums(f, S, g)
<1> DEFINE UpTo(g, n) == \A s \in SUBSET S : Cardinality(s) <= n => g[s] = SumStep(f, g, s)
           Good == {n \in Nat : \E g \in [SUBSET S -> Int] : UpTo(g, n)}
<1>1. 0 \in Good
  <2>1. [s \in SUBSET S |-> 0] \in [SUBSET S -> Int]
    OBVIOUS
  <2>2. ASSUME NEW s \in SUBSET S, Cardinality(s) <= 0
        PROVE  s = {}
    <3> SUFFICES ASSUME s # {} PROVE FALSE
      OBVIOUS
    <3>1. Cardinality(s) \in Nat \ {0}
      BY ChosenFromShrinks
    <3> QED BY <2>2, <3>1
  <2>3. UpTo([s \in SUBSET S |-> 0], 0)
    BY <2>2 DEF SumStep
  <2> QED BY <2>1, <2>3
<1>2. ASSUME NEW n \in Nat, n \in Good
      PROVE  n + 1 \in Good
  <2>1. PICK g \in [SUBSET S -> Int] : UpTo(g, n)
    BY <1>2
  <2> DEFINE h == [s \in SUBSET S |-> IF Cardinality(s) <= n THEN g[s] ELSE SumStep(f, g, s)]
  <2>2. ASSUME NEW s \in SUBSET S
        PROVE  SumStep(f, g, s) \in Int
    <3>1. CASE s # {}
      <4>1. ChosenFrom(s) \in S /\ s \ {ChosenFrom(s)} \in SUBSET S
        BY <3>1, ChosenFromShrinks
      <4> QED BY <2>1, <3>1, <4>1 DEF SumStep, IntegersOn
    <3> QED BY <3>1 DEF SumStep
  <2>3. h \in [SUBSET S -> Int]
    BY <2>1, <2>2
  <2>4. ASSUME NEW s \in SUBSET S, Cardinality(s) <= n + 1
        PROVE  h[s] = SumStep(f, h, s)
    <3>1. h[s] = SumStep(f, g, s)
      BY <2>1
    <3>2. CASE s = {}
      BY <3>1, <3>2 DEF SumStep
    <3>3. CASE s # {}
      <4>1. /\ s \ {ChosenFrom(s)} \in SUBSET S
            /\ Cardinality(s \ {ChosenFrom(s)}) <= n
        BY <2>4, <3>3, ChosenFromShrinks
      <4>2. h[s \ {ChosenFrom(s)}] = g[s \ {ChosenFrom(s)}]
        BY <4>1
      <4> HIDE DEF h
      <4> QED BY <3>1, <3>3, <4>2 DEF SumStep
    <3> QED BY <3>2, <3>3
  <2> HIDE DEF h
  <2>5. UpTo(h, n + 1)
    BY <2>4
  <2> QED BY <2>3, <2>5
<1> HIDE DEF Good
<1>3. Nat \subseteq Good
  BY <1>1, <1>2, NatInductionOnSets
<1>4. Cardinality(S) \in Nat /\ \A s \in SUBSET S : Cardinality(s) <= Cardinality(S)
  BY FS_CardinalityType, FS_Subset
<1>5. PICK g \in [SUBSET S -> Int] : UpTo(g, Cardinality(S))
  BY <1>3, <1>4 DEF Good
<1>6. \A s \in SUBSET S : g[s] = SumStep(f, g, s)
  BY <1>4, <1>5
<1>7. Sums(f, S, g)
  BY <1>6 DEF Sums
<1> QED BY <1>7

(* Two functions that solve the equation, for summands that agree, agree.  *)
LEMMA SumsAgree ==
    ASSUME NEW S, IsFiniteSet(S), NEW T \in SUBSET S, NEW f, NEW e, NEW g, NEW h,
           \A x \in T : f[x] = e[x], Sums(f, S, g), Sums(e, T, h)
    PROVE  \A s \in SUBSET T : g[s] = h[s]
<1> DEFINE Good == {n \in Nat : \A s \in SUBSET T : Cardinality(s) = n => g[s] = h[s]}
<1>1. IsFiniteSet(T)
  BY FS_Subset
<1>2. \A s \in SUBSET T : g[s] = SumStep(f, g, s) /\ h[s] = SumStep(e, h, s)
  BY DEF Sums
<1>3. ASSUME NEW n \in Nat, n = 0 \/ n - 1 \in Good
      PROVE  n \in Good
  <2> SUFFICES ASSUME NEW s \in SUBSET T, Cardinality(s) = n PROVE g[s] = h[s]
    OBVIOUS
  <2>1. CASE s = {}
    BY <1>2, <2>1 DEF SumStep
  <2>2. CASE s # {}
    <3>1. /\ ChosenFrom(s) \in T /\ s \ {ChosenFrom(s)} \in SUBSET T
          /\ n # 0 /\ Cardinality(s \ {ChosenFrom(s)}) = n - 1
      BY <1>1, <2>2, ChosenFromShrinks
    <3>2. g[s \ {ChosenFrom(s)}] = h[s \ {ChosenFrom(s)}]
      BY <1>3, <3>1
    <3> HIDE DEF Good
    <3> QED BY <1>2, <2>2, <3>1, <3>2 DEF SumStep
  <2> QED BY <2>1, <2>2
<1> HIDE DEF Good
<1>4. Nat \subseteq Good
  <2>1. 0 \in Good
    BY <1>3
  <2>2. \A n \in Nat : n \in Good => n + 1 \in Good
    BY <1>3
  <2> QED BY <2>1, <2>2, NatInductionOnSets
<1> SUFFICES ASSUME NEW s \in SUBSET T PROVE g[s] = h[s]
  OBVIOUS
<1>5. Cardinality(s) \in Nat
  BY <1>1, FS_Subset, FS_CardinalityType
<1> QED BY <1>4, <1>5 DEF Good

LEMMA SumIs ==
    ASSUME NEW S, IsFiniteSet(S), NEW f, IntegersOn(f, S), NEW g, Sums(f, S, g),
           NEW T \in SUBSET S
    PROVE  SumFunctionOnSet(f, T) = g[T]
<1> DEFINE h == CHOOSE h : Sums(f, T, h)
<1>1. IsFiniteSet(T) /\ IntegersOn(f, T)
  BY FS_Subset DEF IntegersOn
<1>2. Sums(f, T, h)
  BY <1>1, SumExists
<1>3. SumFunctionOnSet(f, T) = h[T]
  BY SumDef
<1> HIDE DEF h
<1> QED BY <1>2, <1>3, SumsAgree

(* The laws of sums that proofs cite.                                      *)
LEMMA SumOfNone == ASSUME NEW f PROVE SumFunctionOnSet(f, {}) = 0
<1>1. IsFiniteSet({}) /\ IntegersOn(f, {})
  BY FS_EmptySet DEF IntegersOn
<1>2. PICK g : Sums(f, {}, g)
  BY <1>1, SumExists
<1>3. SumFunctionOnSet(f, {}) = g[{}]
  BY <1>1, <1>2, SumIs
<1> QED BY <1>2, <1>3 DEF Sums, SumStep

LEMMA SumIsInteger ==
    ASSUME NEW S, IsFiniteSet(S), NEW f, IntegersOn(f, S)
    PROVE  SumFunctionOnSet(f, S) \in Int
<1>1. PICK g \in [SUBSET S -> Int] : Sums(f, S, g)
  BY SumExists
<1> QED BY <1>1, SumIs

LEMMA SumOfEquals ==
    ASSUME NEW S, IsFiniteSet(S), NEW f, NEW e, IntegersOn(f, S), \A x \in S : f[x] = e[x]
    PROVE  SumFunctionOnSet(f, S) = SumFunctionOnSet(e, S)
<1>1. IntegersOn(e, S)
  BY DEF IntegersOn
<1>2. PICK g : Sums(f, S, g)
  BY SumExists
<1>3. PICK h : Sums(e, S, h)
  BY <1>1, SumExists
<1>4. g[S] = h[S]
  BY <1>2, <1>3, SumsAgree
<1>5. SumFunctionOnSet(f, S) = g[S]
  BY <1>2, SumIs
<1>6. SumFunctionOnSet(e, S) = h[S]
  BY <1>1, <1>3, SumIs
<1> QED BY <1>4, <1>5, <1>6

LEMMA SumPicks ==
    ASSUME NEW S, IsFiniteSet(S), NEW f, IntegersOn(f, S), S # {}
    PROVE  SumFunctionOnSet(f, S) = f[ChosenFrom(S)] + SumFunctionOnSet(f, S \ {ChosenFrom(S)})
<1>1. PICK g : Sums(f, S, g)
  BY SumExists
<1>2. g[S] = f[ChosenFrom(S)] + g[S \ {ChosenFrom(S)}]
  BY <1>1 DEF Sums, SumStep
<1>3. SumFunctionOnSet(f, S) = g[S] /\ SumFunctionOnSet(f, S \ {ChosenFrom(S)}) = g[S \ {ChosenFrom(S)}]
  BY <1>1, SumIs
<1> QED BY <1>2, <1>3

(* Whichever element is taken out first.                                   *)
LEMMA SumWithout ==
    ASSUME NEW S, IsFiniteSet(S), NEW f, IntegersOn(f, S), NEW x \in S
    PROVE  SumFunctionOnSet(f, S) = f[x] + SumFunctionOnSet(f, S \ {x})
<1> DEFINE Sum(s) == SumFunctionOnSet(f, s)
           Good == {n \in Nat : \A s \in SUBSET S, y \in S :
                       y \in s /\ Cardinality(s) = n => Sum(s) = f[y] + Sum(s \ {y})}
<1>1. \A s \in SUBSET S : IsFiniteSet(s) /\ IntegersOn(f, s)
  BY FS_Subset DEF IntegersOn
<1> HIDE DEF Sum
<1>2. ASSUME NEW n \in Nat, n = 0 \/ n - 1 \in Good
      PROVE  n \in Good
  <2> SUFFICES ASSUME NEW s \in SUBSET S, NEW y \in s, Cardinality(s) = n
               PROVE  Sum(s) = f[y] + Sum(s \ {y})
    OBVIOUS
  <2> DEFINE z == ChosenFrom(s)
  <2>1. /\ z \in s /\ s \ {z} \in SUBSET S
        /\ n # 0 /\ Cardinality(s \ {z}) = n - 1
    BY ChosenFromShrinks
  <2>2. Cardinality(s \ {y}) = n - 1
    BY <1>1, FS_RemoveElement
  <2>3. Sum(s) = f[z] + Sum(s \ {z})
    BY <1>1, SumPicks DEF Sum
  <2> HIDE DEF z
  <2>4. CASE y = z
    BY <2>3, <2>4
  <2>5. CASE y # z
    <3>1. Sum(s \ {z}) = f[y] + Sum((s \ {z}) \ {y})
      BY <1>2, <2>1, <2>5
    <3>2. Sum(s \ {y}) = f[z] + Sum((s \ {y}) \ {z})
      BY <1>2, <2>1, <2>2, <2>5
    <3>3. (s \ {z}) \ {y} = (s \ {y}) \ {z}
      OBVIOUS
    <3>4. f[y] \in Int /\ f[z] \in Int /\ Sum((s \ {z}) \ {y}) \in Int
      BY <1>1, <2>1, SumIsInteger DEF Sum, IntegersOn
    <3>5. Sum((s \ {y}) \ {z}) = Sum((s \ {z}) \ {y})
      BY <3>3
    <3>6. ASSUME NEW a \in Int, NEW b \in Int, NEW c \in Int
          PROVE  a + (b + c) = b + (a + c)
      OBVIOUS
    <3> QED BY <2>3, <3>1, <3>2, <3>4, <3>5, <3>6
  <2> QED BY <2>4, <2>5
<1> HIDE DEF Good
<1>3. Nat \subseteq Good
  <2>1. 0 \in Good
    BY <1>2
  <2>2. \A n \in Nat : n \in Good => n + 1 \in Good
    BY <1>2
  <2> QED BY <2>1, <2>2, NatInductionOnSets
<1>4. Cardinality(S) \in Good
  BY <1>3, FS_CardinalityType
<1> QED BY <1>4 DEF Good, Sum

LEMMA SumWith ==
    ASSUME NEW S, IsFiniteSet(S), NEW x, x \notin S, NEW f, IntegersOn(f, S \cup {x})
    PROVE  SumFunctionOnSet(f, S \cup {x}) = SumFunctionOnSet(f, S) + f[x]
<1>1. IsFiniteSet(S \cup {x})
  BY FS_AddElement
<1>2. (S \cup {x}) \ {x} = S
  OBVIOUS
<1>3. SumFunctionOnSet(f, S) \in Int /\ f[x] \in Int
  BY SumIsInteger DEF IntegersOn
<1>4. SumFunctionOnSet(f, S \cup {x}) = f[x] + SumFunctionOnSet(f, S)
  BY <1>1, <1>2, SumWithout
<1> QED BY <1>3, <1>4

LEMMA TakeOne ==
    ASSUME NEW S, IsFiniteSet(S), NEW s \in SUBSET S, NEW x \in s,
           NEW n \in Nat, Cardinality(s) = n + 1
    PROVE  Cardinality(s \ {x}) = n /\ s \ {x} \in SUBSET S
<1>1. IsFiniteSet(s)
  BY FS_Subset
<1>2. Cardinality(s \ {x}) = Cardinality(s) - 1
  BY <1>1, FS_RemoveElement
<1> QED BY <1>2

LEMMA SumIsNatural ==
    ASSUME NEW S, IsFiniteSet(S), NEW f, \A x \in S : f[x] \in Nat
    PROVE  SumFunctionOnSet(f, S) \in Nat
<1> DEFINE Sum(s) == SumFunctionOnSet(f, s)
           Good == {n \in Nat : \A s \in SUBSET S : Cardinality(s) = n => Sum(s) \in Nat}
<1>1. \A s \in SUBSET S : IsFiniteSet(s) /\ IntegersOn(f, s)
  BY FS_Subset DEF IntegersOn
<1> HIDE DEF Sum
<1>2. 0 \in Good
  <2> SUFFICES ASSUME NEW s \in SUBSET S, Cardinality(s) = 0 PROVE Sum(s) \in Nat
    OBVIOUS
  <2>1. s = {}
    BY <1>1, FS_EmptySet
  <2>2. Sum({}) = 0
    BY SumOfNone DEF Sum
  <2> QED BY <2>1, <2>2
<1>3. ASSUME NEW n \in Nat, n \in Good
      PROVE  n + 1 \in Good
  <2> SUFFICES ASSUME NEW s \in SUBSET S, Cardinality(s) = n + 1 PROVE Sum(s) \in Nat
    OBVIOUS
  <2>1. s # {}
    BY FS_EmptySet
  <2>2. PICK x \in s : TRUE
    BY <2>1
  <2>3. Cardinality(s \ {x}) = n /\ s \ {x} \in SUBSET S
    BY TakeOne
  <2>4. Sum(s \ {x}) \in Nat
    BY <1>3, <2>3
  <2>5. Sum(s) = f[x] + Sum(s \ {x})
    BY <1>1, SumWithout DEF Sum
  <2>6. f[x] \in Nat
    OBVIOUS
  <2> QED BY <2>4, <2>5, <2>6
<1> HIDE DEF Good
<1>4. Cardinality(S) \in Good
  BY <1>2, <1>3, NatInductionOnSets, FS_CardinalityType
<1> QED BY <1>4 DEF Good, Sum

(* The sum over a part and the sum over the rest.                          *)
LEMMA SumSplits ==
    ASSUME NEW S, IsFiniteSet(S), NEW f, IntegersOn(f, S), NEW T \in SUBSET S
    PROVE  SumFunctionOnSet(f, S) = SumFunctionOnSet(f, S \ T) + SumFunctionOnSet(f, T)
<1> DEFINE Sum(s) == SumFunctionOnSet(f, s)
           Good == {n \in Nat : \A s \in SUBSET S :
                       Cardinality(s) = n => Sum(S) = Sum(S \ s) + Sum(s)}
<1>1. \A s \in SUBSET S : IsFiniteSet(s) /\ IntegersOn(f, s)
  BY FS_Subset DEF IntegersOn
<1>2. \A s \in SUBSET S : Sum(s) \in Int
  BY <1>1, SumIsInteger
<1> HIDE DEF Sum
<1>3. 0 \in Good
  <2> SUFFICES ASSUME NEW s \in SUBSET S, Cardinality(s) = 0
               PROVE  Sum(S) = Sum(S \ s) + Sum(s)
    OBVIOUS
  <2>1. s = {} /\ S \ s = S
    BY <1>1, FS_EmptySet
  <2>2. Sum({}) = 0
    BY SumOfNone DEF Sum
  <2>3. Sum(S) \in Int
    BY <1>2
  <2> QED BY <2>1, <2>2, <2>3
<1>4. ASSUME NEW n \in Nat, n \in Good
      PROVE  n + 1 \in Good
  <2> SUFFICES ASSUME NEW s \in SUBSET S, Cardinality(s) = n + 1
               PROVE  Sum(S) = Sum(S \ s) + Sum(s)
    OBVIOUS
  <2>1. s # {}
    BY FS_EmptySet
  <2>2. PICK x \in s : TRUE
    BY <2>1
  <2>3. Cardinality(s \ {x}) = n /\ s \ {x} \in SUBSET S
    BY TakeOne
  <2>4. Sum(S) = Sum(S \ (s \ {x})) + Sum(s \ {x})
    BY <1>4, <2>3
  <2>5. Sum(s) = f[x] + Sum(s \ {x})
    BY <1>1, SumWithout DEF Sum
  <2>6. Sum(S \ (s \ {x})) = f[x] + Sum(S \ s)
    <3>1. S \ (s \ {x}) \in SUBSET S /\ x \in S \ (s \ {x})
      OBVIOUS
    <3>2. Sum(S \ (s \ {x})) = f[x] + Sum((S \ (s \ {x})) \ {x})
      BY <1>1, <3>1, SumWithout DEF Sum
    <3>3. (S \ (s \ {x})) \ {x} = S \ s
      OBVIOUS
    <3> QED BY <3>2, <3>3
  <2>7. Sum(S \ s) \in Int /\ Sum(s \ {x}) \in Int /\ f[x] \in Int
    BY <1>2, <2>3 DEF IntegersOn
  <2> QED BY <2>4, <2>5, <2>6, <2>7
<1> HIDE DEF Good
<1>5. Cardinality(T) \in Good
  BY <1>1, <1>3, <1>4, NatInductionOnSets, FS_CardinalityType
<1> QED BY <1>5 DEF Good, Sum

(* Only one summand changes.                                               *)
LEMMA SumChanges ==
    ASSUME NEW S, IsFiniteSet(S), NEW f, NEW e, IntegersOn(f, S), IntegersOn(e, S),
           NEW x \in S, \A y \in S : y # x => e[y] = f[y]
    PROVE  SumFunctionOnSet(e, S) = SumFunctionOnSet(f, S) + (e[x] - f[x])
<1>1. IsFiniteSet(S \ {x}) /\ IntegersOn(f, S \ {x})
  BY FS_RemoveElement DEF IntegersOn
<1>2. SumFunctionOnSet(f, S) = f[x] + SumFunctionOnSet(f, S \ {x})
  BY SumWithout
<1>3. SumFunctionOnSet(e, S) = e[x] + SumFunctionOnSet(e, S \ {x})
  BY SumWithout
<1>4. SumFunctionOnSet(f, S \ {x}) = SumFunctionOnSet(e, S \ {x})
  BY <1>1, SumOfEquals
<1>5. f[x] \in Int /\ e[x] \in Int /\ SumFunctionOnSet(f, S \ {x}) \in Int
  BY <1>1, SumIsInteger DEF IntegersOn
<1> QED BY <1>2, <1>3, <1>4, <1>5

LEMMA SumOfZeros ==
    ASSUME NEW S, IsFiniteSet(S), NEW f, \A x \in S : f[x] = 0
    PROVE  SumFunctionOnSet(f, S) = 0
<1>1. IntegersOn(f, S)
  BY DEF IntegersOn
<1> DEFINE h == [s \in SUBSET S |-> 0]
<1>2. Sums(f, S, h)
  <2> SUFFICES ASSUME NEW s \in SUBSET S PROVE SumStep(f, h, s) = 0
    BY DEF Sums
  <2>1. CASE s # {}
    <3>1. ChosenFrom(s) \in S /\ s \ {ChosenFrom(s)} \in SUBSET S
      BY <2>1, ChosenFromShrinks
    <3> QED BY <2>1, <3>1 DEF SumStep
  <2> QED BY <2>1 DEF SumStep
<1> HIDE DEF h
<1>3. SumFunctionOnSet(f, S) = h[S]
  BY <1>1, <1>2, SumIs
<1> QED BY <1>3 DEF h

-----------------------------------------------------------------------------
LEMMA LeastNatural ==
    ASSUME NEW T \in SUBSET Nat, T # {}
    PROVE  \E n \in T : \A m \in T : n <= m
<1> DEFINE R == OpToRel(<, Nat)
<1>1. IsWellFoundedOn(R, Nat)
  BY NatLessThanWellFounded
<1>2. \A x, y \in Nat : y < x => <<y, x>> \in R
  BY DEF OpToRel
<1> HIDE DEF R
<1>3. PICK n \in T : \A m \in T : ~(<<m, n>> \in R)
  BY <1>1, WFMin
<1>4. \A m \in T : ~(m < n)
  BY <1>2, <1>3
<1> QED BY <1>4

LEMMA CountsUpTo ==
    ASSUME NEW n \in Nat
    PROVE  IsFiniteSet(1..n) /\ Cardinality(1..n) = n
<1>1. 1 \in Int /\ n \in Int
  OBVIOUS
<1>2. IsFiniteSet(1..n) /\ Cardinality(1..n) = IF 1 > n THEN 0 ELSE n - 1 + 1
  BY <1>1, FS_Interval
<1> QED BY <1>2

(* Queues without repetition.                                              *)
Once(s) == \A i, j \in 1..Len(s) : s[i] = s[j] => i = j

LEMMA RemoveFirstIs ==
    ASSUME NEW X, NEW s \in Seq(X), Once(s), NEW i \in 1..Len(s)
    PROVE  RemoveFirst(s, s[i]) =
               [j \in 1..(Len(s) - 1) |-> IF j < i THEN s[j] ELSE s[j + 1]]
<1>1. {j \in 1..Len(s) : s[j] = s[i]} = {i}
  BY DEF Once
<1>2. Min({i}) = i
  BY DEF Min
<1>3. SelectInSeq(s, LAMBDA v : v = s[i]) = i
  BY <1>1, <1>2 DEF SelectInSeq
<1>4. RemoveFirst(s, s[i]) = SubSeq(s, 1, i - 1) \o SubSeq(s, i + 1, Len(s))
  BY <1>3 DEF RemoveFirst, RemoveAt
<1>5. /\ SubSeq(s, 1, i - 1) \in Seq(X) /\ SubSeq(s, i + 1, Len(s)) \in Seq(X)
      /\ Len(SubSeq(s, 1, i - 1)) = i - 1 /\ Len(SubSeq(s, i + 1, Len(s))) = Len(s) - i
  BY SubSeqProperties
<1> DEFINE before == SubSeq(s, 1, i - 1)
           after == SubSeq(s, i + 1, Len(s))
<1>6. \A j \in 1..(i - 1) : before[j] = s[j]
  OBVIOUS
<1>7. \A j \in 1..(Len(s) - i) : after[j] = s[i + j]
  OBVIOUS
<1> HIDE DEF before, after
<1>8. /\ before \in Seq(X) /\ after \in Seq(X)
      /\ Len(before) = i - 1 /\ Len(after) = Len(s) - i
  BY <1>5 DEF before, after
<1>9. /\ before \o after \in Seq(X) /\ Len(before \o after) = Len(s) - 1
      /\ \A j \in 1..(Len(s) - 1) :
             (before \o after)[j] = IF j < i THEN before[j] ELSE after[j - (i - 1)]
  BY <1>8
<1>10. before \o after = [j \in 1..(Len(s) - 1) |-> (before \o after)[j]]
  <2> DEFINE whole == before \o after
  <2> HIDE DEF whole
  <2>1. whole \in Seq(X) /\ Len(whole) = Len(s) - 1
    BY <1>9 DEF whole
  <2>2. whole = [j \in 1..Len(whole) |-> whole[j]]
    BY <2>1
  <2> QED BY <2>1, <2>2 DEF whole
<1>11. \A j \in 1..(Len(s) - 1) : (before \o after)[j] = IF j < i THEN s[j] ELSE s[j + 1]
  BY <1>6, <1>7, <1>9
<1> QED BY <1>4, <1>10, <1>11 DEF before, after

LEMMA RemoveFirstKeeps ==
    ASSUME NEW X, NEW s \in Seq(X), Once(s), NEW x
    PROVE  /\ RemoveFirst(s, x) \in Seq(X) /\ Once(RemoveFirst(s, x))
           /\ ToSet(RemoveFirst(s, x)) = ToSet(s) \ {x}
<1>1. CASE x \notin ToSet(s)
  <2>1. ~\E i \in 1..Len(s) : s[i] = x
    BY <1>1 DEF ToSet
  <2>2. RemoveFirst(s, x) = s
    BY <2>1 DEF RemoveFirst
  <2> QED BY <1>1, <2>2
<1>2. CASE x \in ToSet(s)
  <2>1. PICK i \in 1..Len(s) : s[i] = x
    BY <1>2 DEF ToSet
  <2> DEFINE t == [j \in 1..(Len(s) - 1) |-> IF j < i THEN s[j] ELSE s[j + 1]]
  <2>2. RemoveFirst(s, x) = t
    BY <2>1, RemoveFirstIs
  <2>3. t \in Seq(X) /\ Len(t) = Len(s) - 1
    OBVIOUS
  <2>4. \A j \in 1..Len(t) : t[j] = IF j < i THEN s[j] ELSE s[j + 1]
    BY <2>3
  <2> HIDE DEF t
  <2>5. Once(t)
    BY <2>3, <2>4 DEF Once
  <2>6. ToSet(t) = ToSet(s) \ {x}
    <3>1. ASSUME NEW y \in ToSet(t) PROVE y \in ToSet(s) \ {x}
      <4>1. PICK j \in 1..Len(t) : t[j] = y
        BY <2>3, <3>1 DEF ToSet
      <4> QED BY <2>1, <2>3, <2>4, <4>1 DEF ToSet, Once
    <3>2. ASSUME NEW y \in ToSet(s) \ {x} PROVE y \in ToSet(t)
      <4>1. PICK j \in 1..Len(s) : s[j] = y
        BY <3>2 DEF ToSet
      <4>2. CASE j < i
        <5>1. j \in 1..Len(t) /\ t[j] = y
          BY <2>3, <2>4, <4>1, <4>2
        <5> QED BY <2>3, <5>1 DEF ToSet
      <4>3. CASE j > i
        <5>1. j - 1 \in 1..Len(t) /\ t[j - 1] = y
          BY <2>3, <2>4, <4>1, <4>3
        <5> QED BY <2>3, <5>1 DEF ToSet
      <4>4. j # i
        BY <2>1, <3>2, <4>1
      <4> QED BY <4>2, <4>3, <4>4
    <3> QED BY <3>1, <3>2
  <2> QED BY <2>2, <2>3, <2>5, <2>6
<1> QED BY <1>1, <1>2

LEMMA RemoveFirstShrinks ==
    ASSUME NEW X, NEW s \in Seq(X), Once(s), NEW x
    PROVE  Len(RemoveFirst(s, x)) <= Len(s)
<1>1. CASE \A i \in 1..Len(s) : s[i] # x
  BY <1>1 DEF RemoveFirst
<1>2. ASSUME NEW i \in 1..Len(s), s[i] = x
      PROVE  Len(RemoveFirst(s, x)) <= Len(s)
  <2> DEFINE t == [j \in 1..(Len(s) - 1) |-> IF j < i THEN s[j] ELSE s[j + 1]]
  <2>1. RemoveFirst(s, x) = t
    BY <1>2, RemoveFirstIs
  <2>2. Len(s) \in Nat /\ Len(s) - 1 \in Nat
    OBVIOUS
  <2>3. Len(t) = Len(s) - 1
    BY <2>2
  <2> HIDE DEF t
  <2> QED BY <2>1, <2>2, <2>3
<1> QED BY <1>1, <1>2

LEMMA AppendKeeps ==
    ASSUME NEW X, NEW s \in Seq(X), Once(s), NEW x \in X, x \notin ToSet(s)
    PROVE  /\ Append(s, x) \in Seq(X) /\ Once(Append(s, x))
           /\ ToSet(Append(s, x)) = ToSet(s) \cup {x}
<1>1. Append(s, x) \in Seq(X) /\ Len(Append(s, x)) = Len(s) + 1
      /\ \A i \in 1..Len(s) : Append(s, x)[i] = s[i]
      /\ Append(s, x)[Len(s) + 1] = x
  OBVIOUS
<1> DEFINE t == Append(s, x)
<1> HIDE DEF t
<1>2. t \in Seq(X) /\ Len(t) = Len(s) + 1
      /\ (\A i \in 1..Len(s) : t[i] = s[i]) /\ t[Len(s) + 1] = x
  BY <1>1 DEF t
<1>3. \A i \in 1..Len(s) : s[i] # x
  BY DEF ToSet
<1>4. Once(t)
  BY <1>2, <1>3 DEF Once
<1>5. ToSet(t) = ToSet(s) \cup {x}
  BY <1>2 DEF ToSet
<1> QED BY <1>2, <1>4, <1>5 DEF t

LEMMA TailKeeps ==
    ASSUME NEW X, NEW s \in Seq(X), Once(s), s # <<>>
    PROVE  /\ Tail(s) \in Seq(X) /\ Once(Tail(s))
           /\ ToSet(Tail(s)) = ToSet(s) \ {Head(s)} /\ Head(s) \in ToSet(s)
<1> DEFINE t == Tail(s)
<1>1. t \in Seq(X) /\ Len(s) \in Nat \ {0} /\ Len(t) = Len(s) - 1
      /\ (\A i \in 1..Len(t) : t[i] = s[i + 1]) /\ Head(s) = s[1]
  OBVIOUS
<1> HIDE DEF t
<1>2. Once(t)
  BY <1>1 DEF Once
<1>3. Head(s) \in ToSet(s)
  BY <1>1 DEF ToSet
<1>4. ASSUME NEW y \in ToSet(t) PROVE y \in ToSet(s) \ {Head(s)}
  <2>1. PICK j \in 1..Len(t) : t[j] = y
    BY <1>1, <1>4 DEF ToSet
  <2> QED BY <1>1, <2>1 DEF ToSet, Once
<1>5. ASSUME NEW y \in ToSet(s) \ {Head(s)} PROVE y \in ToSet(t)
  <2>1. PICK j \in 1..Len(s) : s[j] = y
    BY <1>5 DEF ToSet
  <2>2. j - 1 \in 1..Len(t) /\ t[j - 1] = y
    BY <1>1, <1>5, <2>1
  <2> QED BY <1>1, <2>2 DEF ToSet
<1> QED BY <1>1, <1>2, <1>3, <1>4, <1>5 DEF t

(* It has as many places as elements.                                      *)
LEMMA OnceCounts ==
    ASSUME NEW X, NEW s \in Seq(X), Once(s)
    PROVE  IsFiniteSet(ToSet(s)) /\ Cardinality(ToSet(s)) = Len(s)
<1>1. s \in Bijection(1..Len(s), ToSet(s))
  <2>1. s \in [1..Len(s) -> ToSet(s)] /\ IsInjective(s)
    BY DEF Once, ToSet, IsInjective
  <2>2. \A y \in ToSet(s) : \E i \in 1..Len(s) : s[i] = y
    BY DEF ToSet
  <2> QED BY <2>1, <2>2 DEF Bijection, Injection, Surjection
<1>2. ExistsBijection(1..Len(s), ToSet(s))
  BY <1>1 DEF ExistsBijection
<1>3. Len(s) \in Nat
  OBVIOUS
<1>4. IsFiniteSet(1..Len(s)) /\ Cardinality(1..Len(s)) = Len(s)
  BY <1>3, FS_Interval
<1> QED BY <1>2, <1>4, FS_Bijection

===============================================================================
