---------------------------- MODULE FiniteNumbers ----------------------------
(***************************************************************************)
(* Of finitely many numbers: the largest, after which the codes of bookings*)
(* and users, the terms and the questions are numbered, and the sum, which *)
(* averages, totals, prices and statistics are.                            *)
(***************************************************************************)
EXTENDS Integers, FiniteSetsExt, FiniteSetTheorems, TLAPS

\* Induction over a finite set: it is in G if {} is and every other subset
\* whose smaller subsets all are.
LEMMA FiniteInduction ==
    ASSUME NEW S, IsFiniteSet(S), NEW G,
           \A U \in SUBSET S : (\A V \in SUBSET U : V # U => V \in G) => U \in G
    PROVE  S \in G
<1> DEFINE T == {U \in SUBSET S : U \notin G}
<1>1. ASSUME T # {} PROVE FALSE
  <2>1. IsWellFoundedOn(StrictSubsetOrdering(S), SUBSET S)
    <3>1. FiniteSubsetsOf(S) = SUBSET S
      BY FS_FiniteSubsetsOfFinite
    <3> QED
      BY <3>1, FS_StrictSubsetOrderingWellFounded
  <2>2. PICK U \in T : \A V \in T : <<V, U>> \notin StrictSubsetOrdering(S)
    <3>1. T \subseteq SUBSET S
      OBVIOUS
    <3> HIDE DEF T
    <3> QED
      BY <1>1, <2>1, <3>1, WFMin
  <2>3. ASSUME NEW V \in SUBSET U, V # U PROVE V \in G
    <3>1. <<V, U>> \in StrictSubsetOrdering(S)
      BY <2>3 DEF StrictSubsetOrdering
    <3> QED
      BY <2>2, <3>1
  <2> QED
    BY <2>3
<1> QED
  BY <1>1

----------------------------------------------------------------------------
(* The largest. *)

\* A finite set that a relation orders has a greatest element.
LEMMA GreatestExists ==
    ASSUME NEW S, IsFiniteSet(S), S # {}, NEW R,
           \A x, y \in S : <<x, y>> \in R \/ <<y, x>> \in R,
           \A x, y, z \in S : <<x, y>> \in R /\ <<y, z>> \in R => <<x, z>> \in R
    PROVE  \E g \in S : \A y \in S : <<y, g>> \in R
<1> DEFINE Has(U) == \E g \in U : \A y \in U : <<y, g>> \in R
           G == {U \in SUBSET S : U = {} \/ Has(U)}
<1>1. ASSUME NEW U \in SUBSET S, \A V \in SUBSET U : V # U => V \in G PROVE U \in G
  <2> SUFFICES ASSUME NEW x \in U PROVE Has(U)
    OBVIOUS
  <2>1. U \ {x} \in G
    BY <1>1, ZenonT(40)
  <2>2. CASE U \ {x} = {}
    BY <2>2
  <2>3. CASE U \ {x} # {}
    <3>1. PICK g \in U \ {x} : \A y \in U \ {x} : <<y, g>> \in R
      BY <2>1, <2>3
    <3>2. CASE <<x, g>> \in R
      BY <3>1, <3>2
    <3>3. CASE <<g, x>> \in R
      <4>1. \A y \in U : <<y, x>> \in R
        BY <3>1, <3>3
      <4> QED
        BY <4>1
    <3> QED
      BY <3>1, <3>2, <3>3
  <2> QED
    BY <2>2, <2>3
<1> HIDE DEF G
<1>2. S \in G
  BY <1>1, FiniteInduction
<1> QED
  BY <1>2 DEF G

\* For numbers it is what Max chooses.
LEMMA MaxExists ==
    ASSUME NEW S, IsFiniteSet(S), S # {}, S \subseteq Nat
    PROVE  Max(S) \in S /\ \A y \in S : y <= Max(S)
<1> DEFINE R == {xy \in Nat \X Nat : xy[1] <= xy[2]}
<1>1. /\ \A x, y \in S : <<x, y>> \in R \/ <<y, x>> \in R
      /\ \A x, y, z \in S : <<x, y>> \in R /\ <<y, z>> \in R => <<x, z>> \in R
  OBVIOUS
<1>2. \E g \in S : \A y \in S : <<y, g>> \in R
  <2> HIDE DEF R
  <2> QED
    BY <1>1, GreatestExists
<1>3. PICK g \in S : \A y \in S : y <= g
  BY <1>2
<1>4. \A y \in S : g >= y
  BY <1>3
<1>5. Max(S) \in S /\ \A y \in S : Max(S) >= y
  BY <1>4 DEF Max
<1> QED
  BY <1>5

\* One more than the largest of some numbers, or of none, is a new one.
LEMMA OneMoreIsNew ==
    ASSUME NEW S, IsFiniteSet(S), S \subseteq Nat
    PROVE  Max({0} \cup S) + 1 \in Nat \ {0} /\ \A y \in S : y < Max({0} \cup S) + 1
<1>1. IsFiniteSet({0} \cup S)
  <2>1. {0} \cup S = S \cup {0}
    OBVIOUS
  <2> QED
    BY <2>1, FS_AddElement
<1>2. Max({0} \cup S) \in Nat /\ \A y \in S : y <= Max({0} \cup S)
  <2>1. {0} \cup S # {} /\ {0} \cup S \subseteq Nat
    OBVIOUS
  <2>2. Max({0} \cup S) \in {0} \cup S /\ \A y \in {0} \cup S : y <= Max({0} \cup S)
    BY <1>1, <2>1, MaxExists
  <2> QED
    BY <2>1, <2>2
<1> QED
  BY <1>2

----------------------------------------------------------------------------
(* The sum. *)

\* The element a sum takes next.
First(s) == CHOOSE x \in s : TRUE

\* g sums f over the subsets of A, one element after the other.
Sums(g, f, A) == g = [s \in SUBSET A |-> IF s = {} THEN 0 ELSE f[First(s)] + g[s \ {First(s)}]]

\* What it takes and adds at a subset.
LEMMA SumsAt ==
    ASSUME NEW f, NEW A, NEW g, Sums(g, f, A), NEW s \in SUBSET A, s # {}
    PROVE  First(s) \in s /\ g[s] = f[First(s)] + g[s \ {First(s)}]
<1>1. First(s) \in s
  BY DEF First
<1> QED
  BY <1>1 DEF Sums

\* Summing over more subsets gives the same for those in both.
LEMMA SumsAgree ==
    ASSUME NEW f, NEW A, IsFiniteSet(A), NEW B, NEW g, NEW h, Sums(g, f, A), Sums(h, f, B), A \subseteq B
    PROVE  g[A] = h[A]
<1> DEFINE G == {U \in SUBSET A : g[U] = h[U]}
<1>2. ASSUME NEW U \in SUBSET A, \A V \in SUBSET U : V # U => V \in G PROVE U \in G
  <2>1. CASE U = {}
    BY <2>1 DEF Sums
  <2>2. CASE U # {}
    <3>1. PICK c : c = First(U)
      OBVIOUS
    <3>2. c \in U /\ g[U] = f[c] + g[U \ {c}]
      <4>1. c \in U
        BY <2>2, <3>1 DEF First
      <4> QED
        BY <2>2, <3>1, <4>1 DEF Sums
    <3>3. U \in SUBSET B
      OBVIOUS
    <3>4. h[U] = f[c] + h[U \ {c}]
      BY <2>2, <3>1, <3>3, SumsAt
    <3> QED
      BY <1>2, <3>2, <3>4
  <2> QED
    BY <2>1, <2>2
<1> HIDE DEF G
<1>3. A \in G
  BY <1>2, FiniteInduction
<1> QED
  BY <1>3 DEF G

\* A finite set can be summed over.
LEMMA SumsExist ==
    ASSUME NEW f, NEW S, IsFiniteSet(S)
    PROVE  \E g : Sums(g, f, S)
<1> DEFINE G == {U \in SUBSET S : \E g : Sums(g, f, U)}
<1>2. ASSUME NEW U \in SUBSET S, \A V \in SUBSET U : V # U => V \in G PROVE U \in G
  <2> DEFINE of(V) == CHOOSE g : Sums(g, f, V)
             whole == [s \in SUBSET U |-> IF s = {} THEN 0 ELSE f[First(s)] + of(s \ {First(s)})[s \ {First(s)}]]
  <2>1. \A V \in SUBSET U : V # U => Sums(of(V), f, V)
    BY <1>2
  <2> HIDE DEF of
  <2>2. ASSUME NEW s \in SUBSET U, s # {} PROVE of(s \ {First(s)})[s \ {First(s)}] = whole[s \ {First(s)}]
    <3>1. PICK c \in s : c = First(s)
      BY <2>2 DEF First
    <3>2. PICK t : t = s \ {c}
      OBVIOUS
    <3>3. t \in SUBSET U /\ t # U /\ Sums(of(t), f, t)
      BY <2>1, <3>2
    <3>4. CASE t = {}
      <4>1. of(t)[t] = 0
        BY <3>3, <3>4 DEF Sums
      <4> QED
        BY <3>1, <3>2, <3>4, <4>1
    <3>5. CASE t # {}
      <4>1. PICK d : d = First(t)
        OBVIOUS
      <4>2. d \in t /\ of(t)[t] = f[d] + of(t)[t \ {d}]
        BY <3>3, <3>5, <4>1, SumsAt
      <4>3. whole[t] = f[d] + of(t \ {d})[t \ {d}]
        BY <3>3, <3>5, <4>1
      <4>4. t \ {d} \in SUBSET U /\ t \ {d} # U /\ Sums(of(t \ {d}), f, t \ {d})
        BY <2>1, <3>3, <4>2
      <4>5. IsFiniteSet(t \ {d})
        BY <3>3, FS_Subset
      <4>6. of(t \ {d})[t \ {d}] = of(t)[t \ {d}]
        BY <3>3, <4>4, <4>5, SumsAgree
      <4> QED
        BY <3>1, <3>2, <4>2, <4>3, <4>6
    <3> QED
      BY <3>4, <3>5
  <2>3. whole = [s \in SUBSET U |-> IF s = {} THEN 0 ELSE f[First(s)] + whole[s \ {First(s)}]]
    <3> DEFINE e(s) == IF s = {} THEN 0 ELSE f[First(s)] + of(s \ {First(s)})[s \ {First(s)}]
               d(s) == IF s = {} THEN 0 ELSE f[First(s)] + whole[s \ {First(s)}]
    <3>1. \A s \in SUBSET U : e(s) = d(s)
      BY <2>2
    <3>2. whole = [s \in SUBSET U |-> e(s)]
      OBVIOUS
    <3> HIDE DEF e, d, whole
    <3>3. whole = [s \in SUBSET U |-> d(s)]
      BY <3>1, <3>2
    <3> QED
      BY <3>3 DEF d
  <2>4. Sums(whole, f, U)
    BY <2>3 DEF Sums
  <2> HIDE DEF whole
  <2> QED
    BY <2>4
<1> HIDE DEF G
<1>3. S \in G
  BY <1>2, FiniteInduction
<1> QED
  BY <1>3 DEF G

\* What a sum is made of.
LEMMA SumStep ==
    ASSUME NEW f, NEW S, IsFiniteSet(S)
    PROVE  SumFunctionOnSet(f, S) = IF S = {} THEN 0 ELSE f[First(S)] + SumFunctionOnSet(f, S \ {First(S)})
<1> DEFINE sums(A) == CHOOSE g : g = [s \in SUBSET A |-> IF s = {} THEN 0 ELSE f[First(s)] + g[s \ {First(s)}]]
<1>1. \A A : SumFunctionOnSet(f, A) = sums(A)[A]
  BY DEF SumFunctionOnSet, FoldFunctionOnSet, MapThenFoldSet, First
<1>2. ASSUME NEW A, IsFiniteSet(A) PROVE Sums(sums(A), f, A)
  <2>1. PICK g : Sums(g, f, A)
    BY <1>2, SumsExist
  <2> QED
    BY <2>1 DEF Sums
<1> HIDE DEF sums
<1>3. CASE S = {}
  BY <1>1, <1>2, <1>3 DEF Sums
<1>4. CASE S # {}
  <2>1. PICK c : c = First(S)
    OBVIOUS
  <2>2. PICK t : t = S \ {c}
    OBVIOUS
  <2>3. c \in S /\ sums(S)[S] = f[c] + sums(S)[t]
    BY <1>2, <1>4, <2>1, <2>2, SumsAt
  <2>4. IsFiniteSet(t) /\ t \in SUBSET S
    BY <2>2, FS_Subset
  <2>5. sums(t)[t] = sums(S)[t]
    BY <1>2, <2>4, SumsAgree
  <2> QED
    BY <1>1, <1>4, <2>1, <2>2, <2>3, <2>5
<1> QED
  BY <1>3, <1>4

\* A sum of numbers is a number.
LEMMA SumIsNumber ==
    ASSUME NEW f, NEW S, IsFiniteSet(S), \A x \in S : f[x] \in Nat
    PROVE  SumFunctionOnSet(f, S) \in Nat
<1> DEFINE G == {U \in SUBSET S : SumFunctionOnSet(f, U) \in Nat}
<1>1. ASSUME NEW U \in SUBSET S, \A V \in SUBSET U : V # U => V \in G PROVE U \in G
  <2>1. IsFiniteSet(U)
    BY FS_Subset
  <2>2. SumFunctionOnSet(f, U) = IF U = {} THEN 0 ELSE f[First(U)] + SumFunctionOnSet(f, U \ {First(U)})
    BY <2>1, SumStep
  <2>3. U # {} => First(U) \in U
    BY DEF First
  <2>4. U # {} => U \ {First(U)} \in G
    BY <1>1, <2>3
  <2> QED
    BY <2>2, <2>3, <2>4
<1> HIDE DEF G
<1>2. S \in G
  BY <1>1, FiniteInduction
<1> QED
  BY <1>2 DEF G

\* A sum is that of the values in the set.
LEMMA SumsAreOfValues ==
    ASSUME NEW f, NEW h, NEW S, IsFiniteSet(S), \A x \in S : f[x] = h[x]
    PROVE  SumFunctionOnSet(f, S) = SumFunctionOnSet(h, S)
<1> DEFINE G == {U \in SUBSET S : SumFunctionOnSet(f, U) = SumFunctionOnSet(h, U)}
<1>1. ASSUME NEW U \in SUBSET S, \A V \in SUBSET U : V # U => V \in G PROVE U \in G
  <2>1. IsFiniteSet(U)
    BY FS_Subset
  <2>2. SumFunctionOnSet(f, U) = IF U = {} THEN 0 ELSE f[First(U)] + SumFunctionOnSet(f, U \ {First(U)})
    BY <2>1, SumStep
  <2>3. SumFunctionOnSet(h, U) = IF U = {} THEN 0 ELSE h[First(U)] + SumFunctionOnSet(h, U \ {First(U)})
    BY <2>1, SumStep
  <2>4. U # {} => First(U) \in U
    BY DEF First
  <2>5. U # {} => U \ {First(U)} \in G /\ f[First(U)] = h[First(U)]
    BY <1>1, <2>4
  <2> QED
    BY <2>2, <2>3, <2>5
<1> HIDE DEF G
<1>2. S \in G
  BY <1>1, FiniteInduction
<1> QED
  BY <1>2 DEF G

\* In whatever order: any element can be taken out of a sum.
LEMMA SumWithout ==
    ASSUME NEW f, NEW S, IsFiniteSet(S), \A x \in S : f[x] \in Nat, NEW e \in S
    PROVE  SumFunctionOnSet(f, S) = f[e] + SumFunctionOnSet(f, S \ {e})
<1> DEFINE G == {U \in SUBSET S : \A x \in U : SumFunctionOnSet(f, U) = f[x] + SumFunctionOnSet(f, U \ {x})}
<1>1. ASSUME NEW U \in SUBSET S, \A V \in SUBSET U : V # U => V \in G PROVE U \in G
  <2> SUFFICES ASSUME NEW x \in U PROVE SumFunctionOnSet(f, U) = f[x] + SumFunctionOnSet(f, U \ {x})
    OBVIOUS
  <2>1. PICK c : c = First(U)
    OBVIOUS
  <2>2. IsFiniteSet(U)
    BY FS_Subset
  <2>3. c \in U /\ SumFunctionOnSet(f, U) = f[c] + SumFunctionOnSet(f, U \ {c})
    BY <2>1, <2>2, SumStep DEF First
  <2>4. CASE x = c
    BY <2>3, <2>4
  <2>5. CASE x # c
    <3>1. U \ {c} \in G /\ U \ {x} \in G /\ x \in U \ {c} /\ c \in U \ {x}
      BY <1>1, <2>3, <2>5
    <3>2. PICK rest : rest = (U \ {c}) \ {x}
      OBVIOUS
    <3>3. rest = (U \ {x}) \ {c}
      BY <3>2
    <3>4. SumFunctionOnSet(f, U \ {c}) = f[x] + SumFunctionOnSet(f, rest)
      BY <3>1, <3>2
    <3>5. SumFunctionOnSet(f, U \ {x}) = f[c] + SumFunctionOnSet(f, rest)
      BY <3>1, <3>3
    <3>6. SumFunctionOnSet(f, rest) \in Nat
      <4>1. IsFiniteSet(rest) /\ \A y \in rest : f[y] \in Nat
        BY <2>2, <3>2, FS_Subset
      <4> QED
        BY <4>1, SumIsNumber
    <3>7. f[x] \in Nat /\ f[c] \in Nat
      BY <2>3
    <3> QED
      BY <2>3, <3>4, <3>5, <3>6, <3>7
  <2> QED
    BY <2>4, <2>5
<1> HIDE DEF G
<1>2. S \in G
  BY <1>1, FiniteInduction
<1> QED
  BY <1>2 DEF G

\* Nothing adds up to nothing.
LEMMA SumOfNone == ASSUME NEW f PROVE SumFunctionOnSet(f, {}) = 0
BY FS_EmptySet, SumStep

\* A new element adds its value.
LEMMA SumWith ==
    ASSUME NEW f, NEW S, IsFiniteSet(S), NEW e, e \notin S, \A x \in S \cup {e} : f[x] \in Nat
    PROVE  SumFunctionOnSet(f, S \cup {e}) = f[e] + SumFunctionOnSet(f, S)
<1>1. IsFiniteSet(S \cup {e}) /\ (S \cup {e}) \ {e} = S
  BY FS_AddElement
<1> QED
  BY <1>1, SumWithout

\* The same for a function with the sum over its domain.
LEMMA SumOfNumbers ==
    ASSUME NEW f, IsFiniteSet(DOMAIN f), \A x \in DOMAIN f : f[x] \in Nat
    PROVE  SumFunction(f) \in Nat
BY SumIsNumber DEF SumFunction

\* A function with one more place adds its value there.
LEMMA SumOfOneMore ==
    ASSUME NEW f, NEW h, NEW e, IsFiniteSet(DOMAIN f), e \notin DOMAIN f,
           DOMAIN h = DOMAIN f \cup {e}, \A x \in DOMAIN f : h[x] = f[x],
           \A x \in DOMAIN h : h[x] \in Nat
    PROVE  SumFunction(h) = h[e] + SumFunction(f) /\ SumFunction(f) \in Nat /\ h[e] \in Nat
<1> DEFINE S == DOMAIN f
<1>1. SumFunctionOnSet(h, S \cup {e}) = h[e] + SumFunctionOnSet(h, S)
  BY SumWith
<1>2. SumFunctionOnSet(h, S) = SumFunctionOnSet(f, S)
  BY SumsAreOfValues
<1>3. SumFunctionOnSet(f, S) \in Nat
  BY SumIsNumber
<1> QED
  BY <1>1, <1>2, <1>3 DEF SumFunction

\* One without places adds up to nothing.
LEMMA SumOverNothing == ASSUME NEW f, DOMAIN f = {} PROVE SumFunction(f) = 0
BY SumOfNone DEF SumFunction

\* Equal summands add up to their product with how many they are.
LEMMA SumOfEquals ==
    ASSUME NEW f, NEW S, IsFiniteSet(S), NEW v \in Nat, \A x \in S : f[x] = v
    PROVE  SumFunctionOnSet(f, S) = v * Cardinality(S)
<1> DEFINE G == {U \in SUBSET S : SumFunctionOnSet(f, U) = v * Cardinality(U)}
<1>1. ASSUME NEW U \in SUBSET S, \A V \in SUBSET U : V # U => V \in G PROVE U \in G
  <2>1. CASE U = {}
    BY <2>1, SumOfNone, FS_EmptySet
  <2>2. CASE U # {}
    <3>1. PICK c \in U : TRUE
      BY <2>2
    <3>2. PICK V : V = U \ {c}
      OBVIOUS
    <3>3. IsFiniteSet(U) /\ V \in G
      BY <1>1, <3>2, FS_Subset
    <3>4. SumFunctionOnSet(f, U) = f[c] + SumFunctionOnSet(f, V)
      BY <3>2, <3>3, SumWithout
    <3>5. PICK n \in Nat : n = Cardinality(V)
      BY <3>2, <3>3, FS_Subset, FS_CardinalityType
    <3>6. Cardinality(U) = n + 1
      <4>1. Cardinality(V) = Cardinality(U) - 1 /\ Cardinality(U) \in Nat
        BY <3>2, <3>3, FS_RemoveElement, FS_CardinalityType
      <4> QED
        BY <3>5, <4>1
    <3>7. v + v * n = v * (n + 1)
      OBVIOUS
    <3> QED
      BY <3>3, <3>4, <3>5, <3>6, <3>7
  <2> QED
    BY <2>1, <2>2
<1> HIDE DEF G
<1>2. S \in G
  BY <1>1, FiniteInduction
<1> QED
  BY <1>2 DEF G

\* What is counted is a sum of ones.
LEMMA CountIsSum ==
    ASSUME NEW f, NEW S, IsFiniteSet(S), \A x \in S : f[x] = 1
    PROVE  SumFunctionOnSet(f, S) = Cardinality(S)
<1>1. SumFunctionOnSet(f, S) = 1 * Cardinality(S)
  BY SumOfEquals
<1>2. Cardinality(S) \in Nat
  BY FS_CardinalityType
<1> QED
  BY <1>1, <1>2

\* No element is more than the sum.
LEMMA NoneIsMoreThanTheSum ==
    ASSUME NEW f, NEW S, IsFiniteSet(S), \A x \in S : f[x] \in Nat, NEW e \in S
    PROVE  f[e] <= SumFunctionOnSet(f, S)
<1>1. SumFunctionOnSet(f, S) = f[e] + SumFunctionOnSet(f, S \ {e})
  BY SumWithout
<1>2. SumFunctionOnSet(f, S \ {e}) \in Nat
  <2>1. IsFiniteSet(S \ {e}) /\ \A x \in S \ {e} : f[x] \in Nat
    BY FS_Subset
  <2> QED
    BY <2>1, SumIsNumber
<1> QED
  BY <1>1, <1>2

\* What one element is raised by, the sum is raised by.
LEMMA SumIsRaised ==
    ASSUME NEW f, NEW h, NEW S, IsFiniteSet(S), \A x \in S : f[x] \in Nat, NEW e \in S, NEW d \in Nat,
           h[e] = f[e] + d, \A x \in S \ {e} : h[x] = f[x]
    PROVE  SumFunctionOnSet(h, S) = SumFunctionOnSet(f, S) + d
<1>1. \A x \in S : h[x] \in Nat
  OBVIOUS
<1>2. SumFunctionOnSet(f, S) = f[e] + SumFunctionOnSet(f, S \ {e})
  BY SumWithout
<1>3. SumFunctionOnSet(h, S) = h[e] + SumFunctionOnSet(h, S \ {e})
  BY <1>1, SumWithout
<1>4. IsFiniteSet(S \ {e})
  BY FS_Subset
<1>5. SumFunctionOnSet(h, S \ {e}) = SumFunctionOnSet(f, S \ {e})
  BY <1>4, SumsAreOfValues
<1>6. SumFunctionOnSet(f, S \ {e}) \in Nat
  BY <1>4, SumIsNumber
<1> QED
  BY <1>2, <1>3, <1>5, <1>6

\* The same summands under other names add up to the same.
LEMMA SumUnderOtherNames ==
    ASSUME NEW f, NEW h, NEW S, IsFiniteSet(S), NEW name,
           \A x, y \in S : name[x] = name[y] => x = y,
           \A x \in S : f[x] \in Nat /\ h[name[x]] = f[x]
    PROVE  /\ IsFiniteSet({name[x] : x \in S})
           /\ SumFunctionOnSet(h, {name[x] : x \in S}) = SumFunctionOnSet(f, S)
<1> DEFINE Names(U) == {name[x] : x \in U}
           G == {U \in SUBSET S : /\ IsFiniteSet(Names(U))
                                  /\ SumFunctionOnSet(h, Names(U)) = SumFunctionOnSet(f, U)}
<1>1. ASSUME NEW U \in SUBSET S, \A V \in SUBSET U : V # U => V \in G PROVE U \in G
  <2>1. CASE U = {}
    <3>1. Names(U) = {}
      BY <2>1
    <3> QED
      BY <2>1, <3>1, SumOfNone, FS_EmptySet
  <2>2. CASE U # {}
    <3>1. PICK c \in U : TRUE
      BY <2>2
    <3>2. PICK V : V = U \ {c}
      OBVIOUS
    <3>3. IsFiniteSet(U) /\ V \in G /\ V \in SUBSET S
      BY <1>1, <3>2, FS_Subset
    <3>4. SumFunctionOnSet(f, U) = f[c] + SumFunctionOnSet(f, V)
      BY <3>2, <3>3, SumWithout
    <3>5. Names(U) = Names(V) \cup {name[c]} /\ name[c] \notin Names(V)
      BY <3>2
    <3>6. IsFiniteSet(Names(V)) /\ IsFiniteSet(Names(U))
      <4> HIDE DEF Names
      <4> QED
        BY <3>3, <3>5, FS_AddElement
    <3>7. \A y \in Names(V) \cup {name[c]} : h[y] \in Nat
      BY <3>2
    <3>8. SumFunctionOnSet(h, Names(U)) = h[name[c]] + SumFunctionOnSet(h, Names(V))
      <4> HIDE DEF Names
      <4> QED
        BY <3>5, <3>6, <3>7, SumWith
    <3> QED
      BY <3>3, <3>4, <3>6, <3>8
  <2> QED
    BY <2>1, <2>2
<1> HIDE DEF G
<1>2. S \in G
  BY <1>1, FiniteInduction
<1> QED
  BY <1>2 DEF G

\* What a name is given to.
PartOf(S, part, k) == {x \in S : part[x] = k}

\* A sum is that of the sums of its parts.
LEMMA SumByParts ==
    ASSUME NEW f, NEW S, IsFiniteSet(S), \A x \in S : f[x] \in Nat,
           NEW K, IsFiniteSet(K), NEW part, \A x \in S : part[x] \in K,
           NEW h, \A k \in K : h[k] = SumFunctionOnSet(f, PartOf(S, part, k))
    PROVE  SumFunctionOnSet(h, K) = SumFunctionOnSet(f, S)
<1> DEFINE Part(U, k) == {x \in U : part[x] = k}
           parts(U) == [k \in K |-> SumFunctionOnSet(f, Part(U, k))]
           G == {U \in SUBSET S : SumFunctionOnSet(parts(U), K) = SumFunctionOnSet(f, U)}
<1>0. ASSUME NEW U \in SUBSET S, NEW k \in K PROVE IsFiniteSet(Part(U, k)) /\ parts(U)[k] \in Nat
  <2>1. Part(U, k) \in SUBSET S
    OBVIOUS
  <2>2. IsFiniteSet(Part(U, k))
    BY <2>1, FS_Subset
  <2>3. SumFunctionOnSet(f, Part(U, k)) \in Nat
    <3>1. \A x \in Part(U, k) : f[x] \in Nat
      OBVIOUS
    <3> HIDE DEF Part
    <3> QED
      BY <2>2, <3>1, SumIsNumber
  <2> QED
    BY <2>2, <2>3
<1>1. ASSUME NEW U \in SUBSET S, \A V \in SUBSET U : V # U => V \in G PROVE U \in G
  <2>1. CASE U = {}
    <3>1. \A k \in K : Part(U, k) = {}
      BY <2>1
    <3>2. \A k \in K : parts(U)[k] = 0
      <4> HIDE DEF Part
      <4> QED
        BY <3>1, SumOfNone
    <3>3. SumFunctionOnSet(parts(U), K) = 0 * Cardinality(K)
      <4> HIDE DEF parts
      <4> QED
        BY <3>2, SumOfEquals
    <3>4. Cardinality(K) \in Nat
      BY FS_CardinalityType
    <3>5. SumFunctionOnSet(f, U) = 0
      BY <2>1, SumOfNone
    <3> HIDE DEF parts
    <3> QED
      BY <3>3, <3>4, <3>5
  <2>2. CASE U # {}
    <3>1. PICK c \in U : TRUE
      BY <2>2
    <3>2. PICK V : V = U \ {c}
      OBVIOUS
    <3>3. IsFiniteSet(U) /\ V \in G /\ V \in SUBSET S
      BY <1>1, <3>2, FS_Subset
    <3>4. SumFunctionOnSet(f, U) = f[c] + SumFunctionOnSet(f, V)
      BY <3>2, <3>3, SumWithout
    <3>5. PICK e \in K : e = part[c]
      OBVIOUS
    <3>6. /\ Part(U, e) = Part(V, e) \cup {c} /\ c \notin Part(V, e)
          /\ \A k \in K \ {e} : Part(U, k) = Part(V, k)
      BY <3>2, <3>5
    <3>7. parts(U)[e] = parts(V)[e] + f[c]
      <4>1. IsFiniteSet(Part(V, e)) /\ parts(V)[e] \in Nat
        BY <1>0, <3>3
      <4>2. \A x \in Part(V, e) \cup {c} : f[x] \in Nat
        BY <3>3
      <4>3. SumFunctionOnSet(f, Part(U, e)) = f[c] + SumFunctionOnSet(f, Part(V, e))
        <5> HIDE DEF Part
        <5> QED
          BY <3>6, <4>1, <4>2, SumWith
      <4>4. parts(U)[e] = SumFunctionOnSet(f, Part(U, e)) /\ parts(V)[e] = SumFunctionOnSet(f, Part(V, e))
        OBVIOUS
      <4> HIDE DEF Part, parts
      <4> QED
        BY <4>1, <4>3, <4>4
    <3>8. \A k \in K \ {e} : parts(U)[k] = parts(V)[k]
      <4> HIDE DEF Part
      <4> QED
        BY <3>6
    <3>9. \A k \in K : parts(V)[k] \in Nat
      BY <1>0, <3>3
    <3>10. SumFunctionOnSet(parts(U), K) = SumFunctionOnSet(parts(V), K) + f[c]
      <4>1. PICK d \in Nat : d = f[c]
        OBVIOUS
      <4> HIDE DEF parts, Part
      <4> QED
        BY <3>7, <3>8, <3>9, <4>1, SumIsRaised
    <3>11. SumFunctionOnSet(parts(V), K) = SumFunctionOnSet(f, V) /\ f[c] \in Nat
      BY <3>3
    <3>12. SumFunctionOnSet(f, V) \in Nat
      <4>1. IsFiniteSet(V)
        BY <3>2, <3>3, FS_Subset
      <4> QED
        BY <3>3, <4>1, SumIsNumber
    <3> HIDE DEF parts
    <3> QED
      BY <3>4, <3>10, <3>11, <3>12
  <2> QED
    BY <2>1, <2>2
<1> HIDE DEF G
<1>2. S \in G
  BY <1>1, FiniteInduction
<1>3. \A k \in K : h[k] = parts(S)[k]
  BY DEF PartOf
<1>4. SumFunctionOnSet(h, K) = SumFunctionOnSet(parts(S), K)
  <2> HIDE DEF parts
  <2> QED
    BY <1>3, SumsAreOfValues
<1> QED
  BY <1>2, <1>4 DEF G

\* Summands of v at most add up to no more than equal ones would, and to less
\* if one is less.
LEMMA SumAtMost ==
    ASSUME NEW f, NEW S, IsFiniteSet(S), NEW v \in Nat, \A x \in S : f[x] \in Nat /\ f[x] <= v
    PROVE  /\ SumFunctionOnSet(f, S) <= v * Cardinality(S)
           /\ SumFunctionOnSet(f, S) = v * Cardinality(S) => \A x \in S : f[x] = v
<1> DEFINE rest == [x \in S |-> v - f[x]]
           whole == [x \in S |-> v]
           G == {U \in SUBSET S : SumFunctionOnSet(whole, U) = SumFunctionOnSet(f, U) + SumFunctionOnSet(rest, U)}
<1>1. \A x \in S : /\ rest[x] \in Nat /\ f[x] \in Nat /\ whole[x] \in Nat
                   /\ whole[x] = f[x] + rest[x] /\ whole[x] = v
  OBVIOUS
<1>2. \A U \in SUBSET S : IsFiniteSet(U)
  BY FS_Subset
<1> HIDE DEF rest, whole
<1>3. \A U \in SUBSET S : /\ SumFunctionOnSet(f, U) \in Nat /\ SumFunctionOnSet(rest, U) \in Nat
                          /\ SumFunctionOnSet(whole, U) \in Nat
  <2> SUFFICES ASSUME NEW U \in SUBSET S
               PROVE  /\ SumFunctionOnSet(f, U) \in Nat /\ SumFunctionOnSet(rest, U) \in Nat
                      /\ SumFunctionOnSet(whole, U) \in Nat
    OBVIOUS
  <2>1. \A x \in U : f[x] \in Nat /\ rest[x] \in Nat /\ whole[x] \in Nat
    BY <1>1
  <2> QED
    BY <1>2, <2>1, SumIsNumber
<1>4. ASSUME NEW U \in SUBSET S, \A V \in SUBSET U : V # U => V \in G PROVE U \in G
  <2>1. CASE U = {}
    BY <2>1, SumOfNone
  <2>2. CASE U # {}
    <3>1. PICK c \in U : TRUE
      BY <2>2
    <3>2. PICK V : V = U \ {c}
      OBVIOUS
    <3>3. V \in G /\ V \in SUBSET S /\ IsFiniteSet(U)
      BY <1>2, <1>4, <3>2
    <3>4. \A x \in U : f[x] \in Nat /\ rest[x] \in Nat /\ whole[x] \in Nat
      BY <1>1
    <3>5. SumFunctionOnSet(f, U) = f[c] + SumFunctionOnSet(f, V)
      BY <3>2, <3>3, <3>4, SumWithout
    <3>6. SumFunctionOnSet(rest, U) = rest[c] + SumFunctionOnSet(rest, V)
      BY <3>2, <3>3, <3>4, SumWithout
    <3>7. SumFunctionOnSet(whole, U) = whole[c] + SumFunctionOnSet(whole, V)
      BY <3>2, <3>3, <3>4, SumWithout
    <3>8. c \in S
      OBVIOUS
    <3> QED
      BY <1>1, <1>3, <3>3, <3>5, <3>6, <3>7, <3>8
  <2> QED
    BY <2>1, <2>2
<1> HIDE DEF G
<1>5. S \in G
  BY <1>4, FiniteInduction
<1>6. SumFunctionOnSet(whole, S) = v * Cardinality(S)
  BY <1>1, SumOfEquals
<1>7. SumFunctionOnSet(whole, S) = SumFunctionOnSet(f, S) + SumFunctionOnSet(rest, S)
  BY <1>5 DEF G
<1>8. ASSUME SumFunctionOnSet(rest, S) = 0, NEW x \in S PROVE f[x] = v
  <2>1. rest[x] <= 0
    BY <1>1, <1>8, NoneIsMoreThanTheSum
  <2> QED
    BY <1>1, <2>1
<1>9. PICK a \in Nat : a = SumFunctionOnSet(f, S)
  BY <1>3
<1>10. PICK b \in Nat : b = SumFunctionOnSet(rest, S)
  BY <1>3
<1>11. v * Cardinality(S) = a + b
  BY <1>6, <1>7, <1>9, <1>10
<1>12. a + b = a => b = 0
  OBVIOUS
<1> QED
  BY <1>8, <1>9, <1>10, <1>11, <1>12

\* What finitely many are called are finitely many names.
LEMMA NamesAreFinite ==
    ASSUME NEW S, IsFiniteSet(S), NEW name, NEW names, \A k \in names : \E x \in S : name[x] = k
    PROVE  IsFiniteSet(names)
<1> DEFINE T == {x \in S : name[x] \in names}
           f == [x \in T |-> name[x]]
<1>1. IsFiniteSet(T)
  BY FS_Subset
<1>2. f \in Surjection(T, names)
  BY DEF Surjection
<1> QED
  BY <1>1, <1>2, FS_Surjection
=============================================================================
