-------------------------------- MODULE Sums --------------------------------
(***************************************************************************)
(* SumFunctionOnSet adds up a function in an order nobody chose, and is    *)
(* defined by recursion over sets.  The lemmas the books are proved with:  *)
(* the sum of nothing is 0, one more element adds its value, and functions *)
(* that agree have equal sums.  Induction is stated for sets of numbers,   *)
(* which the provers can instantiate, instead of for predicates.           *)
(***************************************************************************)
EXTENDS Integers, Sequences, FiniteSets, Functions, FiniteSetTheorems, TLAPS

(* A set of numbers with 0, and the successor of each of its members. *)
LEMMA CountedUp ==
    ASSUME NEW T, 0 \in T, \A n \in Nat : n \in T => n + 1 \in T
    PROVE  Nat \subseteq T
  <1> DEFINE Missing == Nat \ T
  <1> SUFFICES ASSUME Missing # {} PROVE FALSE
    OBVIOUS
  <1>1. PICK x \in Missing : \A y \in Missing : ~(<<y, x>> \in OpToRel(<, Nat))
    BY WFMin, NatLessThanWellFounded
  <1>2. \A y \in Missing : ~(y < x)
    BY <1>1 DEF OpToRel
  <1>3. x \in Nat /\ x # 0 /\ x - 1 \in Nat /\ x - 1 \in T
    BY <1>2
  <1>. QED BY <1>3

(* A set of numbers has a least one. *)
LEMMA LeastIn ==
    ASSUME NEW S \in SUBSET Nat, S # {}
    PROVE  \E x \in S : \A y \in S : x <= y
  <1> SUFFICES ASSUME \A x \in S : \E y \in S : y < x PROVE FALSE
    OBVIOUS
  <1> DEFINE T == {n \in Nat : \A y \in S : n < y}
  <1>1. 0 \in T
    BY DEF T
  <1>2. \A n \in Nat : n \in T => n + 1 \in T
    BY DEF T
  <1> HIDE DEF T
  <1>3. Nat \subseteq T
    BY <1>1, <1>2, CountedUp
  <1>4. PICK y \in S : y \in Nat
    OBVIOUS
  <1>5. y \in T
    BY <1>3, <1>4
  <1>. QED BY <1>4, <1>5 DEF T

-----------------------------------------------------------------------------
(* The hypotheses of the lemmas, named so that the provers match them whole. *)

AgreeOn(f, g, S) == \A x \in S : f[x] = g[x]
IntsOn(f, S) == \A x \in S : f[x] \in Int
SumsTo(f, S, a) == SumFunctionOnSet(f, S) = a

-----------------------------------------------------------------------------
(* What is added next, and the recursion of the library over subsets of S. *)

Picked(s) == CHOOSE x \in s : TRUE
TallyStep(f, g, s) == IF s = {} THEN 0 ELSE f[Picked(s)] + g[s \ {Picked(s)}]
TallyOf(f, S) == CHOOSE g : g = [s \in SUBSET S |-> TallyStep(f, g, s)]

LEMMA SumIsTally ==
    ASSUME NEW f, NEW S
    PROVE  SumFunctionOnSet(f, S) = TallyOf(f, S)[S]
  BY Zenon DEF SumFunctionOnSet, FoldFunctionOnSet, MapThenFoldSet, TallyOf, TallyStep, Picked

LEMMA PickedIn ==
    ASSUME NEW s, s # {}
    PROVE  Picked(s) \in s
  BY DEF Picked

(* The subsets of up to n elements have a tally, whatever n. *)
Small(S, n) == {s \in SUBSET S : Cardinality(s) <= n}
Tallied(f, S, n) == \E g : g = [s \in Small(S, n) |-> TallyStep(f, g, s)]

LEMMA OneLess ==
    ASSUME NEW S, IsFiniteSet(S), NEW n \in Nat, NEW s \in Small(S, n + 1), s # {}
    PROVE  s \ {Picked(s)} \in Small(S, n)
  <1>1. IsFiniteSet(s) /\ Cardinality(s) \in Nat /\ Cardinality(s) <= n + 1 /\ s \subseteq S
    BY FS_Subset, FS_CardinalityType DEF Small
  <1>2. Cardinality(s \ {Picked(s)}) = Cardinality(s) - 1
    BY <1>1, PickedIn, FS_RemoveElement
  <1>. QED BY <1>1, <1>2 DEF Small

LEMMA TallyGrows ==
    ASSUME NEW S, IsFiniteSet(S), NEW f, NEW n \in Nat, Tallied(f, S, n)
    PROVE  Tallied(f, S, n + 1)
  <1>1. PICK g : g = [s \in Small(S, n) |-> TallyStep(f, g, s)]
    BY DEF Tallied
  <1> DEFINE h == [s \in Small(S, n + 1) |-> TallyStep(f, g, s)]
  <1>2. \A s \in Small(S, n + 1) : s # {} => s \ {Picked(s)} \in Small(S, n)
    BY OneLess
  <1>3. \A s \in Small(S, n) : s \in Small(S, n + 1)
    <2>1. \A s \in SUBSET S : Cardinality(s) \in Nat
      BY FS_Subset, FS_CardinalityType
    <2>. QED BY <2>1 DEF Small
  <1>4. \A s \in Small(S, n) : h[s] = g[s]
    BY <1>1, <1>3
  <1>5. \A s \in Small(S, n + 1) : TallyStep(f, h, s) = TallyStep(f, g, s)
    <2> TAKE s \in Small(S, n + 1)
    <2>1. s # {} => h[s \ {Picked(s)}] = g[s \ {Picked(s)}]
      BY <1>2, <1>4
    <2> HIDE DEF h
    <2>. QED BY <2>1 DEF TallyStep
  <1>6. h = [s \in Small(S, n + 1) |-> TallyStep(f, h, s)]
    BY <1>5, Zenon
  <1> HIDE DEF h
  <1>. QED BY <1>6 DEF Tallied

LEMMA TallyEquation ==
    ASSUME NEW S, IsFiniteSet(S), NEW f
    PROVE  TallyOf(f, S) = [s \in SUBSET S |-> TallyStep(f, TallyOf(f, S), s)]
  <1> DEFINE T == {n \in Nat : Tallied(f, S, n)}
  <1>1. Tallied(f, S, 0)
    <2> DEFINE z == [s \in Small(S, 0) |-> 0]
    <2>1. \A s \in Small(S, 0) : s = {}
      <3> TAKE s \in Small(S, 0)
      <3>1. IsFiniteSet(s) /\ Cardinality(s) \in Nat /\ Cardinality(s) <= 0
        BY FS_Subset, FS_CardinalityType DEF Small
      <3>. QED BY <3>1, FS_EmptySet
    <2>2. \A s \in Small(S, 0) : TallyStep(f, z, s) = 0
      BY <2>1 DEF TallyStep
    <2>3. z = [s \in Small(S, 0) |-> TallyStep(f, z, s)]
      BY <2>2, Zenon
    <2> HIDE DEF z
    <2>. QED BY <2>3 DEF Tallied
  <1>2. \A n \in Nat : n \in T => n + 1 \in T
    BY TallyGrows
  <1>3. Nat \subseteq T
    <2> HIDE DEF T
    <2>1. 0 \in T
      BY <1>1 DEF T
    <2>. QED BY <1>2, <2>1, CountedUp
  <1>4. Cardinality(S) \in Nat
    BY FS_CardinalityType
  <1>5. Tallied(f, S, Cardinality(S))
    BY <1>3, <1>4
  <1>6. Small(S, Cardinality(S)) = SUBSET S
    BY FS_Subset DEF Small
  <1>7. \E g : g = [s \in SUBSET S |-> TallyStep(f, g, s)]
    BY <1>5, <1>6 DEF Tallied
  <1>. QED BY <1>7, Zenon DEF TallyOf

LEMMA TallyAt ==
    ASSUME NEW S, IsFiniteSet(S), NEW f
    PROVE  \A s \in SUBSET S : TallyOf(f, S)[s] = TallyStep(f, TallyOf(f, S), s)
  <1> DEFINE G == TallyOf(f, S)
  <1>1. G = [s \in SUBSET S |-> TallyStep(f, G, s)]
    BY TallyEquation
  <1> HIDE DEF G
  <1>2. \A s \in SUBSET S : G[s] = TallyStep(f, G, s)
    BY <1>1
  <1>. QED BY <1>2 DEF G

(* What holds of the empty subset, and of a subset of n + 1 elements once it *)
(* holds of every smaller one, holds of all.                                 *)
LEMMA SubsetsInTurn ==
    ASSUME NEW S, IsFiniteSet(S), NEW T, {} \in T,
           \A s \in SUBSET S : s # {} /\ (\A x \in s : s \ {x} \in T) => s \in T
    PROVE  \A s \in SUBSET S : s \in T
  <1> DEFINE Upto == {n \in Nat : \A s \in SUBSET S : Cardinality(s) = n => s \in T}
  <1>1. \A s \in SUBSET S : IsFiniteSet(s) /\ Cardinality(s) \in Nat
    BY FS_Subset, FS_CardinalityType
  <1>2. 0 \in Upto
    BY <1>1, FS_EmptySet
  <1>3. \A n \in Nat : n \in Upto => n + 1 \in Upto
    <2> SUFFICES ASSUME NEW n \in Nat, n \in Upto, NEW s \in SUBSET S, Cardinality(s) = n + 1
                 PROVE  s \in T
      OBVIOUS
    <2>1. \A x \in s : Cardinality(s \ {x}) = n
      BY <1>1, FS_RemoveElement
    <2>2. s # {}
      BY FS_EmptySet
    <2>. QED BY <2>1, <2>2
  <1>4. Nat \subseteq Upto
    <2> HIDE DEF Upto
    <2>. QED BY <1>2, <1>3, CountedUp
  <1>. QED BY <1>1, <1>4

(* Tallies of functions that agree on a subset of both domains agree on it. *)
LEMMA TallyAgrees ==
    ASSUME NEW S, IsFiniteSet(S), NEW R, IsFiniteSet(R), NEW f, NEW g,
           NEW A, A \subseteq S, A \subseteq R, AgreeOn(f, g, A)
    PROVE  TallyOf(f, S)[A] = TallyOf(g, R)[A]
  <1> DEFINE F == TallyOf(f, S)
             G == TallyOf(g, R)
             T == {s \in SUBSET A : F[s] = G[s]}
  <1>1. (\A s \in SUBSET S : F[s] = TallyStep(f, F, s)) /\ (\A s \in SUBSET R : G[s] = TallyStep(g, G, s))
    BY TallyAt
  <1> HIDE DEF F, G
  <1>2. \A s \in SUBSET A : F[s] = TallyStep(f, F, s) /\ G[s] = TallyStep(g, G, s)
    BY <1>1
  <1>3. \A s \in SUBSET A : s # {} /\ (\A x \in s : s \ {x} \in T) => s \in T
    <2> SUFFICES ASSUME NEW s \in SUBSET A, s # {}, \A x \in s : s \ {x} \in T PROVE F[s] = G[s]
      OBVIOUS
    <2>1. Picked(s) \in s
      BY PickedIn
    <2>2. F[s \ {Picked(s)}] = G[s \ {Picked(s)}] /\ f[Picked(s)] = g[Picked(s)]
      BY <2>1 DEF AgreeOn
    <2>3. F[s] = TallyStep(f, F, s) /\ G[s] = TallyStep(g, G, s)
      BY <1>2
    <2>. QED BY <2>2, <2>3 DEF TallyStep
  <1>4. IsFiniteSet(A) /\ {} \in T
    <2>1. F[{}] = 0 /\ G[{}] = 0
      BY <1>2 DEF TallyStep
    <2>. QED BY <2>1, FS_Subset
  <1>5. \A s \in SUBSET A : s \in T
    <2> HIDE DEF T
    <2>. QED BY <1>3, <1>4, SubsetsInTurn
  <1>. QED BY <1>5 DEF F, G

LEMMA TallyIsInt ==
    ASSUME NEW S, IsFiniteSet(S), NEW f, IntsOn(f, S)
    PROVE  \A s \in SUBSET S : TallyOf(f, S)[s] \in Int
  <1> DEFINE F == TallyOf(f, S)
             T == {s \in SUBSET S : F[s] \in Int}
  <1>0. \A s \in SUBSET S : F[s] = TallyStep(f, F, s)
    BY TallyAt
  <1> HIDE DEF F
  <1>1. F[{}] = 0 /\ \A s \in SUBSET S : s # {} => F[s] = f[Picked(s)] + F[s \ {Picked(s)}]
    BY <1>0 DEF TallyStep
  <1>2. \A s \in SUBSET S : s # {} /\ (\A x \in s : s \ {x} \in T) => s \in T
    <2> SUFFICES ASSUME NEW s \in SUBSET S, s # {}, \A x \in s : s \ {x} \in T PROVE F[s] \in Int
      OBVIOUS
    <2>1. Picked(s) \in s
      BY PickedIn
    <2>2. F[s \ {Picked(s)}] \in Int /\ f[Picked(s)] \in Int
      BY <2>1 DEF IntsOn
    <2>3. F[s] = f[Picked(s)] + F[s \ {Picked(s)}]
      BY <1>1
    <2>. QED BY <2>2, <2>3
  <1>3. {} \in T
    BY <1>1
  <1>4. \A s \in SUBSET S : s \in T
    <2> HIDE DEF T
    <2>. QED BY <1>2, <1>3, SubsetsInTurn
  <1>. QED BY <1>4 DEF F

(* The element picked first makes no difference: any other one adds as much. *)
LEMMA TallyAnyFirst ==
    ASSUME NEW S, IsFiniteSet(S), NEW f, IntsOn(f, S)
    PROVE  \A s \in SUBSET S : \A x \in s : TallyOf(f, S)[s] = f[x] + TallyOf(f, S)[s \ {x}]
  <1> DEFINE F == TallyOf(f, S)
             T == {s \in SUBSET S : \A x \in s : F[s] = f[x] + F[s \ {x}]}
  <1>0. \A s \in SUBSET S : F[s] = TallyStep(f, F, s)
    BY TallyAt
  <1>2. \A s \in SUBSET S : F[s] \in Int
    BY TallyIsInt
  <1> HIDE DEF F
  <1>1. \A s \in SUBSET S : s # {} => F[s] = f[Picked(s)] + F[s \ {Picked(s)}]
    BY <1>0 DEF TallyStep
  <1>3. \A s \in SUBSET S : s # {} /\ (\A x \in s : s \ {x} \in T) => s \in T
    <2> SUFFICES ASSUME NEW s \in SUBSET S, s # {}, \A x \in s : s \ {x} \in T, NEW x \in s
                 PROVE  F[s] = f[x] + F[s \ {x}]
      OBVIOUS
    <2> DEFINE y == Picked(s)
    <2>1. y \in s /\ F[s] = f[y] + F[s \ {y}]
      BY <1>1, PickedIn
    <2> HIDE DEF y
    <2>2. CASE x = y
      BY <2>1, <2>2
    <2>3. CASE x # y
      <3>1. x \in s \ {y} /\ y \in s \ {x} /\ (s \ {y}) \ {x} = (s \ {x}) \ {y}
        BY <2>1, <2>3
      <3>2. F[s \ {y}] = f[x] + F[(s \ {y}) \ {x}] /\ F[s \ {x}] = f[y] + F[(s \ {x}) \ {y}]
        BY <2>1, <3>1
      <3>3. f[x] \in Int /\ f[y] \in Int /\ F[(s \ {x}) \ {y}] \in Int
        BY <1>2, <2>1 DEF IntsOn
      <3> DEFINE rest == F[(s \ {x}) \ {y}]
                 a == F[s \ {y}]
                 b == F[s \ {x}]
      <3>4. rest \in Int /\ a = f[x] + rest /\ b = f[y] + rest /\ F[s] = f[y] + a
        BY <2>1, <3>1, <3>2, <3>3
      <3> HIDE DEF rest, a, b
      <3>5. F[s] = f[x] + b
        BY <3>3, <3>4
      <3>. QED BY <3>5 DEF b
    <2>. QED BY <2>2, <2>3
  <1>4. {} \in T
    OBVIOUS
  <1>5. \A s \in SUBSET S : s \in T
    <2> HIDE DEF T
    <2>. QED BY <1>3, <1>4, SubsetsInTurn
  <1>. QED BY <1>5 DEF F

-----------------------------------------------------------------------------
(* What the books need to know of a sum. *)

LEMMA SumOfNothing ==
    ASSUME NEW f
    PROVE  SumFunctionOnSet(f, {}) = 0
  BY SumIsTally, TallyAt, FS_EmptySet DEF TallyStep

LEMMA SumIsInt ==
    ASSUME NEW S, IsFiniteSet(S), NEW f, IntsOn(f, S)
    PROVE  SumFunctionOnSet(f, S) \in Int
  <1>1. \A s \in SUBSET S : TallyOf(f, S)[s] \in Int
    BY TallyIsInt
  <1>. QED BY <1>1, SumIsTally

LEMMA SumsAgree ==
    ASSUME NEW S, IsFiniteSet(S), NEW f, NEW g, AgreeOn(f, g, S)
    PROVE  SumFunctionOnSet(f, S) = SumFunctionOnSet(g, S)
  <1>1. TallyOf(f, S)[S] = TallyOf(g, S)[S]
    BY TallyAgrees
  <1>. QED BY <1>1, SumIsTally

(* One element more, whatever the function says of it elsewhere.  The two    *)
(* addends are given names with a type, which the SMT backend needs to see.  *)
LEMMA SumWithOneMore ==
    ASSUME NEW S, IsFiniteSet(S), NEW x, x \notin S, NEW f, NEW g,
           AgreeOn(f, g, S), IntsOn(g, S \cup {x}),
           NEW a \in Int, SumsTo(f, S, a), NEW b \in Int, g[x] = b
    PROVE  SumsTo(g, S \cup {x}, a + b)
  <1> DEFINE R == S \cup {x}
             G == TallyOf(g, R)
  <1>1. IsFiniteSet(R)
    BY FS_AddElement
  <1>2. R \ {x} = S /\ x \in R /\ S \subseteq R
    OBVIOUS
  <1> HIDE DEF R
  <1>3. IntsOn(g, R) /\ g[x] \in Int
    BY DEF R, IntsOn
  <1>4. G[R] = g[x] + G[S]
    BY <1>1, <1>2, <1>3, TallyAnyFirst
  <1>5. \A s \in SUBSET R : G[s] \in Int
    BY <1>1, <1>3, TallyIsInt
  <1>6. TallyOf(f, S)[S] = G[S]
    BY <1>1, <1>2, TallyAgrees
  <1> HIDE DEF G
  <1>7. G[R] = g[x] + G[S] /\ G[S] \in Int /\ g[x] \in Int
    BY <1>2, <1>3, <1>4, <1>5
  <1>8. SumFunctionOnSet(g, R) = G[R] /\ SumFunctionOnSet(f, S) = G[S]
    BY <1>6, SumIsTally DEF G
  <1>. QED BY <1>7, <1>8 DEF R, SumsTo

(* Taking one element away. *)
LEMMA SumTakesOne ==
    ASSUME NEW S, IsFiniteSet(S), NEW f, IntsOn(f, S), NEW x \in S
    PROVE  /\ SumFunctionOnSet(f, S \ {x}) \in Int /\ f[x] \in Int
           /\ SumFunctionOnSet(f, S) = SumFunctionOnSet(f, S \ {x}) + f[x]
  <1> DEFINE R == S \ {x}
  <1>1. IsFiniteSet(R) /\ x \notin R /\ R \cup {x} = S
    BY FS_Subset
  <1>2. IntsOn(f, R) /\ AgreeOn(f, f, R) /\ f[x] \in Int
    BY DEF IntsOn, AgreeOn
  <1> HIDE DEF R
  <1>3. SumFunctionOnSet(f, R) \in Int
    BY <1>1, <1>2, SumIsInt
  <1>4. PICK a \in Int : a = SumFunctionOnSet(f, R)
    BY <1>3
  <1>5. PICK b \in Int : b = f[x]
    BY <1>2
  <1>6. SumsTo(f, R, a) /\ IntsOn(f, R \cup {x})
    BY <1>1, <1>4 DEF SumsTo
  <1>7. SumsTo(f, R \cup {x}, a + b)
    BY <1>1, <1>2, <1>5, <1>6, SumWithOneMore
  <1>. QED BY <1>1, <1>2, <1>3, <1>4, <1>5, <1>7 DEF SumsTo, R

(* Functions that are each other's opposite have opposite sums. *)
OppositeOn(f, g, S) == \A x \in S : g[x] = -f[x]

LEMMA SumOfOpposites ==
    ASSUME NEW S, IsFiniteSet(S), NEW f, NEW g, IntsOn(f, S), IntsOn(g, S), OppositeOn(f, g, S)
    PROVE  SumFunctionOnSet(g, S) = -SumFunctionOnSet(f, S)
  <1> DEFINE T == {s \in SUBSET S : SumFunctionOnSet(g, s) = -SumFunctionOnSet(f, s)}
  <1>1. {} \in T
    BY SumOfNothing
  <1>2. \A s \in SUBSET S : s # {} /\ (\A x \in s : s \ {x} \in T) => s \in T
    <2> SUFFICES ASSUME NEW s \in SUBSET S, s # {}, \A x \in s : s \ {x} \in T PROVE s \in T
      OBVIOUS
    <2>1. PICK x \in s : TRUE
      OBVIOUS
    <2>2. IsFiniteSet(s) /\ IntsOn(f, s) /\ IntsOn(g, s)
      BY FS_Subset DEF IntsOn
    <2>f. PICK a \in Int, b \in Int :
             a = SumFunctionOnSet(f, s \ {x}) /\ b = f[x] /\ SumFunctionOnSet(f, s) = a + b
      BY <2>1, <2>2, SumTakesOne
    <2>3. PICK c \in Int, d \in Int :
             c = SumFunctionOnSet(g, s \ {x}) /\ d = g[x] /\ SumFunctionOnSet(g, s) = c + d
      BY <2>1, <2>2, SumTakesOne
    <2>4. c = -a /\ d = -b
      BY <2>1, <2>f, <2>3 DEF OppositeOn
    <2>. QED BY <2>f, <2>3, <2>4
  <1> HIDE DEF T
  <1>3. \A s \in SUBSET S : s \in T
    BY <1>1, <1>2, SubsetsInTurn
  <1>4. S \in T
    BY <1>3
  <1>. QED BY <1>4 DEF T

(* The sum of differences is the difference of the sums. *)
DifferenceOn(h, f, g, S) == \A x \in S : h[x] = f[x] - g[x]

LEMMA SumOfDifferences ==
    ASSUME NEW S, IsFiniteSet(S), NEW f, NEW g, NEW h,
           IntsOn(f, S), IntsOn(g, S), IntsOn(h, S), DifferenceOn(h, f, g, S)
    PROVE  SumFunctionOnSet(h, S) = SumFunctionOnSet(f, S) - SumFunctionOnSet(g, S)
  <1>1. ASSUME NEW s \in SUBSET S, NEW q, IntsOn(q, s), NEW x \in s
        PROVE  /\ SumFunctionOnSet(q, s \ {x}) \in Int /\ q[x] \in Int
               /\ SumFunctionOnSet(q, s) = SumFunctionOnSet(q, s \ {x}) + q[x]
    <2>1. IsFiniteSet(s)
      BY FS_Subset
    <2>. QED BY <1>1, <2>1, SumTakesOne
  <1> DEFINE Fits(s) == SumFunctionOnSet(h, s) = SumFunctionOnSet(f, s) - SumFunctionOnSet(g, s)
             T == {s \in SUBSET S : Fits(s)}
  <1>2. Fits({})
    BY SumOfNothing
  <1>3. ASSUME NEW s \in SUBSET S, NEW x \in s, Fits(s \ {x}) PROVE Fits(s)
    <2>1. IntsOn(f, s) /\ IntsOn(g, s) /\ IntsOn(h, s)
      BY DEF IntsOn
    <2> HIDE DEF Fits
    <2>2. PICK a \in Int : a = SumFunctionOnSet(f, s \ {x})
      BY <1>1, <2>1
    <2>3. PICK c \in Int : c = SumFunctionOnSet(g, s \ {x})
      BY <1>1, <2>1
    <2>4. PICK b \in Int, d \in Int : b = f[x] /\ d = g[x]
      BY <1>1, <2>1
    <2>5. SumFunctionOnSet(f, s) = a + b /\ SumFunctionOnSet(g, s) = c + d
      BY <1>1, <2>1, <2>2, <2>3, <2>4
    <2>6. h[x] = b - d
      BY <2>4 DEF DifferenceOn
    <2>7. SumFunctionOnSet(h, s \ {x}) = a - c
      BY <1>3, <2>2, <2>3 DEF Fits
    <2>8. SumFunctionOnSet(h, s) = (a - c) + (b - d)
      BY <1>1, <2>1, <2>6, <2>7
    <2>. QED BY <2>5, <2>8 DEF Fits
  <1> HIDE DEF Fits
  <1>4. {} \in T
    BY <1>2
  <1>5. \A s \in SUBSET S : s # {} /\ (\A x \in s : s \ {x} \in T) => s \in T
    BY <1>3
  <1> HIDE DEF T
  <1>6. \A s \in SUBSET S : s \in T
    BY <1>4, <1>5, SubsetsInTurn
  <1>7. S \in T
    BY <1>6
  <1>. QED BY <1>7 DEF T, Fits

(* The sum over two sets that have nothing in common. *)
LEMMA SumOfParts ==
    ASSUME NEW R, IsFiniteSet(R), NEW S, IsFiniteSet(S), R \cap S = {}, NEW f, IntsOn(f, R \cup S)
    PROVE  SumFunctionOnSet(f, R \cup S) = SumFunctionOnSet(f, R) + SumFunctionOnSet(f, S)
  <1> DEFINE Whole(s) == SumFunctionOnSet(f, R \cup s) = SumFunctionOnSet(f, R) + SumFunctionOnSet(f, s)
             T == {s \in SUBSET S : Whole(s)}
  <1>0. IntsOn(f, R) /\ IntsOn(f, S)
    BY DEF IntsOn
  <1>1. PICK r \in Int : r = SumFunctionOnSet(f, R)
    BY <1>0, SumIsInt
  <1>2. {} \in T
    <2>1. R \cup {} = R /\ SumFunctionOnSet(f, {}) = 0 /\ r + 0 = r
      BY SumOfNothing
    <2>. QED BY <1>1, <2>1
  <1>3. \A s \in SUBSET S : s # {} /\ (\A x \in s : s \ {x} \in T) => s \in T
    <2> SUFFICES ASSUME NEW s \in SUBSET S, s # {}, \A x \in s : s \ {x} \in T PROVE s \in T
      OBVIOUS
    <2>1. PICK x \in s : TRUE
      OBVIOUS
    <2>2. IsFiniteSet(s) /\ IntsOn(f, s)
      BY <1>0, FS_Subset DEF IntsOn
    <2>3. PICK a \in Int, b \in Int :
             a = SumFunctionOnSet(f, s \ {x}) /\ b = f[x] /\ SumFunctionOnSet(f, s) = a + b
      BY <2>1, <2>2, SumTakesOne
    <2> DEFINE U == R \cup s
    <2>4. IsFiniteSet(U) /\ IntsOn(f, U) /\ x \in U
      BY <2>1, <2>2, FS_Union DEF IntsOn
    <2>5. U \ {x} = R \cup (s \ {x})
      BY <2>1
    <2> HIDE DEF U, Whole, T
    <2>g. /\ SumFunctionOnSet(f, U \ {x}) \in Int
          /\ SumFunctionOnSet(f, U) = SumFunctionOnSet(f, U \ {x}) + f[x]
      BY ONLY <2>4, SumTakesOne
    <2> USE DEF Whole, T
    <2>6. PICK c \in Int : /\ c = SumFunctionOnSet(f, R \cup (s \ {x}))
                           /\ SumFunctionOnSet(f, R \cup s) = c + b
      BY <2>3, <2>5, <2>g DEF U
    <2>7. Whole(s \ {x})
      BY <2>1
    <2>8. c = r + a
      BY <1>1, <2>3, <2>6, <2>7
    <2>9. c + b = r + (a + b)
      BY <2>8
    <2>. QED BY <1>1, <2>3, <2>6, <2>9
  <1> HIDE DEF T
  <1>4. \A s \in SUBSET S : s \in T
    BY <1>2, <1>3, SubsetsInTurn
  <1>5. S \in T
    BY <1>4
  <1>. QED BY <1>5 DEF T

-----------------------------------------------------------------------------
(* Sums of squares: the square of a sum is at most the number of its         *)
(* non-zero addends times the sum of their squares.                          *)

AtMostOn(f, g, S) == \A x \in S : f[x] <= g[x]

LEMMA SumIsMonotone ==
    ASSUME NEW S, IsFiniteSet(S), NEW f, NEW g, IntsOn(f, S), IntsOn(g, S), AtMostOn(f, g, S)
    PROVE  SumFunctionOnSet(f, S) <= SumFunctionOnSet(g, S)
  <1> DEFINE T == {s \in SUBSET S : SumFunctionOnSet(f, s) <= SumFunctionOnSet(g, s)}
  <1>1. {} \in T
    BY SumOfNothing
  <1>2. \A s \in SUBSET S : s # {} /\ (\A x \in s : s \ {x} \in T) => s \in T
    <2> SUFFICES ASSUME NEW s \in SUBSET S, s # {}, \A x \in s : s \ {x} \in T PROVE s \in T
      OBVIOUS
    <2>1. PICK x \in s : TRUE
      OBVIOUS
    <2>2. IsFiniteSet(s) /\ IntsOn(f, s) /\ IntsOn(g, s)
      BY FS_Subset DEF IntsOn
    <2>f. PICK a \in Int, b \in Int :
             a = SumFunctionOnSet(f, s \ {x}) /\ b = f[x] /\ SumFunctionOnSet(f, s) = a + b
      BY <2>1, <2>2, SumTakesOne
    <2>3. PICK c \in Int, d \in Int :
             c = SumFunctionOnSet(g, s \ {x}) /\ d = g[x] /\ SumFunctionOnSet(g, s) = c + d
      BY <2>1, <2>2, SumTakesOne
    <2>4. a <= c /\ b <= d
      BY <2>1, <2>f, <2>3 DEF AtMostOn
    <2>5. a + b <= c + d
      BY <2>4
    <2>. QED BY <2>f, <2>3, <2>5
  <1> HIDE DEF T
  <1>3. \A s \in SUBSET S : s \in T
    BY <1>1, <1>2, SubsetsInTurn
  <1>4. S \in T
    BY <1>3
  <1>. QED BY <1>4 DEF T

LEMMA OneMoreSquare ==
    ASSUME NEW k \in Nat, NEW squares \in Nat, NEW sum \in Int, NEW a \in Int,
           sum * sum <= k * squares
    PROVE  (sum + a) * (sum + a) <= (k + 1) * (squares + a * a)
  <1> DEFINE ka == k * a
             rest == squares + ka * a - 2 * (sum * a)
  <1>1. ka \in Int /\ ka * a \in Int /\ sum * a \in Int /\ a * a \in Int /\ rest \in Int
    OBVIOUS
  <1>2. rest >= 0
    <2>1. CASE k = 0
      <3>1. sum * sum <= 0
        BY <2>1
      <3>2. sum = 0
        BY <3>1
      <3>. QED BY <2>1, <3>2
    <2>2. CASE k > 0
      <3>1. k * rest = k * squares + ka * ka - 2 * (sum * ka)
        OBVIOUS
      <3>2. (sum - ka) * (sum - ka) = sum * sum + ka * ka - 2 * (sum * ka)
        OBVIOUS
      <3>3. (sum - ka) * (sum - ka) >= 0
        BY <1>1
      <3> DEFINE x == ka * ka
                 y == sum * ka
                 z == sum * sum
                 u == k * squares
      <3>4. x \in Int /\ y \in Int /\ z \in Int /\ u \in Int /\ z <= u
        OBVIOUS
      <3>5. z + x - 2 * y >= 0 /\ k * rest = u + x - 2 * y
        BY <3>1, <3>2, <3>3
      <3> HIDE DEF x, y, z, u
      <3>6. k * rest >= 0
        BY <3>4, <3>5
      <3> HIDE DEF rest
      <3>. QED BY <1>1, <2>2, <3>6
    <2>. QED BY <2>1, <2>2
  <1>3. (k + 1) * (squares + a * a) = k * squares + squares + ka * a + a * a
    OBVIOUS
  <1>4. (sum + a) * (sum + a) = sum * sum + 2 * (sum * a) + a * a
    OBVIOUS
  <1> DEFINE p == ka * a
             q == sum * a
             r == a * a
             z == sum * sum
             u == k * squares
  <1>5. /\ p \in Int /\ q \in Int /\ r \in Int /\ z \in Int /\ u \in Int /\ z <= u
        /\ squares + p - 2 * q >= 0
        /\ (k + 1) * (squares + a * a) = u + squares + p + r
        /\ (sum + a) * (sum + a) = z + 2 * q + r
    BY <1>2, <1>3, <1>4
  <1> HIDE DEF p, q, r, z, u, ka, rest
  <1>. QED BY <1>5

Squares(f, S) == [i \in S |-> f[i] * f[i]]
NonZero(f, S) == {i \in S : f[i] # 0}

LEMMA SquareOfTheSum ==
    ASSUME NEW S, IsFiniteSet(S), NEW f, IntsOn(f, S), NEW sq, sq = Squares(f, S)
    PROVE  /\ SumFunctionOnSet(f, S) \in Int /\ SumFunctionOnSet(sq, S) \in Nat
           /\ Cardinality(NonZero(f, S)) \in Nat
           /\ SumFunctionOnSet(f, S) * SumFunctionOnSet(f, S)
                <= Cardinality(NonZero(f, S)) * SumFunctionOnSet(sq, S)
  <1> DEFINE Bounded(s) ==
        /\ SumFunctionOnSet(f, s) \in Int /\ SumFunctionOnSet(sq, s) \in Nat
        /\ Cardinality(NonZero(f, s)) \in Nat
        /\ SumFunctionOnSet(f, s) * SumFunctionOnSet(f, s)
             <= Cardinality(NonZero(f, s)) * SumFunctionOnSet(sq, s)
             T == {s \in SUBSET S : Bounded(s)}
  <1>1. {} \in T
    <2>1. NonZero(f, {}) = {} /\ Cardinality({}) = 0
      BY FS_EmptySet DEF NonZero
    <2>2. SumFunctionOnSet(f, {}) = 0 /\ SumFunctionOnSet(sq, {}) = 0
      BY SumOfNothing
    <2>. QED BY <2>1, <2>2
  <1>2. IntsOn(sq, S) /\ \A i \in S : sq[i] = f[i] * f[i]
    <2>1. \A i \in S : sq[i] = f[i] * f[i]
      BY DEF Squares
    <2>2. \A i \in S : f[i] \in Int
      BY DEF IntsOn
    <2>3. \A y \in Int : y * y \in Int
      OBVIOUS
    <2>4. \A i \in S : sq[i] \in Int
      BY <2>1, <2>2, <2>3
    <2>. QED BY <2>1, <2>4 DEF IntsOn
  <1>3. \A s \in SUBSET S : s # {} /\ (\A x \in s : s \ {x} \in T) => s \in T
    <2> SUFFICES ASSUME NEW s \in SUBSET S, s # {}, \A x \in s : s \ {x} \in T PROVE Bounded(s)
      OBVIOUS
    <2>1. PICK x \in s : TRUE
      OBVIOUS
    <2>2. IsFiniteSet(s) /\ IntsOn(f, s) /\ IntsOn(sq, s)
      BY <1>2, FS_Subset DEF IntsOn
    <2>3. PICK sum \in Int, a \in Int :
             sum = SumFunctionOnSet(f, s \ {x}) /\ a = f[x] /\ SumFunctionOnSet(f, s) = sum + a
      BY <2>1, <2>2, SumTakesOne
    <2>4. Bounded(s \ {x})
      BY <2>1
    <2>5. PICK squares \in Nat : squares = SumFunctionOnSet(sq, s \ {x})
      BY <2>4
    <2>6. SumFunctionOnSet(sq, s) = squares + a * a
      <3>1. SumFunctionOnSet(sq, s) = SumFunctionOnSet(sq, s \ {x}) + sq[x]
        BY <2>1, <2>2, SumTakesOne
      <3>2. sq[x] = a * a
        BY <1>2, <2>1, <2>3
      <3>. QED BY <2>5, <3>1, <3>2
    <2>7. PICK k \in Nat : k = Cardinality(NonZero(f, s \ {x}))
      BY <2>4
    <2>8. sum * sum <= k * squares
      BY <2>3, <2>4, <2>5, <2>7
    <2>9. IsFiniteSet(NonZero(f, s \ {x}))
      BY <2>2, FS_Subset DEF NonZero
    <2>10. squares + a * a \in Nat
      <3>1. a * a >= 0 /\ a * a \in Int
        OBVIOUS
      <3>. QED BY <3>1
    <2>11. CASE a = 0
      <3>1. NonZero(f, s) = NonZero(f, s \ {x})
        BY <2>3, <2>11 DEF NonZero
      <3>2. SumFunctionOnSet(f, s) = sum /\ SumFunctionOnSet(sq, s) = squares
        BY <2>3, <2>6, <2>11
      <3>. QED BY <2>7, <2>8, <3>1, <3>2
    <2>12. CASE a # 0
      <3>1. NonZero(f, s) = NonZero(f, s \ {x}) \cup {x} /\ x \notin NonZero(f, s \ {x})
        BY <2>1, <2>3, <2>12 DEF NonZero
      <3>2. Cardinality(NonZero(f, s)) = k + 1
        BY <2>7, <2>9, <3>1, FS_AddElement
      <3>3. (sum + a) * (sum + a) <= (k + 1) * (squares + a * a)
        BY <2>8, OneMoreSquare
      <3>4. sum + a \in Int /\ k + 1 \in Nat
        OBVIOUS
      <3>. QED BY <2>3, <2>6, <2>10, <3>2, <3>3, <3>4
    <2>. QED BY <2>11, <2>12
  <1> HIDE DEF T, Bounded
  <1>4. \A s \in SUBSET S : s \in T
    BY <1>1, <1>3, SubsetsInTurn
  <1>5. S \in T
    BY <1>4
  <1>. QED BY <1>5 DEF T, Bounded

(* What adds up natural numbers is one.                                      *)
LEMMA SumIsNat ==
    ASSUME NEW S, IsFiniteSet(S), NEW f, \A x \in S : f[x] \in Nat
    PROVE  SumFunctionOnSet(f, S) \in Nat
  <1> DEFINE T == {s \in SUBSET S : SumFunctionOnSet(f, s) \in Nat}
  <1>1. {} \in T
    BY SumOfNothing
  <1>2. \A s \in SUBSET S : s # {} /\ (\A x \in s : s \ {x} \in T) => s \in T
    <2> SUFFICES ASSUME NEW s \in SUBSET S, s # {}, \A x \in s : s \ {x} \in T
                 PROVE  SumFunctionOnSet(f, s) \in Nat
      OBVIOUS
    <2>1. PICK x \in s : TRUE
      OBVIOUS
    <2>2. IsFiniteSet(s) /\ IntsOn(f, s)
      BY FS_Subset DEF IntsOn
    <2>3. SumFunctionOnSet(f, s) = SumFunctionOnSet(f, s \ {x}) + f[x]
      BY <2>1, <2>2, SumTakesOne
    <2>4. SumFunctionOnSet(f, s \ {x}) \in Nat /\ f[x] \in Nat
      BY <2>1
    <2>. QED BY <2>3, <2>4
  <1> HIDE DEF T
  <1>3. \A s \in SUBSET S : s \in T
    BY <1>1, <1>2, SubsetsInTurn
  <1>4. S \in T
    BY <1>3
  <1>. QED BY <1>4 DEF T

-----------------------------------------------------------------------------
(* A history of trades: what one trade more does to its total and to the     *)
(* losing streak it ends with.                                               *)

PnlsOf(trades) == [k \in DOMAIN trades |-> trades[k].pnl]
LosingStreak(trades) ==
    {k \in DOMAIN trades : trades[k].pnl < 0 /\ \A j \in k..Len(trades) : trades[j].pnl <= 0}

LEMMA TotalOfOneMore ==
    ASSUME NEW Trade, \A t \in Trade : t.pnl \in Int, NEW trades \in Seq(Trade), NEW trade \in Trade,
           NEW total \in Int, SumsTo(PnlsOf(trades), DOMAIN trades, total)
    PROVE  SumsTo(PnlsOf(Append(trades, trade)), DOMAIN Append(trades, trade), total + trade.pnl)
  <1> DEFINE n == Len(trades)
             longer == Append(trades, trade)
             f == PnlsOf(trades)
             g == PnlsOf(longer)
  <1>1. /\ n \in Nat /\ DOMAIN trades = 1..n /\ DOMAIN longer = 1..(n + 1)
        /\ longer[n + 1] = trade /\ \A k \in 1..n : longer[k] = trades[k]
        /\ \A k \in 1..n : trades[k] \in Trade
    OBVIOUS
  <1>2. DOMAIN longer = DOMAIN trades \cup {n + 1} /\ n + 1 \notin DOMAIN trades
    BY <1>1
  <1>3. IsFiniteSet(DOMAIN trades) /\ trade.pnl \in Int
    BY <1>1, FS_Interval
  <1> HIDE DEF longer
  <1>4. /\ AgreeOn(f, g, DOMAIN trades) /\ IntsOn(g, DOMAIN trades \cup {n + 1})
        /\ g[n + 1] = trade.pnl
    BY <1>1, <1>2, <1>3 DEF AgreeOn, IntsOn, PnlsOf
  <1> HIDE DEF f, g, n
  <1>5. SumsTo(f, DOMAIN trades, total)
    BY DEF f
  <1>6. SumsTo(g, DOMAIN trades \cup {n + 1}, total + trade.pnl)
    BY <1>2, <1>3, <1>4, <1>5, SumWithOneMore
  <1>. QED BY <1>2, <1>6 DEF g, longer

(* One trade more: a loss lengthens the streak, a win ends it, and a trade   *)
(* that broke even changes nothing.                                          *)
LEMMA StreakOfOneMore ==
    ASSUME NEW Trade, \A t \in Trade : t.pnl \in Int, NEW trades \in Seq(Trade), NEW trade \in Trade
    PROVE  LET before == Cardinality(LosingStreak(trades))
               after == Cardinality(LosingStreak(Append(trades, trade)))
           IN  /\ before \in Nat
               /\ after = IF trade.pnl < 0 THEN before + 1 ELSE IF trade.pnl > 0 THEN 0 ELSE before
  <1> DEFINE n == Len(trades)
             longer == Append(trades, trade)
             old == LosingStreak(trades)
             new == LosingStreak(longer)
  <1>1. /\ n \in Nat /\ DOMAIN trades = 1..n /\ Len(longer) = n + 1 /\ DOMAIN longer = 1..(n + 1)
        /\ longer[n + 1] = trade /\ \A k \in 1..n : longer[k] = trades[k]
    OBVIOUS
  <1>2. trade.pnl \in Int /\ \A k \in 1..n : trades[k].pnl \in Int
    <2>1. \A k \in 1..n : trades[k] \in Trade
      BY <1>1
    <2>. QED BY <2>1
  <1>3. IsFiniteSet(old) /\ Cardinality(old) \in Nat /\ n + 1 \notin old
    <2>1. old \subseteq 1..n /\ IsFiniteSet(1..n)
      BY <1>1, FS_Interval DEF LosingStreak
    <2>2. n + 1 \notin old
      BY <1>1, <2>1
    <2>. QED BY <2>1, <2>2, FS_Subset, FS_CardinalityType
  <1>. HIDE DEF longer
  <1>4. CASE trade.pnl > 0
    <2>1. new = {}
      BY <1>1, <1>2, <1>4 DEF LosingStreak
    <2>2. Cardinality(new) = 0
      BY <2>1, FS_EmptySet
    <2>. HIDE DEF old, new
    <2>. QED BY <1>2, <1>3, <1>4, <2>2 DEF longer, old, new
  <1>5. CASE trade.pnl = 0
    <2>1. new = old
      <3>1. \A k : k \in old <=> /\ k \in 1..n /\ trades[k].pnl < 0
                                 /\ \A j \in k..n : trades[j].pnl <= 0
        BY <1>1 DEF LosingStreak
      <3>2. \A k : k \in new <=> /\ k \in 1..(n + 1) /\ longer[k].pnl < 0
                                 /\ \A j \in k..(n + 1) : longer[j].pnl <= 0
        BY <1>1 DEF LosingStreak
      <3>3. longer[n + 1].pnl = 0 /\ \A k \in 1..n : longer[k].pnl = trades[k].pnl
        BY <1>1, <1>5
      <3> HIDE DEF old, new
      <3>4. ASSUME NEW k \in 1..n PROVE k \in new <=> k \in old
        <4>1. \A j : j \in k..(n + 1) <=> j \in k..n \/ j = n + 1
          BY <1>1
        <4>2. \A j \in k..n : j \in 1..n
          BY <1>1
        <4>. QED BY <1>1, <3>1, <3>2, <3>3, <4>1, <4>2
      <3>5. n + 1 \notin new /\ n + 1 \notin old /\ new \subseteq 1..(n + 1) /\ old \subseteq 1..n
        BY <1>3, <3>1, <3>2, <3>3
      <3>6. \A k \in 1..(n + 1) : k \in 1..n \/ k = n + 1
        BY <1>1
      <3>. QED BY <3>4, <3>5, <3>6
    <2>. HIDE DEF old, new
    <2>. QED BY <1>3, <1>5, <2>1 DEF longer, old, new
  <1>6. CASE trade.pnl < 0
    <2>1. new = old \cup {n + 1}
      BY <1>1, <1>2, <1>6 DEF LosingStreak
    <2>2. Cardinality(new) = Cardinality(old) + 1
      BY <1>3, <2>1, FS_AddElement
    <2>. HIDE DEF old, new
    <2>. QED BY <1>3, <1>6, <2>2 DEF longer, old, new
  <1>. QED BY <1>2, <1>4, <1>5, <1>6
=============================================================================
