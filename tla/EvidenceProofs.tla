---------------------------- MODULE EvidenceProofs ----------------------------
(***************************************************************************)
(* What TLAPS proves of TickerEvidence.                                    *)
(***************************************************************************)
EXTENDS TickerEvidence, TLAPS, FiniteSetTheorems, WellFoundedInduction

(* A set of naturals that is not empty has a least one.                    *)
LEMMA LeastOf ==
  ASSUME NEW T \in SUBSET Nat, T # {}
  PROVE  \E i \in T : \A j \in T : i <= j
<1> DEFINE Below == {pair \in Nat \X Nat : pair[1] < pair[2]}
<1>1. IsWellFoundedOn(Below, Nat)
  BY NatLessThanWellFounded DEF OpToRel
<1> SUFFICES ASSUME NEW i \in T, \A j \in T : <<j, i>> \notin Below
             PROVE  \A j \in T : i <= j
  <2> HIDE DEF Below
  <2> QED
    BY <1>1, WFMin
<1>2. ASSUME NEW j \in T PROVE i <= j
  <2>1. <<j, i>> \in Nat \X Nat /\ i \in Nat /\ j \in Nat
    OBVIOUS
  <2>2. QED
    BY <2>1
<1>3. QED
  BY <1>2

(* A set that has 0 and the successor of each of its numbers has them all. *)
LEMMA Induction ==
  ASSUME NEW T, 0 \in T, \A n \in Nat : n \in T => n + 1 \in T
  PROVE  Nat \subseteq T
<1> SUFFICES ASSUME Nat \ T # {} PROVE FALSE
  OBVIOUS
<1>1. PICK i \in Nat \ T : \A j \in Nat \ T : i <= j
  BY LeastOf
<1>2. i - 1 \in Nat /\ i - 1 \notin Nat \ T
  BY <1>1
<1>3. QED
  BY <1>1, <1>2

-----------------------------------------------------------------------------
(* Sums.  A sum takes the elements of its set one by one, in an order that *)
(* depends on the set alone.                                               *)
Small(S, n) == {s \in SUBSET S : Cardinality(s) <= n}
First(s)    == CHOOSE x \in s : TRUE
IsSum(g, f, D) ==
  g = [s \in D |-> IF s = {} THEN 0 ELSE f[First(s)] + g[s \ {First(s)}]]

(* The element that is taken first is one of the set, and leaves one less. *)
LEMMA FirstOut ==
  ASSUME NEW S, IsFiniteSet(S), NEW s \in SUBSET S, s # {}
  PROVE  /\ First(s) \in s /\ s \ {First(s)} \in SUBSET S
         /\ IsFiniteSet(s) /\ IsFiniteSet(s \ {First(s)})
         /\ Cardinality(s) \in Nat \ {0}
         /\ Cardinality(s \ {First(s)}) = Cardinality(s) - 1
<1>1. First(s) \in s
  BY DEF First
<1>2. QED
  BY <1>1, FS_Subset, FS_RemoveElement, FS_CardinalityType, FS_EmptySet

(* Sets of at most so many elements.                                       *)
LEMMA SmallSets ==
  ASSUME NEW S, IsFiniteSet(S)
  PROVE  /\ Small(S, 0) = {{}}
         /\ \A n \in Nat : Small(S, n) \subseteq Small(S, n + 1)
         /\ \A n \in Nat : \A s \in Small(S, n + 1) :
              s # {} => s \ {First(s)} \in Small(S, n)
         /\ SUBSET S = Small(S, Cardinality(S)) /\ Cardinality(S) \in Nat
<1>1. \A s \in SUBSET S : Cardinality(s) \in Nat /\ Cardinality(s) <= Cardinality(S)
  BY FS_Subset, FS_CardinalityType
<1>2. Small(S, 0) = {{}}
  <2>1. ASSUME NEW s \in Small(S, 0) PROVE s = {}
    <3>1. Cardinality(s) = 0 /\ IsFiniteSet(s)
      BY <1>1, FS_Subset DEF Small
    <3>2. QED
      BY <3>1, FS_EmptySet
  <2>2. {} \in Small(S, 0)
    BY FS_EmptySet DEF Small
  <2>3. QED
    BY <2>1, <2>2
<1>3. \A n \in Nat : Small(S, n) \subseteq Small(S, n + 1)
  <2> SUFFICES ASSUME NEW n \in Nat, NEW s \in SUBSET S, Cardinality(s) <= n
               PROVE  Cardinality(s) <= n + 1
    BY DEF Small
  <2>1. QED
    BY <1>1
<1>4. ASSUME NEW n \in Nat, NEW s \in Small(S, n + 1), s # {}
      PROVE  s \ {First(s)} \in Small(S, n)
  <2>1. s \in SUBSET S /\ Cardinality(s) <= n + 1
    BY DEF Small
  <2>2. s \ {First(s)} \in SUBSET S /\ Cardinality(s) \in Nat
        /\ Cardinality(s \ {First(s)}) = Cardinality(s) - 1
    BY <1>4, <2>1, FirstOut
  <2>3. QED
    BY <2>1, <2>2 DEF Small
<1>5. SUBSET S = Small(S, Cardinality(S)) /\ Cardinality(S) \in Nat
  BY <1>1, FS_CardinalityType DEF Small
<1>6. QED
  BY <1>2, <1>3, <1>4, <1>5

(* There is such a sum over the sets of up to any number of elements, by   *)
(* induction on that number.                                               *)
LEMMA SmallSumExists ==
  ASSUME NEW S, IsFiniteSet(S), NEW f
  PROVE  \A n \in Nat : \E g : IsSum(g, f, Small(S, n))
<1> DEFINE T == {n \in Nat : \E g : IsSum(g, f, Small(S, n))}
<1>1. 0 \in T
  <2> DEFINE g == [s \in Small(S, 0) |-> 0]
  <2>1. \A s \in Small(S, 0) : s = {}
    BY SmallSets
  <2>2. IsSum(g, f, Small(S, 0))
    BY <2>1 DEF IsSum
  <2>3. QED
    BY <2>2
<1>2. ASSUME NEW n \in Nat, n \in T PROVE n + 1 \in T
  <2>1. PICK g : IsSum(g, f, Small(S, n))
    BY <1>2
  <2> DEFINE h == [s \in Small(S, n + 1) |-> IF s = {} THEN 0
                                              ELSE f[First(s)] + g[s \ {First(s)}]]
  <2>2. \A s \in Small(S, n) : h[s] = g[s]
    <3> SUFFICES ASSUME NEW s \in Small(S, n) PROVE h[s] = g[s]
      OBVIOUS
    <3>1. s \in Small(S, n + 1)
      BY SmallSets
    <3>2. g[s] = IF s = {} THEN 0 ELSE f[First(s)] + g[s \ {First(s)}]
      BY <2>1 DEF IsSum
    <3>3. QED
      BY <3>1, <3>2
  <2>3. \A s \in Small(S, n + 1) : s # {} => h[s \ {First(s)}] = g[s \ {First(s)}]
    <3> SUFFICES ASSUME NEW s \in Small(S, n + 1), s # {}
                 PROVE  s \ {First(s)} \in Small(S, n)
      BY <2>2
    <3>1. QED
      BY SmallSets
  <2>4. IsSum(h, f, Small(S, n + 1))
    <3>1. \A s \in Small(S, n + 1) :
             h[s] = IF s = {} THEN 0 ELSE f[First(s)] + h[s \ {First(s)}]
      BY <2>3
    <3>2. h = [s \in Small(S, n + 1) |-> h[s]]
      OBVIOUS
    <3> HIDE DEF h
    <3>3. QED
      BY <3>1, <3>2 DEF IsSum
  <2>5. QED
    BY <2>4
<1>3. Nat \subseteq T
  <2> HIDE DEF T
  <2>1. QED
    BY <1>1, <1>2, Induction
<1>4. QED
  BY <1>3

(* The community modules' sum is one that goes element by element.         *)
LEMMA SumIsFold ==
  ASSUME NEW S, IsFiniteSet(S), NEW f
  PROVE  \E g : /\ IsSum(g, f, SUBSET S)
                /\ SumFunctionOnSet(f, S) = g[S]
<1>1. \E g : IsSum(g, f, SUBSET S)
  <2>1. Small(S, Cardinality(S)) = SUBSET S /\ Cardinality(S) \in Nat
    BY SmallSets
  <2>2. \E g : IsSum(g, f, Small(S, Cardinality(S)))
    BY <2>1, SmallSumExists
  <2>3. QED
    BY <2>1, <2>2
<1> DEFINE g == CHOOSE g : IsSum(g, f, SUBSET S)
<1>2. IsSum(g, f, SUBSET S)
  BY <1>1
<1>3. SumFunctionOnSet(f, S) = g[S]
  BY DEF SumFunctionOnSet, FoldFunctionOnSet, MapThenFoldSet, IsSum, First
<1>4. QED
  BY <1>2, <1>3

(* What holds of the empty set, and of a set once of all but the element   *)
(* that is taken first, holds of every finite set.                         *)
LEMMA OneByOne ==
  ASSUME NEW S, IsFiniteSet(S), NEW T, {} \in T,
         \A s \in SUBSET S : s # {} /\ s \ {First(s)} \in T => s \in T
  PROVE  S \in T
<1> DEFINE N == {n \in Nat : Small(S, n) \subseteq T}
<1>1. 0 \in N
  BY SmallSets
<1>2. ASSUME NEW n \in Nat, n \in N PROVE n + 1 \in N
  <2>1. ASSUME NEW s \in Small(S, n + 1) PROVE s \in T
    <3>1. s \in SUBSET S
      BY DEF Small
    <3>2. s # {} => s \ {First(s)} \in T
      BY <1>2, SmallSets
    <3>3. QED
      BY <3>1, <3>2
  <2>2. QED
    BY <2>1
<1>3. Nat \subseteq N
  <2> HIDE DEF N
  <2>1. QED
    BY <1>1, <1>2, Induction
<1>4. S \in Small(S, Cardinality(S)) /\ Cardinality(S) \in Nat
  BY SmallSets
<1>5. QED
  BY <1>3, <1>4

(* The sum of integers is one.                                             *)
LEMMA SumType ==
  ASSUME NEW S, IsFiniteSet(S), NEW f \in [S -> Int]
  PROVE  SumFunction(f) \in Int
<1>1. PICK g : IsSum(g, f, SUBSET S) /\ SumFunctionOnSet(f, S) = g[S]
  BY SumIsFold
<1> DEFINE T == {s \in SUBSET S : g[s] \in Int}
<1>2. {} \in T
  BY <1>1 DEF IsSum
<1>3. ASSUME NEW s \in SUBSET S, s # {}, s \ {First(s)} \in T PROVE s \in T
  <2>1. g[s] = f[First(s)] + g[s \ {First(s)}] /\ First(s) \in S
    BY <1>1, <1>3, FirstOut DEF IsSum
  <2>2. QED
    BY <1>3, <2>1
<1>4. S \in T
  <2> HIDE DEF T
  <2>1. QED
    BY <1>2, <1>3, OneByOne
<1>5. QED
  BY <1>1, <1>4 DEF SumFunction

(* Nothing sums up to 0.                                                   *)
LEMMA SumEmpty ==
  ASSUME NEW f, DOMAIN f = {}
  PROVE  SumFunction(f) = 0
<1>1. PICK g : IsSum(g, f, SUBSET {}) /\ SumFunctionOnSet(f, {}) = g[{}]
  BY SumIsFold, FS_EmptySet
<1>2. QED
  BY <1>1 DEF IsSum, SumFunction

(* A sum of naturals is at least any of them.                              *)
LEMMA SumAtLeast ==
  ASSUME NEW S, IsFiniteSet(S), NEW f \in [S -> Nat]
  PROVE  SumFunction(f) \in Nat /\ \A x \in S : SumFunction(f) >= f[x]
<1>1. PICK g : IsSum(g, f, SUBSET S) /\ SumFunctionOnSet(f, S) = g[S]
  BY SumIsFold
<1> DEFINE T == {s \in SUBSET S : g[s] \in Nat /\ \A x \in s : g[s] >= f[x]}
<1>2. {} \in T
  BY <1>1 DEF IsSum
<1>3. ASSUME NEW s \in SUBSET S, s # {}, s \ {First(s)} \in T PROVE s \in T
  <2>1. g[s] = f[First(s)] + g[s \ {First(s)}] /\ First(s) \in S
    BY <1>1, <1>3, FirstOut DEF IsSum
  <2>2. g[s \ {First(s)}] \in Nat /\ f[First(s)] \in Nat
    BY <1>3, <2>1
  <2>3. ASSUME NEW x \in s PROVE g[s] >= f[x]
    <3>1. CASE x = First(s)
      BY <2>1, <2>2, <3>1
    <3>2. CASE x # First(s)
      <4>1. g[s \ {First(s)}] >= f[x] /\ f[x] \in Nat
        BY <1>3, <3>2
      <4>2. QED
        BY <2>1, <2>2, <4>1
    <3>3. QED
      BY <3>1, <3>2
  <2>4. QED
    BY <2>1, <2>2, <2>3
<1>4. S \in T
  <2> HIDE DEF T
  <2>1. QED
    BY <1>2, <1>3, OneByOne
<1>5. QED
  BY <1>1, <1>4 DEF SumFunction

(* A sum is at most the number of its terms times a bound on each.         *)
LEMMA SumAtMost ==
  ASSUME NEW S, IsFiniteSet(S), NEW f \in [S -> Int], NEW c \in Nat,
         \A x \in S : f[x] <= c
  PROVE  SumFunction(f) <= c * Cardinality(S)
<1>1. PICK g : IsSum(g, f, SUBSET S) /\ SumFunctionOnSet(f, S) = g[S]
  BY SumIsFold
<1> DEFINE T == {s \in SUBSET S : g[s] \in Int /\ g[s] <= c * Cardinality(s)}
<1>2. {} \in T
  BY <1>1, FS_EmptySet DEF IsSum
<1>3. ASSUME NEW s \in SUBSET S, s # {}, s \ {First(s)} \in T PROVE s \in T
  <2>1. g[s] = f[First(s)] + g[s \ {First(s)}] /\ First(s) \in S
    BY <1>1, <1>3, FirstOut DEF IsSum
  <2>2. Cardinality(s) \in Nat /\ Cardinality(s \ {First(s)}) = Cardinality(s) - 1
    BY <1>3, FirstOut
  <2>3. c * (Cardinality(s) - 1) = c * Cardinality(s) - c
    BY <2>2
  <2>4. f[First(s)] <= c /\ f[First(s)] \in Int
    BY <2>1
  <2>5. QED
    BY <1>3, <2>1, <2>2, <2>3, <2>4
<1>4. S \in T
  <2> HIDE DEF T
  <2>1. QED
    BY <1>2, <1>3, OneByOne
<1>5. QED
  BY <1>1, <1>4 DEF SumFunction

(* A factor common to all terms is one of the sum.                         *)
LEMMA SumScaled ==
  ASSUME NEW S, IsFiniteSet(S), NEW f \in [S -> Int], NEW c \in Int
  PROVE  SumFunction([x \in S |-> c * f[x]]) = c * SumFunction(f)
<1> DEFINE h == [x \in S |-> c * f[x]]
<1>1. PICK g : IsSum(g, f, SUBSET S) /\ SumFunctionOnSet(f, S) = g[S]
  BY SumIsFold
<1>2. PICK k : IsSum(k, h, SUBSET S) /\ SumFunctionOnSet(h, S) = k[S]
  BY SumIsFold
<1> DEFINE T == {s \in SUBSET S : g[s] \in Int /\ k[s] = c * g[s]}
<1>3. {} \in T
  BY <1>1, <1>2 DEF IsSum
<1>4. ASSUME NEW s \in SUBSET S, s # {}, s \ {First(s)} \in T PROVE s \in T
  <2>1. /\ g[s] = f[First(s)] + g[s \ {First(s)}] /\ First(s) \in S
        /\ k[s] = c * f[First(s)] + k[s \ {First(s)}]
    BY <1>1, <1>2, <1>4, FirstOut DEF IsSum
  <2>2. g[s \ {First(s)}] \in Int /\ k[s \ {First(s)}] = c * g[s \ {First(s)}]
        /\ f[First(s)] \in Int
    BY <1>4, <2>1
  <2>3. c * (f[First(s)] + g[s \ {First(s)}]) = c * f[First(s)] + c * g[s \ {First(s)}]
    BY <2>2
  <2>4. QED
    BY <2>1, <2>2, <2>3
<1>5. S \in T
  <2> HIDE DEF T
  <2>1. QED
    BY <1>3, <1>4, OneByOne
<1>6. QED
  BY <1>1, <1>2, <1>5 DEF SumFunction

(* Two sums of the same terms agree.                                       *)
Sums(g, f, S)  == IsSum(g, f, SUBSET S)
Agree(f, h, R) == \A x \in R : f[x] = h[x]

(* So does the sum over a part of them.                                    *)
LEMMA SameSum ==
  ASSUME NEW S, IsFiniteSet(S), NEW R \in SUBSET S, NEW f, NEW h, Agree(f, h, R),
         NEW g, Sums(g, f, S), NEW k, Sums(k, h, R)
  PROVE  g[R] = k[R]
<1> DEFINE T == {s \in SUBSET R : g[s] = k[s]}
<1>1. IsFiniteSet(R)
  BY FS_Subset
<1>2. {} \in T
  BY DEF Sums, IsSum
<1>3. ASSUME NEW s \in SUBSET R, s # {}, s \ {First(s)} \in T PROVE s \in T
  <2>1. First(s) \in R /\ s \in SUBSET S
    BY <1>1, <1>3, FirstOut
  <2>2. /\ g[s] = f[First(s)] + g[s \ {First(s)}]
        /\ k[s] = h[First(s)] + k[s \ {First(s)}]
    BY <1>3, <2>1 DEF Sums, IsSum
  <2>3. QED
    BY <1>3, <2>1, <2>2 DEF Agree
<1>4. R \in T
  <2> HIDE DEF T
  <2>1. QED
    BY <1>1, <1>2, <1>3, OneByOne
<1>5. QED
  BY <1>4

(* Any term can be taken out, not only the first.                          *)
LEMMA AnyOut ==
  ASSUME NEW S, IsFiniteSet(S), NEW f \in [S -> Int], NEW g, Sums(g, f, S),
         NEW x \in S, NEW R, R = S \ {x}
  PROVE  g[S] = f[x] + g[R]
<1> DEFINE Fine(s) == g[s] \in Int /\ \A y \in s : g[s] = f[y] + g[s \ {y}]
           T == {n \in Nat : \A s \in Small(S, n) : Fine(s)}
<1>1. 0 \in T
  <2>1. Fine({})
    BY DEF Sums, IsSum
  <2>2. QED
    BY <2>1, SmallSets
<1>2. ASSUME NEW n \in Nat, n \in T PROVE n + 1 \in T
  <2> SUFFICES ASSUME NEW s \in Small(S, n + 1) PROVE Fine(s)
    OBVIOUS
  <2>0. s \in SUBSET S /\ Cardinality(s) <= n + 1
    BY DEF Small
  <2>1. CASE s = {}
    BY <2>1 DEF Sums, IsSum
  <2>2. CASE s # {}
    <3> DEFINE z == First(s)
    <3>1. /\ z \in s /\ s \ {z} \in Small(S, n) /\ IsFiniteSet(s)
          /\ Cardinality(s) \in Nat
      BY <2>0, <2>2, FirstOut, SmallSets
    <3>2. g[s] = f[z] + g[s \ {z}]
      BY <2>0, <2>2 DEF Sums, IsSum
    <3>3. Fine(s \ {z})
      BY <1>2, <3>1
    <3> HIDE DEF z
    <3>4. f[z] \in Int /\ g[s] \in Int
      BY <2>0, <3>1, <3>2, <3>3
    <3>5. ASSUME NEW y \in s, y # z PROVE g[s] = f[y] + g[s \ {y}]
      <4>1. /\ s \ {y} \in SUBSET S /\ Cardinality(s \ {y}) = Cardinality(s) - 1
        BY <2>0, <3>1, FS_RemoveElement
      <4>2. s \ {y} \in Small(S, n)
        BY <2>0, <3>1, <4>1 DEF Small
      <4>3. Fine(s \ {y}) /\ z \in s \ {y} /\ y \in s \ {z}
        BY <1>2, <3>1, <3>5, <4>2
      <4>4. (s \ {y}) \ {z} = (s \ {z}) \ {y}
        OBVIOUS
      <4> DEFINE rest == (s \ {z}) \ {y}
      <4>5. g[s \ {y}] = f[z] + g[rest] /\ g[s \ {z}] = f[y] + g[rest]
        BY <3>3, <4>3, <4>4
      <4>6. (s \ {z}) \ {y} \in Small(S, n)
        <5>1. IsFiniteSet(s \ {y}) /\ Cardinality(s \ {y}) \in Nat
          BY <3>1, FS_Subset, FS_CardinalityType
        <5>2. Cardinality((s \ {y}) \ {z}) <= Cardinality(s \ {y})
              /\ Cardinality((s \ {y}) \ {z}) \in Nat
          BY <5>1, FS_Subset, FS_CardinalityType
        <5>3. rest \in SUBSET S /\ Cardinality(s \ {y}) <= n
          BY <2>0, <4>2 DEF Small
        <5>4. rest = (s \ {y}) \ {z}
          BY <4>4
        <5> HIDE DEF rest
        <5>5. Cardinality(rest) <= n
          BY <5>1, <5>2, <5>3, <5>4
        <5>6. rest \in Small(S, n)
          BY <5>3, <5>5 DEF Small
        <5>7. QED
          BY <5>6 DEF rest
      <4>7. g[rest] \in Int /\ f[y] \in Int
        BY <1>2, <2>0, <4>6
      <4> HIDE DEF rest
      <4>8. QED
        BY <3>2, <3>4, <4>5, <4>7
    <3>6. QED
      BY <3>2, <3>4, <3>5
  <2>3. QED
    BY <2>1, <2>2
<1>3. Nat \subseteq T
  <2> HIDE DEF T
  <2>1. QED
    BY <1>1, <1>2, Induction
<1>4. S \in Small(S, Cardinality(S)) /\ Cardinality(S) \in Nat
  BY SmallSets
<1>5. Fine(S)
  <2> HIDE DEF Fine
  <2>1. QED
    BY <1>3, <1>4
<1>6. QED
  BY <1>5

(* A part of a sum, as a sum of its own.                                   *)
LEMMA SumOfRest ==
  ASSUME NEW S, IsFiniteSet(S), NEW R \in SUBSET S, NEW f, NEW g, Sums(g, f, S)
  PROVE  SumFunction([y \in R |-> f[y]]) = g[R]
<1> DEFINE h == [y \in R |-> f[y]]
<1>1. IsFiniteSet(R)
  BY FS_Subset
<1>2. Agree(f, h, R) /\ SumFunction(h) = SumFunctionOnSet(h, R)
  BY DEF Agree, SumFunction
<1> HIDE DEF h
<1>3. PICK k : Sums(k, h, R) /\ SumFunctionOnSet(h, R) = k[R]
  BY <1>1, SumIsFold DEF Sums
<1>4. g[R] = k[R]
  BY <1>2, <1>3, SameSum
<1>5. QED
  BY <1>2, <1>3, <1>4 DEF h

(* A sum is any of its terms and the sum of the others.                    *)
LEMMA SumOut ==
  ASSUME NEW S, IsFiniteSet(S), NEW f \in [S -> Int], NEW x \in S
  PROVE  SumFunction(f) = f[x] + SumFunction([y \in S \ {x} |-> f[y]])
<1>1. PICK g : Sums(g, f, S) /\ SumFunctionOnSet(f, S) = g[S]
  BY SumIsFold DEF Sums
<1> DEFINE R == S \ {x}
           rest == SumFunction([y \in R |-> f[y]])
<1>2. R = S \ {x} /\ R \in SUBSET S
  OBVIOUS
<1> HIDE DEF R
<1>3. rest = g[R]
  BY <1>1, <1>2, SumOfRest
<1>4. g[S] = f[x] + g[R]
  BY <1>1, <1>2, AnyOut
<1>5. SumFunction(f) = SumFunctionOnSet(f, S)
  BY DEF SumFunction
<1>6. SumFunction(f) = f[x] + rest
  BY <1>1, <1>3, <1>4, <1>5
<1>7. QED
  BY <1>6 DEF R

(* A sum of one term, or of two.                                           *)
LEMMA SumOfOne ==
  ASSUME NEW x, NEW f \in [{x} -> Int]
  PROVE  SumFunction(f) = f[x]
<1>1. SumFunction(f) = f[x] + SumFunction([y \in {x} \ {x} |-> f[y]])
  <2> DEFINE S == {x}
  <2>1. IsFiniteSet(S) /\ x \in S /\ f \in [S -> Int]
    BY FS_Singleton
  <2> HIDE DEF S
  <2>2. SumFunction(f) = f[x] + SumFunction([y \in S \ {x} |-> f[y]])
    BY <2>1, SumOut
  <2>3. QED
    BY <2>2 DEF S
<1>2. SumFunction([y \in {x} \ {x} |-> f[y]]) = 0
  BY SumEmpty
<1>3. f[x] \in Int
  OBVIOUS
<1>4. QED
  BY <1>1, <1>2, <1>3

(* Two terms.                                                              *)
LEMMA SumOfTwo ==
  ASSUME NEW x, NEW y, x # y, NEW f \in [{x, y} -> Int]
  PROVE  SumFunction(f) = f[x] + f[y]
<1> DEFINE h == [z \in {x, y} \ {x} |-> f[z]]
<1>0. IsFiniteSet({x, y})
  <2>1. IsFiniteSet({x}) /\ {x, y} = {x} \union {y}
    BY FS_Singleton
  <2>2. IsFiniteSet({x} \union {y})
    BY <2>1, FS_AddElement
  <2>3. QED
    BY <2>1, <2>2
<1>1. SumFunction(f) = f[x] + SumFunction(h)
  BY <1>0, SumOut
<1>2. {x, y} \ {x} = {y} /\ h \in [{y} -> Int] /\ h[y] = f[y]
  OBVIOUS
<1> HIDE DEF h
<1>3. SumFunction(h) = f[y]
  BY <1>2, SumOfOne
<1>4. QED
  BY <1>1, <1>3

(* Where each term is on one side of a multiple of another, so are the     *)
(* sums.                                                                   *)
LEMMA SumsSided ==
  ASSUME NEW S, IsFiniteSet(S), NEW f \in [S -> Int], NEW w \in [S -> Int],
         NEW sign \in {1, -1}, NEW c \in Int, \A x \in S : sign * f[x] >= c * w[x]
  PROVE  sign * SumFunction(f) >= c * SumFunction(w)
<1>1. PICK g : IsSum(g, f, SUBSET S) /\ SumFunctionOnSet(f, S) = g[S]
  BY SumIsFold
<1>2. PICK k : IsSum(k, w, SUBSET S) /\ SumFunctionOnSet(w, S) = k[S]
  BY SumIsFold
<1> DEFINE T == {s \in SUBSET S : g[s] \in Int /\ k[s] \in Int /\ sign * g[s] >= c * k[s]}
<1>3. {} \in T
  BY <1>1, <1>2 DEF IsSum
<1>4. ASSUME NEW s \in SUBSET S, s # {}, s \ {First(s)} \in T PROVE s \in T
  <2> DEFINE a == f[First(s)]
             b == w[First(s)]
             p == g[s \ {First(s)}]
             q == k[s \ {First(s)}]
  <2>1. g[s] = a + p /\ k[s] = b + q /\ First(s) \in S
    BY <1>1, <1>2, <1>4, FirstOut DEF IsSum
  <2>2. /\ a \in Int /\ b \in Int /\ p \in Int /\ q \in Int
        /\ sign * a >= c * b /\ sign * p >= c * q
    BY <1>4, <2>1
  <2> HIDE DEF a, b, p, q
  <2>3. sign * (a + p) = sign * a + sign * p /\ c * (b + q) = c * b + c * q
    BY <2>2
  <2>4. /\ c * b \in Int /\ c * q \in Int /\ sign * a \in Int /\ sign * p \in Int
    BY <2>2
  <2>5. sign * g[s] >= c * k[s]
    BY <2>1, <2>2, <2>3, <2>4
  <2>6. QED
    BY <2>1, <2>2, <2>5
<1>5. S \in T
  <2> HIDE DEF T
  <2>1. QED
    BY <1>3, <1>4, OneByOne
<1>6. QED
  BY <1>1, <1>2, <1>5 DEF SumFunction

(* The same of a constant.                                                 *)
LEMMA SumSided ==
  ASSUME NEW S, IsFiniteSet(S), NEW f \in [S -> Int],
         NEW sign \in {1, -1}, NEW c \in Int, \A x \in S : sign * f[x] >= c
  PROVE  sign * SumFunction(f) >= c * Cardinality(S)
<1>1. PICK g : IsSum(g, f, SUBSET S) /\ SumFunctionOnSet(f, S) = g[S]
  BY SumIsFold
<1> DEFINE T == {s \in SUBSET S : g[s] \in Int /\ sign * g[s] >= c * Cardinality(s)}
<1>2. {} \in T
  BY <1>1, FS_EmptySet DEF IsSum
<1>3. ASSUME NEW s \in SUBSET S, s # {}, s \ {First(s)} \in T PROVE s \in T
  <2> DEFINE a == f[First(s)]
             p == g[s \ {First(s)}]
             n == Cardinality(s)
  <2>1. g[s] = a + p /\ First(s) \in S /\ n \in Nat
        /\ Cardinality(s \ {First(s)}) = n - 1
    BY <1>1, <1>3, FirstOut DEF IsSum
  <2>2. a \in Int /\ p \in Int /\ sign * a >= c /\ sign * p >= c * (n - 1)
    BY <1>3, <2>1
  <2> HIDE DEF a, p, n
  <2>3. sign * (a + p) = sign * a + sign * p /\ c * (n - 1) = c * n - c
    BY <2>1, <2>2
  <2>4. c * n \in Int /\ sign * a \in Int /\ sign * p \in Int
    BY <2>1, <2>2
  <2>5. sign * g[s] >= c * n /\ g[s] \in Int
    BY <2>1, <2>2, <2>3, <2>4
  <2>6. QED
    BY <2>5 DEF n
<1>4. S \in T
  <2> HIDE DEF T
  <2>1. QED
    BY <1>2, <1>3, OneByOne
<1>5. QED
  BY <1>1, <1>4 DEF SumFunction

-----------------------------------------------------------------------------
(* Quotients, readings and weighted means.                                 *)
LEMMA QuotientBounds ==
  ASSUME NEW x \in Int, NEW y \in Nat \ {0}
  PROVE  /\ Quotient(x, y) \in Int
         /\ x >= 0 => Quotient(x, y) >= 0
         /\ x <= 0 => Quotient(x, y) <= 0
         /\ \A c \in Nat : x >= c * y => Quotient(x, y) >= c
         /\ \A c \in Nat : x <= -(c * y) => Quotient(x, y) <= -c
         /\ x >= y => Quotient(x, y) >= 1
         /\ x <= -y => Quotient(x, y) <= -1
<1>1. ASSUME NEW z \in Nat
      PROVE  z \div y \in Nat /\ \A c \in Nat : z >= c * y => z \div y >= c
  <2> DEFINE q == z \div y
             r == z % y
  <2>1. q \in Nat /\ r \in 0 .. y - 1 /\ z = y * q + r
    OBVIOUS
  <2> HIDE DEF q, r
  <2>2. ASSUME NEW c \in Nat, z >= c * y, q < c PROVE FALSE
    <3>1. c * y >= (q + 1) * y
      BY <2>1, <2>2
    <3>2. QED
      BY <2>1, <2>2, <3>1
  <2>3. QED
    BY <2>1, <2>2 DEF q
<1>2. \A z \in Nat : z >= y => z \div y >= 1
  BY <1>1, 1 * y = y
<1>3. CASE x >= 0
  <2>1. Quotient(x, y) = x \div y /\ x \in Nat
    BY <1>3 DEF Quotient
  <2>2. x <= -y => FALSE
    BY <1>3
  <2>3. ASSUME NEW c \in Nat, x <= -(c * y) PROVE Quotient(x, y) <= -c
    <3>1. c * y \in Nat /\ c * y = 0 /\ x = 0
      BY <1>3, <2>3
    <3>2. c = 0
      BY <3>1
    <3>3. x \div y = 0
      BY <3>1
    <3>4. QED
      BY <2>1, <3>2, <3>3
  <2>4. x <= 0 => Quotient(x, y) <= 0
    <3>1. 0 \div y = 0
      OBVIOUS
    <3>2. QED
      BY <1>3, <2>1, <3>1
  <2>5. QED
    BY <1>1, <1>2, <1>3, <2>1, <2>2, <2>3, <2>4
<1>4. CASE x < 0
  <2>1. Quotient(x, y) = -((-x) \div y) /\ -x \in Nat
    BY <1>4 DEF Quotient
  <2>2. ASSUME NEW c \in Nat, x >= c * y PROVE FALSE
    BY <1>4, <2>2
  <2>3. ASSUME NEW c \in Nat, x <= -(c * y) PROVE -x >= c * y
    BY <2>3
  <2>4. x <= -y => -x >= y
    OBVIOUS
  <2>5. QED
    BY <1>1, <1>2, <1>4, <2>1, <2>2, <2>3, <2>4
<1>5. QED
  BY <1>3, <1>4

(* A reading has the sign of what it reads.                                *)
LEMMA ReadsSign ==
  ASSUME NEW x \in Int
  PROVE  /\ Reads(x) \in Reading /\ Reads(x).measured
         /\ \A c \in -100 .. 100 : x >= c => Reads(x).score >= c
         /\ \A c \in -100 .. 100 : x <= c => Reads(x).score <= c
BY DEF Reads, Reading, Clamp

(* A reading's score is an integer.                                        *)
LEMMA ReadingScore == \A r \in Reading : r.score \in Int
BY DEF Reading

(* N/A is a reading that measures nothing.                                 *)
LEMMA NAIsReading == NA \in Reading /\ ~NA.measured
BY DEF NA, Reading

(* Where a number is on one side of a multiple of another, so are their    *)
(* quotient and its reading.                                               *)
LEMMA QuotientSided ==
  ASSUME NEW x \in Int, NEW y \in Nat \ {0}, NEW sign \in {1, -1}, NEW c \in 0 .. 100,
         sign * x >= c * y
  PROVE  /\ Reads(Quotient(x, y)) \in Reading /\ Reads(Quotient(x, y)).measured
         /\ sign * Reads(Quotient(x, y)).score >= c
<1> DEFINE q == Quotient(x, y)
<1>1. q \in Int /\ c \in Nat /\ c * y \in Int
  BY QuotientBounds
<1>2. CASE sign = 1
  <2>1. x >= c * y
    BY <1>1, <1>2
  <2>2. q >= c
    BY <1>1, <2>1, QuotientBounds
  <2> HIDE DEF q
  <2>0. c \in -100 .. 100
    OBVIOUS
  <2>3. Reads(q) \in Reading /\ Reads(q).measured /\ Reads(q).score >= c
    BY <1>1, <2>0, <2>2, ReadsSign
  <2>4. Reads(q).score \in Int
    BY <2>3, ReadingScore
  <2>5. QED
    BY <1>2, <2>3, <2>4 DEF q
<1>3. CASE sign = -1
  <2>1. x <= -(c * y)
    BY <1>1, <1>3
  <2>2. q <= -c
    BY <1>1, <2>1, QuotientBounds
  <2> HIDE DEF q
  <2>3. -c \in -100 .. 100
    OBVIOUS
  <2>4. Reads(q) \in Reading /\ Reads(q).measured /\ Reads(q).score <= -c
    BY <1>1, <2>2, <2>3, ReadsSign
  <2>5. Reads(q).score \in Int
    BY <2>4, ReadingScore
  <2>6. QED
    BY <1>1, <1>3, <2>4, <2>5 DEF q
<1>4. QED
  BY <1>2, <1>3

(* A mean of numbers is a reading, on their side if they are on one.       *)
LEMMA MeanReading ==
  ASSUME NEW S, IsFiniteSet(S), NEW f \in [S -> Int]
  PROVE  MeanOf(f) \in Reading
<1>1. CASE S = {}
  BY <1>1, NAIsReading DEF MeanOf
<1>2. CASE S # {}
  <2>1. Cardinality(S) \in Nat \ {0} /\ SumFunction(f) \in Int
    BY <1>2, FS_CardinalityType, FS_EmptySet, SumType
  <2>2. Quotient(SumFunction(f), Cardinality(S)) \in Int
    BY <2>1, QuotientBounds
  <2>3. MeanOf(f) = Reads(Quotient(SumFunction(f), Cardinality(S)))
    BY <1>2 DEF MeanOf
  <2>4. QED
    BY <2>2, <2>3, ReadsSign
<1>3. QED
  BY <1>1, <1>2

(* The mean of numbers on one side is on that side.                        *)
LEMMA MeanSided ==
  ASSUME NEW S, IsFiniteSet(S), S # {}, NEW f \in [S -> Int],
         NEW sign \in {1, -1}, NEW c \in 0 .. 100, \A x \in S : sign * f[x] >= c
  PROVE  MeanOf(f) \in Reading /\ MeanOf(f).measured /\ sign * MeanOf(f).score >= c
<1>1. Cardinality(S) \in Nat \ {0} /\ SumFunction(f) \in Int /\ c \in Int
  BY FS_CardinalityType, FS_EmptySet, SumType
<1>2. sign * SumFunction(f) >= c * Cardinality(S)
  BY <1>1, SumSided
<1>3. MeanOf(f) = Reads(Quotient(SumFunction(f), Cardinality(S)))
  BY DEF MeanOf
<1>4. QED
  BY <1>1, <1>2, <1>3, QuotientSided

(* Legs that are held in the first round, and lift no other, are those     *)
(* that are held.                                                          *)
LEMMA HeldStays ==
  ASSUME NEW legs, IsFiniteSet(DOMAIN legs), NEW H,
         Over(legs, {}) = H, Over(legs, H) \subseteq H
  PROVE  Held(legs) = H
<1> DEFINE rounds == Cardinality(DOMAIN legs)
           Rule(h) == h = [i \in 0 .. rounds |->
             IF i = 0 THEN {} ELSE h[i - 1] \union Over(legs, h[i - 1])]
           held == CHOOSE h : Rule(h)
<1>1. rounds \in Nat /\ (rounds = 0 => DOMAIN legs = {})
  BY FS_CardinalityType, FS_EmptySet
<1>2. rounds = 0 => H = {}
  BY <1>1 DEF Over, Measurable
<1> HIDE DEF rounds
<1>3. Rule(held)
  <2> DEFINE m == [i \in 0 .. rounds |-> IF i = 0 THEN {} ELSE H]
  <2>1. ASSUME NEW i \in 0 .. rounds
        PROVE  m[i] = IF i = 0 THEN {} ELSE m[i - 1] \union Over(legs, m[i - 1])
    <3>1. CASE i = 0
      BY <3>1
    <3>2. CASE i # 0
      <4>1. i - 1 \in 0 .. rounds /\ m[i] = H
        BY <1>1, <3>2
      <4>2. m[i - 1] = {} \/ m[i - 1] = H
        BY <4>1
      <4> HIDE DEF m
      <4>3. QED
        BY <3>2, <4>1, <4>2
    <3>3. QED
      BY <3>1, <3>2
  <2>2. Rule(m)
    <3>1. m = [i \in 0 .. rounds |-> m[i]]
      OBVIOUS
    <3> HIDE DEF m
    <3>2. QED
      BY <2>1, <3>1
  <2>3. QED
    BY <2>2
<1>4. held[rounds] = H
  <2> HIDE DEF held
  <2> DEFINE T == {i \in Nat : i <= rounds => held[i] = IF i = 0 THEN {} ELSE H}
  <2>1. \A i \in 0 .. rounds :
          held[i] = IF i = 0 THEN {} ELSE held[i - 1] \union Over(legs, held[i - 1])
    BY <1>3
  <2>2. 0 \in T
    <3>1. 0 \in 0 .. rounds
      BY <1>1
    <3>2. held[0] = {}
      BY <2>1, <3>1
    <3>3. QED
      BY <3>2
  <2>3. ASSUME NEW i \in Nat, i \in T PROVE i + 1 \in T
    <3> SUFFICES ASSUME i + 1 <= rounds PROVE held[i + 1] = H
      OBVIOUS
    <3>1. i + 1 \in 0 .. rounds /\ i + 1 # 0 /\ (i + 1) - 1 = i
          /\ held[i] = IF i = 0 THEN {} ELSE H
      BY <1>1, <2>3
    <3>2. held[i + 1] = held[i] \union Over(legs, held[i])
      BY <2>1, <3>1
    <3>3. QED
      BY <3>1, <3>2
  <2>4. Nat \subseteq T
    <3> HIDE DEF T
    <3>1. QED
      BY <2>2, <2>3, Induction
  <2>5. rounds \in T
    <3> HIDE DEF T
    <3>1. QED
      BY <1>1, <2>4
  <2>6. QED
    BY <1>1, <1>2, <2>5
<1>5. Held(legs) = held[rounds]
  BY DEF Held, rounds
<1>6. QED
  BY <1>4, <1>5

(* Legs that no ceiling holds.                                             *)
Unheld(legs) ==
  /\ IsFiniteSet(DOMAIN legs)
  /\ \A l \in DOMAIN legs : /\ legs[l].weight \in Nat /\ legs[l].ceiling = 100
                            /\ legs[l].reading \in Reading

(* The legs that can be measured are finitely many.                        *)
LEMMA MeasurableFinite ==
  ASSUME NEW legs, IsFiniteSet(DOMAIN legs)
  PROVE  /\ Measurable(legs) \subseteq DOMAIN legs
         /\ \A s \in SUBSET DOMAIN legs : IsFiniteSet(s)
BY FS_Subset DEF Measurable

(* Where every ceiling is 100, no leg is ever held at its own.             *)
LEMMA NoneHeld ==
  ASSUME NEW legs, Unheld(legs)
  PROVE  Held(legs) = {} /\ CeilingOf(legs, {}) = 0
<1>1. CeilingOf(legs, {}) = 0
  BY SumEmpty DEF CeilingOf
<1>2. Over(legs, {}) = {}
  <2> DEFINE free == Measurable(legs)
             weights == [l \in free |-> legs[l].weight]
  <2>1. IsFiniteSet(free) /\ free \subseteq DOMAIN legs
    BY MeasurableFinite DEF Unheld
  <2>2. weights \in [free -> Nat]
    BY <2>1 DEF Unheld
  <2>3. SumFunction(weights) \in Nat /\ \A l \in free : SumFunction(weights) >= legs[l].weight
    <3> HIDE DEF free
    <3>1. QED
      BY <2>1, <2>2, SumAtLeast
  <2>4. WeightOf(legs, free \ {}) = SumFunction(weights)
    <3>1. free \ {} = free
      OBVIOUS
    <3>2. QED
      BY <3>1 DEF WeightOf
  <2>5. ASSUME NEW l \in free
        PROVE  ~(legs[l].weight * (100 - CeilingOf(legs, {}))
                   > legs[l].ceiling * WeightOf(legs, free \ {}))
    <3>1. legs[l].weight \in Nat /\ legs[l].ceiling = 100
      BY <2>1 DEF Unheld
    <3> HIDE DEF free, weights
    <3>2. QED
      BY <1>1, <2>3, <2>4, <3>1
  <2>6. QED
    BY <2>5 DEF Over
<1>3. QED
  BY <1>1, <1>2, HeldStays DEF Unheld

(* Where none of the legs says the opposite, and one of them says enough   *)
(* for all the weight, the mean has its sign.                              *)
LEMMA CombineSign ==
  ASSUME NEW legs, Unheld(legs), NEW sign \in {1, -1}, NEW l \in Measurable(legs),
         \A k \in Measurable(legs) : sign * legs[k].reading.score >= 0,
         sign * (legs[l].weight * legs[l].reading.score) >= WeightOf(legs, Measurable(legs))
  PROVE  Combine(legs) \in Reading /\ Combine(legs).measured /\ sign * Combine(legs).score > 0
<1> DEFINE free == Measurable(legs)
           pool == WeightOf(legs, free)
           weights == [k \in free |-> legs[k].weight]
           shares == [k \in free |-> legs[k].weight * legs[k].reading.score]
           signed == [k \in free |-> sign * shares[k]]
           F == SumFunction(shares)
<1>1. Held(legs) = {} /\ free \ {} = free /\ 100 - CeilingOf(legs, {}) = 100
  BY NoneHeld
<1>2. IsFiniteSet(free) /\ free \subseteq DOMAIN legs
  BY MeasurableFinite DEF Unheld
<1>3. \A k \in free : /\ legs[k].weight \in Nat \ {0} /\ legs[k].reading.score \in Int
                      /\ legs[k].weight * legs[k].reading.score \in Int
                      /\ sign * (legs[k].weight * legs[k].reading.score) \in Nat
  <2> SUFFICES ASSUME NEW k \in free
               PROVE  /\ legs[k].weight \in Nat \ {0} /\ legs[k].reading.score \in Int
                      /\ legs[k].weight * legs[k].reading.score \in Int
                      /\ sign * (legs[k].weight * legs[k].reading.score) \in Nat
    OBVIOUS
  <2> DEFINE w == legs[k].weight
             s == legs[k].reading.score
  <2>1. w \in Nat \ {0} /\ s \in Int
    BY <1>2 DEF Unheld, Reading, Measurable
  <2>2. sign * s >= 0
    OBVIOUS
  <2> HIDE DEF w, s
  <2>3. w * s \in Int /\ sign * (w * s) = w * (sign * s) /\ sign * s \in Nat
    BY <2>1, <2>2
  <2>4. w * (sign * s) \in Nat
    BY <2>1, <2>3
  <2>5. QED
    BY <2>1, <2>3, <2>4 DEF w, s
<1>4. pool \in Nat \ {0}
  <2>1. weights \in [free -> Nat] /\ weights[l] = legs[l].weight /\ legs[l].weight > 0
    BY <1>3
  <2>2. SumFunction(weights) \in Nat /\ SumFunction(weights) >= weights[l]
    <3>1. l \in free
      OBVIOUS
    <3> HIDE DEF weights, free
    <3>2. QED
      BY <1>2, <2>1, <3>1, SumAtLeast
  <2>3. pool = SumFunction(weights)
    BY DEF WeightOf
  <2>4. QED
    BY <2>1, <2>2, <2>3
<1>5. F \in Int /\ sign * F >= pool
  <2>1. shares \in [free -> Int] /\ signed \in [free -> Nat]
    BY <1>3
  <2>2. signed[l] >= pool /\ l \in free
    OBVIOUS
  <2> HIDE DEF free, shares
  <2>3. SumFunction(signed) = sign * F /\ F \in Int
    <3>1. sign \in Int
      OBVIOUS
    <3>2. SumFunction([k \in free |-> sign * shares[k]]) = sign * SumFunction(shares)
      BY <1>2, <2>1, <3>1, SumScaled
    <3>3. SumFunction(shares) \in Int
      BY <1>2, <2>1, SumType
    <3>4. QED
      BY <3>2, <3>3
  <2> HIDE DEF signed, pool, F
  <2>4. SumFunction(signed) \in Nat /\ SumFunction(signed) >= signed[l] /\ signed[l] \in Nat
    BY <1>2, <2>1, <2>2, SumAtLeast
  <2>5. QED
    BY <1>4, <2>2, <2>3, <2>4
<1>6. SumFunction([k \in {} |-> legs[k].ceiling * legs[k].reading.score]) = 0
  BY SumEmpty
<1>7. Combine(legs) = Reads(Quotient(100 * F, 100 * pool))
  <2>1. Combine(legs) = Reads(Quotient(100 * F + pool * 0, 100 * pool))
    BY <1>1, <1>6 DEF Combine
  <2> HIDE DEF pool, F
  <2>2. QED
    BY <1>4, <1>5, <2>1
<1> HIDE DEF pool, F
<1>8. 100 * F \in Int /\ 100 * pool \in Nat \ {0} /\ Quotient(100 * F, 100 * pool) \in Int
  BY <1>4, <1>5, QuotientBounds
<1>9. sign * Quotient(100 * F, 100 * pool) >= 1
  <2>1. CASE sign = 1
    <3>1. 100 * F >= 100 * pool
      BY <1>4, <1>5, <2>1
    <3>2. Quotient(100 * F, 100 * pool) >= 1
      BY <1>8, <3>1, QuotientBounds
    <3>3. QED
      BY <1>8, <2>1, <3>2
  <2>2. CASE sign = -1
    <3>1. 100 * F <= -(100 * pool)
      BY <1>4, <1>5, <2>2
    <3>2. Quotient(100 * F, 100 * pool) <= -1
      BY <1>8, <3>1, QuotientBounds
    <3>3. QED
      BY <1>8, <2>2, <3>2
  <2>3. QED
    BY <2>1, <2>2
<1>10. /\ Combine(legs) \in Reading /\ Combine(legs).measured
       /\ Quotient(100 * F, 100 * pool) >= 1 => Combine(legs).score >= 1
       /\ Quotient(100 * F, 100 * pool) <= -1 => Combine(legs).score <= -1
  BY <1>7, <1>8, ReadsSign
<1>11. Combine(legs).score \in Int
  BY <1>10 DEF Reading
<1>12. QED
  BY <1>8, <1>9, <1>10, <1>11

(* A leg with a ceiling that is alone scores nothing.                      *)
LEMMA LoneCapped ==
  ASSUME NEW legs, IsFiniteSet(DOMAIN legs), NEW n \in DOMAIN legs,
         Measurable(legs) \subseteq {n},
         legs[n].weight \in Nat \ {0}, legs[n].ceiling \in 0 .. 99
  PROVE  Combine(legs) = NA
<1> DEFINE H == Measurable(legs)
<1>1. CeilingOf(legs, {}) = 0
  BY SumEmpty DEF CeilingOf
<1>2. Over(legs, {}) = H
  <2>1. CASE H = {}
    BY <2>1 DEF Over
  <2>2. CASE H = {n}
    <3> DEFINE weights == [l \in {n} |-> legs[l].weight]
    <3>1. weights \in [{n} -> Int] /\ weights[n] = legs[n].weight
      OBVIOUS
    <3> HIDE DEF weights
    <3>2. SumFunction(weights) = legs[n].weight
      BY <3>1, SumOfOne
    <3>3. H \ {} = {n} /\ WeightOf(legs, {n}) = legs[n].weight
      BY <2>2, <3>2 DEF WeightOf, weights
    <3>4. legs[n].weight * (100 - 0) > legs[n].ceiling * legs[n].weight
      <4> DEFINE w == legs[n].weight
                 c == legs[n].ceiling
      <4>1. w \in Nat \ {0} /\ c \in Nat /\ c <= 99
        OBVIOUS
      <4> HIDE DEF w, c
      <4>2. c * w <= 99 * w
        BY <4>1
      <4>3. QED
        BY <4>1, <4>2 DEF w, c
    <3> HIDE DEF H
    <3>5. H = {n} /\ H \ {} = H
      BY <2>2
    <3>6. QED
      BY <1>1, <3>3, <3>4, <3>5 DEF Over, H
  <2>3. QED
    BY <2>1, <2>2
<1>3. Over(legs, H) = {}
  BY DEF Over
<1>4. Held(legs) = H
  <2> HIDE DEF H
  <2>1. QED
    BY <1>2, <1>3, HeldStays
<1>5. QED
  BY <1>4 DEF Combine

(* What legs there are to say, where some are held at their ceilings.      *)
Typed(legs) ==
  /\ IsFiniteSet(DOMAIN legs)
  /\ \A l \in DOMAIN legs : /\ legs[l].weight \in Nat /\ legs[l].ceiling \in Nat
                            /\ legs[l].reading \in Reading
SharesOf(legs, names) == SumFunction([l \in names |-> legs[l].weight * legs[l].reading.score])
CappedOf(legs, names) == SumFunction([l \in names |-> legs[l].ceiling * legs[l].reading.score])

(* Legs that are held pull no further than their ceilings.                 *)
LEMMA HeldSided ==
  ASSUME NEW legs, Typed(legs), NEW H \in SUBSET DOMAIN legs, NEW sign \in {1, -1}
  PROVE  /\ CappedOf(legs, H) \in Int /\ CeilingOf(legs, H) \in Nat
         /\ sign * CappedOf(legs, H) >= (-100) * CeilingOf(legs, H)
<1> DEFINE capped == [l \in H |-> legs[l].ceiling * legs[l].reading.score]
           ceilings == [l \in H |-> legs[l].ceiling]
<1>1. ASSUME NEW l \in H
      PROVE  /\ legs[l].ceiling \in Nat /\ legs[l].ceiling * legs[l].reading.score \in Int
             /\ sign * (legs[l].ceiling * legs[l].reading.score) >= (-100) * legs[l].ceiling
  <2> DEFINE c == legs[l].ceiling
             s == legs[l].reading.score
  <2>1. c \in Nat /\ s \in -100 .. 100
    BY DEF Typed, Reading
  <2> HIDE DEF c, s
  <2>2. sign * s >= -100 /\ sign * s \in Int
    BY <2>1
  <2>3. c * (sign * s) >= c * (-100) /\ sign * (c * s) = c * (sign * s)
    BY <2>1, <2>2
  <2>4. QED
    BY <2>1, <2>3 DEF c, s
<1>2. IsFiniteSet(H)
  BY FS_Subset DEF Typed
<1>3. /\ capped \in [H -> Int] /\ ceilings \in [H -> Nat] /\ ceilings \in [H -> Int]
      /\ \A l \in H : sign * capped[l] >= (-100) * ceilings[l]
  BY <1>1
<1>4. CappedOf(legs, H) = SumFunction(capped) /\ CeilingOf(legs, H) = SumFunction(ceilings)
  BY DEF CappedOf, CeilingOf
<1> HIDE DEF capped, ceilings
<1>5. SumFunction(capped) \in Int /\ SumFunction(ceilings) \in Nat
  BY <1>2, <1>3, SumType, SumAtLeast
<1>6. -100 \in Int
  OBVIOUS
<1>7. sign * SumFunction(capped) >= (-100) * SumFunction(ceilings)
  BY <1>2, <1>3, <1>6, SumsSided
<1>8. QED
  BY <1>4, <1>5, <1>7

(* The mean is on the side of the legs that are free, less what those that *)
(* are held can pull.                                                      *)
LEMMA CombineSided ==
  ASSUME NEW legs, Typed(legs), NEW H \in SUBSET DOMAIN legs, Held(legs) = H,
         NEW free, free = Measurable(legs) \ H, free # {},
         NEW sign \in {1, -1}, NEW c \in 0 .. 100, NEW d \in 0 .. 100,
         CeilingOf(legs, H) <= 100,
         sign * SharesOf(legs, free) >= c * WeightOf(legs, free),
         (100 - CeilingOf(legs, H)) * c - 100 * CeilingOf(legs, H) >= 100 * d
  PROVE  Combine(legs) \in Reading /\ Combine(legs).measured /\ sign * Combine(legs).score >= d
<1> DEFINE pool == WeightOf(legs, free)
           cap == CeilingOf(legs, H)
           F == SharesOf(legs, free)
           G == CappedOf(legs, H)
           weights == [l \in free |-> legs[l].weight]
           shares == [l \in free |-> legs[l].weight * legs[l].reading.score]
<1>1. IsFiniteSet(free) /\ free \subseteq DOMAIN legs
  BY FS_Subset DEF Typed, Measurable
<1>2. pool \in Nat \ {0} /\ F \in Int
  <2>1. PICK l \in free : TRUE
    OBVIOUS
  <2>2. weights \in [free -> Nat] /\ weights[l] > 0
    BY <1>1 DEF Typed, Measurable
  <2>3. shares \in [free -> Int]
    <3>1. ASSUME NEW k \in free PROVE legs[k].weight * legs[k].reading.score \in Int
      <4>1. legs[k].weight \in Nat /\ legs[k].reading.score \in Int
        BY <1>1, ReadingScore DEF Typed
      <4>2. QED
        BY <4>1
    <3>2. QED
      BY <3>1
  <2> HIDE DEF weights, shares
  <2>4. SumFunction(weights) \in Nat /\ SumFunction(weights) >= weights[l] /\ weights[l] \in Nat
    BY <1>1, <2>1, <2>2, SumAtLeast
  <2>5. SumFunction(shares) \in Int
    BY <1>1, <2>3, SumType
  <2>6. QED
    BY <2>2, <2>4, <2>5 DEF weights, shares, WeightOf, SharesOf
<1>3. cap \in Nat /\ cap <= 100 /\ G \in Int /\ sign * G >= (-100) * cap
  BY HeldSided
<1>4. Combine(legs) = Reads(Quotient((100 - cap) * F + pool * G, 100 * pool))
  BY DEF Combine, SharesOf, CappedOf
<1>5. c \in Nat /\ d \in Nat /\ sign * F >= c * pool /\ (100 - cap) * c - 100 * cap >= 100 * d
  OBVIOUS
<1> HIDE DEF pool, cap, F, G
<1> DEFINE left == 100 - cap
<1>6. left \in Nat
  BY <1>3
<1>7. left * (sign * F) >= left * (c * pool) /\ sign * F \in Int /\ sign * G \in Int
  BY <1>2, <1>3, <1>5, <1>6
<1>8. pool * (sign * G) >= pool * ((-100) * cap)
  BY <1>2, <1>3, <1>7
<1>9. left * (c * pool) + pool * ((-100) * cap) = pool * (left * c - 100 * cap)
  BY <1>2, <1>3, <1>5, <1>6
<1>10. pool * (left * c - 100 * cap) >= pool * (100 * d)
  <2>1. left * c - 100 * cap >= 100 * d /\ left * c - 100 * cap \in Int
    BY <1>3, <1>5, <1>6
  <2> DEFINE x == left * c - 100 * cap
  <2> HIDE DEF x
  <2>2. pool * x >= pool * (100 * d)
    BY <1>2, <1>5, <2>1 DEF x
  <2>3. QED
    BY <2>2 DEF x
<1>11. sign * (left * F + pool * G) = left * (sign * F) + pool * (sign * G)
  BY <1>2, <1>3, <1>6
<1>12. pool * (100 * d) = d * (100 * pool)
  BY <1>2, <1>5
<1>13. sign * (left * F + pool * G) >= d * (100 * pool)
  <2>1. /\ left * (sign * F) \in Int /\ left * (c * pool) \in Int
        /\ pool * (sign * G) \in Int /\ pool * ((-100) * cap) \in Int
        /\ pool * (left * c - 100 * cap) \in Int /\ pool * (100 * d) \in Int
    BY <1>2, <1>3, <1>5, <1>6, <1>7
  <2> HIDE DEF left
  <2>2. QED
    BY <2>1, <1>7, <1>8, <1>9, <1>10, <1>11, <1>12
<1>14. left * F + pool * G \in Int /\ 100 * pool \in Nat \ {0}
  BY <1>2, <1>3, <1>6
<1>15. Combine(legs) = Reads(Quotient(left * F + pool * G, 100 * pool))
  BY <1>4
<1> HIDE DEF left
<1>16. QED
  <2> DEFINE x == left * F + pool * G
             y == 100 * pool
  <2>1. x \in Int /\ y \in Nat \ {0} /\ sign * x >= d * y /\ Combine(legs) = Reads(Quotient(x, y))
    BY <1>13, <1>14, <1>15
  <2> HIDE DEF x, y
  <2>2. QED
    BY <2>1, QuotientSided

-----------------------------------------------------------------------------
(* S_I.  What a feed of insiders says is about filings, each at its place  *)
(* and dated to its trade or its filing.                                   *)
Form == {f \in [traded : Int, filed : Int, period : Int, insider : STRING,
                role : DOMAIN RoleWeight, code : {"P", "S", "mechanical", "unknown"},
                plan : BOOLEAN, side : {"buy", "sell", "unsaid"}, acquired : BOOLEAN,
                told : [RowFeed -> ToldAs], value : Nat] :
           f.period = f.traded}

Says(trade, i, day) == \/ trade = FormTrade(filings[i], day)
                       \/ \E feed \in RowFeed : trade = RowTrade(feed, filings[i], day)

Sourced(list) ==
  /\ DOMAIN list \subseteq DOMAIN filings
  /\ \A i \in DOMAIN list :
       \E day \in {filings[i].traded, filings[i].filed} : Says(list[i], i, day)

(* A fault of a feed takes a field of one row, and leaves the rest.        *)
LEMMA MarredRows ==
  ASSUME NEW reply, NEW feed, NEW rows, NEW field, rows = [i \in DOMAIN rows |-> rows[i]]
  PROVE  LET marred == Marred(reply, feed, rows, field)
         IN  /\ DOMAIN marred = DOMAIN rows
             /\ \A i \in DOMAIN rows :
                  \/ marred[i] = rows[i]
                  \/ \E v \in {Absent, Unreadable} : marred[i] = [rows[i] EXCEPT ![field] = v]
BY DEF Marred

(* What FMP or Alpha Vantage say of insiders.                              *)
LEMMA RowsSourced ==
  ASSUME filings \in Seq(Form), NEW source \in RowFeed, NEW body, NEW required,
         NEW reply, NEW feed
  PROVE  Sourced(Items(InsiderRows(source, body, required,
                                   Marred(reply, feed, filings, "traded"))))
<1> DEFINE rows == Marred(reply, feed, filings, "traded")
           list == InsiderRows(source, body, required, rows)
           kept == {i \in DOMAIN rows : rows[i].traded # Absent \/ rows[i].filed # Absent}
           Day(r) == IF r.traded = Absent THEN r.filed ELSE r.traded
<1> SUFFICES Sourced(Items(list))
  OBVIOUS
<1>1. /\ DOMAIN rows = DOMAIN filings
      /\ \A i \in DOMAIN filings :
           \/ rows[i] = filings[i]
           \/ \E v \in {Absent, Unreadable} : rows[i] = [filings[i] EXCEPT !["traded"] = v]
  BY MarredRows
<1>2. CASE list = Rejected
  BY <1>2 DEF Items, Sourced
<1>3. CASE list # Rejected
  <2>1. /\ Items(list) = [i \in kept |-> RowTrade(source, rows[i], Day(rows[i]))]
        /\ \A i \in kept : rows[i].traded # Unreadable
    BY <1>3 DEF Items, InsiderRows, Normalized, RestrictValues, Restrict
  <2>2. ASSUME NEW i \in kept
        PROVE  \E day \in {filings[i].traded, filings[i].filed} :
                 RowTrade(source, rows[i], Day(rows[i])) = RowTrade(source, filings[i], day)
    <3>1. i \in DOMAIN filings /\ filings[i] \in Form /\ rows[i].traded # Unreadable
      BY <1>1, <2>1
    <3> HIDE DEF rows, kept
    <3>2. CASE rows[i] = filings[i]
      BY <3>2
    <3>3. ASSUME NEW v \in {Absent, Unreadable}, rows[i] = [filings[i] EXCEPT !["traded"] = v]
          PROVE  RowTrade(source, rows[i], Day(rows[i])) =
                   RowTrade(source, filings[i], filings[i].filed)
      BY <3>1, <3>3 DEF Form, RowTrade, LetterSide
    <3>4. QED
      BY <1>1, <3>1, <3>2, <3>3
  <2>3. QED
    <3> HIDE DEF rows, Day, list
    <3>1. DOMAIN Items(list) = kept /\ kept \subseteq DOMAIN filings
          /\ \A i \in kept : Items(list)[i] = RowTrade(source, rows[i], Day(rows[i]))
      BY <1>1, <2>1
    <3> HIDE DEF kept
    <3>2. QED
      BY <2>2, <3>1 DEF Sourced, Says
<1>4. QED
  BY <1>2, <1>3

(* What EDGAR's forms say, each document on its own.                       *)
LEMMA FormsSourced ==
  ASSUME filings \in Seq(Form), NEW reply
  PROVE  Sourced(Form4s(reply))
<1> DEFINE recent == {i \in DOMAIN filings : filings[i].filed >= today - InsiderWindow}
           newest == {i \in recent : Cardinality({j \in recent : j > i}) < MaxFilings}
           held   == Restrict(filings, newest)
           rows   == Marred(reply, "form4", held, "traded")
           Readable(i) == i # Max(newest) \/ Ok(reply, "form4") \/ reply["form4"] # "complaint"
           forms  == [i \in newest |-> OwnershipDocument(Readable(i), rows[i])]
<1>1. newest \subseteq DOMAIN filings /\ held = [i \in newest |-> filings[i]]
  BY DEF Restrict
<1>2. Form4s(reply) = <<>> \/ Form4s(reply) = RestrictValues(forms, LAMBDA form : form # Rejected)
  BY DEF Form4s
<1> HIDE DEF newest
<1>3. /\ DOMAIN rows = newest
      /\ \A i \in newest :
           \/ rows[i] = filings[i]
           \/ \E v \in {Absent, Unreadable} : rows[i] = [filings[i] EXCEPT !["traded"] = v]
  <2> HIDE DEF held
  <2>1. DOMAIN held = newest /\ held = [i \in DOMAIN held |-> held[i]]
        /\ \A i \in newest : held[i] = filings[i]
    BY <1>1
  <2>2. QED
    BY <2>1, MarredRows
<1> HIDE DEF rows, held
<1>4. ASSUME NEW i \in newest, forms[i] # Rejected
      PROVE  \E day \in {filings[i].traded, filings[i].filed} :
               forms[i] = FormTrade(filings[i], day)
  <2>1. forms[i] = FormTrade(rows[i], Form4Day(rows[i]))
    BY <1>4 DEF OwnershipDocument
  <2>2. i \in DOMAIN filings /\ filings[i] \in Form
    BY <1>1
  <2>3. ASSUME NEW r, r.filed = filings[i].filed, r.period = filings[i].traded,
               r.traded \in {filings[i].traded, Absent, Unreadable}
        PROVE  Form4Day(r) \in {filings[i].traded, filings[i].filed}
    BY <2>3 DEF Form4Day
  <2>4. CASE rows[i] = filings[i]
    BY <2>1, <2>2, <2>3, <2>4 DEF Form
  <2>5. ASSUME NEW v \in {Absent, Unreadable}, rows[i] = [filings[i] EXCEPT !["traded"] = v]
        PROVE  \E day \in {filings[i].traded, filings[i].filed} :
                 forms[i] = FormTrade(filings[i], day)
    <3>1. /\ rows[i].traded = v /\ rows[i].filed = filings[i].filed
          /\ rows[i].period = filings[i].traded
          /\ \A day : FormTrade(rows[i], day) = FormTrade(filings[i], day)
      BY <2>2, <2>5 DEF Form, FormTrade
    <3>2. QED
      BY <2>1, <2>3, <3>1
  <2>6. QED
    BY <1>3, <2>4, <2>5
<1>5. QED
  <2> HIDE DEF forms
  <2>1. CASE Form4s(reply) = <<>>
    BY <2>1 DEF Sourced
  <2>2. CASE Form4s(reply) = RestrictValues(forms, LAMBDA form : form # Rejected)
    <3>1. DOMAIN forms = newest
      BY DEF forms
    <3>2. QED
      BY <1>1, <1>4, <2>2, <3>1 DEF Sourced, Says, RestrictValues, Restrict
  <2>3. QED
    BY <1>2, <2>1, <2>2

(* Squashing a value keeps its sign.                                       *)
LEMMA SquashSign ==
  ASSUME NEW value \in Int, NEW scale \in Nat \ {0}
  PROVE  /\ Squash(value, scale) \in Int
         /\ value >= 0 => Squash(value, scale) >= 0
         /\ value <= 0 => Squash(value, scale) <= 0
<1> DEFINE x == 200 * value
           y == scale + Abs(value)
<1>1. y \in Nat \ {0} /\ x \in Int /\ (value >= 0 => x >= 0) /\ (value <= 0 => x <= 0)
  BY DEF Abs
<1>2. Squash(value, scale) = Clamp(Quotient(x, y))
  BY DEF Squash
<1> HIDE DEF x, y
<1>3. /\ Quotient(x, y) \in Int
      /\ value >= 0 => Quotient(x, y) >= 0
      /\ value <= 0 => Quotient(x, y) <= 0
  BY <1>1, QuotientBounds
<1>4. QED
  BY <1>2, <1>3 DEF Clamp

(* Trades of one side only: sign 1 is buying.                              *)
OneSided(list, buys, sells, sign) ==
  /\ IsFiniteSet(DOMAIN list)
  /\ buys \subseteq DOMAIN list /\ sells \subseteq DOMAIN list
  /\ \A i \in DOMAIN list : list[i].value \in Nat /\ list[i].role \in DOMAIN RoleWeight
  /\ \/ sign = 1 /\ sells = {}
     \/ sign = -1 /\ buys = {}

(* Whatever is summed, the other side's sum is 0.                          *)
LEMMA OneSidedSums ==
  ASSUME NEW list, NEW buys, NEW sells, NEW sign, OneSided(list, buys, sells, sign),
         NEW f \in [DOMAIN list -> Nat]
  PROVE  LET bought == SumFunction([i \in buys |-> f[i]])
             sold   == SumFunction([i \in sells |-> f[i]])
         IN  /\ bought \in Nat /\ sold \in Nat
             /\ sign = 1 => sold = 0
             /\ sign = -1 => bought = 0
<1>1. IsFiniteSet(buys) /\ IsFiniteSet(sells)
  BY FS_Subset DEF OneSided
<1>2. [i \in buys |-> f[i]] \in [buys -> Nat] /\ [i \in sells |-> f[i]] \in [sells -> Nat]
  BY DEF OneSided
<1>3. SumFunction([i \in buys |-> f[i]]) \in Nat /\ SumFunction([i \in sells |-> f[i]]) \in Nat
  BY <1>1, <1>2, SumAtLeast
<1>4. ASSUME sign = 1 PROVE SumFunction([i \in sells |-> f[i]]) = 0
  <2>1. sells = {}
    BY <1>4 DEF OneSided
  <2>2. QED
    BY <2>1, SumEmpty
<1>5. ASSUME sign = -1 PROVE SumFunction([i \in buys |-> f[i]]) = 0
  <2>1. buys = {}
    BY <1>5 DEF OneSided
  <2>2. QED
    BY <2>1, SumEmpty
<1>6. QED
  BY <1>3, <1>4, <1>5

(* The net flow of one side has its sign, or none.                         *)
LEMMA NetFlowSign ==
  ASSUME NEW list, NEW buys, NEW sells, NEW sign, OneSided(list, buys, sells, sign),
         NEW scale \in Nat \ {0}
  PROVE  /\ NetFlow(list, buys, sells, scale) \in Reading
         /\ sign * NetFlow(list, buys, sells, scale).score >= 0
<1> DEFINE f == [i \in DOMAIN list |-> list[i].value * RoleWeight[list[i].role]]
           bought == SumFunction([i \in buys |-> list[i].value * RoleWeight[list[i].role]])
           sold == SumFunction([i \in sells |-> list[i].value * RoleWeight[list[i].role]])
           value == SumFunction([i \in buys \union sells |-> list[i].value])
           score == Squash(bought - sold, 10 * scale)
<1>0. sign \in {1, -1}
  BY DEF OneSided
<1>1. f \in [DOMAIN list -> Nat]
  <2>1. \A role \in DOMAIN RoleWeight : RoleWeight[role] \in Nat
    BY DEF RoleWeight
  <2>2. ASSUME NEW i \in DOMAIN list PROVE list[i].value * RoleWeight[list[i].role] \in Nat
    BY <2>1 DEF OneSided
  <2>3. QED
    BY <2>2
<1>2. /\ [i \in buys |-> f[i]] = [i \in buys |-> list[i].value * RoleWeight[list[i].role]]
      /\ [i \in sells |-> f[i]] = [i \in sells |-> list[i].value * RoleWeight[list[i].role]]
  BY DEF OneSided
<1>3. bought \in Nat /\ sold \in Nat /\ (sign = 1 => sold = 0) /\ (sign = -1 => bought = 0)
  <2> HIDE DEF f
  <2>1. QED
    BY <1>1, <1>2, OneSidedSums
<1>4. NetFlow(list, buys, sells, scale) = IF value = 0 THEN NA ELSE Reads(score)
  BY DEF NetFlow
<1> HIDE DEF bought, sold, value
<1>5. score \in Int /\ (sign = 1 => score >= 0) /\ (sign = -1 => score <= 0)
  <2>1. bought - sold \in Int /\ 10 * scale \in Nat \ {0}
    BY <1>3
  <2>2. (sign = 1 => bought - sold >= 0) /\ (sign = -1 => bought - sold <= 0)
    BY <1>3
  <2>3. QED
    BY <2>1, <2>2, SquashSign
<1> HIDE DEF score
<1>6. Reads(score) \in Reading /\ (score >= 0 => Reads(score).score >= 0)
      /\ (score <= 0 => Reads(score).score <= 0)
  BY <1>5, ReadsSign
<1>7. QED
  BY <1>0, <1>4, <1>5, <1>6 DEF NA, Reading

(* So has the balance of the senior roles.                                 *)
LEMMA SenioritySign ==
  ASSUME NEW list, NEW buys, NEW sells, NEW sign, OneSided(list, buys, sells, sign)
  PROVE  /\ Seniority(list, buys, sells) \in Reading
         /\ sign * Seniority(list, buys, sells).score >= 0
<1> DEFINE f == [i \in DOMAIN list |-> IF list[i].role \in Senior THEN list[i].value ELSE 0]
           bought == SumFunction([i \in buys |->
                       IF list[i].role \in Senior THEN list[i].value ELSE 0])
           sold == SumFunction([i \in sells |->
                       IF list[i].role \in Senior THEN list[i].value ELSE 0])
           score == Quotient(100 * (bought - sold), bought + sold)
<1>0. sign \in {1, -1}
  BY DEF OneSided
<1>1. f \in [DOMAIN list -> Nat]
  BY DEF OneSided
<1>2. /\ [i \in buys |-> f[i]] =
           [i \in buys |-> IF list[i].role \in Senior THEN list[i].value ELSE 0]
      /\ [i \in sells |-> f[i]] =
           [i \in sells |-> IF list[i].role \in Senior THEN list[i].value ELSE 0]
  BY DEF OneSided
<1>3. bought \in Nat /\ sold \in Nat /\ (sign = 1 => sold = 0) /\ (sign = -1 => bought = 0)
  <2> HIDE DEF f
  <2>1. QED
    BY <1>1, <1>2, OneSidedSums
<1>4. Seniority(list, buys, sells) = IF bought + sold = 0 THEN NA ELSE Reads(score)
  BY DEF Seniority
<1> HIDE DEF bought, sold
<1>5. CASE bought + sold = 0
  BY <1>0, <1>4, <1>5 DEF NA, Reading
<1>6. CASE bought + sold # 0
  <2>1. 100 * (bought - sold) \in Int /\ bought + sold \in Nat \ {0}
    BY <1>3, <1>6
  <2>2. (sign = 1 => 100 * (bought - sold) >= 0) /\ (sign = -1 => 100 * (bought - sold) <= 0)
    BY <1>3
  <2>3. score \in Int /\ (sign = 1 => score >= 0) /\ (sign = -1 => score <= 0)
    BY <2>1, <2>2, QuotientBounds
  <2> HIDE DEF score
  <2>4. Reads(score) \in Reading /\ (score >= 0 => Reads(score).score >= 0)
        /\ (score <= 0 => Reads(score).score <= 0)
    BY <2>3, ReadsSign
  <2>5. QED
    BY <1>0, <1>4, <1>6, <2>3, <2>4 DEF Reading
<1>7. QED
  BY <1>5, <1>6

(* There is someone behind any trade.                                      *)
LEMMA People ==
  ASSUME NEW list, NEW these, IsFiniteSet(these)
  PROVE  /\ Cardinality({list[i].insider : i \in these}) \in Nat
         /\ these = {} => Cardinality({list[i].insider : i \in these}) = 0
         /\ these # {} => Cardinality({list[i].insider : i \in these}) # 0
<1> DEFINE names == {list[i].insider : i \in these}
           f == [i \in these |-> list[i].insider]
<1>1. f \in Surjection(these, names)
  BY DEF Surjection
<1>2. IsFiniteSet(names)
  <2> HIDE DEF f, names
  <2>1. QED
    BY <1>1, FS_Surjection
<1>3. these = {} <=> names = {}
  OBVIOUS
<1>4. QED
  BY <1>2, <1>3, FS_EmptySet, FS_CardinalityType

(* One person is a quarter of full conviction.                             *)
LEMMA BreadthSign ==
  ASSUME NEW list, NEW buys, NEW sells, NEW sign, OneSided(list, buys, sells, sign),
         buys \union sells # {}
  PROVE  /\ Breadth(list, buys, sells) \in Reading
         /\ Breadth(list, buys, sells).measured
         /\ sign * Breadth(list, buys, sells).score >= 25
<1> DEFINE buyers == Cardinality({list[i].insider : i \in buys})
           sellers == Cardinality({list[i].insider : i \in sells})
           people == buyers + sellers
           most == Min({people, 4})
           score == Quotient(100 * (buyers - sellers) * most, 4 * people)
<1>1. /\ buyers \in Nat /\ sellers \in Nat /\ people # 0
      /\ sign = 1 => sellers = 0
      /\ sign = -1 => buyers = 0
      /\ sign \in {1, -1}
  <2>1. IsFiniteSet(buys) /\ IsFiniteSet(sells)
    BY FS_Subset DEF OneSided
  <2>2. QED
    BY <2>1, People DEF OneSided
<1>2. Breadth(list, buys, sells) = Reads(score)
  BY <1>1 DEF Breadth
<1> HIDE DEF buyers, sellers
<1>3. most \in Nat /\ most >= 1
  <2>1. \E x \in {people, 4} : \A y \in {people, 4} : x <= y
    BY <1>1
  <2>2. most \in {people, 4}
    BY <2>1 DEF Min
  <2>3. QED
    BY <1>1, <2>2
<1> HIDE DEF most
<1>4. 4 * people \in Nat \ {0} /\ 100 * (buyers - sellers) * most \in Int
  BY <1>1, <1>3
<1>5. CASE sign = 1
  <2>1. 100 * (buyers - sellers) * most >= 25 * (4 * people)
    <3>1. 100 * (buyers - sellers) = 100 * people /\ 100 * people \in Nat
      BY <1>1, <1>5
    <3>2. (100 * people) * most >= 100 * people
      BY <1>3, <3>1
    <3>3. 25 * (4 * people) = 100 * people
      BY <1>1
    <3>4. QED
      BY <3>1, <3>2, <3>3
  <2>2. score >= 25 /\ score \in Int
    BY <1>4, <2>1, QuotientBounds
  <2> HIDE DEF score
  <2>3. Reads(score) \in Reading /\ Reads(score).measured /\ Reads(score).score >= 25
    BY <2>2, ReadsSign
  <2>4. QED
    BY <1>2, <1>5, <2>3 DEF Reading
<1>6. CASE sign = -1
  <2>1. 100 * (buyers - sellers) * most <= -(25 * (4 * people))
    <3>1. 100 * (buyers - sellers) = -(100 * people) /\ 100 * people \in Nat
      BY <1>1, <1>6
    <3>2. (100 * people) * most >= 100 * people
      BY <1>3, <3>1
    <3>3. 25 * (4 * people) = 100 * people /\ (-(100 * people)) * most = -((100 * people) * most)
      BY <1>1, <1>3
    <3>4. QED
      BY <1>3, <3>1, <3>2, <3>3
  <2>2. score <= -25 /\ score \in Int
    BY <1>4, <2>1, QuotientBounds
  <2> HIDE DEF score
  <2>3. Reads(score) \in Reading /\ Reads(score).measured /\ Reads(score).score <= -25
    BY <2>2, ReadsSign
  <2>4. QED
    BY <1>2, <1>6, <2>3 DEF Reading
<1>7. QED
  BY <1>1, <1>5, <1>6

(* The legs of S_I.                                                        *)
InsiderLegs(list, buys, sells, scale) ==
  [net_flow  |-> Leg(NetFlow(list, buys, sells, scale), 60, NoCeiling),
   breadth   |-> Leg(Breadth(list, buys, sells), 25, NoCeiling),
   seniority |-> Leg(Seniority(list, buys, sells), 15, NoCeiling)]

(* Trades of one side only give S_I its sign.                              *)
LEMMA SidedSign ==
  ASSUME NEW list, NEW buys, NEW sells, NEW sign, OneSided(list, buys, sells, sign),
         buys \union sells # {}, NEW scale \in Nat \ {0}
  PROVE  LET mean == Combine(InsiderLegs(list, buys, sells, scale))
         IN  mean \in Reading /\ sign * mean.score > 0
<1> DEFINE legs == InsiderLegs(list, buys, sells, scale)
           names == {"net_flow", "breadth", "seniority"}
           flow == NetFlow(list, buys, sells, scale)
           breadth == Breadth(list, buys, sells)
           seniority == Seniority(list, buys, sells)
           free == Measurable(legs)
           weights == [l \in free |-> legs[l].weight]
<1>1. /\ flow \in Reading /\ sign * flow.score >= 0
      /\ breadth \in Reading /\ breadth.measured /\ sign * breadth.score >= 25
      /\ seniority \in Reading /\ sign * seniority.score >= 0
  BY NetFlowSign, BreadthSign, SenioritySign
<1>2. /\ DOMAIN legs = names
      /\ legs["net_flow"] = Leg(flow, 60, 100)
      /\ legs["breadth"] = Leg(breadth, 25, 100)
      /\ legs["seniority"] = Leg(seniority, 15, 100)
  BY DEF InsiderLegs, NoCeiling
<1> HIDE DEF legs, flow, breadth, seniority
<1>3. /\ \A l \in names : /\ legs[l].weight \in 1 .. 60 /\ legs[l].ceiling = 100
                          /\ legs[l].reading \in Reading
                          /\ sign * legs[l].reading.score >= 0
      /\ legs["breadth"].weight = 25 /\ legs["breadth"].reading = breadth
  <2>1. breadth.score \in Int /\ sign \in {1, -1}
    BY <1>1 DEF OneSided, Reading
  <2>2. sign * breadth.score >= 0
    BY <1>1, <2>1
  <2>3. QED
    BY <1>1, <1>2, <2>2 DEF Leg
<1>4. IsFiniteSet(names) /\ Cardinality(names) <= 3
  <2>1. /\ IsFiniteSet({"net_flow"}) /\ Cardinality({"net_flow"}) = 1
    BY FS_Singleton
  <2>2. /\ IsFiniteSet({"net_flow"} \union {"breadth"})
        /\ Cardinality({"net_flow"} \union {"breadth"}) <= 2
    BY <2>1, FS_AddElement
  <2>3. /\ IsFiniteSet(({"net_flow"} \union {"breadth"}) \union {"seniority"})
        /\ Cardinality(({"net_flow"} \union {"breadth"}) \union {"seniority"}) <= 3
    <3> DEFINE two == {"net_flow"} \union {"breadth"}
    <3>1. IsFiniteSet(two) /\ Cardinality(two) <= 2 /\ Cardinality(two) \in Nat
      BY <2>2, FS_CardinalityType
    <3> HIDE DEF two
    <3>2. IsFiniteSet(two \union {"seniority"}) /\ Cardinality(two \union {"seniority"}) <= 3
      BY <3>1, FS_AddElement
    <3>3. QED
      BY <3>2 DEF two
  <2>4. names = ({"net_flow"} \union {"breadth"}) \union {"seniority"}
    OBVIOUS
  <2> HIDE DEF names
  <2>5. QED
    BY <2>3, <2>4
<1>5. Unheld(legs)
  BY <1>2, <1>3, <1>4 DEF Unheld
<1>6. free \subseteq names /\ "breadth" \in free
  BY <1>1, <1>2, <1>3 DEF Measurable
<1>7. WeightOf(legs, free) <= 180 /\ WeightOf(legs, free) \in Int
  <2>1. weights \in [free -> Int] /\ \A l \in free : weights[l] <= 60
    BY <1>3, <1>6
  <2>2. IsFiniteSet(free) /\ Cardinality(free) \in Nat /\ Cardinality(free) <= 3
    <3> HIDE DEF names, free
    <3>1. Cardinality(names) \in Nat
      BY <1>4, FS_CardinalityType
    <3>2. IsFiniteSet(free) /\ Cardinality(free) <= Cardinality(names)
      BY <1>4, <1>6, FS_Subset
    <3>3. QED
      BY <1>4, <3>1, <3>2, FS_CardinalityType
  <2>3. WeightOf(legs, free) = SumFunction(weights)
    BY DEF WeightOf
  <2> HIDE DEF weights, free
  <2>4. SumFunction(weights) <= 60 * Cardinality(free) /\ SumFunction(weights) \in Int
    BY <2>1, <2>2, SumAtMost, SumType
  <2>5. QED
    BY <2>2, <2>3, <2>4
<1>8. sign * (legs["breadth"].weight * legs["breadth"].reading.score) >= WeightOf(legs, free)
  <2> DEFINE s == breadth.score
             w == WeightOf(legs, free)
  <2>1. s \in Int /\ sign \in {1, -1} /\ sign * s >= 25
    BY <1>1 DEF OneSided, Reading
  <2>2. legs["breadth"].weight * legs["breadth"].reading.score = 25 * s
    BY <1>3
  <2> HIDE DEF s, w
  <2>3. sign * (25 * s) >= 180
    BY <2>1
  <2>4. sign * (25 * s) \in Int
    BY <2>1
  <2>5. QED
    BY <1>7, <2>2, <2>3, <2>4 DEF s, w
<1>9. sign \in {1, -1} /\ \A l \in free : sign * legs[l].reading.score >= 0
  BY <1>3, <1>6 DEF OneSided
<1>10. Combine(legs) \in Reading /\ sign * Combine(legs).score > 0
  <2> HIDE DEF names
  <2>1. QED
    BY <1>5, <1>6, <1>8, <1>9, CombineSign
<1>11. QED
  BY <1>10 DEF legs

(* No trade gives none.                                                    *)
LEMMA NoTrades ==
  ASSUME NEW list, NEW scale
  PROVE  ~Combine(InsiderLegs(list, {}, {}, scale)).measured
<1> DEFINE legs == InsiderLegs(list, {}, {}, scale)
<1>1. NetFlow(list, {}, {}, scale) = NA
  <2>1. SumFunction([i \in {} \union {} |-> list[i].value]) = 0
    BY SumEmpty
  <2>2. QED
    BY <2>1 DEF NetFlow
<1>2. Breadth(list, {}, {}) = NA
  <2>1. Cardinality({list[i].insider : i \in {}}) = 0
    BY People, FS_EmptySet
  <2>2. QED
    BY <2>1 DEF Breadth
<1>3. Seniority(list, {}, {}) = NA
  <2>1. SumFunction([i \in {} |-> IF list[i].role \in Senior THEN list[i].value ELSE 0]) = 0
    BY SumEmpty
  <2>2. QED
    BY <2>1 DEF Seniority
<1>4. Measurable(legs) = {}
  BY <1>1, <1>2, <1>3 DEF Measurable, InsiderLegs, Leg, NA
<1>5. Combine(legs) = NA
  BY <1>4 DEF Combine
<1>6. QED
  BY <1>5, NAIsReading

(* What S_I counts is a trade that may count, in the window by one of its  *)
(* days.                                                                   *)
SourcesOf(list) == {list[i].source : i \in DOMAIN list}

LEMMA CountedMayCount ==
  ASSUME filings \in Seq(Form), today \in Nat, NEW list, Sourced(list)
  PROVE  /\ \A i \in Trades(list, "buy", today, InsiderWindow) :
              i \in Recent /\ MayBuy(i, SourcesOf(list))
         /\ \A i \in Trades(list, "sell", today, InsiderWindow) :
              i \in Recent /\ MaySell(i, SourcesOf(list))
<1>1. ASSUME NEW i \in DOMAIN list, InWindow(list[i], today, InsiderWindow)
      PROVE  i \in Recent
  <2>1. PICK day \in {filings[i].traded, filings[i].filed} : Says(list[i], i, day)
    BY DEF Sourced
  <2>2. today - day \in 0 .. InsiderWindow /\ i \in DOMAIN filings
    BY <1>1, <2>1 DEF InWindow, Says, FormTrade, RowTrade, Sourced
  <2>3. InsiderWindow \in Nat
    BY WorldAssumption
  <2>4. today - day <= InsiderWindow
    BY <2>2, <2>3
  <2>5. QED
    BY <2>1, <2>2, <2>4 DEF Recent
<1>2. ASSUME NEW i \in DOMAIN list
      PROVE  /\ Direction(list[i]) = "buy" => MayBuy(i, SourcesOf(list))
             /\ Direction(list[i]) = "sell" => MaySell(i, SourcesOf(list))
  <2>1. PICK day : Says(list[i], i, day)
    BY DEF Sourced
  <2>2. filings[i] \in Form
    BY DEF Sourced
  <2>3. CASE list[i] = FormTrade(filings[i], day)
    <3>1. /\ list[i].plan = filings[i].plan /\ list[i].code = filings[i].code
          /\ list[i].side = filings[i].side
      BY <2>3 DEF FormTrade
    <3>2. QED
      BY <2>2, <3>1 DEF Direction, MayBuy, MaySell, CountsAs, OwnBuy, OwnSell, Form
  <2>4. ASSUME NEW feed \in RowFeed, list[i] = RowTrade(feed, filings[i], day)
        PROVE  /\ Direction(list[i]) = "buy" => MayBuy(i, SourcesOf(list))
               /\ Direction(list[i]) = "sell" => MaySell(i, SourcesOf(list))
    <3>1. /\ list[i].source = feed /\ list[i].plan = FALSE
          /\ list[i].code = IF filings[i].told[feed] = "code" THEN filings[i].code ELSE "unknown"
          /\ list[i].side = IF filings[i].told[feed] = "letter" THEN LetterSide(filings[i])
                                                               ELSE "unsaid"
      BY <2>4 DEF RowTrade
    <3>2. feed \in SourcesOf(list) \intersect RowFeed
      BY <2>4, <3>1 DEF SourcesOf
    <3>3. filings[i].code \in {"P", "S", "mechanical", "unknown"}
      BY <2>2 DEF Form
    <3>4. /\ Direction(list[i]) = "buy" =>
               \/ filings[i].told[feed] = "code" /\ filings[i].code = "P"
               \/ filings[i].told[feed] = "letter" /\ LetterSide(filings[i]) = "buy"
          /\ Direction(list[i]) = "sell" =>
               \/ filings[i].told[feed] = "code" /\ filings[i].code = "S"
               \/ filings[i].told[feed] = "letter" /\ LetterSide(filings[i]) = "sell"
      BY <3>1, <3>3 DEF Direction
    <3>5. QED
      BY <3>2, <3>4 DEF MayBuy, MaySell, CountsAs
  <2>5. QED
    BY <2>1, <2>3, <2>4 DEF Says
<1>3. QED
  BY <1>1, <1>2 DEF Trades

(* S_I of what a provider gives rests on trades that may count, and has    *)
(* their sign where they are of one side.                                  *)
LEMMA ScoredOnTrades ==
  ASSUME filings \in Seq(Form), today \in Nat, NEW list, Sourced(list), NEW issuer,
         Insider(issuer, list, today, InsiderWindow, ValueScale).available
  PROVE  LET score == Insider(issuer, list, today, InsiderWindow, ValueScale).score
         IN  /\ \E i \in Recent : MayBuy(i, SourcesOf(list)) \/ MaySell(i, SourcesOf(list))
             /\ (\A i \in Recent : ~MaySell(i, SourcesOf(list))) => score > 0
             /\ (\A i \in Recent : ~MayBuy(i, SourcesOf(list))) => score < 0
<1> DEFINE buys == Trades(list, "buy", today, InsiderWindow)
           sells == Trades(list, "sell", today, InsiderWindow)
           mean == Combine(InsiderLegs(list, buys, sells, ValueScale))
           scored == Insider(issuer, list, today, InsiderWindow, ValueScale)
<1>1. scored = IF issuer THEN Component_(mean, "verified", "primary") ELSE NoComponent
  BY DEF Insider, InsiderLegs
<1>2. mean.measured /\ scored.score = mean.score
  <2> HIDE DEF mean
  <2>1. QED
    BY <1>1 DEF Component_, NoComponent
<1>3. ValueScale \in Nat \ {0}
  BY FilingsAssumption, WorldAssumption
<1>4. /\ \A i \in buys : i \in Recent /\ MayBuy(i, SourcesOf(list))
      /\ \A i \in sells : i \in Recent /\ MaySell(i, SourcesOf(list))
  BY CountedMayCount
<1>5. /\ IsFiniteSet(DOMAIN list) /\ buys \subseteq DOMAIN list /\ sells \subseteq DOMAIN list
      /\ \A i \in DOMAIN list : list[i].value \in Nat /\ list[i].role \in DOMAIN RoleWeight
  <2>1. IsFiniteSet(DOMAIN filings)
    <3>1. DOMAIN filings = 1 .. Len(filings) /\ Len(filings) \in Int
      OBVIOUS
    <3>2. QED
      BY <3>1, FS_Interval
  <2>2. IsFiniteSet(DOMAIN list)
    BY <2>1, FS_Subset DEF Sourced
  <2>3. ASSUME NEW i \in DOMAIN list
        PROVE  list[i].value \in Nat /\ list[i].role \in DOMAIN RoleWeight
    <3>1. PICK day : Says(list[i], i, day)
      BY DEF Sourced
    <3>2. filings[i].value \in Nat /\ filings[i].role \in DOMAIN RoleWeight
      BY DEF Sourced, Form
    <3>3. list[i].value = filings[i].value /\ list[i].role = filings[i].role
      BY <3>1 DEF Says, FormTrade, RowTrade
    <3>4. QED
      BY <3>2, <3>3
  <2>4. QED
    BY <2>2, <2>3 DEF Trades
<1>6. buys \union sells # {}
  <2>1. ASSUME buys = {}, sells = {} PROVE FALSE
    BY <1>2, <2>1, NoTrades
  <2>2. QED
    BY <2>1
<1> HIDE DEF buys, sells, scored
<1>7. ASSUME NEW sign, OneSided(list, buys, sells, sign)
      PROVE  mean.score \in Int /\ sign * mean.score > 0
  <2>1. mean \in Reading /\ sign * mean.score > 0
    BY <1>3, <1>6, <1>7, SidedSign
  <2> HIDE DEF mean
  <2>2. mean \in Reading
    BY <2>1
  <2>3. mean.score \in Int
    BY <2>2, ReadingScore
  <2>4. QED
    BY <2>1, <2>3
<1> HIDE DEF mean
<1>8. \E i \in Recent : MayBuy(i, SourcesOf(list)) \/ MaySell(i, SourcesOf(list))
  BY <1>4, <1>6
<1>9. ASSUME \A i \in Recent : ~MaySell(i, SourcesOf(list)) PROVE scored.score > 0
  <2>1. OneSided(list, buys, sells, 1)
    BY <1>4, <1>5, <1>9 DEF OneSided
  <2>2. QED
    BY <1>2, <1>7, <2>1
<1>10. ASSUME \A i \in Recent : ~MayBuy(i, SourcesOf(list)) PROVE scored.score < 0
  <2>1. OneSided(list, buys, sells, -1)
    BY <1>4, <1>5, <1>10 DEF OneSided
  <2>2. QED
    BY <1>2, <1>7, <2>1
<1>11. QED
  BY <1>8, <1>9, <1>10 DEF scored

-----------------------------------------------------------------------------
(* What a chain gives is what one of its providers says, or nothing.       *)
TradesOf(chain, reply) == FirstOf(chain, LAMBDA p : Insiders(p, reply))

(* What the chain gives is filed, whichever provider it comes from.        *)
LEMMA TradesSourced ==
  ASSUME filings \in Seq(Form), NEW reply,
         NEW chain \in Seq({"sec_edgar", "fmp", "alpha_vantage"})
  PROVE  Sourced(TradesOf(chain, reply))
<1> DEFINE some == {i \in DOMAIN chain : Insiders(chain[i], reply) # <<>>}
<1>1. CASE some = {}
  BY <1>1 DEF TradesOf, FirstOf, Sourced
<1>2. CASE some # {}
  <2>1. some \subseteq Nat
    OBVIOUS
  <2>2. Min(some) \in some
    <3> HIDE DEF some
    <3>1. QED
      BY <1>2, <2>1, LeastOf DEF Min
  <2>3. chain[Min(some)] \in {"sec_edgar", "fmp", "alpha_vantage"}
    BY <2>2
  <2>4. TradesOf(chain, reply) = Insiders(chain[Min(some)], reply)
    BY <1>2 DEF TradesOf, FirstOf
  <2> HIDE DEF some
  <2>5. QED
    BY <2>3, <2>4, FormsSourced, RowsSourced DEF Insiders, RowFeed
<1>3. QED
  BY <1>1, <1>2

(* Filings come while the day has no run, and a run scores those there are.*)
FilingsInv ==
  /\ setup \in DOMAIN Configs
  /\ today \in Nat
  /\ filings \in Seq(Form)
  /\ ~result.done => ~result.insider.available
  /\ InsidersAgree

(* There are no filings at first.                                          *)
LEMMA FilingsInit == Init => FilingsInv
BY DEF Init, FilingsInv, InsidersAgree, NoRun, NoComponent

(* Each filing is one that may be made, on a day with no run yet.          *)
LEMMA FileTradeStep ==
  ASSUME FilingsInv, NEW t \in Filings, FileTrade(t)
  PROVE  FilingsInv'
<1>1. ~result.insider.available
  BY DEF FileTrade, Open, FilingsInv
<1>2. filings' \in Seq(Form)
  <2>1. /\ FormTrade(t, 0) \in Transaction /\ t.lag \in Nat /\ today \in Nat
        /\ t.acquired \in BOOLEAN /\ t.told \in [RowFeed -> ToldAs]
    BY FilingsAssumption DEF FilingsInv
  <2>2. [traded |-> today - t.lag, filed |-> today, period |-> today - t.lag,
         insider |-> t.insider, role |-> t.role, code |-> t.code,
         plan |-> t.plan, side |-> t.side, acquired |-> t.acquired,
         told |-> t.told, value |-> t.value] \in Form
    <3>1. /\ t.insider \in STRING /\ t.role \in DOMAIN RoleWeight /\ t.plan \in BOOLEAN
          /\ t.code \in {"P", "S", "mechanical", "unknown"}
          /\ t.side \in {"buy", "sell", "unsaid"} /\ t.value \in Nat
      BY <2>1 DEF FormTrade, Transaction
    <3>2. QED
      BY <2>1, <3>1 DEF Form
  <2>3. QED
    BY <2>2 DEF FileTrade, FilingsInv
<1>3. QED
  BY <1>1, <1>2 DEF FileTrade, FilingsInv, InsidersAgree

(* A run scores what the chain gives of the filings there are.             *)
LEMMA RunStep ==
  ASSUME FilingsInv, NEW reply, NEW attention, Run(reply, attention)
  PROVE  FilingsInv'
<1> DEFINE trades == TradesOf(config.chains.insider, reply)
<1>1. /\ result'.done = TRUE
      /\ result'.insider = Insider(config.chains.issuer, trades, today, InsiderWindow, ValueScale)
      /\ result'.sources = SourcesOf(trades)
      /\ UNCHANGED <<setup, today, filings>>
  BY DEF Run, world, TradesOf, SourcesOf
<1>2. config.chains.insider \in Seq({"sec_edgar", "fmp", "alpha_vantage"})
  BY ConfigsAssumption DEF FilingsInv, config, Config, Range
<1>3. Sourced(trades)
  BY <1>2, TradesSourced DEF FilingsInv
<1> HIDE DEF trades
<1>4. InsidersAgree'
  <2>1. Recent' = Recent
    BY <1>1 DEF Recent
  <2>2. \A i \in Recent : \A sources :
          /\ MayBuy(i, sources)' <=> MayBuy(i, sources)
          /\ MaySell(i, sources)' <=> MaySell(i, sources)
    BY <1>1 DEF MayBuy, MaySell
  <2>3. QED
    BY <1>1, <1>3, <2>1, <2>2, ScoredOnTrades DEF InsidersAgree, FilingsInv
<1>5. QED
  BY <1>1, <1>4 DEF FilingsInv

(* The other actions leave the filings and S_I alone, or forget the run.   *)
LEMMA FilingsStep == FilingsInv /\ [Next]_vars => FilingsInv'
<1> SUFFICES ASSUME FilingsInv, [Next]_vars PROVE FilingsInv'
  OBVIOUS
<1>1. ASSUME UNCHANGED <<setup, today, filings, result>> PROVE FilingsInv'
  BY <1>1 DEF FilingsInv, InsidersAgree, Recent, MayBuy, MaySell
<1>2. ASSUME NEW v \in Values, Publish(v) PROVE FilingsInv'
  BY <1>1, <1>2 DEF Publish
<1>3. ASSUME NEW t \in Filings, FileTrade(t) PROVE FilingsInv'
  BY <1>3, FileTradeStep
<1>4. ASSUME NEW o \in Opinions, GiveOpinion(o) PROVE FilingsInv'
  BY <1>1, <1>4 DEF GiveOpinion
<1>5. ASSUME NEW s \in Stories, RunStory(s) PROVE FilingsInv'
  BY <1>1, <1>5 DEF RunStory
<1>6. ASSUME NEW d \in Disclosures, Disclose(d) PROVE FilingsInv'
  BY <1>1, <1>6 DEF Disclose
<1>7. ASSUME NEW r \in config.faults, NEW a \in Attention, Run(r, a) PROVE FilingsInv'
  BY <1>7, RunStep
<1>8. CASE NextDay
  BY <1>8 DEF NextDay, world, FilingsInv, InsidersAgree, NoRun, NoComponent
<1>9. CASE UNCHANGED vars
  BY <1>1, <1>9 DEF vars, world
<1>10. QED
  BY <1>2, <1>3, <1>4, <1>5, <1>6, <1>7, <1>8, <1>9 DEF Next

(* However many filings there are, whichever feeds fail and whatever they  *)
(* leave of the filings: S_I is scored only where, within the window, an   *)
(* insider made a trade that may count, and has their sign where all went  *)
(* one way.                                                                *)
THEOREM InsidersAreHeard == Spec => []InsidersAgree
<1>1. FilingsInv => InsidersAgree
  BY DEF FilingsInv
<1>2. QED
  BY <1>1, FilingsInit, FilingsStep, PTL DEF Spec

-----------------------------------------------------------------------------
(* S_S. What analysts say of a side is not outweighed by anybody else.     *)

(* Signals of which the fresh ones urge one side.                          *)
Fresh(signals) == {i \in DOMAIN signals : ~IsStale(signals[i].day, today, SignalAge)}
Urged(signals, sign) ==
  /\ IsFiniteSet(DOMAIN signals)
  /\ \A i \in Fresh(signals) :
       /\ ~Revision(signals[i]).measured
       /\ Rated(signals[i].rating) => sign * RatingScore[signals[i].rating] = 100
       /\ signals[i].target \in Nat
       /\ signals[i].target > 0 =>
            /\ sign = 1 => 4 * signals[i].target >= 5 * Spot
            /\ sign = -1 => 4 * signals[i].target <= 3 * Spot

(* Where the targets are that far from the spot, the upside is full.       *)
LEMMA UpsideSided ==
  ASSUME NEW signals, NEW sign \in {1, -1}, Urged(signals, sign), Spot \in Nat
  PROVE  LET upside == Upside(signals, Fresh(signals), Spot)
         IN  \/ upside = NA
             \/ upside \in Reading /\ upside.measured /\ sign * upside.score >= 100
<1> DEFINE targets == {i \in Fresh(signals) : signals[i].target > 0}
           n == Cardinality(targets)
           given == [i \in targets |-> signals[i].target]
           total == SumFunction(given)
           four == [i \in targets |-> 4 * given[i]]
           upside == Upside(signals, Fresh(signals), Spot)
<1>1. CASE targets = {} \/ Spot = 0
  BY <1>1 DEF Upside
<1>2. CASE targets # {} /\ Spot # 0
  <2>1. IsFiniteSet(targets)
    BY FS_Subset DEF Urged, Fresh
  <2>2. n \in Nat \ {0}
    BY <1>2, <2>1, FS_CardinalityType, FS_EmptySet
  <2>3. given \in [targets -> Int] /\ \A i \in targets : given[i] = signals[i].target
    BY DEF Urged
  <2>4. \A i \in targets : /\ sign = 1 => 4 * given[i] >= 5 * Spot
                           /\ sign = -1 => 4 * given[i] <= 3 * Spot
    BY <2>3 DEF Urged
  <2>5. upside = Reads(Quotient(400 * (total - n * Spot), n * Spot))
    BY <1>2 DEF Upside
  <2> HIDE DEF targets, given, n
  <2>6. total \in Int /\ SumFunction(four) = 4 * total /\ four \in [targets -> Int]
    BY <2>1, <2>3, SumScaled, SumType
  <2>7. sign * SumFunction(four) >= (IF sign = 1 THEN 5 * Spot ELSE -(3 * Spot)) * n
    <3> DEFINE c == IF sign = 1 THEN 5 * Spot ELSE -(3 * Spot)
    <3>1. c \in Int
      OBVIOUS
    <3>2. \A i \in targets : four[i] = 4 * given[i] /\ given[i] \in Int
      BY <2>3
    <3>3. \A i \in targets : sign * four[i] >= c
      BY <2>4, <3>2
    <3> HIDE DEF four, c
    <3>4. sign * SumFunction(four) >= c * Cardinality(targets)
      BY <2>1, <2>6, <3>1, <3>3, SumSided
    <3>5. QED
      BY <3>4 DEF c, n
  <2> HIDE DEF total, four
  <2>8. n * Spot \in Nat \ {0}
    BY <1>2, <2>2
  <2>9. sign * (400 * (total - n * Spot)) >= 100 * (n * Spot)
    <3> DEFINE y == n * Spot
    <3>1. y \in Nat
      BY <2>8
    <3>2. (5 * Spot) * n = 5 * y /\ (-(3 * Spot)) * n = -(3 * y)
      BY <2>2
    <3>3. sign * (4 * total) >= IF sign = 1 THEN 5 * y ELSE -(3 * y)
      BY <2>6, <2>7, <3>2
    <3> HIDE DEF y
    <3>4. sign * (400 * (total - y)) >= 100 * y
      BY <2>6, <3>1, <3>3
    <3>5. QED
      BY <3>4 DEF y
  <2>10. 400 * (total - n * Spot) \in Int
    BY <2>6, <2>8
  <2> HIDE DEF upside
  <2>11. QED
    <3> DEFINE x == 400 * (total - n * Spot)
               y == n * Spot
    <3>1. x \in Int /\ y \in Nat \ {0} /\ sign * x >= 100 * y /\ upside = Reads(Quotient(x, y))
      BY <2>5, <2>8, <2>9, <2>10
    <3>2. 100 \in 0 .. 100
      OBVIOUS
    <3> HIDE DEF x, y
    <3>3. upside \in Reading /\ upside.measured /\ sign * upside.score >= 100
      BY <3>1, <3>2, QuotientSided
    <3>4. QED
      BY <3>3 DEF upside
<1>3. QED
  BY <1>1, <1>2

(* The mean of ratings of one side.                                        *)
LEMMA RatingsSided ==
  ASSUME NEW signals, NEW sign \in {1, -1}, Urged(signals, sign)
  PROVE  LET rated == {i \in Fresh(signals) : Rated(signals[i].rating)}
             mean  == MeanOf([i \in rated |-> RatingScore[signals[i].rating]])
         IN  \/ mean = NA
             \/ mean \in Reading /\ mean.measured /\ sign * mean.score >= 100
<1> DEFINE rated == {i \in Fresh(signals) : Rated(signals[i].rating)}
           f == [i \in rated |-> RatingScore[signals[i].rating]]
<1>1. CASE rated = {}
  BY <1>1 DEF MeanOf
<1>2. CASE rated # {}
  <2>1. IsFiniteSet(rated)
    BY FS_Subset DEF Urged, Fresh
  <2>2. \A r \in DOMAIN RatingScore : RatingScore[r] \in Int
    BY DEF RatingScore
  <2>3. f \in [rated -> Int] /\ \A i \in rated : sign * f[i] >= 100
    BY <2>2 DEF Urged, Rated
  <2> HIDE DEF rated, f
  <2>4. MeanOf(f) \in Reading /\ MeanOf(f).measured /\ sign * MeanOf(f).score >= 100
    BY <1>2, <2>1, <2>3, MeanSided
  <2>5. QED
    BY <2>4 DEF rated, f
<1>3. QED
  BY <1>1, <1>2

(* The institutional leg: without ratings or targets it is n/a, and those  *)
(* of one side outweigh any news.                                          *)
LEMMA InstitutionalSided ==
  ASSUME NEW ratings, NEW upside, NEW news \in Reading, NEW sign \in {1, -1},
         ratings = NA \/ (ratings \in Reading /\ ratings.measured /\ sign * ratings.score >= 100),
         upside = NA \/ (upside \in Reading /\ upside.measured /\ sign * upside.score >= 100)
  PROVE  LET mean == Combine([ratings      |-> Leg(ratings, 35, NoCeiling),
                              revisions    |-> Leg(NA, 25, NoCeiling),
                              price_target |-> Leg(upside, 15, NoCeiling),
                              news         |-> Leg(news, 25, 25)])
         IN  \/ mean = NA
             \/ mean \in Reading /\ mean.measured /\ sign * mean.score >= 50
<1> DEFINE legs == [ratings      |-> Leg(ratings, 35, NoCeiling),
                    revisions    |-> Leg(NA, 25, NoCeiling),
                    price_target |-> Leg(upside, 15, NoCeiling),
                    news         |-> Leg(news, 25, 25)]
           names == {"ratings", "revisions", "price_target", "news"}
           M == Measurable(legs)
           H == M \intersect {"news"}
           base == M \ H
<1>1. /\ DOMAIN legs = names
      /\ legs["ratings"] = [reading |-> ratings, weight |-> 35, ceiling |-> 100]
      /\ legs["revisions"] = [reading |-> NA, weight |-> 25, ceiling |-> 100]
      /\ legs["price_target"] = [reading |-> upside, weight |-> 15, ceiling |-> 100]
      /\ legs["news"] = [reading |-> news, weight |-> 25, ceiling |-> 25]
  BY DEF Leg, NoCeiling
<1>2. M \subseteq {"ratings", "price_target", "news"} /\ base \subseteq {"ratings", "price_target"}
  BY <1>1, NAIsReading DEF Measurable
<1> HIDE DEF legs
<1>3. IsFiniteSet(names)
  <2>1. IsFiniteSet({"ratings"})
    BY FS_Singleton
  <2>2. IsFiniteSet({"ratings"} \union {"revisions"})
    BY <2>1, FS_AddElement
  <2>3. IsFiniteSet(({"ratings"} \union {"revisions"}) \union {"price_target"})
    BY <2>2, FS_AddElement
  <2>4. IsFiniteSet((({"ratings"} \union {"revisions"}) \union {"price_target"}) \union {"news"})
    BY <2>3, FS_AddElement
  <2>5. names = (({"ratings"} \union {"revisions"}) \union {"price_target"}) \union {"news"}
    OBVIOUS
  <2> HIDE DEF names
  <2>6. QED
    BY <2>4, <2>5
<1>4. Typed(legs)
  BY <1>1, <1>3, NAIsReading DEF Typed
<1>5. CASE base = {}
  <2>1. M \subseteq {"news"}
    BY <1>5
  <2> HIDE DEF names
  <2>2. Combine(legs) = NA
    BY <1>1, <1>4, <2>1, LoneCapped DEF Typed, names
  <2>3. QED
    BY <2>2 DEF legs
<1>6. CASE base # {}
  <2>1. \A l \in base : /\ legs[l].weight \in {35, 15} /\ legs[l].ceiling = 100
                        /\ legs[l].reading.score \in Int
                        /\ sign * legs[l].reading.score >= 100
    BY <1>1, <1>2, NAIsReading, ReadingScore DEF Measurable
  <2>2. IsFiniteSet(base) /\ IsFiniteSet(M) /\ base \subseteq M
    BY <1>1, <1>2, <1>3, FS_Subset
  <2> DEFINE w == [l \in base |-> legs[l].weight]
             all == [l \in M |-> legs[l].weight]
             s == [l \in base |-> legs[l].weight * legs[l].reading.score]
  <2>3. w \in [base -> Nat] /\ s \in [base -> Int] /\ w \in [base -> Int]
        /\ \A l \in base : w[l] <= 35 /\ sign * s[l] >= 100 * w[l]
    <3>1. ASSUME NEW l \in base
          PROVE  /\ legs[l].weight \in Nat /\ legs[l].weight <= 35
                 /\ legs[l].weight * legs[l].reading.score \in Int
                 /\ sign * (legs[l].weight * legs[l].reading.score) >= 100 * legs[l].weight
      BY <2>1
    <3>2. QED
      BY <3>1
  <2>4. WeightOf(legs, base) = SumFunction(w) /\ SharesOf(legs, base) = SumFunction(s)
    BY DEF WeightOf, SharesOf
  <2>5. WeightOf(legs, base) \in Nat /\ WeightOf(legs, base) <= 70
        /\ \A l \in base : WeightOf(legs, base) >= legs[l].weight
    <3>1. \A l \in base : w[l] = legs[l].weight
      OBVIOUS
    <3>2. Cardinality(base) \in Nat /\ Cardinality(base) <= 2
      <4>1. IsFiniteSet({"ratings"}) /\ Cardinality({"ratings"}) = 1
        BY FS_Singleton
      <4>2. /\ IsFiniteSet({"ratings"} \union {"price_target"})
            /\ Cardinality({"ratings"} \union {"price_target"}) <= 2
        BY <4>1, FS_AddElement
      <4>3. base \subseteq {"ratings"} \union {"price_target"}
        BY <1>2
      <4> HIDE DEF base
      <4>4. Cardinality(base) <= Cardinality({"ratings"} \union {"price_target"})
        BY <4>2, <4>3, FS_Subset
      <4>5. Cardinality({"ratings"} \union {"price_target"}) \in Nat /\ Cardinality(base) \in Nat
        BY <2>2, <4>2, FS_CardinalityType
      <4>6. QED
        BY <4>2, <4>4, <4>5
    <3> HIDE DEF base, w
    <3>3. SumFunction(w) \in Nat /\ \A l \in base : SumFunction(w) >= w[l]
      BY <2>2, <2>3, SumAtLeast
    <3>4. SumFunction(w) <= 35 * Cardinality(base)
      BY <2>2, <2>3, SumAtMost
    <3>5. QED
      BY <2>4, <3>1, <3>2, <3>3, <3>4
  <2>6. sign * SharesOf(legs, base) >= 100 * WeightOf(legs, base)
    <3> HIDE DEF base, w, s
    <3>1. QED
      BY <2>2, <2>3, <2>4, SumsSided
  <2>7. ASSUME NEW l \in base, NEW cap \in {0, 25}, NEW W \in Nat, W >= legs[l].weight
         PROVE  ~(legs[l].weight * (100 - cap) > legs[l].ceiling * W)
    <3> DEFINE k == legs[l].weight
    <3>1. k \in {35, 15} /\ legs[l].ceiling = 100 /\ W >= k
      BY <2>1, <2>7
    <3> HIDE DEF k
    <3>2. ~(k * (100 - cap) > 100 * W)
      BY <3>1
    <3>3. QED
      BY <3>1, <3>2 DEF k
  <2>8. CeilingOf(legs, {}) = 0
    BY SumEmpty DEF CeilingOf
  <2>9. Over(legs, {}) = H /\ CeilingOf(legs, H) \in {0, 25}
    <3>1. CASE "news" \notin M
      <4>1. H = {} /\ base = M /\ M \ {} = M
        BY <3>1
      <4>2. \A l \in M : ~(legs[l].weight * (100 - 0) > legs[l].ceiling * WeightOf(legs, M))
        BY <2>5, <2>7, <4>1
      <4>3. Over(legs, {}) = {}
        BY <2>8, <4>1, <4>2 DEF Over
      <4>4. QED
        BY <2>8, <4>1, <4>3
    <3>2. CASE "news" \in M
      <4>1. H = {"news"} /\ M \ {"news"} = base /\ M \ {} = M
        BY <3>2
      <4>2. WeightOf(legs, M) = 25 + WeightOf(legs, base)
        <5>1. all \in [M -> Int] /\ all["news"] = 25
          BY <1>1, <1>2, <2>1, <3>2
        <5>2. [l \in base |-> all[l]] = w
          BY <2>2
        <5> HIDE DEF all, M, base
        <5>3. SumFunction(all) = all["news"] + SumFunction([l \in M \ {"news"} |-> all[l]])
          BY <2>2, <3>2, <5>1, SumOut
        <5>4. QED
          BY <2>4, <4>1, <5>1, <5>2, <5>3 DEF WeightOf, all
      <4>3. \A l \in base : ~(legs[l].weight * (100 - 0) > legs[l].ceiling * WeightOf(legs, M))
        <5> DEFINE some == WeightOf(legs, base)
                   every == WeightOf(legs, M)
        <5>1. some \in Nat /\ every = 25 + some
          BY <2>5, <4>2
        <5> SUFFICES ASSUME NEW l \in base
                     PROVE  ~(legs[l].weight * (100 - 0) > legs[l].ceiling * every)
          OBVIOUS
        <5>2. some >= legs[l].weight /\ legs[l].weight \in Nat
          BY <2>1, <2>5
        <5> HIDE DEF some, every, base, M
        <5>3. every \in Nat /\ every >= legs[l].weight
          BY <5>1, <5>2
        <5>4. QED
          BY <2>7, <5>3
      <4>4. legs["news"].weight * (100 - 0) > legs["news"].ceiling * WeightOf(legs, M)
        BY <1>1, <2>5, <4>2
      <4>5. Over(legs, {}) = {"news"}
        BY <2>8, <3>2, <4>1, <4>3, <4>4 DEF Over
      <4>6. CeilingOf(legs, {"news"}) = 25
        <5> DEFINE c == [l \in {"news"} |-> legs[l].ceiling]
        <5>1. c \in [{"news"} -> Int] /\ c["news"] = 25
          BY <1>1
        <5> HIDE DEF c
        <5>2. SumFunction(c) = c["news"]
          BY <5>1, SumOfOne
        <5>3. QED
          BY <5>1, <5>2 DEF CeilingOf, c
      <4>7. QED
        BY <4>1, <4>5, <4>6
    <3>3. QED
      BY <3>1, <3>2
  <2>10. Over(legs, H) = {}
    <3>1. \A l \in base : ~(legs[l].weight * (100 - CeilingOf(legs, H))
                               > legs[l].ceiling * WeightOf(legs, base))
      BY <2>5, <2>9, <2>7
    <3>2. QED
      BY <3>1 DEF Over
  <2> HIDE DEF H, base
  <2>11. Held(legs) = H
    BY <1>1, <1>3, <2>9, <2>10, HeldStays
  <2>12. H \in SUBSET DOMAIN legs /\ base = Measurable(legs) \ H
    BY <1>1, <1>2 DEF H, base
  <2>13. Combine(legs) \in Reading /\ Combine(legs).measured /\ sign * Combine(legs).score >= 50
    <3> DEFINE cap == CeilingOf(legs, H)
               c == 100
               d == 50
    <3>1. sign * SharesOf(legs, base) >= c * WeightOf(legs, base)
      BY <2>6
    <3>2. c \in 0 .. 100 /\ d \in 0 .. 100 /\ cap <= 100
          /\ (100 - cap) * c - 100 * cap >= 100 * d
      BY <2>9
    <3> HIDE DEF cap, c, d, M, names, w, all, s
    <3>3. Combine(legs) \in Reading /\ Combine(legs).measured /\ sign * Combine(legs).score >= d
      BY <1>4, <1>6, <2>11, <2>12, <3>1, <3>2, CombineSided DEF cap
    <3>4. QED
      BY <3>3 DEF d
  <2>14. QED
    BY <2>13 DEF legs
<1>7. QED
  BY <1>5, <1>6

(* What analysts who urge one side give, whatever the news are.            *)
LEMMA InstitutionSided ==
  ASSUME NEW signals, NEW news \in Reading, NEW sign \in {1, -1}, Urged(signals, sign),
         Spot \in Nat
  PROVE  LET mean == Institutional(signals, news, Spot, today, SignalAge)
         IN  \/ mean = NA
             \/ mean \in Reading /\ mean.measured /\ sign * mean.score >= 50
<1> DEFINE fresh == Fresh(signals)
           rated == {i \in fresh : Rated(signals[i].rating)}
           moved == {i \in fresh : Revision(signals[i]).measured}
           ratings == MeanOf([i \in rated |-> RatingScore[signals[i].rating]])
           revisions == MeanOf([i \in moved |-> Revision(signals[i]).score])
           upside == Upside(signals, fresh, Spot)
           mean == Combine([ratings      |-> Leg(ratings, 35, NoCeiling),
                            revisions    |-> Leg(NA, 25, NoCeiling),
                            price_target |-> Leg(upside, 15, NoCeiling),
                            news         |-> Leg(news, 25, 25)])
<1>1. revisions = NA
  <2>1. moved = {}
    BY DEF Urged
  <2>2. QED
    BY <2>1 DEF MeanOf
<1>2. Institutional(signals, news, Spot, today, SignalAge) = mean
  BY <1>1 DEF Institutional, Fresh
<1>3. /\ ratings = NA \/ (ratings \in Reading /\ ratings.measured /\ sign * ratings.score >= 100)
      /\ upside = NA \/ (upside \in Reading /\ upside.measured /\ sign * upside.score >= 100)
  BY RatingsSided, UpsideSided
<1> HIDE DEF ratings, upside
<1>4. mean = NA \/ (mean \in Reading /\ mean.measured /\ sign * mean.score >= 50)
  BY <1>3, InstitutionalSided
<1>5. QED
  BY <1>2, <1>4

(* With no fresh signal, news alone are nothing.                           *)
LEMMA NoAnalysts ==
  ASSUME NEW signals, IsFiniteSet(DOMAIN signals), Fresh(signals) = {}, NEW news \in Reading,
         Spot \in Nat
  PROVE  Institutional(signals, news, Spot, today, SignalAge) = NA
<1> DEFINE mean == Institutional(signals, news, Spot, today, SignalAge)
<1>1. Urged(signals, 1) /\ Urged(signals, -1)
  BY DEF Urged
<1>2. /\ mean = NA \/ (mean \in Reading /\ 1 * mean.score >= 50)
      /\ mean = NA \/ (mean \in Reading /\ (-1) * mean.score >= 50)
  BY <1>1, InstitutionSided
<1> HIDE DEF mean
<1>3. mean \in Reading => mean.score \in Int
  BY ReadingScore
<1>4. mean = NA
  BY <1>2, <1>3
<1>5. QED
  BY <1>4 DEF mean

(* S_S rests on analysts: retail traders alone are nothing, and neither    *)
(* they nor Congress turn its sign.                                        *)
LEMMA SentimentSided ==
  ASSUME NEW institutional, NEW issuer \in BOOLEAN, NEW retail \in Reading,
         NEW political \in Reading, NEW sign \in {1, -1},
         \/ institutional = NA
         \/ /\ institutional \in Reading /\ institutional.measured
            /\ sign * institutional.score >= 50,
         Sentiment(issuer, institutional, retail, political).available
  PROVE  /\ issuer /\ institutional # NA
         /\ Sentiment(issuer, institutional, retail, political).score \in Int
         /\ sign * Sentiment(issuer, institutional, retail, political).score > 0
<1> DEFINE analysts == IF issuer THEN institutional ELSE NA
           legs == [institutional  |-> Leg(analysts, 80, NoCeiling),
                    executive_tone |-> Leg(NA, 0, NoCeiling),
                    retail         |-> Leg(retail, 20, 20)]
           names == {"institutional", "executive_tone", "retail"}
           base == Combine(legs)
           status == IF analysts.measured /\ retail.measured THEN "verified" ELSE "partial"
           scored == Sentiment(issuer, institutional, retail, political)
<1>1. /\ DOMAIN legs = names
      /\ legs["institutional"] = [reading |-> analysts, weight |-> 80, ceiling |-> 100]
      /\ legs["executive_tone"] = [reading |-> NA, weight |-> 0, ceiling |-> 100]
      /\ legs["retail"] = [reading |-> retail, weight |-> 20, ceiling |-> 20]
  BY DEF Leg, NoCeiling
<1>2. scored = Component_(Overlay(base, political), status, "aggregator")
  BY DEF Sentiment
<1> HIDE DEF legs
<1>3. IsFiniteSet(names)
  <2>1. IsFiniteSet({"institutional"})
    BY FS_Singleton
  <2>2. IsFiniteSet({"institutional"} \union {"executive_tone"})
    BY <2>1, FS_AddElement
  <2>3. IsFiniteSet(({"institutional"} \union {"executive_tone"}) \union {"retail"})
    BY <2>2, FS_AddElement
  <2>4. names = ({"institutional"} \union {"executive_tone"}) \union {"retail"}
    OBVIOUS
  <2> HIDE DEF names
  <2>5. QED
    BY <2>3, <2>4
<1>4. base.measured /\ scored.score = Overlay(base, political).score
  <2> HIDE DEF base, status
  <2>1. Overlay(base, political).measured /\ scored.score = Overlay(base, political).score
    BY <1>2 DEF Component_, NoComponent
  <2>2. QED
    BY <2>1 DEF Overlay
<1>5. ASSUME analysts = NA PROVE FALSE
  <2>1. Measurable(legs) \subseteq {"retail"}
    BY <1>1, <1>5, NAIsReading DEF Measurable
  <2>2. "retail" \in DOMAIN legs /\ legs["retail"].weight \in Nat \ {0}
        /\ legs["retail"].ceiling \in 0 .. 99
    BY <1>1
  <2> HIDE DEF names
  <2>3. base = NA
    BY <1>1, <1>3, <2>1, <2>2, LoneCapped
  <2> HIDE DEF base
  <2>4. QED
    BY <1>4, <2>3, NAIsReading
<1>6. /\ issuer /\ institutional # NA /\ analysts = institutional
      /\ analysts \in Reading /\ analysts.measured /\ sign * analysts.score >= 50
  BY <1>5
<1> HIDE DEF analysts
<1>7. Typed(legs)
  BY <1>1, <1>3, <1>6, NAIsReading DEF Typed
<1> DEFINE M == Measurable(legs)
           weights == [l \in M |-> legs[l].weight]
           shares == [l \in M |-> legs[l].weight * legs[l].reading.score]
<1>8. M = IF retail.measured THEN {"institutional", "retail"} ELSE {"institutional"}
  BY <1>1, <1>6, NAIsReading DEF Measurable
<1>9. /\ analysts.score \in -100 .. 100 /\ retail.score \in -100 .. 100
  BY <1>6 DEF Reading
<1>10. /\ WeightOf(legs, M) \in {80, 100}
       /\ SharesOf(legs, M) \in Int
       /\ sign * SharesOf(legs, M) >= 20 * WeightOf(legs, M)
  <2>1. /\ weights \in [M -> Int] /\ weights["institutional"] = 80
        /\ shares \in [M -> Int] /\ shares["institutional"] = 80 * analysts.score
        /\ retail.measured => weights["retail"] = 20 /\ shares["retail"] = 20 * retail.score
    BY <1>1, <1>8, <1>9
  <2>2. WeightOf(legs, M) = SumFunction(weights) /\ SharesOf(legs, M) = SumFunction(shares)
    BY DEF WeightOf, SharesOf
  <2> HIDE DEF M, weights, shares
  <2>3. CASE ~retail.measured
    <3>1. SumFunction(weights) = 80 /\ SumFunction(shares) = 80 * analysts.score
      BY <1>8, <2>1, <2>3, SumOfOne
    <3>2. QED
      BY <1>6, <1>9, <2>2, <3>1
  <2>4. CASE retail.measured
    <3>1. weights \in [{"institutional", "retail"} -> Int]
          /\ shares \in [{"institutional", "retail"} -> Int]
      BY <1>8, <2>1, <2>4
    <3>2. /\ SumFunction(weights) = weights["institutional"] + weights["retail"]
          /\ SumFunction(shares) = shares["institutional"] + shares["retail"]
      BY <3>1, SumOfTwo
    <3>3. SumFunction(weights) = 100
          /\ SumFunction(shares) = 80 * analysts.score + 20 * retail.score
      BY <2>1, <2>4, <3>2
    <3> DEFINE a == analysts.score
               r == retail.score
               W == WeightOf(legs, M)
               F == SharesOf(legs, M)
    <3>4. W = 100 /\ F = 80 * a + 20 * r /\ a \in Int /\ r \in -100 .. 100 /\ sign * a >= 50
      BY <1>6, <1>9, <2>2, <3>3
    <3> HIDE DEF a, r, W, F
    <3>5. sign * (80 * a + 20 * r) >= 2000
      BY <3>4
    <3>6. W \in {80, 100} /\ F \in Int /\ sign * F >= 20 * W
      BY <3>4, <3>5
    <3>7. QED
      BY <3>6 DEF W, F
  <2>5. QED
    BY <2>3, <2>4
<1>11. Held(legs) = {} /\ CeilingOf(legs, {}) = 0 /\ M \ {} = M
  <2>1. CeilingOf(legs, {}) = 0
    BY SumEmpty DEF CeilingOf
  <2>2. retail.measured => WeightOf(legs, M) = 100
    <3>1. CASE ~retail.measured
      BY <3>1
    <3>2. CASE retail.measured
      <4>1. M = {"institutional", "retail"} /\ weights["institutional"] = 80
            /\ weights["retail"] = 20 /\ weights \in [{"institutional", "retail"} -> Int]
        BY <1>1, <1>8, <3>2
      <4> HIDE DEF weights
      <4>2. SumFunction(weights) = 100
        BY <4>1, SumOfTwo
      <4>3. QED
        BY <4>2 DEF WeightOf, weights
    <3>3. QED
      BY <3>1, <3>2
  <2> DEFINE w == WeightOf(legs, M)
  <2>3. w \in {80, 100} /\ (retail.measured => w = 100)
    BY <1>10, <2>2
  <2> HIDE DEF w
  <2>4. ~(80 * (100 - 0) > 100 * w)
    BY <2>3
  <2>5. retail.measured => ~(20 * (100 - 0) > 20 * w)
    BY <2>3
  <2>6. \A l \in M : ~(legs[l].weight * (100 - 0) > legs[l].ceiling * w)
    <3>1. \A l \in M : l = "institutional" \/ (l = "retail" /\ retail.measured)
      BY <1>8
    <3>2. QED
      BY <1>1, <2>4, <2>5, <3>1
  <2>7. M \ {} = M
    OBVIOUS
  <2>8. Over(legs, {}) = {}
    BY <2>1, <2>6, <2>7 DEF Over, w
  <2>9. Held(legs) = {}
    BY <1>1, <1>3, <2>8, HeldStays
  <2>10. QED
    BY <2>1, <2>7, <2>9
<1>12. base \in Reading /\ sign * base.score >= 20
  <2> DEFINE H == {}
             free == M
             c == 20
             cap == CeilingOf(legs, H)
  <2>1. /\ H \in SUBSET DOMAIN legs /\ Held(legs) = H /\ free = Measurable(legs) \ H
        /\ free # {} /\ sign * SharesOf(legs, free) >= c * WeightOf(legs, free)
    BY <1>8, <1>10, <1>11
  <2> HIDE DEF H, free, M, names, cap
  <2>2. c \in 0 .. 100 /\ (100 - cap) * c - 100 * cap >= 100 * c /\ cap <= 100
    BY <1>11 DEF cap, H
  <2> HIDE DEF c
  <2>3. Combine(legs) \in Reading /\ sign * Combine(legs).score >= c
    BY <1>7, <2>1, <2>2, CombineSided DEF cap
  <2>4. QED
    BY <2>3 DEF c
<1> HIDE DEF base
<1>13. base.score \in -100 .. 100 /\ political.score \in -100 .. 100
  BY <1>12 DEF Reading
<1>14. CASE ~political.measured
  <2>1. Overlay(base, political) = base
    BY <1>14 DEF Overlay
  <2>2. QED
    BY <1>4, <1>6, <1>12, <1>13, <2>1
<1>15. CASE political.measured
  <2> DEFINE shift == Quotient(5 * political.score, 100)
             x == base.score + shift
  <2>1. shift \in -5 .. 5
    BY <1>13 DEF Quotient
  <2>2. Overlay(base, political) = Reads(x)
    BY <1>4, <1>15 DEF Overlay
  <2> HIDE DEF shift
  <2>3. x \in Int /\ sign * x >= 15
    BY <1>12, <1>13, <2>1
  <2> HIDE DEF x
  <2>4. Reads(x).score \in Int /\ (x >= 15 => Reads(x).score >= 15)
        /\ (x <= -15 => Reads(x).score <= -15)
    <3>1. 15 \in -100 .. 100 /\ -15 \in -100 .. 100
      OBVIOUS
    <3>2. QED
      BY <2>3, <3>1, ReadsSign, ReadingScore
  <2>5. sign * Reads(x).score > 0
    BY <2>3, <2>4
  <2>6. QED
    BY <1>4, <1>6, <2>2, <2>4, <2>5
<1>16. QED
  BY <1>14, <1>15

(* The greatest of two or three integers, and the least of two.            *)
LEMMA Greatest ==
  ASSUME NEW a \in Int, NEW b \in Int, NEW c \in Int
  PROVE  /\ Max({a, b}) \in {a, b} /\ Max({a, b}) >= a /\ Max({a, b}) >= b
         /\ Max({a, b, c}) \in {a, b, c} /\ Max({a, b, c}) >= c
         /\ Min({a, b}) \in {a, b} /\ Min({a, b}) <= a /\ Min({a, b}) <= b
<1>1. \E x \in {a, b} : \A y \in {a, b} : x >= y
  BY a >= b \/ b >= a
<1>2. \E x \in {a, b, c} : \A y \in {a, b, c} : x >= y
  BY \/ (a >= b /\ a >= c) \/ (b >= a /\ b >= c) \/ (c >= a /\ c >= b)
<1>3. \E x \in {a, b} : \A y \in {a, b} : x <= y
  BY a <= b \/ b <= a
<1>4. QED
  BY <1>1, <1>2, <1>3 DEF Max, Min

(* What news say is a reading.                                             *)
LEMMA NewsReading ==
  ASSUME NEW articles, IsFiniteSet(DOMAIN articles),
         \A i \in DOMAIN articles : articles[i].tone \in Reading,
         NEW day, NEW baseline
  PROVE  News(articles, day, baseline) \in Reading
<1> DEFINE scored == {i \in Unique(articles) : articles[i].tone.measured}
           recent == {i \in scored : articles[i].day >= day}
           earlier == {i \in scored : articles[i].day \in day - baseline + 1 .. day - 1}
           Tone(these) == MeanOf([i \in these |-> articles[i].tone.score])
<1>1. scored \subseteq DOMAIN articles
  BY DEF Unique
<1>2. ASSUME NEW these \in SUBSET DOMAIN articles PROVE Tone(these).score \in Int
  <2>1. IsFiniteSet(these)
    BY FS_Subset
  <2> DEFINE f == [i \in these |-> articles[i].tone.score]
  <2>2. f \in [these -> Int]
    BY ReadingScore
  <2> HIDE DEF f
  <2>3. MeanOf(f) \in Reading
    BY <2>1, <2>2, MeanReading
  <2>4. MeanOf(f).score \in Int
    BY <2>3, ReadingScore
  <2>5. QED
    BY <2>4 DEF f
<1>3. Tone(recent).score \in Int /\ Tone(earlier).score \in Int
  <2> HIDE DEF scored, Tone
  <2>1. recent \in SUBSET DOMAIN articles /\ earlier \in SUBSET DOMAIN articles
    BY <1>1
  <2> HIDE DEF recent, earlier
  <2>2. QED
    BY <1>2, <2>1
<1>4. \/ News(articles, day, baseline) = NA
      \/ News(articles, day, baseline) = Reads(2 * (Tone(recent).score - Tone(earlier).score))
  BY DEF News
<1> HIDE DEF recent, earlier, Tone
<1>5. 2 * (Tone(recent).score - Tone(earlier).score) \in Int
  BY <1>3
<1>6. QED
  BY <1>4, <1>5, NAIsReading, ReadsSign

(* So is what the attention of retail traders says.                        *)
LEMMA RetailReading ==
  ASSUME NEW snapshots, DOMAIN snapshots \subseteq Nat,
         \A i \in DOMAIN snapshots : snapshots[i].mentions \in Nat /\ snapshots[i].prior \in Int
  PROVE  Retail(snapshots) \in Reading
<1>1. CASE DOMAIN snapshots = {}
  BY <1>1, NAIsReading DEF Retail
<1>2. CASE DOMAIN snapshots # {}
  <2> DEFINE one == snapshots[Min(DOMAIN snapshots)]
             now == one.mentions
             prior == one.prior
             most == Max({now, prior, 10})
  <2>1. Min(DOMAIN snapshots) \in DOMAIN snapshots
    BY <1>2, LeastOf DEF Min
  <2>2. now \in Int /\ prior \in Int
    BY <2>1
  <2>3. Retail(snapshots) = NA \/ Retail(snapshots) = Reads(Quotient(100 * (now - prior), most))
    BY <1>2 DEF Retail
  <2> HIDE DEF now, prior
  <2>4. most \in Nat \ {0}
    <3>1. 10 \in Int
      OBVIOUS
    <3>2. most \in {now, prior, 10} /\ most >= 10
      BY <2>2, <3>1, Greatest
    <3> HIDE DEF most
    <3>3. QED
      BY <2>2, <3>2
  <2> HIDE DEF most
  <2>5. 100 * (now - prior) \in Int
    BY <2>2
  <2>6. Quotient(100 * (now - prior), most) \in Int
    BY <2>4, <2>5, QuotientBounds
  <2>7. QED
    BY <2>3, <2>6, NAIsReading, ReadsSign
<1>3. QED
  BY <1>1, <1>2

(* And what Congress trades.                                               *)
Disclosed == [about : STRING, day : Int, dated : BOOLEAN, disclosed : Int,
              kind : STRING, amount : Nat, link : STRING]

(* A disclosure never weighs less than nothing.                            *)
LEMMA TradeWeightIsNatural ==
  ASSUME NEW t \in Disclosed, NEW day \in Int, NEW past \in Nat, NEW lag \in Nat \ {0}
  PROVE  TradeWeight(t, day, past, lag) \in Nat
<1> DEFINE age == day - t.day
           late == Max({0, t.disclosed - t.day})
           delay == Min({lag, late})
           share == (100 * (lag - delay)) \div lag
           timely == IF t.dated THEN Max({10, share}) ELSE 25
<1>1. t.day \in Int /\ t.disclosed \in Int /\ t.amount \in Nat
  BY DEF Disclosed
<1>2. late \in Int
  <2>1. 0 \in Int /\ t.disclosed - t.day \in Int
    BY <1>1
  <2>2. QED
    BY <2>1, Greatest
<1> HIDE DEF late
<1>3. delay \in Int
  <2>1. lag \in Int
    OBVIOUS
  <2>2. delay \in {lag, late}
    BY <1>2, <2>1, Greatest
  <2>3. QED
    BY <1>2, <2>1, <2>2
<1> HIDE DEF delay
<1>4. share \in Int
  BY <1>3
<1> HIDE DEF share
<1>5. timely \in Nat
  <2>1. 10 \in Int
    OBVIOUS
  <2>2. Max({10, share}) \in {10, share} /\ Max({10, share}) >= 10
    BY <1>4, <2>1, Greatest
  <2>3. QED
    BY <1>4, <2>2
<1> HIDE DEF timely
<1>6. TradeWeight(t, day, past, lag) =
        IF age \in 0 .. past THEN (past - age) * timely * t.amount ELSE 0
  BY DEF TradeWeight, timely, share, delay, late
<1>7. ASSUME age \in 0 .. past PROVE (past - age) * timely * t.amount \in Nat
  <2> DEFINE rest == past - age
             a == t.amount
  <2>1. rest \in Nat /\ a \in Nat
    BY <1>1, <1>7
  <2> HIDE DEF rest, a
  <2>2. rest * timely \in Nat
    BY <1>5, <2>1
  <2>3. rest * timely * a \in Nat
    BY <2>1, <2>2
  <2>4. QED
    BY <2>3 DEF rest, a
<1>8. QED
  BY <1>6, <1>7

(* The net flow of disclosures is a reading, or n/a.                       *)
LEMMA PoliticalReading ==
  ASSUME NEW trades, IsFiniteSet(DOMAIN trades), \A i \in DOMAIN trades : trades[i] \in Disclosed,
         NEW day \in Int, NEW past \in Nat, NEW lag \in Nat \ {0}
  PROVE  PoliticalFlow(trades, day, past, lag) \in Reading
<1> DEFINE Side(i) == CASE trades[i].kind = "purchase" -> 1
                        [] trades[i].kind = "sale"     -> -1
                        [] OTHER                       -> 0
           Weight(i) == TradeWeight(trades[i], day, past, lag)
           scored == {i \in DOMAIN trades : Side(i) # 0 /\ Weight(i) > 0}
           weights == [i \in scored |-> Weight(i)]
           flows == [i \in scored |-> Side(i) * Weight(i)]
<1>1. \A i \in DOMAIN trades : Weight(i) \in Nat /\ Side(i) \in {1, -1, 0}
  <2>1. \A i \in DOMAIN trades : Side(i) \in {1, -1, 0}
    OBVIOUS
  <2>2. \A i \in DOMAIN trades : Weight(i) \in Nat
    BY TradeWeightIsNatural
  <2>3. QED
    BY <2>1, <2>2
<1>2. /\ PoliticalFlow(trades, day, past, lag) =
           IF scored = {} THEN NA
           ELSE Reads(Quotient(100 * SumFunction(flows), SumFunction(weights)))
  BY DEF PoliticalFlow
<1> HIDE DEF Side, Weight
<1>3. CASE scored = {}
  BY <1>2, <1>3, NAIsReading
<1>4. CASE scored # {}
  <2>1. IsFiniteSet(scored) /\ \A i \in scored : i \in DOMAIN trades /\ Weight(i) > 0
    BY FS_Subset
  <2>2. weights \in [scored -> Nat] /\ flows \in [scored -> Int]
        /\ \A i \in scored : weights[i] > 0
    <3>1. ASSUME NEW i \in scored PROVE Weight(i) \in Nat /\ Side(i) * Weight(i) \in Int
      <4>1. Weight(i) \in Nat /\ Side(i) \in {1, -1, 0}
        BY <1>1, <2>1
      <4>2. QED
        BY <4>1
    <3>2. QED
      BY <2>1, <3>1
  <2> HIDE DEF scored, weights, flows
  <2>3. SumFunction(flows) \in Int /\ SumFunction(weights) \in Nat
        /\ \A i \in scored : SumFunction(weights) >= weights[i] /\ weights[i] \in Nat
    BY <2>1, <2>2, SumType, SumAtLeast
  <2>4. SumFunction(weights) \in Nat \ {0}
    BY <1>4, <2>2, <2>3
  <2>5. 100 * SumFunction(flows) \in Int
    BY <2>3
  <2>6. Quotient(100 * SumFunction(flows), SumFunction(weights)) \in Int
    BY <2>4, <2>5, QuotientBounds
  <2>7. QED
    BY <1>2, <1>4, <2>6, ReadsSign
<1>5. QED
  BY <1>3, <1>4

(* What is said by whoever speaks up.                                      *)
Opinion == [date : Nat, rating : STRING, target : Nat, about : {"ticker"}]
Story   == [date : Nat, keys : SUBSET STRING, tone : Reading, about : STRING]
Report  == [traded : Int, disclosed : Int, about : STRING, kind : STRING, amount : Nat,
            link : STRING]
Row     == Report \union {[r EXCEPT !.traded = v] : r \in Report, v \in {Absent, Unreadable}}
Rows    == UNION {[S -> Row] : S \in {T \in SUBSET Nat : IsFiniteSet(T)}}
Answer  == [day : Nat, rows : Rows]

(* Lists together are finite where each is, and hold what they hold.       *)
LEMMA TogetherIs ==
  ASSUME NEW lists, IsFiniteSet(DOMAIN lists),
         \A k \in DOMAIN lists : IsFiniteSet(DOMAIN lists[k])
  PROVE  /\ IsFiniteSet(DOMAIN Together(lists))
         /\ \A p \in DOMAIN Together(lists) :
              /\ p[1] \in DOMAIN lists /\ p[2] \in DOMAIN lists[p[1]]
              /\ Together(lists)[p] = lists[p[1]][p[2]]
<1> DEFINE f == [k \in DOMAIN lists |-> {k} \X DOMAIN lists[k]]
           parts == {{k} \X DOMAIN lists[k] : k \in DOMAIN lists}
<1>1. f \in Surjection(DOMAIN lists, parts)
  BY DEF Surjection
<1>2. ASSUME NEW k \in DOMAIN lists PROVE IsFiniteSet({k} \X DOMAIN lists[k])
  <2>1. IsFiniteSet({k}) /\ IsFiniteSet(DOMAIN lists[k])
    BY FS_Singleton
  <2>2. QED
    BY <2>1, FS_Product
<1>3. \A T \in parts : IsFiniteSet(T)
  BY <1>2
<1>4. IsFiniteSet(UNION parts)
  <2> HIDE DEF f, parts
  <2>1. IsFiniteSet(parts)
    BY <1>1, FS_Surjection
  <2>2. QED
    BY <1>3, <2>1, FS_UNION
<1>5. DOMAIN Together(lists) = UNION parts
  BY DEF Together
<1>6. ASSUME NEW p \in UNION parts
      PROVE  /\ p[1] \in DOMAIN lists /\ p[2] \in DOMAIN lists[p[1]]
             /\ Together(lists)[p] = lists[p[1]][p[2]]
  BY DEF Together
<1>7. QED
  BY <1>4, <1>5, <1>6

-----------------------------------------------------------------------------
(* Signals.  Each repeats an opinion, or part of it, and the one that does *)
(* not carry the day of its opinion repeats the last.                      *)
Repeats(s, i) ==
  \E day, rating, target :
    /\ s = Signal(day, rating, target)
    /\ rating \in {opinions[i].rating, "none"} /\ target \in {opinions[i].target, 0}
    /\ i = Len(opinions) \/ day = opinions[i].date

Spoken(signals) ==
  /\ IsFiniteSet(DOMAIN signals)
  /\ \A s \in DOMAIN signals : \E i \in DOMAIN opinions : Repeats(signals[s], i)

(* A feed that says nothing says nothing wrong.                            *)
LEMMA NothingSpoken == Spoken(<<>>)
  BY FS_EmptySet DEF Spoken

(* Opinions are finitely many, each of its type.                           *)
LEMMA OpinionsFinite ==
  ASSUME opinions \in Seq(Opinion)
  PROVE  /\ IsFiniteSet(DOMAIN opinions) /\ \A s \in SUBSET DOMAIN opinions : IsFiniteSet(s)
         /\ \A i \in DOMAIN opinions : opinions[i] \in Opinion
<1>1. DOMAIN opinions = 1 .. Len(opinions) /\ Len(opinions) \in Int
  OBVIOUS
<1>2. IsFiniteSet(DOMAIN opinions)
  BY <1>1, FS_Interval
<1>3. QED
  BY <1>2, FS_Subset

(* FMP's consensus is of the opinion that stands.                          *)
Consensus == [i \in DOMAIN Standing |-> [Standing[i] EXCEPT !.date = Absent]]

(* Whatever the fault of the feed, its row is that of the last opinion.    *)
LEMMA StandingIsLast ==
  ASSUME opinions \in Seq(Opinion), NEW reply, NEW feed
  PROVE  LET rows == Marred(reply, feed, Consensus, "date")
         IN  /\ DOMAIN rows \subseteq DOMAIN opinions
             /\ \A i \in DOMAIN rows :
                  /\ i = Len(opinions)
                  /\ rows[i].rating = opinions[i].rating /\ rows[i].target = opinions[i].target
<1> DEFINE rows == Marred(reply, feed, Consensus, "date")
<1>1. /\ DOMAIN Consensus \subseteq DOMAIN opinions
      /\ \A i \in DOMAIN Consensus : /\ i = Len(opinions)
                                     /\ Consensus[i] = [opinions[i] EXCEPT !.date = Absent]
  BY DEF Consensus, Standing, LastOf, Restrict
<1>2. Consensus = [i \in DOMAIN Consensus |-> Consensus[i]]
  BY DEF Consensus
<1>3. /\ DOMAIN rows = DOMAIN Consensus
      /\ \A i \in DOMAIN Consensus :
           \/ rows[i] = Consensus[i]
           \/ \E v \in {Absent, Unreadable} : rows[i] = [Consensus[i] EXCEPT !["date"] = v]
  BY <1>2, MarredRows
<1> HIDE DEF rows
<1>4. ASSUME NEW i \in DOMAIN rows
      PROVE  rows[i].rating = opinions[i].rating /\ rows[i].target = opinions[i].target
  <2>1. opinions[i] \in Opinion /\ Consensus[i] = [opinions[i] EXCEPT !.date = Absent]
    BY <1>1, <1>3
  <2>2. /\ Consensus[i].rating = opinions[i].rating /\ Consensus[i].target = opinions[i].target
        /\ DOMAIN Consensus[i] = {"date", "rating", "target", "about"}
    BY <2>1 DEF Opinion
  <2>3. QED
    BY <1>3, <2>2
<1>5. QED
  BY <1>1, <1>3, <1>4 DEF rows

(* Both of FMP's feeds repeat it, the rating or the target.                *)
LEMMA ConsensusSpoken ==
  ASSUME opinions \in Seq(Opinion), NEW reply, NEW feed, NEW body
  PROVE  LET rows == Marred(reply, feed, Consensus, "date")
         IN  /\ Spoken(Items(GradesConsensus(body, rows, today)))
             /\ Spoken(Items(PriceTargetConsensus(body, rows, today)))
<1> DEFINE rows == Marred(reply, feed, Consensus, "date")
           grades == GradesConsensus(body, rows, today)
           targets == PriceTargetConsensus(body, rows, today)
<1>1. /\ DOMAIN rows \subseteq DOMAIN opinions
      /\ \A i \in DOMAIN rows :
           /\ i = Len(opinions)
           /\ rows[i].rating = opinions[i].rating /\ rows[i].target = opinions[i].target
  BY StandingIsLast
<1>2. \A s \in SUBSET DOMAIN opinions : IsFiniteSet(s)
  BY OpinionsFinite
<1> HIDE DEF rows
<1>3. grades = Rejected
      \/ /\ DOMAIN grades \subseteq DOMAIN rows
         /\ \A i \in DOMAIN grades :
              grades[i] = Signal(DayOf(rows[i].date, today), rows[i].rating, 0)
  BY DEF GradesConsensus, Normalized, RestrictValues, Restrict
<1>4. targets = Rejected
      \/ /\ DOMAIN targets \subseteq DOMAIN rows
         /\ \A i \in DOMAIN targets :
              targets[i] = Signal(DayOf(rows[i].date, today), "none", rows[i].target)
  BY DEF PriceTargetConsensus, Normalized, RestrictValues, Restrict
<1> HIDE DEF grades, targets
<1>5. ASSUME NEW list, DOMAIN list \subseteq DOMAIN rows,
             \A i \in DOMAIN list : \E day :
               \/ list[i] = Signal(day, rows[i].rating, 0)
               \/ list[i] = Signal(day, "none", rows[i].target)
      PROVE  Spoken(list)
  <2>1. \A i \in DOMAIN list : Repeats(list[i], i) /\ i \in DOMAIN opinions
    BY <1>1, <1>5 DEF Repeats
  <2>2. IsFiniteSet(DOMAIN list)
    BY <1>1, <1>2, <1>5
  <2>3. QED
    BY <2>1, <2>2 DEF Spoken
<1>6. Spoken(Items(grades))
  BY <1>3, <1>5, NothingSpoken DEF Items
<1>7. Spoken(Items(targets))
  BY <1>4, <1>5, NothingSpoken DEF Items
<1>8. QED
  BY <1>6, <1>7 DEF rows, grades, targets

(* Finnhub's rows are dated, each to its opinion.                          *)
LEMMA TrendsSpoken ==
  ASSUME opinions \in Seq(Opinion), NEW reply, NEW feed, NEW body
  PROVE  Spoken(Items(RecommendationTrends(body, Marred(reply, feed, opinions, "date"))))
<1> DEFINE rows == Marred(reply, feed, opinions, "date")
           trends == RecommendationTrends(body, rows)
<1>1. /\ DOMAIN rows = DOMAIN opinions
      /\ \A i \in DOMAIN opinions :
           \/ rows[i] = opinions[i]
           \/ \E v \in {Absent, Unreadable} : rows[i] = [opinions[i] EXCEPT !["date"] = v]
  <2>1. opinions = [i \in DOMAIN opinions |-> opinions[i]]
    OBVIOUS
  <2>2. QED
    BY <2>1, MarredRows
<1> HIDE DEF rows
<1>2. trends = Rejected
      \/ /\ DOMAIN trends \subseteq DOMAIN rows
         /\ \A i \in DOMAIN trends : /\ rows[i].date \notin {Absent, Unreadable}
                                     /\ trends[i] = Signal(rows[i].date, rows[i].rating, 0)
  BY DEF RecommendationTrends, Normalized, RestrictValues, Restrict
<1> HIDE DEF trends
<1>3. CASE trends = Rejected
  BY <1>3, NothingSpoken DEF Items, trends, rows
<1>4. CASE trends # Rejected
  <2>1. ASSUME NEW i \in DOMAIN trends PROVE i \in DOMAIN opinions /\ Repeats(trends[i], i)
    <3>1. /\ i \in DOMAIN opinions /\ opinions[i] \in Opinion
          /\ rows[i].date \notin {Absent, Unreadable}
          /\ trends[i] = Signal(rows[i].date, rows[i].rating, 0)
      BY <1>1, <1>2, <1>4, OpinionsFinite
    <3>2. \A v : [opinions[i] EXCEPT !["date"] = v].date = v
      BY <3>1 DEF Opinion
    <3>3. rows[i] = opinions[i]
      BY <1>1, <3>1, <3>2
    <3>4. QED
      BY <3>1, <3>3 DEF Repeats
  <2>2. IsFiniteSet(DOMAIN trends)
    BY <1>1, <1>2, <1>4, OpinionsFinite
  <2>3. Spoken(trends)
    BY <2>1, <2>2 DEF Spoken
  <2>4. QED
    BY <1>4, <2>3 DEF Items, trends, rows
<1>5. QED
  BY <1>3, <1>4

(* Either provider repeats opinions, and nothing else.                     *)
LEMMA AnalystsSpoken ==
  ASSUME opinions \in Seq(Opinion), NEW provider, NEW reply
  PROVE  Spoken(Analysts(provider, reply))
<1> DEFINE grades == GradesConsensus(BodyOf(reply, "fmp_grades", "root"),
                       Marred(reply, "fmp_grades", Consensus, "date"), today)
           targets == PriceTargetConsensus(BodyOf(reply, "fmp_targets", "root"),
                        Marred(reply, "fmp_targets", Consensus, "date"), today)
           trends == RecommendationTrends(BodyOf(reply, "finnhub_trends", "root"),
                       Marred(reply, "finnhub_trends", opinions, "date"))
           both == <<Items(grades), Items(targets)>>
<1>1. Spoken(Items(grades)) /\ Spoken(Items(targets)) /\ Spoken(Items(trends))
  BY ConsensusSpoken, TrendsSpoken
<1>2. Analysts(provider, reply) = IF provider = "fmp" THEN Together(both) ELSE Items(trends)
  BY DEF Analysts, Consensus
<1> HIDE DEF grades, targets, trends
<1>3. Spoken(Together(both))
  <2>1. DOMAIN both = 1 .. 2 /\ \A k \in DOMAIN both : Spoken(both[k])
    BY <1>1
  <2> HIDE DEF both
  <2>2. IsFiniteSet(DOMAIN both) /\ \A k \in DOMAIN both : IsFiniteSet(DOMAIN both[k])
    <3>1. 1 \in Int /\ 2 \in Int
      OBVIOUS
    <3>2. IsFiniteSet(1 .. 2)
      BY <3>1, FS_Interval
    <3>3. QED
      BY <2>1, <3>2 DEF Spoken
  <2>3. /\ IsFiniteSet(DOMAIN Together(both))
        /\ \A p \in DOMAIN Together(both) :
             /\ p[1] \in DOMAIN both /\ p[2] \in DOMAIN both[p[1]]
             /\ Together(both)[p] = both[p[1]][p[2]]
    BY <2>2, TogetherIs
  <2>4. \A p \in DOMAIN Together(both) :
          \E i \in DOMAIN opinions : Repeats(Together(both)[p], i)
    BY <2>1, <2>3 DEF Spoken
  <2>5. QED
    BY <2>3, <2>4 DEF Spoken
<1>4. QED
  BY <1>1, <1>2, <1>3

(* A fresh signal is a voice that is heard.                                *)
LEMMA FreshIsVoice ==
  ASSUME NEW signals, Spoken(signals), opinions \in Seq(Opinion), today \in Nat,
         NEW s \in Fresh(signals)
  PROVE  \E i \in Voices : Repeats(signals[s], i)
<1>1. s \in DOMAIN signals /\ ~IsStale(signals[s].day, today, SignalAge)
  BY DEF Fresh
<1>2. PICK i \in DOMAIN opinions : Repeats(signals[s], i)
  BY <1>1 DEF Spoken
<1>3. PICK day, rating, target :
        /\ signals[s] = Signal(day, rating, target)
        /\ i = Len(opinions) \/ day = opinions[i].date
  BY <1>2 DEF Repeats
<1>4. i = Len(opinions) \/ today - opinions[i].date <= SignalAge
  <2>1. CASE i = Len(opinions)
    BY <2>1
  <2>2. CASE i # Len(opinions)
    <3>1. signals[s].day = opinions[i].date
      BY <1>3, <2>2 DEF Signal
    <3>2. opinions[i].date \in Int /\ today \in Int /\ SignalAge \in Int
      BY OpinionsFinite, WorldAssumption DEF Opinion
    <3>3. ~(today - opinions[i].date > SignalAge)
      BY <1>1, <3>1 DEF IsStale
    <3>4. QED
      BY <3>2, <3>3
  <2>3. QED
    BY <2>1, <2>2
<1>5. i \in Voices
  BY <1>4 DEF Voices
<1>6. QED
  BY <1>2, <1>5

(* A signal that repeats who urges one side urges it.                      *)
LEMMA RepeatsUrge ==
  ASSUME opinions \in Seq(Opinion), NEW i \in DOMAIN opinions, NEW s, Repeats(s, i),
         NEW sign \in {1, -1}, Spot \in Nat,
         sign = 1 => UrgesBuying(opinions[i]), sign = -1 => UrgesSelling(opinions[i])
  PROVE  /\ ~Revision(s).measured
         /\ Rated(s.rating) => sign * RatingScore[s.rating] = 100
         /\ s.target \in Nat
         /\ s.target > 0 => /\ sign = 1 => 4 * s.target >= 5 * Spot
                            /\ sign = -1 => 4 * s.target <= 3 * Spot
<1>1. PICK day, rating, target :
        /\ s = Signal(day, rating, target)
        /\ rating \in {opinions[i].rating, "none"} /\ target \in {opinions[i].target, 0}
  BY DEF Repeats
<1>2. /\ s.rating = rating /\ s.target = target /\ s.previous = "none"
      /\ s.previousTarget = 0 /\ s.action = "standing"
  BY <1>1 DEF Signal
<1>3. ~Rated("none") /\ RatingScore["strong_buy"] = 100 /\ RatingScore["sell"] = -100
  BY DEF Rated, RatingScore
<1>4. ~Revision(s).measured
  BY <1>2, <1>3, NAIsReading DEF Revision
<1>5. opinions[i].target \in Nat
  BY OpinionsFinite DEF Opinion
<1>6. CASE sign = 1
  <2>1. opinions[i].rating = "strong_buy" /\ 4 * opinions[i].target >= 5 * Spot
    BY <1>6 DEF UrgesBuying
  <2>2. Rated(rating) => RatingScore[rating] = 100
    BY <1>1, <1>3, <2>1
  <2>3. target \in Nat /\ (target > 0 => 4 * target >= 5 * Spot)
    BY <1>1, <1>5, <2>1
  <2>4. QED
    BY <1>2, <1>4, <1>6, <2>2, <2>3
<1>7. CASE sign = -1
  <2>1. opinions[i].rating = "sell" /\ 4 * opinions[i].target <= 3 * Spot
    BY <1>7 DEF UrgesSelling
  <2>2. Rated(rating) => RatingScore[rating] = -100
    BY <1>1, <1>3, <2>1
  <2>3. target \in Nat /\ (target > 0 => 4 * target <= 3 * Spot)
    BY <1>1, <1>5, <2>1
  <2>4. QED
    BY <1>2, <1>4, <1>7, <2>2, <2>3
<1>8. QED
  BY <1>6, <1>7

(* S_S of what analysts say rests on those who are heard.                  *)
LEMMA ScoredOnVoices ==
  ASSUME opinions \in Seq(Opinion), today \in Nat, NEW signals, Spoken(signals),
         NEW news \in Reading, NEW retail \in Reading, NEW political \in Reading,
         NEW issuer \in BOOLEAN,
         Sentiment(issuer, Institutional(signals, news, Spot, today, SignalAge),
                   retail, political).available
  PROVE  LET score == Sentiment(issuer, Institutional(signals, news, Spot, today, SignalAge),
                                retail, political).score
         IN  /\ Voices # {} /\ issuer
             /\ (\A i \in Voices : UrgesBuying(opinions[i])) => score > 0
             /\ (\A i \in Voices : UrgesSelling(opinions[i])) => score < 0
<1> DEFINE analysts == Institutional(signals, news, Spot, today, SignalAge)
           scored == Sentiment(issuer, analysts, retail, political)
<1>1. Spot \in Nat
  BY WorldAssumption
<1>2. ASSUME NEW sign \in {1, -1}, Urged(signals, sign)
      PROVE  scored.score \in Int /\ sign * scored.score > 0
  <2>1. \/ analysts = NA
        \/ analysts \in Reading /\ analysts.measured /\ sign * analysts.score >= 50
    BY <1>1, <1>2, InstitutionSided
  <2> HIDE DEF analysts
  <2>2. scored.available
    BY DEF analysts
  <2>3. QED
    BY <2>1, <2>2, SentimentSided
<1>3. Voices # {}
  <2> SUFFICES ASSUME Voices = {} PROVE FALSE
    OBVIOUS
  <2>1. Fresh(signals) = {}
    BY FreshIsVoice
  <2>2. analysts = NA
    BY <1>1, <2>1, NoAnalysts DEF Spoken
  <2> HIDE DEF analysts
  <2>3. scored.available /\ 1 \in {1, -1}
    BY DEF analysts
  <2>4. analysts # NA
    BY <2>2, <2>3, SentimentSided
  <2>5. QED
    BY <2>2, <2>4
<1>4. issuer
  <2> SUFFICES ASSUME ~issuer PROVE FALSE
    OBVIOUS
  <2>1. scored = Sentiment(issuer, NA, retail, political)
    BY DEF Sentiment
  <2>2. Sentiment(issuer, NA, retail, political).available /\ 1 \in {1, -1}
    BY <2>1
  <2> HIDE DEF scored, analysts
  <2>3. issuer
    BY <2>2, SentimentSided
  <2>4. QED
    BY <2>3
<1>5. ASSUME NEW sign \in {1, -1},
             sign = 1 => \A i \in Voices : UrgesBuying(opinions[i]),
             sign = -1 => \A i \in Voices : UrgesSelling(opinions[i])
      PROVE  Urged(signals, sign)
  <2>1. ASSUME NEW s \in Fresh(signals)
        PROVE  /\ ~Revision(signals[s]).measured
               /\ Rated(signals[s].rating) => sign * RatingScore[signals[s].rating] = 100
               /\ signals[s].target \in Nat
               /\ signals[s].target > 0 =>
                    /\ sign = 1 => 4 * signals[s].target >= 5 * Spot
                    /\ sign = -1 => 4 * signals[s].target <= 3 * Spot
    <3>1. PICK i \in Voices : Repeats(signals[s], i)
      BY FreshIsVoice
    <3>2. i \in DOMAIN opinions
      BY DEF Voices
    <3>3. sign = 1 => UrgesBuying(opinions[i])
      BY <1>5
    <3>4. sign = -1 => UrgesSelling(opinions[i])
      BY <1>5
    <3>5. QED
      BY <1>1, <3>1, <3>2, <3>3, <3>4, RepeatsUrge
  <2>2. QED
    BY <2>1 DEF Urged, Spoken
<1>6. ASSUME \A i \in Voices : UrgesBuying(opinions[i]) PROVE scored.score > 0
  <2>1. Urged(signals, 1)
    BY <1>5, <1>6
  <2> HIDE DEF scored
  <2>2. scored.score \in Int /\ 1 * scored.score > 0
    BY <1>2, <2>1
  <2>3. QED
    BY <2>2
<1>7. ASSUME \A i \in Voices : UrgesSelling(opinions[i]) PROVE scored.score < 0
  <2>1. Urged(signals, -1)
    BY <1>5, <1>7
  <2> HIDE DEF scored
  <2>2. scored.score \in Int /\ (-1) * scored.score > 0
    BY <1>2, <2>1
  <2>3. QED
    BY <2>2
<1>8. QED
  BY <1>3, <1>4, <1>6, <1>7

(* What newspapers say: each article has the tone of a story.              *)
Telling(articles) ==
  /\ IsFiniteSet(DOMAIN articles)
  /\ \A i \in DOMAIN articles : articles[i].tone \in Reading

(* Whatever the provider and its fault, the tones are those of stories.    *)
LEMMA NewspapersTelling ==
  ASSUME stories \in Seq(Story), NEW provider \in {"alpha_vantage", "fmp", "finnhub"}, NEW reply
  PROVE  Telling(Newspapers(provider, reply))
<1>1. ASSUME NEW feed
      PROVE  LET rows == Marred(reply, feed, stories, "date")
             IN  /\ IsFiniteSet(DOMAIN rows) /\ \A s \in SUBSET DOMAIN rows : IsFiniteSet(s)
                 /\ \A i \in DOMAIN rows : rows[i].tone \in Reading
  <2> DEFINE rows == Marred(reply, feed, stories, "date")
  <2>1. stories = [i \in DOMAIN stories |-> stories[i]]
    OBVIOUS
  <2>2. /\ DOMAIN rows = DOMAIN stories
        /\ \A i \in DOMAIN stories :
             \/ rows[i] = stories[i]
             \/ \E v \in {Absent, Unreadable} : rows[i] = [stories[i] EXCEPT !["date"] = v]
    BY <2>1, MarredRows
  <2> HIDE DEF rows
  <2>3. DOMAIN stories = 1 .. Len(stories) /\ Len(stories) \in Int
    OBVIOUS
  <2>4. IsFiniteSet(DOMAIN stories)
    BY <2>3, FS_Interval
  <2>5. ASSUME NEW i \in DOMAIN stories PROVE rows[i].tone \in Reading
    <3>1. stories[i] \in Story
      OBVIOUS
    <3>2. \A v : [stories[i] EXCEPT !["date"] = v].tone = stories[i].tone
      BY <3>1 DEF Story
    <3>3. rows[i].tone = stories[i].tone /\ stories[i].tone \in Reading
      BY <2>2, <3>1, <3>2 DEF Story
    <3>4. QED
      BY <3>3
  <2>6. QED
    BY <2>2, <2>4, <2>5, FS_Subset DEF rows
<1>2. ASSUME NEW rows, NEW list, \A s \in SUBSET DOMAIN rows : IsFiniteSet(s),
             \A i \in DOMAIN rows : rows[i].tone \in Reading,
             \/ list = Rejected
             \/ /\ DOMAIN list \subseteq DOMAIN rows
                /\ \A i \in DOMAIN list : list[i] = Article(rows[i], today)
      PROVE  Telling(Items(list))
  <2>1. Telling(<<>>)
    BY FS_EmptySet DEF Telling
  <2>2. CASE list = Rejected
    BY <2>1, <2>2 DEF Items
  <2>3. CASE list # Rejected
    BY <1>2, <2>3 DEF Items, Telling, Article
  <2>4. QED
    BY <2>2, <2>3
<1>3. ASSUME NEW body, NEW rows
      PROVE  LET av == AlphaVantageNews(body, rows, today)
                 fmp == FmpNews(body, rows, today)
                 finnhub == FinnhubNews(body, rows, today)
             IN  \A list \in {av, fmp, finnhub} :
                   \/ list = Rejected
                   \/ /\ DOMAIN list \subseteq DOMAIN rows
                      /\ \A i \in DOMAIN list : list[i] = Article(rows[i], today)
  BY DEF AlphaVantageNews, FmpNews, FinnhubNews, Normalized, RestrictValues, Restrict
<1>4. ASSUME NEW feed, NEW body
      PROVE  LET rows == Marred(reply, feed, stories, "date")
             IN  \A list \in {AlphaVantageNews(body, rows, today), FmpNews(body, rows, today),
                              FinnhubNews(body, rows, today)} : Telling(Items(list))
  <2> DEFINE rows == Marred(reply, feed, stories, "date")
  <2>1. /\ \A s \in SUBSET DOMAIN rows : IsFiniteSet(s)
        /\ \A i \in DOMAIN rows : rows[i].tone \in Reading
    BY <1>1
  <2> HIDE DEF rows
  <2>2. QED
    BY <1>2, <1>3, <2>1 DEF rows
<1>5. QED
  BY <1>4 DEF Newspapers

-----------------------------------------------------------------------------
(* What Congress discloses.                                                *)
Disclosing(trades) ==
  /\ IsFiniteSet(DOMAIN trades)
  /\ \A p \in DOMAIN trades : trades[p] \in Disclosed

(* The rows of an answer are finitely many, each a report or one marred.   *)
LEMMA RowsAre ==
  ASSUME NEW rows \in Rows
  PROVE  /\ IsFiniteSet(DOMAIN rows) /\ \A s \in SUBSET DOMAIN rows : IsFiniteSet(s)
         /\ \A i \in DOMAIN rows : rows[i] \in Row
<1>1. PICK S \in {T \in SUBSET Nat : IsFiniteSet(T)} : rows \in [S -> Row]
  BY DEF Rows
<1>2. QED
  BY <1>1, FS_Subset

(* Rows that are not rejected read as disclosures, all with their days.    *)
LEMMA CongressReads ==
  ASSUME NEW rows \in Rows, NEW body
  PROVE  Disclosing(Items(CongressTrades(body, rows)))
<1> DEFINE list == CongressTrades(body, rows)
           Item(r) == [about |-> r.about, day |-> r.traded, dated |-> r.disclosed # Absent,
                       disclosed |-> DayOf(r.disclosed, r.traded), kind |-> r.kind,
                       amount |-> r.amount, link |-> r.link]
<1>1. \/ list = Rejected
      \/ /\ DOMAIN list \subseteq DOMAIN rows
         /\ \A i \in DOMAIN list : /\ rows[i].traded \notin {Absent, Unreadable}
                                   /\ list[i] = Item(rows[i])
  BY DEF CongressTrades, Normalized, RestrictValues, Restrict
<1>2. ASSUME NEW r \in Row, r.traded \notin {Absent, Unreadable} PROVE Item(r) \in Disclosed
  <2>1. r \in Report
    <3>1. ASSUME NEW q \in Report, NEW v \in {Absent, Unreadable}, r = [q EXCEPT !.traded = v]
          PROVE  FALSE
      BY <1>2, <3>1 DEF Report
    <3>2. QED
      BY <3>1 DEF Row
  <2>2. DayOf(r.disclosed, r.traded) \in Int
    BY <2>1 DEF Report, DayOf
  <2>3. QED
    BY <2>1, <2>2 DEF Report, Disclosed
<1> HIDE DEF list, Item
<1>3. CASE list = Rejected
  BY <1>3, FS_EmptySet DEF Items, Disclosing, list
<1>4. CASE list # Rejected
  <2>1. DOMAIN list \subseteq DOMAIN rows /\ IsFiniteSet(DOMAIN list)
        /\ \A i \in DOMAIN list : list[i] \in Disclosed
    BY <1>1, <1>2, <1>4, RowsAre
  <2>2. QED
    BY <1>4, <2>1 DEF Items, Disclosing, list
<1>5. QED
  BY <1>3, <1>4

(* Congress answers with rows of reports.                                  *)
LEMMA CongressRowsAre ==
  ASSUME disclosures \in Seq(Report), NEW reply
  PROVE  CongressRows(reply) \in Rows
<1> DEFINE rows == CongressRows(reply)
<1>1. Latest = [i \in DOMAIN Latest |-> Latest[i]] /\ DOMAIN Latest \subseteq DOMAIN disclosures
      /\ \A i \in DOMAIN Latest : Latest[i] = disclosures[i]
  BY DEF Latest, LastOf, Restrict
<1>2. /\ DOMAIN rows = DOMAIN Latest
      /\ \A i \in DOMAIN Latest :
           \/ rows[i] = Latest[i]
           \/ \E v \in {Absent, Unreadable} : rows[i] = [Latest[i] EXCEPT !["traded"] = v]
  BY <1>1, MarredRows DEF CongressRows
<1>3. rows = [i \in DOMAIN rows |-> rows[i]]
  BY <1>1 DEF CongressRows, Marred
<1> HIDE DEF rows
<1>4. DOMAIN disclosures = 1 .. Len(disclosures) /\ Len(disclosures) \in Int
  OBVIOUS
<1>5. IsFiniteSet(DOMAIN disclosures) /\ DOMAIN disclosures \subseteq Nat
  BY <1>4, FS_Interval
<1>6. IsFiniteSet(DOMAIN rows) /\ DOMAIN rows \in SUBSET Nat
  BY <1>1, <1>2, <1>5, FS_Subset
<1>7. ASSUME NEW i \in DOMAIN rows PROVE rows[i] \in Row
  <2>1. Latest[i] \in Report
    BY <1>1, <1>2
  <2>2. QED
    BY <1>2, <2>1 DEF Row
<1>8. rows \in [DOMAIN rows -> Row]
  BY <1>3, <1>7
<1>9. QED
  BY <1>6, <1>8 DEF Rows, rows

(* So does the raw cache, and what is kept of both are disclosures.        *)
LEMMA CongressDisclosing ==
  ASSUME disclosures \in Seq(Report), NEW reply, IsFiniteSet(DOMAIN archive),
         \A k \in DOMAIN archive : archive[k].rows \in Rows
  PROVE  Disclosing(Congress(reply))
<1> DEFINE Read_(rows) == Items(CongressTrades(BodyOf(reply, "none", "root"), rows))
           now  == IF CongressAnswers(reply) THEN Read_(CongressRows(reply)) ELSE <<>>
           Kept(a) == today - a.day \in 1 .. PoliticalWindow
           all == [k \in {0} \union DOMAIN archive |->
                     IF k = 0 THEN now ELSE IF Kept(archive[k]) THEN Read_(archive[k].rows)
                                            ELSE <<>>]
           one == Together(all)
<1>1. \/ Congress(reply) = <<>>
      \/ Congress(reply) = RestrictValues(Dedupe(one), LAMBDA t : t.about = "ticker")
  BY DEF Congress
<1>2. \A rows \in Rows : Disclosing(Read_(rows))
  BY CongressReads
<1>3. Disclosing(<<>>)
  BY FS_EmptySet DEF Disclosing
<1>4. Disclosing(now)
  BY <1>2, <1>3, CongressRowsAre
<1> HIDE DEF Read_, now, Kept
<1>5. ASSUME NEW k \in DOMAIN all PROVE Disclosing(all[k])
  BY <1>2, <1>3, <1>4
<1>6. IsFiniteSet(DOMAIN all)
  <2>1. IsFiniteSet(DOMAIN archive \union {0})
    BY FS_AddElement
  <2>2. DOMAIN all = DOMAIN archive \union {0}
    OBVIOUS
  <2> HIDE DEF all
  <2>3. QED
    BY <2>1, <2>2
<1> HIDE DEF all
<1>7. /\ IsFiniteSet(DOMAIN one)
      /\ \A p \in DOMAIN one :
           /\ p[1] \in DOMAIN all /\ p[2] \in DOMAIN all[p[1]] /\ one[p] = all[p[1]][p[2]]
  <2>1. \A k \in DOMAIN all : IsFiniteSet(DOMAIN all[k])
    BY <1>5 DEF Disclosing
  <2>2. QED
    BY <1>6, <2>1, TogetherIs
<1> HIDE DEF one
<1>8. Disclosing(one)
  BY <1>5, <1>7 DEF Disclosing
<1>9. Disclosing(RestrictValues(Dedupe(one), LAMBDA t : t.about = "ticker"))
  <2> DEFINE kept == RestrictValues(Dedupe(one), LAMBDA t : t.about = "ticker")
  <2>1. DOMAIN kept \subseteq DOMAIN one /\ \A p \in DOMAIN kept : kept[p] = one[p]
    BY DEF Dedupe, RestrictValues, Restrict
  <2> HIDE DEF kept
  <2>2. Disclosing(kept)
    BY <1>8, <2>1, FS_Subset DEF Disclosing
  <2>3. QED
    BY <2>2 DEF kept
<1>10. QED
  BY <1>1, <1>3, <1>9

(* What retail traders are counted at.                                     *)
LEMMA RetailCounted ==
  ASSUME NEW attention \in Attention, NEW reply
  PROVE  Retail(RetailRows(attention, reply)) \in Reading
<1> DEFINE rows == RetailRows(attention, reply)
           list == RetailMomentum(BodyOf(reply, "apewisdom", "results"), attention)
           Count == [about : STRING, mentions : Nat \union {Absent}, prior : Int]
<1>1. attention \in Seq(Count)
  BY SpeakersAssumption
<1>2. DOMAIN attention \subseteq Nat
      /\ \A i \in DOMAIN attention : attention[i].mentions \in Nat \union {Absent}
                                     /\ attention[i].prior \in Int
  <2>1. \A c \in Count : c.mentions \in Nat \union {Absent} /\ c.prior \in Int
    OBVIOUS
  <2> HIDE DEF Count
  <2>2. DOMAIN attention \subseteq Nat /\ \A i \in DOMAIN attention : attention[i] \in Count
    BY <1>1
  <2>3. QED
    BY <2>1, <2>2
<1>3. \/ list = Rejected
      \/ /\ DOMAIN list \subseteq DOMAIN attention
         /\ \A i \in DOMAIN list :
              /\ list[i].mentions = attention[i].mentions /\ list[i].prior = attention[i].prior
              /\ attention[i].mentions # Absent
  BY DEF RetailMomentum, Normalized, RestrictValues, Restrict
<1>4. \/ rows = <<>>
      \/ /\ DOMAIN rows \subseteq DOMAIN Items(list)
         /\ \A i \in DOMAIN rows : rows[i] = Items(list)[i]
  BY DEF RetailRows, RestrictValues, Restrict
<1> HIDE DEF rows, list
<1>5. DOMAIN rows \subseteq Nat
      /\ \A i \in DOMAIN rows : rows[i].mentions \in Nat /\ rows[i].prior \in Int
  <2>1. CASE rows = <<>>
    BY <2>1
  <2>2. CASE rows # <<>>
    BY <1>2, <1>3, <1>4, <2>2 DEF Items
  <2>3. QED
    BY <2>1, <2>2
<1>6. QED
  BY <1>5, RetailReading DEF rows

(* Which of a chain's providers is the first.                              *)
LEMMA FirstInChain ==
  ASSUME NEW S, NEW chain \in Seq(S), NEW some, some \in SUBSET DOMAIN chain, some # {}
  PROVE  Min(some) \in some /\ chain[Min(some)] \in S
<1>1. some \in SUBSET Nat
  OBVIOUS
<1>2. Min(some) \in some
  BY <1>1, LeastOf DEF Min
<1>3. QED
  BY <1>2

(* What the chains of S_S give, and what S_S is of them.                   *)
SignalsOf(chain, reply)  == FirstOf(chain, LAMBDA p : Analysts(p, reply))
ArticlesOf(chain, reply) == FirstOf(chain, LAMBDA p : Newspapers(p, reply))

(* The chains give what one of their providers says, or nothing.           *)
LEMMA ChainsSay ==
  ASSUME opinions \in Seq(Opinion), stories \in Seq(Story), NEW reply,
         NEW chain \in Seq({"fmp", "finnhub"}),
         NEW papers \in Seq({"alpha_vantage", "fmp", "finnhub"})
  PROVE  Spoken(SignalsOf(chain, reply)) /\ Telling(ArticlesOf(papers, reply))
<1>1. Spoken(SignalsOf(chain, reply))
  <2> DEFINE some == {i \in DOMAIN chain : Analysts(chain[i], reply) # <<>>}
  <2>1. CASE some = {}
    BY <2>1, NothingSpoken DEF SignalsOf, FirstOf
  <2>2. CASE some # {}
    BY <2>2, AnalystsSpoken DEF SignalsOf, FirstOf
  <2>3. QED
    BY <2>1, <2>2
<1>2. Telling(ArticlesOf(papers, reply))
  <2> DEFINE some == {i \in DOMAIN papers : Newspapers(papers[i], reply) # <<>>}
  <2>1. CASE some = {}
    BY <2>1, FS_EmptySet DEF ArticlesOf, FirstOf, Telling
  <2>2. CASE some # {}
    <3>1. ArticlesOf(papers, reply) = Newspapers(papers[Min(some)], reply)
      BY <2>2 DEF ArticlesOf, FirstOf
    <3>2. papers[Min(some)] \in {"alpha_vantage", "fmp", "finnhub"}
      <4>1. some \in SUBSET DOMAIN papers
        OBVIOUS
      <4> HIDE DEF some
      <4>2. QED
        BY <2>2, <4>1, FirstInChain
    <3> HIDE DEF some
    <3>3. QED
      BY <3>1, <3>2, NewspapersTelling
  <2>3. QED
    BY <2>1, <2>2
<1>3. QED
  BY <1>1, <1>2

(* Whoever speaks up does so while the day has no run, and a run scores    *)
(* what has been said.                                                     *)
OpinionsInv ==
  /\ setup \in DOMAIN Configs
  /\ today \in Nat
  /\ opinions \in Seq(Opinion) /\ stories \in Seq(Story) /\ disclosures \in Seq(Report)
  /\ archive \in Seq(Answer)
  /\ ~result.done => ~result.sentiment.available
  /\ SentimentRestsOnAnalysts

(* Nobody has spoken at first.                                             *)
LEMMA OpinionsInit == Init => OpinionsInv
BY DEF Init, OpinionsInv, SentimentRestsOnAnalysts, NoRun, NoComponent

(* One more voice, article or disclosure, on a day with no run yet.        *)
LEMMA SpeakStep ==
  ASSUME OpinionsInv, ~result.done, UNCHANGED <<setup, today, archive, result>>,
         opinions' \in Seq(Opinion), stories' \in Seq(Story), disclosures' \in Seq(Report)
  PROVE  OpinionsInv'
BY DEF OpinionsInv, SentimentRestsOnAnalysts

(* One more opinion.                                                       *)
LEMMA GiveOpinionStep ==
  ASSUME OpinionsInv, NEW o \in Opinions, GiveOpinion(o)
  PROVE  OpinionsInv'
<1>1. [date |-> today, rating |-> o.rating, target |-> o.target, about |-> "ticker"] \in Opinion
  <2>1. o.rating \in STRING /\ o.target \in Nat
    BY SpeakersAssumption
  <2>2. QED
    BY <2>1 DEF Opinion, OpinionsInv
<1>2. opinions' \in Seq(Opinion)
  BY <1>1 DEF GiveOpinion, OpinionsInv
<1>3. QED
  BY <1>2, SpeakStep DEF GiveOpinion, Open, OpinionsInv

(* One more story.                                                         *)
LEMMA RunStoryStep ==
  ASSUME OpinionsInv, NEW s \in Stories, RunStory(s)
  PROVE  OpinionsInv'
<1>1. [date |-> today, keys |-> s.keys, tone |-> s.tone, about |-> s.about] \in Story
  <2>1. s.keys \in SUBSET STRING /\ s.tone \in Reading /\ s.about \in STRING
    BY SpeakersAssumption
  <2>2. QED
    BY <2>1 DEF Story, OpinionsInv
<1>2. stories' \in Seq(Story)
  BY <1>1 DEF RunStory, OpinionsInv
<1>3. QED
  BY <1>2, SpeakStep DEF RunStory, Open, OpinionsInv

(* One more disclosure, marketwide.                                        *)
LEMMA DiscloseStep ==
  ASSUME OpinionsInv, NEW d \in Disclosures, Disclose(d)
  PROVE  OpinionsInv'
<1>1. [traded |-> today - d.lag, disclosed |-> today, about |-> d.about,
       kind |-> d.kind, amount |-> d.amount, link |-> d.link] \in Report
  <2>1. /\ d.about \in STRING /\ d.kind \in STRING /\ d.amount \in Nat /\ d.link \in STRING
        /\ d.lag \in Nat
    BY SpeakersAssumption
  <2>2. QED
    BY <2>1 DEF Report, OpinionsInv
<1>2. disclosures' \in Seq(Report)
  BY <1>1 DEF Disclose, OpinionsInv
<1>3. QED
  BY <1>2, SpeakStep DEF Disclose, Open, OpinionsInv

(* A run scores what its chains give of what was said.                     *)
LEMMA SentimentRunStep ==
  ASSUME OpinionsInv, NEW reply, NEW attention \in Attention, Run(reply, attention)
  PROVE  OpinionsInv'
<1> DEFINE signals == SignalsOf(config.chains.analyst, reply)
           articles == ArticlesOf(config.chains.news, reply)
           news == News(articles, today, Baseline)
           retail == Retail(RetailRows(attention, reply))
           political == PoliticalFlow(Congress(reply), today, PoliticalWindow, DisclosureLag)
           issuer == config.chains.issuer
           scored == Sentiment(issuer, Institutional(signals, news, Spot, today, SignalAge),
                               retail, political)
<1>1. /\ result'.done = TRUE /\ result'.sentiment = scored
      /\ UNCHANGED <<setup, today, opinions, stories, disclosures>>
      /\ archive' = archive
         \/ archive' = Append(archive, [day |-> today, rows |-> CongressRows(reply)])
  BY DEF Run, world, SignalsOf, ArticlesOf
<1>2. /\ config.chains.analyst \in Seq({"fmp", "finnhub"})
      /\ config.chains.news \in Seq({"alpha_vantage", "fmp", "finnhub"})
      /\ issuer \in BOOLEAN
  BY ConfigsAssumption DEF OpinionsInv, config, Config, Range
<1>3. Spoken(signals) /\ Telling(articles)
  BY <1>2, ChainsSay DEF OpinionsInv
<1>4. retail \in Reading
  BY RetailCounted
<1>5. political \in Reading
  <2>1. IsFiniteSet(DOMAIN archive) /\ \A k \in DOMAIN archive : archive[k].rows \in Rows
    <3>1. archive \in Seq(Answer) /\ DOMAIN archive = 1 .. Len(archive) /\ Len(archive) \in Int
      BY DEF OpinionsInv
    <3>2. IsFiniteSet(DOMAIN archive)
      BY <3>1, FS_Interval
    <3>3. ASSUME NEW k \in DOMAIN archive PROVE archive[k].rows \in Rows
      <4>1. archive[k] \in Answer
        BY <3>1
      <4>2. QED
        BY <4>1 DEF Answer
    <3>4. QED
      BY <3>2, <3>3
  <2>2. Disclosing(Congress(reply))
    BY <2>1, CongressDisclosing DEF OpinionsInv
  <2>3. today \in Int /\ PoliticalWindow \in Nat /\ DisclosureLag \in Nat \ {0}
    BY WorldAssumption, SpeakersAssumption DEF OpinionsInv
  <2>4. QED
    BY <2>2, <2>3, PoliticalReading DEF Disclosing
<1> HIDE DEF signals, articles, retail, political, issuer
<1>6. news \in Reading
  BY <1>3, NewsReading DEF Telling
<1> HIDE DEF news
<1>7. scored.available =>
        /\ Voices # {} /\ issuer
        /\ (\A i \in Voices : UrgesBuying(opinions[i])) => scored.score > 0
        /\ (\A i \in Voices : UrgesSelling(opinions[i])) => scored.score < 0
  BY <1>2, <1>3, <1>4, <1>5, <1>6, ScoredOnVoices DEF OpinionsInv
<1> HIDE DEF scored
<1>8. SentimentRestsOnAnalysts'
  BY <1>1, <1>7 DEF SentimentRestsOnAnalysts, Voices, UrgesBuying, UrgesSelling, issuer, config
<1>9. archive' \in Seq(Answer)
  <2>1. CongressRows(reply) \in Rows
    BY CongressRowsAre DEF OpinionsInv
  <2> DEFINE answer == [day |-> today, rows |-> CongressRows(reply)]
  <2>2. answer \in Answer /\ archive \in Seq(Answer)
    BY <2>1 DEF Answer, OpinionsInv
  <2>3. archive' = archive \/ archive' = Append(archive, answer)
    BY <1>1
  <2> HIDE DEF answer
  <2>4. QED
    BY <2>2, <2>3
<1>10. QED
  BY <1>1, <1>8, <1>9 DEF OpinionsInv

(* The other actions leave what was said and S_S alone, or forget the run. *)
LEMMA OpinionsStep == OpinionsInv /\ [Next]_vars => OpinionsInv'
<1> SUFFICES ASSUME OpinionsInv, [Next]_vars PROVE OpinionsInv'
  OBVIOUS
<1>1. ASSUME UNCHANGED <<setup, today, opinions, stories, disclosures, archive, result>>
      PROVE  OpinionsInv'
  BY <1>1 DEF OpinionsInv, SentimentRestsOnAnalysts, Voices, config
<1>2. ASSUME NEW v \in Values, Publish(v) PROVE OpinionsInv'
  BY <1>1, <1>2 DEF Publish
<1>3. ASSUME NEW t \in Filings, FileTrade(t) PROVE OpinionsInv'
  BY <1>1, <1>3 DEF FileTrade
<1>4. ASSUME NEW o \in Opinions, GiveOpinion(o) PROVE OpinionsInv'
  BY <1>4, GiveOpinionStep
<1>5. ASSUME NEW s \in Stories, RunStory(s) PROVE OpinionsInv'
  BY <1>5, RunStoryStep
<1>6. ASSUME NEW d \in Disclosures, Disclose(d) PROVE OpinionsInv'
  BY <1>6, DiscloseStep
<1>7. ASSUME NEW r \in config.faults, NEW a \in Attention, Run(r, a) PROVE OpinionsInv'
  BY <1>7, SentimentRunStep
<1>8. CASE NextDay
  BY <1>8 DEF NextDay, world, OpinionsInv, SentimentRestsOnAnalysts, NoRun, NoComponent
<1>9. CASE UNCHANGED vars
  BY <1>1, <1>9 DEF vars, world
<1>10. QED
  BY <1>2, <1>3, <1>4, <1>5, <1>6, <1>7, <1>8, <1>9 DEF Next

(* However many speak up, whichever feeds fail and whatever was left in    *)
(* the raw cache: S_S is scored only where an analyst is heard, and has    *)
(* the sign of the analysts where all of them urge one side, whatever      *)
(* news, retail traders and members of Congress do.                        *)
THEOREM AnalystsAreHeard == Spec => []SentimentRestsOnAnalysts
<1>1. OpinionsInv => SentimentRestsOnAnalysts
  BY DEF OpinionsInv
<1>2. QED
  BY <1>1, OpinionsInit, OpinionsStep, PTL DEF Spec

-----------------------------------------------------------------------------
(* Order.  Of two places that differ, one comes first, and what comes      *)
(* before it is fewer.                                                     *)
LEMMA AheadOfAnother ==
  ASSUME NEW D \in SUBSET Int, NEW keys \in [D -> Int], NEW i \in D, NEW j \in D
  PROVE  /\ i # j => i \in Ahead(keys, j) \/ j \in Ahead(keys, i)
         /\ i \in Ahead(keys, j) => /\ keys[i] <= keys[j] /\ i \notin Ahead(keys, i)
                                    /\ Ahead(keys, i) \union {i} \subseteq Ahead(keys, j)
<1>1. \A k \in D : k \in Int /\ keys[k] \in Int
  OBVIOUS
<1>2. \A k, l \in D :
        k \in Ahead(keys, l) <=> keys[k] < keys[l] \/ (keys[k] = keys[l] /\ k < l)
  BY DEF Ahead
<1>3. \A k \in D : Ahead(keys, k) \subseteq D
  BY DEF Ahead
<1>4. i # j => i \in Ahead(keys, j) \/ j \in Ahead(keys, i)
  BY <1>1, <1>2
<1>5. ASSUME i \in Ahead(keys, j), NEW k \in Ahead(keys, i) PROVE k \in Ahead(keys, j)
  BY <1>1, <1>2, <1>3, <1>5
<1>6. ASSUME i \in Ahead(keys, j)
      PROVE  keys[i] <= keys[j] /\ i \notin Ahead(keys, i)
  BY <1>1, <1>2, <1>6
<1>7. QED
  BY <1>4, <1>5, <1>6

(* What is ahead of a place is fewer than the list, and fewer than what is *)
(* ahead of any place behind it.                                           *)
LEMMA AheadCounts ==
  ASSUME NEW D \in SUBSET Int, IsFiniteSet(D), NEW keys \in [D -> Int]
  PROVE  LET Rank(i) == Cardinality(Ahead(keys, i))
         IN  /\ \A i \in D : Rank(i) \in 0 .. Cardinality(D) - 1
             /\ \A i, j \in D : i \in Ahead(keys, j) => Rank(i) < Rank(j)
<1> DEFINE Rank(i) == Cardinality(Ahead(keys, i))
<1>1. \A i \in D : Ahead(keys, i) \in SUBSET D /\ i \notin Ahead(keys, i)
  BY AheadOfAnother DEF Ahead
<1>2. \A i \in D : IsFiniteSet(Ahead(keys, i)) /\ Rank(i) \in Nat
  BY <1>1, FS_Subset, FS_CardinalityType
<1>3. \A i \in D : Cardinality(Ahead(keys, i) \union {i}) = Rank(i) + 1
  BY <1>1, <1>2, FS_AddElement
<1>4. ASSUME NEW i \in D PROVE Rank(i) \in 0 .. Cardinality(D) - 1
  <2>1. Ahead(keys, i) \union {i} \in SUBSET D
    BY <1>1
  <2>2. Rank(i) + 1 <= Cardinality(D) /\ Cardinality(D) \in Nat
    BY <1>3, <2>1, FS_Subset, FS_CardinalityType
  <2>3. QED
    BY <1>2, <2>2
<1>5. ASSUME NEW i \in D, NEW j \in D, i \in Ahead(keys, j) PROVE Rank(i) < Rank(j)
  <2>1. Ahead(keys, i) \union {i} \in SUBSET Ahead(keys, j)
    BY <1>5, AheadOfAnother
  <2>2. Rank(i) + 1 <= Rank(j)
    BY <1>2, <1>3, <2>1, FS_Subset
  <2>3. QED
    BY <1>2, <2>2
<1>6. QED
  BY <1>4, <1>5

(* Each rank is that of one place.                                         *)
LEMMA EachRank ==
  ASSUME NEW D \in SUBSET Int, IsFiniteSet(D), NEW keys \in [D -> Int],
         NEW n \in 1 .. Cardinality(D)
  PROVE  \E i \in D : Cardinality(Ahead(keys, i)) = n - 1
<1> DEFINE size  == Cardinality(D)
           ranks == 0 .. size - 1
           rank  == [i \in D |-> Cardinality(Ahead(keys, i))]
<1>0. size \in Nat
  BY FS_CardinalityType
<1>1. size \in Nat /\ IsFiniteSet(ranks) /\ Cardinality(ranks) = size
  <2> HIDE DEF size
  <2>1. QED
    BY <1>0, FS_Interval
<1>2. rank \in [D -> ranks]
  BY AheadCounts
<1>3. ASSUME NEW i \in D, NEW j \in D, rank[i] = rank[j] PROVE i = j
  <2>1. rank[i] \in Int /\ rank[j] \in Int
    BY <1>2
  <2>2. i \in Ahead(keys, j) => rank[i] < rank[j]
    BY AheadCounts
  <2>3. j \in Ahead(keys, i) => rank[j] < rank[i]
    BY AheadCounts
  <2>4. QED
    BY <1>3, <2>1, <2>2, <2>3, AheadOfAnother
<1>4. rank \in Injection(D, ranks)
  <2> HIDE DEF rank
  <2>1. QED
    BY <1>2, <1>3 DEF Injection, IsInjective
<1>5. rank \in Surjection(D, ranks)
  <2> HIDE DEF rank, ranks
  <2>1. QED
    BY <1>1, <1>4, FS_Injection
<1>6. n - 1 \in ranks
  BY <1>1
<1>7. \E i \in D : rank[i] = n - 1
  <2> HIDE DEF rank, ranks
  <2>1. QED
    BY <1>5, <1>6 DEF Surjection
<1>8. QED
  BY <1>7

(* A sort takes each place once, in order.                                 *)
LEMMA InOrderSorts ==
  ASSUME NEW D \in SUBSET Int, IsFiniteSet(D), NEW keys \in [D -> Int]
  PROVE  LET order == InOrder(keys)
             size  == Cardinality(D)
         IN  /\ size \in Nat /\ order \in [1 .. size -> D]
             /\ \A i \in D : \E n \in 1 .. size : order[n] = i
             /\ \A m, n \in 1 .. size :
                  m < n => /\ order[m] \in Ahead(keys, order[n])
                           /\ keys[order[m]] <= keys[order[n]] /\ order[m] # order[n]
<1> DEFINE order == InOrder(keys)
           size  == Cardinality(D)
           Rank(i) == Cardinality(Ahead(keys, i))
<1>1. size \in Nat
  BY FS_CardinalityType
<1>2. order = [n \in 1 .. size |-> CHOOSE i \in D : Rank(i) = n - 1]
  BY DEF InOrder
<1>3. \A n \in 1 .. size : \E i \in D : Rank(i) = n - 1
  BY EachRank
<1>4. \A n \in 1 .. size : order[n] \in D /\ Rank(order[n]) = n - 1
  BY <1>2, <1>3
<1>5. /\ \A i \in D : Rank(i) \in 0 .. size - 1
      /\ \A i, j \in D : i \in Ahead(keys, j) => Rank(i) < Rank(j)
  BY AheadCounts
<1>6. order \in [1 .. size -> D]
  BY <1>2, <1>4
<1> HIDE DEF order, size, Rank
<1>7. ASSUME NEW i \in D, NEW j \in D, Rank(i) = Rank(j) PROVE i = j
  BY <1>5, <1>7, AheadOfAnother
<1>8. ASSUME NEW i \in D PROVE \E n \in 1 .. size : order[n] = i
  <2>1. Rank(i) + 1 \in 1 .. size /\ (Rank(i) + 1) - 1 = Rank(i)
    BY <1>1, <1>5
  <2>2. Rank(order[Rank(i) + 1]) = Rank(i) /\ order[Rank(i) + 1] \in D
    BY <1>4, <2>1
  <2>3. QED
    BY <1>7, <2>1, <2>2
<1>9. ASSUME NEW m \in 1 .. size, NEW n \in 1 .. size, m < n
      PROVE  /\ order[m] \in Ahead(keys, order[n])
             /\ keys[order[m]] <= keys[order[n]] /\ order[m] # order[n]
  <2>1. /\ order[m] \in D /\ order[n] \in D
        /\ Rank(order[m]) = m - 1 /\ Rank(order[n]) = n - 1
    BY <1>4
  <2>2. m - 1 < n - 1 /\ ~(n - 1 < m - 1) /\ m - 1 # n - 1
    BY <1>1, <1>9
  <2>3. order[m] # order[n] /\ order[n] \notin Ahead(keys, order[m])
    BY <1>5, <2>1, <2>2
  <2>4. QED
    BY <2>1, <2>3, AheadOfAnother
<1>10. QED
  BY <1>1, <1>6, <1>8, <1>9 DEF order, size

(* Places whose keys grow with them are in order as they stand.            *)
LEMMA InOrderAsTheyStand ==
  ASSUME NEW D \in SUBSET Int, IsFiniteSet(D), NEW keys \in [D -> Int],
         \A i, j \in D : i < j => keys[i] < keys[j]
  PROVE  LET order == InOrder(keys)
         IN  \A m, n \in 1 .. Cardinality(D) : m < n => order[m] < order[n]
<1> DEFINE order == InOrder(keys)
           size  == Cardinality(D)
<1>1. ASSUME NEW i \in D, NEW j \in D, i \in Ahead(keys, j) PROVE i < j
  <2>1. i \in Int /\ j \in Int /\ keys[i] \in Int /\ keys[j] \in Int /\ DOMAIN keys = D
    OBVIOUS
  <2>2. keys[i] < keys[j] \/ (keys[i] = keys[j] /\ i < j)
    BY <1>1 DEF Ahead
  <2>3. j < i => keys[j] < keys[i]
    OBVIOUS
  <2>4. QED
    BY <2>1, <2>2, <2>3
<1>2. \A m, n \in 1 .. size : m < n => /\ order[m] \in D /\ order[n] \in D
                                       /\ order[m] \in Ahead(keys, order[n])
  BY InOrderSorts
<1>3. QED
  BY <1>1, <1>2

-----------------------------------------------------------------------------
(* Gaps.  They are one fewer than the days, and the one in the middle is   *)
(* of two that follow each other in order, if they are three or more.      *)
Gaps(days) == [i \in 1 .. Len(days) - 1 |-> days[i + 1] - days[i]]

(* The median of gaps is one of them; of three or more, another is no      *)
(* smaller.                                                                *)
LEMMA MedianOfGaps ==
  ASSUME NEW days \in Seq(Int), Len(days) >= 2
  PROVE  LET gaps == Gaps(days)
         IN  \E i \in 1 .. Len(days) - 1 :
               /\ MedianGap(days) = gaps[i] /\ gaps[i] \in Int
               /\ Len(days) >= 4 => \E j \in 1 .. Len(days) - 1 :
                                      i # j /\ gaps[i] <= gaps[j] /\ gaps[j] \in Int
<1> DEFINE gaps == Gaps(days)
           last == Len(days) - 1
           order == InOrder(gaps)
           middle == last \div 2 + 1
<1>1. last \in Nat /\ last >= 1 /\ gaps \in [1 .. last -> Int]
  BY DEF Gaps
<1>2. Len(gaps) = last /\ gaps # <<>>
  <2>1. DOMAIN gaps = 1 .. last
    BY <1>1
  <2> HIDE DEF gaps, last
  <2>2. gaps \in Seq(Int)
    BY <1>1
  <2>3. Len(gaps) \in Nat /\ DOMAIN gaps = 1 .. Len(gaps)
    BY <2>2
  <2>4. Len(gaps) = last
    BY <1>1, <2>1, <2>3
  <2>5. QED
    BY <1>1, <2>4
<1>3. MedianGap(days) = gaps[order[middle]]
  BY <1>2 DEF MedianGap, Gaps
<1> HIDE DEF gaps, order, last
<1>4. middle \in 1 .. last /\ (last >= 3 => middle + 1 \in 1 .. last)
  BY <1>1
<1> HIDE DEF middle
<1>5. IsFiniteSet(1 .. last) /\ Cardinality(1 .. last) = last /\ 1 .. last \in SUBSET Int
  BY <1>1, FS_Interval
<1>6. /\ order \in [1 .. last -> 1 .. last]
      /\ \A m, n \in 1 .. last :
           m < n => gaps[order[m]] <= gaps[order[n]] /\ order[m] # order[n]
  <2> DEFINE D == 1 .. last
  <2>1. D \in SUBSET Int /\ IsFiniteSet(D) /\ gaps \in [D -> Int] /\ Cardinality(D) = last
    BY <1>1, <1>5
  <2> HIDE DEF D
  <2>2. /\ order \in [1 .. last -> D]
        /\ \A m, n \in 1 .. last :
             m < n => gaps[order[m]] <= gaps[order[n]] /\ order[m] # order[n]
    BY <2>1, InOrderSorts DEF order
  <2>3. QED
    BY <2>2 DEF D
<1>7. order[middle] \in 1 .. last /\ gaps[order[middle]] \in Int
  BY <1>1, <1>4, <1>6
<1>8. ASSUME last >= 3
      PROVE  \E j \in 1 .. last : /\ order[middle] # j /\ gaps[j] \in Int
                                  /\ gaps[order[middle]] <= gaps[j]
  <2>1. middle < middle + 1 /\ middle + 1 \in 1 .. last
    BY <1>4, <1>8
  <2>2. order[middle + 1] \in 1 .. last
    BY <1>6, <2>1
  <2>3. QED
    BY <1>1, <1>4, <1>6, <2>1, <2>2
<1>9. Len(days) >= 4 => last >= 3
  BY DEF last
<1>10. QED
  BY <1>3, <1>7, <1>8, <1>9 DEF gaps, last

(* Of three gaps or more, one that is out of line is not the median.       *)
LEMMA MedianAtMost ==
  ASSUME NEW days \in Seq(Int), Len(days) >= 4, NEW bound \in Int, NEW odd,
         \A i \in 1 .. Len(days) - 1 : i # odd => days[i + 1] - days[i] <= bound
  PROVE  MedianGap(days) \in Int /\ MedianGap(days) <= bound
<1>1. PICK i \in 1 .. Len(days) - 1, j \in 1 .. Len(days) - 1 :
        /\ MedianGap(days) = Gaps(days)[i] /\ Gaps(days)[i] \in Int
        /\ i # j /\ Gaps(days)[i] <= Gaps(days)[j] /\ Gaps(days)[j] \in Int
  BY MedianOfGaps
<1>2. \A k \in 1 .. Len(days) - 1 : k # odd => Gaps(days)[k] <= bound
  BY DEF Gaps
<1>3. QED
  <2>1. \A k \in 1 .. Len(days) - 1 : k = odd \/ Gaps(days)[k] <= bound
    BY <1>2
  <2>2. i = odd => Gaps(days)[j] <= bound
    BY <1>1, <2>1
  <2>3. i # odd => Gaps(days)[i] <= bound
    BY <2>1
  <2>4. QED
    BY <1>1, <2>2, <2>3

(* The median of gaps that are all alike is any of them.                   *)
LEMMA MedianOfAlike ==
  ASSUME NEW days \in Seq(Int), Len(days) >= 2, NEW gap \in Int,
         \A i \in 1 .. Len(days) - 1 : days[i + 1] - days[i] = gap
  PROVE  MedianGap(days) = gap
<1>1. PICK i \in 1 .. Len(days) - 1 : MedianGap(days) = Gaps(days)[i]
  BY MedianOfGaps
<1>2. QED
  BY <1>1 DEF Gaps

-----------------------------------------------------------------------------
(* The calendar.  Each period starts when the one before it ends.          *)
LEMMA StartStep ==
  ASSUME schedule \in Seq(Nat \ {0}), NEW k \in DOMAIN schedule
  PROVE  Start(k + 1) = Start(k) + schedule[k]
<1> DEFINE S == 1 .. k
           lengths == [i \in S |-> schedule[i]]
<1>1. k \in Nat /\ k >= 1 /\ k <= Len(schedule)
  OBVIOUS
<1>2. IsFiniteSet(S) /\ lengths \in [S -> Int] /\ k \in S
  <2>1. IsFiniteSet(S)
    BY <1>1, FS_Interval
  <2>2. \A i \in S : i \in DOMAIN schedule /\ schedule[i] \in Int
    BY <1>1
  <2>3. QED
    BY <1>1, <2>1, <2>2
<1>3. Start(k + 1) = SumFunction(SubSeq(schedule, 1, k))
  <2>1. Start(k + 1) = SumFunction(SubSeq(schedule, 1, (k + 1) - 1))
    BY DEF Start
  <2>2. (k + 1) - 1 = k
    BY <1>1
  <2>3. QED
    BY <2>1, <2>2
<1>4. Start(k) = SumFunction(SubSeq(schedule, 1, k - 1))
  BY DEF Start
<1>5. SubSeq(schedule, 1, k) = lengths
  BY <1>1
<1>6. SubSeq(schedule, 1, k - 1) = [i \in S \ {k} |-> lengths[i]]
  <2>1. S \ {k} = 1 .. k - 1
    BY <1>1
  <2>2. SubSeq(schedule, 1, k - 1) = [i \in 1 .. k - 1 |-> schedule[i]]
    BY <1>1
  <2>3. QED
    BY <2>1, <2>2
<1> HIDE DEF S, lengths
<1>7. SumFunction(lengths) = lengths[k] + SumFunction([i \in S \ {k} |-> lengths[i]])
  BY <1>2, SumOut
<1>8. SumFunction([i \in S \ {k} |-> lengths[i]]) \in Int
  <2> DEFINE R == S \ {k}
             rest == [i \in R |-> lengths[i]]
  <2>1. IsFiniteSet(R) /\ rest \in [R -> Int]
    BY <1>2, FS_Subset
  <2> HIDE DEF R, rest
  <2>2. SumFunction(rest) \in Int
    BY <2>1, SumType
  <2>3. QED
    BY <2>2 DEF R, rest
<1>9. lengths[k] = schedule[k] /\ schedule[k] \in Int
  BY <1>1, <1>2 DEF lengths, S
<1>10. Start(k + 1) = schedule[k] + Start(k)
  BY <1>3, <1>4, <1>5, <1>6, <1>7, <1>9
<1>11. Start(k) \in Int
  BY <1>4, <1>6, <1>8
<1>12. QED
  BY <1>9, <1>10, <1>11

(* The first starts on day 0, and each before the next.                    *)
LEMMA StartType ==
  ASSUME schedule \in Seq(Nat \ {0})
  PROVE  Start(1) = 0 /\ \A k \in 1 .. Len(schedule) + 1 : Start(k) \in Nat
<1> DEFINE N == {n \in Nat : n + 1 \in 1 .. Len(schedule) + 1 => Start(n + 1) \in Nat}
<1>1. Start(1) = 0
  <2>1. SubSeq(schedule, 1, 0) = <<>>
    OBVIOUS
  <2>2. Start(1) = SumFunction(SubSeq(schedule, 1, 1 - 1)) /\ 1 - 1 = 0
    BY DEF Start
  <2>3. SubSeq(schedule, 1, 1 - 1) = <<>>
    BY <2>1, <2>2
  <2>4. DOMAIN <<>> = {}
    OBVIOUS
  <2>5. SumFunction(<<>>) = 0
    BY <2>4, SumEmpty
  <2>6. QED
    BY <2>2, <2>3, <2>5
<1>2. 0 \in N
  BY <1>1
<1>3. ASSUME NEW n \in Nat, n \in N PROVE n + 1 \in N
  <2> SUFFICES ASSUME (n + 1) + 1 \in 1 .. Len(schedule) + 1
               PROVE  Start((n + 1) + 1) \in Nat
    OBVIOUS
  <2>1. n + 1 \in DOMAIN schedule /\ schedule[n + 1] \in Nat /\ Start(n + 1) \in Nat
    BY <1>3
  <2>2. QED
    BY <2>1, StartStep
<1>4. Nat \subseteq N
  <2> HIDE DEF N
  <2>1. QED
    BY <1>2, <1>3, Induction
<1>5. ASSUME NEW k \in 1 .. Len(schedule) + 1 PROVE Start(k) \in Nat
  <2>1. k - 1 \in Nat /\ (k - 1) + 1 = k
    OBVIOUS
  <2>2. k - 1 \in N
    BY <1>4, <2>1
  <2>3. QED
    BY <2>1, <2>2
<1>6. QED
  BY <1>1, <1>5

(* So a later period starts later, no sooner than the earlier one ends.    *)
LEMMA StartGrows ==
  ASSUME schedule \in Seq(Nat \ {0}), NEW i \in DOMAIN schedule,
         NEW j \in 1 .. Len(schedule) + 1, i < j
  PROVE  Start(i) < Start(j) /\ Start(i + 1) <= Start(j)
<1> DEFINE N == {n \in Nat : i + 1 + n \in 1 .. Len(schedule) + 1
                               => Start(i + 1) <= Start(i + 1 + n)}
<1>1. 0 \in N
  BY StartType
<1>2. ASSUME NEW n \in Nat, n \in N PROVE n + 1 \in N
  <2> DEFINE k == i + 1 + n
  <2>0. i \in Nat /\ i + 1 + (n + 1) = k + 1
    <3>1. i \in Nat
      OBVIOUS
    <3>2. QED
      BY <3>1
  <2> SUFFICES ASSUME k + 1 \in 1 .. Len(schedule) + 1
               PROVE  Start(i + 1) <= Start(k + 1)
    BY <2>0
  <2>1. /\ k \in DOMAIN schedule /\ k \in 1 .. Len(schedule) + 1
        /\ i + 1 \in 1 .. Len(schedule) + 1
    OBVIOUS
  <2>2. Start(k + 1) = Start(k) + schedule[k] /\ schedule[k] \in Nat
    BY <2>1, StartStep
  <2>3. Start(i + 1) <= Start(k)
    BY <1>2, <2>1
  <2>4. Start(k) \in Nat /\ Start(i + 1) \in Nat
    BY <2>1, StartType
  <2> HIDE DEF k
  <2>5. QED
    BY <2>2, <2>3, <2>4
<1>3. Nat \subseteq N
  <2> HIDE DEF N
  <2>1. QED
    BY <1>1, <1>2, Induction
<1>4. Start(i + 1) <= Start(j)
  <2>1. j - i - 1 \in N /\ i + 1 + (j - i - 1) = j
    BY <1>3
  <2>2. QED
    BY <2>1
<1>5. Start(i + 1) = Start(i) + schedule[i] /\ schedule[i] \in Nat \ {0}
  BY StartStep
<1>6. Start(i) \in Nat /\ Start(i + 1) \in Nat /\ Start(j) \in Nat
  BY StartType
<1>7. QED
  BY <1>4, <1>5, <1>6

-----------------------------------------------------------------------------
(* S_M.  The prints that are out by the day of the run.                    *)
CalendarInv ==
  /\ schedule \in Seq(Nat \ {0}) /\ figures \in Seq(Values) /\ today \in Nat
  /\ Len(figures) <= Len(schedule)
  /\ \A k \in DOMAIN figures : Release(k) <= today

(* Such a print is of a period whose days are all past, and of two the     *)
(* later period is printed later.                                          *)
LEMMA CalendarDays ==
  ASSUME CalendarInv
  PROVE  /\ DOMAIN figures = 1 .. Len(figures) /\ Len(figures) \in Nat
         /\ \A k \in DOMAIN figures :
              /\ k \in DOMAIN schedule /\ k \in Nat /\ k <= Len(figures)
              /\ Start(k) \in Nat /\ Start(k + 1) = Start(k) + schedule[k]
              /\ schedule[k] \in Nat \ {0}
              /\ Start(k) \notin {Absent, Unreadable}
              /\ Release(k) \in Nat /\ Release(k) \notin {Absent, Unreadable}
              /\ Start(k) <= Release(k) /\ Release(k) <= today
              /\ Release(k) = Start(k) + schedule[k] + Lag
         /\ \A j, k \in DOMAIN figures :
              j < k => /\ Start(j) < Start(k) /\ Start(j + 1) <= Start(k)
                       /\ Release(j) < Release(k)
<1>1. DOMAIN figures = 1 .. Len(figures) /\ Len(figures) \in Nat
  BY DEF CalendarInv
<1>2. schedule \in Seq(Nat \ {0}) /\ Lag \in Nat /\ today \in Nat
  BY WorldAssumption DEF CalendarInv
<1>3. ASSUME NEW k \in DOMAIN figures
      PROVE  /\ k \in DOMAIN schedule /\ k \in Nat /\ k <= Len(figures)
             /\ Start(k) \in Nat /\ Start(k + 1) = Start(k) + schedule[k]
             /\ schedule[k] \in Nat \ {0}
             /\ Start(k) \notin {Absent, Unreadable}
             /\ Release(k) \in Nat /\ Release(k) \notin {Absent, Unreadable}
             /\ Start(k) <= Release(k) /\ Release(k) <= today
             /\ Release(k) = Start(k) + schedule[k] + Lag
  <2>1. k \in DOMAIN schedule /\ k \in Nat /\ k <= Len(figures)
    BY <1>1 DEF CalendarInv
  <2>2. schedule[k] \in Nat \ {0} /\ Start(k + 1) = Start(k) + schedule[k]
    BY <1>2, <2>1, StartStep
  <2>3. k \in 1 .. Len(schedule) + 1
    BY <1>2, <2>1
  <2>4. Start(k) \in Nat
    BY <1>2, <2>3, StartType
  <2>5. Release(k) = Start(k) + schedule[k] + Lag
    BY <2>2 DEF Release
  <2>6. Release(k) \in Nat /\ Start(k) <= Release(k)
    BY <1>2, <2>2, <2>4, <2>5
  <2>7. Release(k) <= today
    BY DEF CalendarInv
  <2>8. \A n \in Nat : n \notin {Absent, Unreadable}
    BY HolesAssumption
  <2>9. QED
    BY <2>1, <2>2, <2>4, <2>5, <2>6, <2>7, <2>8
<1>4. ASSUME NEW j \in DOMAIN figures, NEW k \in DOMAIN figures, j < k
      PROVE  /\ Start(j) < Start(k) /\ Start(j + 1) <= Start(k)
             /\ Release(j) < Release(k)
  <2>1. j \in DOMAIN schedule /\ k \in 1 .. Len(schedule) + 1
    <3>1. j \in DOMAIN schedule /\ k \in DOMAIN schedule
      BY <1>3
    <3>2. QED
      BY <1>2, <3>1
  <2>2. Start(j) < Start(k) /\ Start(j + 1) <= Start(k)
    BY <1>2, <1>4, <2>1, StartGrows
  <2>3. /\ Start(j + 1) = Start(j) + schedule[j] /\ schedule[j] \in Nat /\ Start(j) \in Nat
        /\ schedule[k] \in Nat \ {0} /\ Start(k) \in Nat
        /\ Release(j) = Start(j) + schedule[j] + Lag
        /\ Release(k) = Start(k) + schedule[k] + Lag
    BY <1>3
  <2>4. QED
    BY <1>2, <2>2, <2>3
<1>5. QED
  BY <1>1, <1>3, <1>4

(* What a feed leaves of them: all but perhaps the last.                   *)
Kept(K, reply) ==
  /\ K \in SUBSET PrintedFigures
  /\ \A k \in PrintedFigures \ K : k = Len(figures)
  /\ DOMAIN reply = {} => K = PrintedFigures

OrderOf(K) == InOrder([k \in K |-> Start(k)])

(* Sorted by the days they start, the periods that are kept are in order.  *)
LEMMA KeptInOrder ==
  ASSUME CalendarInv, NEW K \in SUBSET DOMAIN figures
  PROVE  /\ IsFiniteSet(K) /\ Cardinality(K) \in Nat
         /\ OrderOf(K) \in [1 .. Cardinality(K) -> K]
         /\ \A k \in K : \E n \in 1 .. Cardinality(K) : OrderOf(K)[n] = k
         /\ \A m, n \in 1 .. Cardinality(K) : m < n => OrderOf(K)[m] < OrderOf(K)[n]
<1> DEFINE keys == [k \in K |-> Start(k)]
<1>1. IsFiniteSet(DOMAIN figures)
  BY CalendarDays, FS_Interval
<1>2. IsFiniteSet(K) /\ Cardinality(K) \in Nat
  BY <1>1, FS_Subset, FS_CardinalityType
<1>3. K \in SUBSET Int /\ keys \in [K -> Int]
  BY CalendarDays
<1>4. \A i, j \in K : i < j => keys[i] < keys[j]
  BY CalendarDays
<1> HIDE DEF keys
<1>5. /\ InOrder(keys) \in [1 .. Cardinality(K) -> K]
      /\ \A k \in K : \E n \in 1 .. Cardinality(K) : InOrder(keys)[n] = k
  BY <1>2, <1>3, InOrderSorts
<1>6. \A m, n \in 1 .. Cardinality(K) : m < n => InOrder(keys)[m] < InOrder(keys)[n]
  BY <1>2, <1>3, <1>4, InOrderAsTheyStand
<1>7. QED
  BY <1>2, <1>5, <1>6 DEF keys, OrderOf

(* A list sorted by the starts of its periods.                             *)
LEMMA OldestFirstIs ==
  ASSUME NEW K, NEW items, DOMAIN items = K, \A k \in K : items[k].date = Start(k)
  PROVE  /\ OldestFirst(items) = [n \in 1 .. Cardinality(K) |-> items[OrderOf(K)[n]]]
         /\ DOMAIN OrderOf(K) = 1 .. Cardinality(K)
<1>1. [i \in DOMAIN items |-> items[i].date] = [k \in K |-> Start(k)]
  OBVIOUS
<1>2. DOMAIN InOrder([k \in K |-> Start(k)]) = 1 .. Cardinality(K)
  BY DEF InOrder
<1>3. QED
  BY <1>1, <1>2 DEF OldestFirst, OrderOf

(* A fault of a series takes at most the date of the last of its rows.     *)
LEMMA LastRowMarred ==
  ASSUME CalendarInv, NEW reply, NEW feed, NEW rows,
         DOMAIN rows = DOMAIN figures, rows = [k \in DOMAIN rows |-> rows[k]],
         \A k \in DOMAIN rows : "date" \in DOMAIN rows[k]
                                  /\ rows[k] = [f \in DOMAIN rows[k] |-> rows[k][f]]
  PROVE  LET marred == Marred(reply, feed, rows, "date")
         IN  /\ DOMAIN marred = DOMAIN figures
             /\ \A k \in DOMAIN figures :
                  /\ marred[k].date \in {rows[k].date, Absent, Unreadable}
                  /\ \A f \in DOMAIN rows[k] \ {"date"} : marred[k][f] = rows[k][f]
             /\ \A k \in DOMAIN figures :
                  k # Len(figures) \/ DOMAIN reply = {} => marred[k] = rows[k]
<1> DEFINE marred == Marred(reply, feed, rows, "date")
           plain  == rows = <<>> \/ Ok(reply, feed) \/ reply[feed] \in {"refused", "complaint"}
<1>1. CASE plain
  <2>1. marred = rows
    BY <1>1 DEF Marred
  <2> HIDE DEF marred
  <2>2. QED
    BY <2>1 DEF marred
<1>2. CASE ~plain
  <2> DEFINE last == Max(DOMAIN rows)
             v == IF reply[feed] = "undated" THEN Absent ELSE Unreadable
  <2>1. marred = [rows EXCEPT ![last]["date"] = v]
    BY <1>2 DEF Marred
  <2>2. DOMAIN rows # {}
    <3>1. SUFFICES ASSUME DOMAIN rows = {} PROVE FALSE
      OBVIOUS
    <3>2. rows = [k \in {} |-> rows[k]]
      BY <3>1
    <3>3. <<>> = [k \in {} |-> rows[k]]
      OBVIOUS
    <3>4. QED
      BY <1>2, <3>2, <3>3
  <2>3. last = Len(figures)
    <3>1. Len(figures) \in DOMAIN rows /\ \A k \in DOMAIN rows : k \in Int /\ Len(figures) >= k
      BY <2>2, CalendarDays
    <3>2. QED
      BY <3>1 DEF Max
  <2>4. DOMAIN reply # {}
    BY <1>2 DEF Ok
  <2>5. v \in {Absent, Unreadable}
    OBVIOUS
  <2> HIDE DEF last, v, marred
  <2>6. DOMAIN marred = DOMAIN figures
    BY <2>1
  <2>7. \A k \in DOMAIN figures : k # last => marred[k] = rows[k]
    BY <2>1
  <2>8. ASSUME NEW k \in DOMAIN figures, k = last
        PROVE  /\ marred[k].date = v
               /\ \A f \in DOMAIN rows[k] \ {"date"} : marred[k][f] = rows[k][f]
    <3>1. marred[k] = [rows[k] EXCEPT !["date"] = v]
      BY <2>1, <2>8
    <3>2. QED
      BY <3>1
  <2>9. QED
    BY <2>3, <2>4, <2>5, <2>6, <2>7, <2>8 DEF marred
<1>3. QED
  BY <1>1, <1>2

-----------------------------------------------------------------------------
(* The rows of a series, as its feed marred them.                          *)
LEMMA PrintsMarred ==
  ASSUME CalendarInv, NEW reply, NEW feed
  PROVE  LET rows == Marred(reply, feed, Prints, "date")
         IN  /\ DOMAIN rows = DOMAIN figures
             /\ \A k \in DOMAIN figures :
                  /\ rows[k].value = figures[k]
                  /\ rows[k].date \in {Start(k), Absent, Unreadable}
                  /\ k # Len(figures) \/ DOMAIN reply = {} => rows[k].date = Start(k)
<1> DEFINE rows == Marred(reply, feed, Prints, "date")
<1>1. /\ DOMAIN Prints = DOMAIN figures
      /\ Prints = [k \in DOMAIN Prints |-> Prints[k]]
      /\ \A k \in DOMAIN figures : Prints[k] = [date |-> Start(k), value |-> figures[k]]
  BY DEF Prints
<1>2. \A k \in DOMAIN figures :
        /\ DOMAIN Prints[k] = {"date", "value"}
        /\ Prints[k] = [f \in DOMAIN Prints[k] |-> Prints[k][f]]
        /\ Prints[k].date = Start(k) /\ Prints[k].value = figures[k]
  BY <1>1
<1>3. /\ DOMAIN rows = DOMAIN figures
      /\ \A k \in DOMAIN figures :
           /\ rows[k].date \in {Prints[k].date, Absent, Unreadable}
           /\ \A f \in DOMAIN Prints[k] \ {"date"} : rows[k][f] = Prints[k][f]
      /\ \A k \in DOMAIN figures :
           k # Len(figures) \/ DOMAIN reply = {} => rows[k] = Prints[k]
  BY <1>1, <1>2, LastRowMarred
<1> HIDE DEF rows
<1>4. ASSUME NEW k \in DOMAIN figures
      PROVE  /\ rows[k].value = figures[k]
             /\ rows[k].date \in {Start(k), Absent, Unreadable}
             /\ k # Len(figures) \/ DOMAIN reply = {} => rows[k].date = Start(k)
  <2>1. /\ "value" \in DOMAIN Prints[k] \ {"date"}
        /\ Prints[k].date = Start(k) /\ Prints[k].value = figures[k]
    BY <1>2
  <2>2. rows[k]["value"] = Prints[k]["value"]
    BY <1>3, <2>1
  <2>3. QED
    BY <1>3, <2>1, <2>2
<1>5. QED
  BY <1>3, <1>4 DEF rows

(* What of them a normalizer keeps is dated to the start of its period.    *)
LEMMA PrintsKept ==
  ASSUME CalendarInv, NEW reply, NEW feed, NEW body, NEW required
  PROVE  LET rows  == Marred(reply, feed, Prints, "date")
             items == Normalized(body, required, Printed(rows), {"date"}, LAMBDA r : r)
         IN  items = Rejected \/ \E K : /\ Kept(K, reply) /\ DOMAIN items = K
                                        /\ \A k \in K : /\ items[k].date = Start(k)
                                                        /\ items[k].value = figures[k]
<1> DEFINE rows  == Marred(reply, feed, Prints, "date")
           K     == {k \in DOMAIN rows : rows[k].date # Absent /\ rows[k].value # Absent}
           items == Normalized(body, required, Printed(rows), {"date"}, LAMBDA r : r)
<1> SUFFICES ASSUME items # Rejected
             PROVE  /\ Kept(K, reply) /\ DOMAIN items = K
                    /\ \A k \in K : items[k].date = Start(k) /\ items[k].value = figures[k]
  OBVIOUS
<1>1. Printed(rows) = [k \in K |-> rows[k]]
  BY DEF Printed, RestrictValues, Restrict
<1>2. /\ DOMAIN rows = DOMAIN figures
      /\ \A k \in DOMAIN figures :
           /\ rows[k].value = figures[k]
           /\ rows[k].date \in {Start(k), Absent, Unreadable}
           /\ k # Len(figures) \/ DOMAIN reply = {} => rows[k].date = Start(k)
  BY PrintsMarred
<1> HIDE DEF rows
<1>3. K \in SUBSET PrintedFigures
  BY <1>2 DEF PrintedFigures
<1>4. \A k \in PrintedFigures : rows[k].date = Start(k) => k \in K
  BY <1>2, CalendarDays DEF PrintedFigures
<1>5. Kept(K, reply)
  <2>1. \A k \in PrintedFigures : k \in DOMAIN figures
    BY DEF PrintedFigures
  <2> HIDE DEF K
  <2>2. QED
    BY <1>2, <1>3, <1>4, <2>1 DEF Kept
<1> HIDE DEF K
<1>6. /\ DOMAIN items = K
      /\ \A k \in K : rows[k].date # Unreadable /\ items[k] = rows[k]
  BY <1>1 DEF Normalized
<1> HIDE DEF items
<1>7. \A k \in K : rows[k].date = Start(k) /\ rows[k].value = figures[k]
  BY <1>2, <1>6 DEF K
<1>8. QED
  BY <1>5, <1>6, <1>7

(* A list of the feeds: a place for each period that is kept, in order.    *)
Told(events, K) ==
  /\ DOMAIN events = 1 .. Cardinality(K)
  /\ \A n \in DOMAIN events : events[n].period = Start(OrderOf(K)[n])

(* FMP's indicators, without a day of release.                             *)
LEMMA EconomicIndicatorsTold ==
  ASSUME CalendarInv, NEW reply, NEW feed, NEW body
  PROVE  LET events == Items(EconomicIndicators(body, Marred(reply, feed, Prints, "date")))
         IN  events = <<>> \/ \E K : /\ Kept(K, reply) /\ Told(events, K)
                                     /\ \A n \in DOMAIN events : events[n].released = -1
<1> DEFINE rows  == Marred(reply, feed, Prints, "date")
           items == Normalized(body, {"root"}, Printed(rows), {"date"}, LAMBDA r : r)
           ordered == OldestFirst(items)
           list  == EconomicIndicators(body, rows)
<1>1. list = IF items = Rejected THEN Rejected
             ELSE [i \in DOMAIN ordered |-> Figure(ordered[i].date, -1, ordered[i].value)]
  BY DEF EconomicIndicators
<1>2. items = Rejected \/ \E K : /\ Kept(K, reply) /\ DOMAIN items = K
                                 /\ \A k \in K : /\ items[k].date = Start(k)
                                                 /\ items[k].value = figures[k]
  BY PrintsKept
<1> HIDE DEF list, items
<1>3. CASE list = Rejected
  BY <1>3 DEF Items, list
<1>4. CASE list # Rejected
  <2>1. PICK K : /\ Kept(K, reply) /\ DOMAIN items = K
                 /\ \A k \in K : items[k].date = Start(k)
    BY <1>1, <1>2, <1>4
  <2>2. /\ DOMAIN ordered = 1 .. Cardinality(K)
        /\ \A n \in 1 .. Cardinality(K) : ordered[n] = items[OrderOf(K)[n]]
    <3>1. ordered = [n \in 1 .. Cardinality(K) |-> items[OrderOf(K)[n]]]
      BY <2>1, OldestFirstIs
    <3> HIDE DEF ordered
    <3>2. QED
      BY <3>1
  <2>3. K \in SUBSET DOMAIN figures
    BY <2>1 DEF Kept, PrintedFigures
  <2>4. \A n \in 1 .. Cardinality(K) : OrderOf(K)[n] \in K
    BY <2>3, KeptInOrder
  <2>5. list = [i \in DOMAIN ordered |-> Figure(ordered[i].date, -1, ordered[i].value)]
    BY <1>1, <1>4
  <2> HIDE DEF ordered
  <2>6. /\ Told(list, K)
        /\ \A n \in DOMAIN list : list[n].released = -1
    BY <2>1, <2>2, <2>4, <2>5 DEF Told, Figure
  <2>7. Items(list) = list
    BY <1>4 DEF Items
  <2>8. QED
    BY <2>1, <2>6, <2>7 DEF list
<1>5. QED
  BY <1>3, <1>4

(* FMP's treasury rates: a curve, of the periods that have both yields.    *)
LEMMA TreasuryCurveTold ==
  ASSUME CalendarInv, NEW reply, NEW feed, NEW body
  PROVE  LET yields == [k \in DOMAIN figures |->
                          [date |-> Start(k), ten |-> figures[k], two |-> 0]]
             events == Items(TreasuryCurve(body, Marred(reply, feed, yields, "date")))
         IN  events = <<>> \/ \E K : /\ Kept(K, reply) /\ Told(events, K)
                                     /\ \A n \in DOMAIN events : events[n].released = -1
<1> DEFINE yields == [k \in DOMAIN figures |->
                        [date |-> Start(k), ten |-> figures[k], two |-> 0]]
           rows  == Marred(reply, feed, yields, "date")
           dated == {k \in DOMAIN rows : rows[k].date # Absent}
           items == Normalized(body, {"root"}, RestrictValues(rows, LAMBDA r : r.date # Absent),
                               {"date"}, LAMBDA r : r)
           K     == {k \in DOMAIN items : Absent \notin {items[k].ten, items[k].two}}
           held  == RestrictValues(items, LAMBDA r : Absent \notin {r.ten, r.two})
           whole == OldestFirst(held)
           list  == TreasuryCurve(body, rows)
<1>1. list = IF items = Rejected THEN Rejected
             ELSE [i \in DOMAIN whole |-> Figure(whole[i].date, -1, whole[i].ten - whole[i].two)]
  BY DEF TreasuryCurve
<1>2. /\ DOMAIN rows = DOMAIN figures
      /\ \A k \in DOMAIN figures :
           /\ rows[k].ten = figures[k] /\ rows[k].two = 0
           /\ rows[k].date \in {Start(k), Absent, Unreadable}
           /\ k # Len(figures) \/ DOMAIN reply = {} => rows[k].date = Start(k)
  <2>1. /\ DOMAIN yields = DOMAIN figures
        /\ yields = [k \in DOMAIN yields |-> yields[k]]
        /\ \A k \in DOMAIN figures :
             /\ DOMAIN yields[k] = {"date", "ten", "two"}
             /\ yields[k] = [f \in DOMAIN yields[k] |-> yields[k][f]]
             /\ yields[k].date = Start(k) /\ yields[k].ten = figures[k] /\ yields[k].two = 0
    OBVIOUS
  <2> HIDE DEF yields
  <2>2. /\ DOMAIN rows = DOMAIN figures
        /\ \A k \in DOMAIN figures :
             /\ rows[k].date \in {yields[k].date, Absent, Unreadable}
             /\ \A f \in DOMAIN yields[k] \ {"date"} : rows[k][f] = yields[k][f]
        /\ \A k \in DOMAIN figures :
             k # Len(figures) \/ DOMAIN reply = {} => rows[k] = yields[k]
    BY <2>1, LastRowMarred
  <2> HIDE DEF rows
  <2>3. QED
    BY <2>1, <2>2
<1>3. items = Rejected
        \/ (DOMAIN items = dated /\ \A k \in dated : /\ rows[k].date # Unreadable
                                                     /\ items[k] = rows[k])
  <2>1. RestrictValues(rows, LAMBDA r : r.date # Absent) = [k \in dated |-> rows[k]]
    BY DEF RestrictValues, Restrict
  <2> HIDE DEF rows, dated
  <2>2. QED
    BY <2>1 DEF Normalized
<1>4. held = [k \in K |-> items[k]]
  BY DEF RestrictValues, Restrict
<1> HIDE DEF list, items, rows, held
<1>5. CASE list = Rejected
  BY <1>5 DEF Items, list, rows
<1>6. CASE list # Rejected
  <2>1. /\ DOMAIN items = dated
        /\ \A k \in dated : rows[k].date # Unreadable /\ items[k] = rows[k]
    BY <1>1, <1>3, <1>6
  <2>2. K \in SUBSET PrintedFigures
    BY <1>2, <2>1 DEF PrintedFigures
  <2>3. \A k \in PrintedFigures : rows[k].date = Start(k) => k \in K
    <3>1. 0 # Absent
      BY HolesAssumption
    <3>2. QED
      BY <1>2, <2>1, <3>1, CalendarDays DEF PrintedFigures
  <2>4. \A k \in K : items[k].date = Start(k)
    BY <1>2, <2>1
  <2> HIDE DEF K
  <2>5. \A k \in PrintedFigures : k \in DOMAIN figures
    BY DEF PrintedFigures
  <2>6. Kept(K, reply)
    BY <1>2, <2>2, <2>3, <2>5 DEF Kept
  <2>7. DOMAIN held = K /\ \A k \in K : held[k].date = Start(k)
    BY <1>4, <2>4
  <2>8. /\ DOMAIN whole = 1 .. Cardinality(K)
        /\ \A n \in 1 .. Cardinality(K) : whole[n] = held[OrderOf(K)[n]]
    <3>1. whole = [n \in 1 .. Cardinality(K) |-> held[OrderOf(K)[n]]]
      BY <2>7, OldestFirstIs
    <3> HIDE DEF whole
    <3>2. QED
      BY <3>1
  <2>9. \A n \in 1 .. Cardinality(K) : OrderOf(K)[n] \in K
    BY <2>2, <2>5, KeptInOrder
  <2>10. list = [i \in DOMAIN whole |->
                   Figure(whole[i].date, -1, whole[i].ten - whole[i].two)]
    BY <1>1, <1>6
  <2> HIDE DEF whole
  <2>11. Told(list, K) /\ \A n \in DOMAIN list : list[n].released = -1
    BY <2>7, <2>8, <2>9, <2>10 DEF Told, Figure
  <2>12. Items(list) = list
    BY <1>6 DEF Items
  <2>13. QED
    BY <2>6, <2>11, <2>12 DEF list, rows
<1>7. QED
  BY <1>5, <1>6

(* FRED's observations, which carry the day of their release.              *)
StartsOf(K) == [n \in 1 .. Cardinality(K) |-> Start(OrderOf(K)[n])]
EndOf(K, n) == IF n < Cardinality(K) THEN StartsOf(K)[n + 1]
               ELSE StartsOf(K)[n] + MedianGap(StartsOf(K))
Observed(K, releases) ==
  [n \in 1 .. Cardinality(K) |->
     Figure(StartsOf(K)[n], CarriedBy(StartsOf(K)[n], EndOf(K, n), releases),
            figures[OrderOf(K)[n]])]

(* The list is rejected, or it tells of all that the feed leaves.          *)
LEMMA ObservationsTold ==
  ASSUME CalendarInv, NEW reply, NEW feed, NEW body, NEW releases
  PROVE  LET rows   == Marred(reply, feed, Prints, "date")
             items  == Normalized(body, {"observations"}, Printed(rows), {"date"}, LAMBDA r : r)
             list   == SeriesObservations(body, rows, releases)
         IN  \/ items = Rejected /\ list = Rejected
             \/ items # Rejected /\ \E K : Kept(K, reply) /\ list = Observed(K, releases)
<1> DEFINE rows  == Marred(reply, feed, Prints, "date")
           items == Normalized(body, {"observations"}, Printed(rows), {"date"}, LAMBDA r : r)
           seq   == OldestFirst(items)
           gap   == MedianGap([i \in DOMAIN seq |-> seq[i].date])
           End(i) == IF i < Len(seq) THEN seq[i + 1].date ELSE seq[i].date + gap
           list  == SeriesObservations(body, rows, releases)
<1>1. list = IF items = Rejected THEN Rejected
             ELSE [i \in DOMAIN seq |->
                     Figure(seq[i].date, CarriedBy(seq[i].date, End(i), releases), seq[i].value)]
  BY DEF SeriesObservations
<1>2. items = Rejected \/ \E K : /\ Kept(K, reply) /\ DOMAIN items = K
                                 /\ \A k \in K : /\ items[k].date = Start(k)
                                                 /\ items[k].value = figures[k]
  BY PrintsKept
<1> HIDE DEF list, items
<1>3. ASSUME items # Rejected
      PROVE  \E K : Kept(K, reply) /\ list = Observed(K, releases)
  <2>1. PICK K : /\ Kept(K, reply) /\ DOMAIN items = K
                 /\ \A k \in K : items[k].date = Start(k) /\ items[k].value = figures[k]
    BY <1>2, <1>3
  <2> DEFINE size == Cardinality(K)
  <2>2. seq = [n \in 1 .. size |-> items[OrderOf(K)[n]]]
    BY <2>1, OldestFirstIs
  <2>3. K \in SUBSET DOMAIN figures
    BY <2>1 DEF Kept, PrintedFigures
  <2>4. size \in Nat /\ \A n \in 1 .. size : OrderOf(K)[n] \in K
    BY <2>3, KeptInOrder
  <2> HIDE DEF size, seq
  <2>5. DOMAIN seq = 1 .. size /\ Len(seq) = size
    BY <2>2, <2>4
  <2>6. \A n \in 1 .. size : /\ seq[n].date = StartsOf(K)[n]
                             /\ seq[n].value = figures[OrderOf(K)[n]]
    BY <2>1, <2>2, <2>4 DEF StartsOf, size
  <2>7. [i \in DOMAIN seq |-> seq[i].date] = StartsOf(K)
    BY <2>5, <2>6 DEF StartsOf, size
  <2>8. \A n \in 1 .. size : End(n) = EndOf(K, n)
    <3>1. ASSUME NEW n \in 1 .. size, n < size PROVE End(n) = EndOf(K, n)
      <4>1. n + 1 \in 1 .. size
        BY <2>4, <3>1
      <4>2. QED
        BY <2>5, <2>6, <3>1, <4>1 DEF EndOf, size
    <3>2. ASSUME NEW n \in 1 .. size, ~(n < size) PROVE End(n) = EndOf(K, n)
      BY <2>5, <2>6, <2>7, <3>2 DEF EndOf, size
    <3>3. QED
      BY <3>1, <3>2
  <2> HIDE DEF End, gap
  <2>9. list = [i \in 1 .. size |->
                  Figure(seq[i].date, CarriedBy(seq[i].date, End(i), releases), seq[i].value)]
    BY <1>1, <1>3, <2>5
  <2>10. list = Observed(K, releases)
    BY <2>6, <2>8, <2>9 DEF Observed, size
  <2>11. QED
    BY <2>1, <2>10
<1>4. items = Rejected => list = Rejected
  BY <1>1
<1>5. QED
  BY <1>3, <1>4 DEF items, list

-----------------------------------------------------------------------------
(* The newest of the periods that are kept.                                *)
LEMMA LastInOrder ==
  ASSUME CalendarInv, NEW K \in SUBSET DOMAIN figures, K # {}
  PROVE  /\ Cardinality(K) \in Nat \ {0}
         /\ OrderOf(K)[Cardinality(K)] \in K
         /\ \A j \in K : j <= OrderOf(K)[Cardinality(K)]
<1> DEFINE size == Cardinality(K)
           e == OrderOf(K)
<1>1. /\ size \in Nat /\ e \in [1 .. size -> K]
      /\ \A k \in K : \E n \in 1 .. size : e[n] = k
      /\ \A m, n \in 1 .. size : m < n => e[m] < e[n]
  BY KeptInOrder
<1>2. K \in SUBSET Int
  BY CalendarDays
<1> HIDE DEF size, e
<1>3. size # 0
  BY <1>1
<1>4. size \in 1 .. size
  BY <1>1, <1>3
<1>5. ASSUME NEW j \in K PROVE j <= e[size]
  <2>1. PICK n \in 1 .. size : e[n] = j
    BY <1>1
  <2>2. n = size \/ n < size
    BY <1>1
  <2>3. n < size => e[n] < e[size]
    BY <1>1, <1>4
  <2>4. e[n] \in Int /\ e[size] \in Int
    BY <1>1, <1>2, <1>4
  <2>5. QED
    BY <2>1, <2>2, <2>3, <2>4
<1>6. QED
  BY <1>1, <1>3, <1>4, <1>5 DEF size, e

(* Newest is the last figure that is not missing.                          *)
LEMMA NewestIs ==
  ASSUME CalendarInv, PrintedFigures # {}
  PROVE  Newest \in PrintedFigures /\ \A j \in PrintedFigures : j <= Newest
<1>1. PrintedFigures \in SUBSET DOMAIN figures
  BY DEF PrintedFigures
<1>2. \E x \in PrintedFigures : \A y \in PrintedFigures : y <= x
  BY <1>1, LastInOrder
<1>3. PrintedFigures \in SUBSET Int
  BY <1>1, CalendarDays
<1>4. \E x \in PrintedFigures : \A y \in PrintedFigures : x >= y
  BY <1>2, <1>3
<1>5. Newest \in PrintedFigures /\ \A y \in PrintedFigures : Newest >= y
  BY <1>4 DEF Newest, Max
<1>6. QED
  BY <1>3, <1>5

(* A set that is no larger than one has no two elements.                   *)
LEMMA NoTwo ==
  ASSUME NEW S, IsFiniteSet(S), Cardinality(S) <= 1, NEW x \in S, NEW y \in S
  PROVE  x = y
<1>1. Cardinality(S) \in Nat
  BY FS_CardinalityType
<1>2. Cardinality(S) # 0
  BY FS_EmptySet
<1>3. Cardinality(S) = 1
  BY <1>1, <1>2
<1>4. \E z : S = {z}
  BY <1>3, FS_Singleton
<1>5. QED
  BY <1>4

(* It is the last that a feed leaves, or one print later than that.        *)
LEMMA NewestKept ==
  ASSUME CalendarInv, NEW reply, NEW K, Kept(K, reply), K # {}
  PROVE  LET k == OrderOf(K)[Cardinality(K)]
         IN  /\ k \in K /\ k \in PrintedFigures /\ k <= Newest
             /\ Cardinality(Later(k)) <= 1 /\ (DOMAIN reply = {} => k = Newest)
<1> DEFINE k == OrderOf(K)[Cardinality(K)]
<1>1. /\ K \in SUBSET PrintedFigures /\ PrintedFigures \in SUBSET DOMAIN figures
      /\ \A j \in PrintedFigures \ K : j = Len(figures)
      /\ DOMAIN reply = {} => K = PrintedFigures
  BY DEF Kept, PrintedFigures
<1>2. k \in K /\ \A j \in K : j <= k
  BY <1>1, LastInOrder
<1> HIDE DEF k
<1>3. Newest \in PrintedFigures /\ \A j \in PrintedFigures : j <= Newest
  BY <1>1, <1>2, NewestIs
<1>4. \A j \in PrintedFigures : j \in Int
  BY <1>1, CalendarDays
<1>5. Later(k) \in SUBSET {Len(figures)}
  BY <1>1, <1>2, <1>4 DEF Later
<1>6. Cardinality(Later(k)) <= 1
  <2>1. IsFiniteSet({Len(figures)}) /\ Cardinality({Len(figures)}) = 1
    BY FS_Singleton
  <2>2. QED
    BY <1>5, <2>1, FS_Subset
<1>7. DOMAIN reply = {} => k = Newest
  BY <1>1, <1>2, <1>3, <1>4
<1>8. QED
  BY <1>1, <1>2, <1>3, <1>6, <1>7 DEF k

(* Between two periods that are kept and follow each other, but are not    *)
(* neighbours, a print is missing.                                         *)
LEMMA MissingBetween ==
  ASSUME CalendarInv, NEW reply, NEW K, Kept(K, reply),
         NEW n \in 1 .. Cardinality(K) - 1, OrderOf(K)[n + 1] # OrderOf(K)[n] + 1
  PROVE  LET a == OrderOf(K)[n] + 1
         IN  a \in 1 .. Newest /\ figures[a] = Absent
<1> DEFINE size == Cardinality(K)
           e == OrderOf(K)
           a == e[n] + 1
<1>1. /\ K \in SUBSET PrintedFigures /\ K \in SUBSET DOMAIN figures
      /\ \A j \in PrintedFigures \ K : j = Len(figures)
  BY DEF Kept, PrintedFigures
<1>2. /\ size \in Nat /\ e \in [1 .. size -> K]
      /\ \A k \in K : \E m \in 1 .. size : e[m] = k
      /\ \A l, m \in 1 .. size : l < m => e[l] < e[m]
  BY <1>1, KeptInOrder
<1> HIDE DEF size, e
<1>3. n \in 1 .. size /\ n + 1 \in 1 .. size /\ n < n + 1
  BY <1>2 DEF size
<1>4. e[n] \in K /\ e[n + 1] \in K /\ e[n] < e[n + 1] /\ e[n + 1] # e[n] + 1
  BY <1>2, <1>3 DEF e
<1>5. e[n] \in DOMAIN figures /\ e[n + 1] \in DOMAIN figures
  BY <1>1, <1>4
<1>6. e[n] \in Nat /\ e[n] >= 1 /\ e[n + 1] \in Nat /\ e[n + 1] <= Len(figures)
      /\ Len(figures) \in Nat /\ DOMAIN figures = 1 .. Len(figures)
  BY <1>5, CalendarDays
<1>7. a \in DOMAIN figures /\ e[n] < a /\ a < e[n + 1] /\ a < Len(figures) /\ a \in Nat
  BY <1>4, <1>6
<1>8. a \notin K
  <2>1. SUFFICES ASSUME a \in K PROVE FALSE
    OBVIOUS
  <2>2. PICK m \in 1 .. size : e[m] = a
    BY <1>2, <2>1
  <2>3. m \in Int /\ n \in Int /\ (m <= n \/ n + 1 <= m)
    BY <1>2
  <2>4. m < n => e[m] < e[n]
    BY <1>2, <1>3
  <2>5. n + 1 < m => e[n + 1] < e[m]
    BY <1>2, <1>3
  <2>6. m = n \/ m = n + 1 \/ m < n \/ n + 1 < m
    BY <2>3
  <2>7. QED
    BY <1>6, <1>7, <2>2, <2>4, <2>5, <2>6
<1>9. figures[a] = Absent
  <2>1. a \notin PrintedFigures
    BY <1>1, <1>6, <1>7, <1>8
  <2>2. QED
    BY <1>7, <2>1 DEF PrintedFigures
<1>10. a \in 1 .. Newest
  <2>1. e[n + 1] \in PrintedFigures
    BY <1>1, <1>4
  <2>2. e[n + 1] <= Newest /\ Newest \in PrintedFigures
    BY <2>1, NewestIs
  <2>3. Newest \in Int
    BY <2>2, CalendarDays DEF PrintedFigures
  <2>4. QED
    BY <1>6, <1>7, <2>2, <2>3
<1>11. QED
  BY <1>9, <1>10 DEF e

(* With one print missing, all but one of the gaps are those of a period.  *)
LEMMA GapsArePeriods ==
  ASSUME CalendarInv, Sporadic, NEW reply, NEW K, Kept(K, reply)
  PROVE  \E odd : \A n \in 1 .. Cardinality(K) - 1 :
                    n # odd => OrderOf(K)[n + 1] = OrderOf(K)[n] + 1
<1> DEFINE size == Cardinality(K)
           e == OrderOf(K)
           Wide(n) == e[n + 1] # e[n] + 1
           odd == CHOOSE n \in 1 .. size - 1 : Wide(n)
<1> SUFFICES ASSUME NEW n \in 1 .. size - 1, n # odd, Wide(n) PROVE FALSE
  BY Zenon
<1>1. odd \in 1 .. size - 1 /\ Wide(odd)
  BY Zenon
<1> HIDE DEF odd
<1>2. K \in SUBSET DOMAIN figures
  BY DEF Kept, PrintedFigures
<1>3. /\ size \in Nat /\ e \in [1 .. size -> K]
      /\ \A l, m \in 1 .. size : l < m => e[l] < e[m]
  BY <1>2, KeptInOrder
<1> DEFINE missing == {k \in 1 .. Newest : figures[k] = Absent}
<1>4. e[n] + 1 \in missing /\ e[odd] + 1 \in missing
  BY <1>1, MissingBetween
<1>5. IsFiniteSet(missing)
  <2>1. K # {}
    <3>1. n \in 1 .. size
      BY <1>3
    <3>2. QED
      BY <1>3, <3>1
  <2>2. Newest \in Int
    BY <2>1, NewestIs, CalendarDays DEF Kept, PrintedFigures
  <2>3. IsFiniteSet(1 .. Newest) /\ missing \in SUBSET (1 .. Newest)
    BY <2>2, FS_Interval
  <2> HIDE DEF missing
  <2>4. QED
    BY <2>3, FS_Subset
<1>6. Cardinality(missing) <= 1
  BY DEF Sporadic
<1> HIDE DEF missing
<1>7. e[n] + 1 = e[odd] + 1
  BY <1>4, <1>5, <1>6, NoTwo
<1>8. n \in 1 .. size /\ odd \in 1 .. size /\ (n < odd \/ odd < n)
  BY <1>1, <1>3
<1>9. e[n] \in Int /\ e[odd] \in Int
  <2>1. e[n] \in K /\ e[odd] \in K
    <3> HIDE DEF e, size
    <3>1. QED
      BY <1>3, <1>8
  <2>2. \A k \in K : k \in Int
    BY <1>2, CalendarDays
  <2>3. QED
    BY <2>1, <2>2
<1>10. e[n] # e[odd]
  BY <1>3, <1>8, <1>9
<1>11. QED
  BY <1>7, <1>9, <1>10

-----------------------------------------------------------------------------
(* The starts of the periods that are kept are days, each before the next. *)
LEMMA StartsInOrder ==
  ASSUME CalendarInv, NEW K \in SUBSET DOMAIN figures
  PROVE  /\ StartsOf(K) \in Seq(Int) /\ Len(StartsOf(K)) = Cardinality(K)
         /\ \A n \in 1 .. Cardinality(K) : /\ StartsOf(K)[n] = Start(OrderOf(K)[n])
                                           /\ OrderOf(K)[n] \in K
<1> DEFINE size == Cardinality(K)
           s == StartsOf(K)
<1>1. size \in Nat /\ \A n \in 1 .. size : OrderOf(K)[n] \in K
  BY KeptInOrder
<1>2. \A n \in 1 .. size : Start(OrderOf(K)[n]) \in Int
  BY <1>1, CalendarDays
<1>3. s = [n \in 1 .. size |-> Start(OrderOf(K)[n])]
  BY DEF StartsOf
<1> HIDE DEF s, size
<1>4. s \in [1 .. size -> Int]
  BY <1>2, <1>3
<1>5. s \in Seq(Int)
  BY <1>1, <1>4
<1>6. Len(s) = size
  <2>1. Len(s) \in Nat /\ DOMAIN s = 1 .. Len(s)
    BY <1>5
  <2>2. DOMAIN s = 1 .. size
    BY <1>4
  <2>3. /\ Len(s) # 0 => Len(s) \in 1 .. size
        /\ size # 0 => size \in 1 .. Len(s)
    BY <1>1, <2>1, <2>2
  <2>4. Len(s) \in Nat /\ size \in Nat
    BY <1>1, <2>1
  <2>5. Len(s) <= size
    BY <2>3, <2>4
  <2>6. size <= Len(s)
    BY <2>3, <2>4
  <2>7. QED
    BY <2>4, <2>5, <2>6
<1>7. QED
  BY <1>1, <1>3, <1>5, <1>6 DEF s, size

(* In a calendar, the usual gap ends the newest period before its print.   *)
LEMMA UsualGap ==
  ASSUME CalendarInv, Sporadic, Even, NEW reply, NEW K, Kept(K, reply), Cardinality(K) >= 4
  PROVE  LET k == OrderOf(K)[Cardinality(K)]
         IN  MedianGap(StartsOf(K)) <= schedule[k] + Lag
<1> DEFINE size == Cardinality(K)
           e == OrderOf(K)
           k == e[size]
           bound == schedule[k] + Lag
           s == StartsOf(K)
<1>1. K \in SUBSET DOMAIN figures
  BY DEF Kept, PrintedFigures
<1>2. /\ s \in Seq(Int) /\ Len(s) = size
      /\ \A n \in 1 .. size : s[n] = Start(e[n]) /\ e[n] \in K
  BY <1>1, StartsInOrder
<1>3. PICK odd : \A n \in 1 .. size - 1 : n # odd => e[n + 1] = e[n] + 1
  BY GapsArePeriods
<1>4. size \in Nat /\ size >= 4
  BY <1>1, KeptInOrder
<1> HIDE DEF size, e, s
<1>5. size \in 1 .. size
  BY <1>4
<1>6. k \in K /\ k \in DOMAIN schedule /\ schedule[k] \in Nat /\ Lag \in Nat
  BY <1>1, <1>2, <1>5, CalendarDays, WorldAssumption
<1> HIDE DEF k
<1>7. bound \in Int
  BY <1>6
<1>8. ASSUME NEW n \in 1 .. size - 1, n # odd
      PROVE  s[n + 1] - s[n] <= bound
  <2>1. n \in 1 .. size /\ n + 1 \in 1 .. size
    BY <1>4
  <2>2. s[n + 1] = Start(e[n] + 1) /\ s[n] = Start(e[n]) /\ e[n] \in K
    BY <1>2, <1>3, <1>8, <2>1
  <2>3. /\ Start(e[n] + 1) = Start(e[n]) + schedule[e[n]] /\ Start(e[n]) \in Nat
        /\ schedule[e[n]] \in Nat /\ e[n] \in DOMAIN schedule
    BY <1>1, <2>2, CalendarDays
  <2>4. schedule[e[n]] <= schedule[k] + Lag
    BY <1>6, <2>3 DEF Even
  <2>5. QED
    BY <1>6, <2>2, <2>3, <2>4
<1> HIDE DEF bound
<1>9. MedianGap(s) <= bound
  BY <1>2, <1>4, <1>7, <1>8, MedianAtMost
<1>10. QED
  BY <1>9 DEF bound, s, k, e, size

(* The release that carries a period is the first once it is over.         *)
LEMMA CarriedIs ==
  ASSUME NEW releases \in SUBSET Nat, NEW period \in Int, NEW end \in Int
  PROVE  LET day == CarriedBy(period, end, releases)
         IN  \/ day = -1
             \/ /\ day \in releases /\ day >= end /\ end > period
                /\ \A d \in releases : d >= end => day <= d
<1> DEFINE later == {d \in releases : d >= end}
           day == CarriedBy(period, end, releases)
<1>1. day = IF end <= period \/ later = {} THEN -1 ELSE Min(later)
  BY DEF CarriedBy
<1>2. ASSUME ~(end <= period), later # {}
      PROVE  /\ day \in releases /\ day >= end /\ end > period
             /\ \A d \in releases : d >= end => day <= d
  <2>1. later \in SUBSET Nat
    OBVIOUS
  <2>2. \E i \in later : \A j \in later : i <= j
    BY <1>2, <2>1, LeastOf
  <2>3. Min(later) \in later /\ \A j \in later : Min(later) <= j
    BY <2>2 DEF Min
  <2>4. QED
    BY <1>1, <1>2, <2>3
<1>3. QED
  BY <1>1, <1>2

(* FRED's release dates are those of prints that are out; a fault costs    *)
(* the last of them, or all.                                               *)
FredDays(reply) ==
  IF Ok(reply, "fred_release")
  THEN ReleaseDates(BodyOf(reply, "fred_dates", "release_dates"),
         Marred(reply, "fred_dates", [k \in DOMAIN figures |-> [date |-> Release(k)]], "date"))
  ELSE {}

(* Only releases that took place are known; all but the last, if any is.   *)
LEMMA ReleasesKnown ==
  ASSUME CalendarInv, NEW reply
  PROVE  /\ \A d \in FredDays(reply) : \E k \in DOMAIN figures : d = Release(k)
         /\ \/ FredDays(reply) = {}
            \/ \A k \in DOMAIN figures : k # Len(figures) => Release(k) \in FredDays(reply)
<1> DEFINE given == [k \in DOMAIN figures |-> [date |-> Release(k)]]
           rows  == Marred(reply, "fred_dates", given, "date")
           body  == BodyOf(reply, "fred_dates", "release_dates")
           dated == {k \in DOMAIN rows : rows[k].date # Absent}
           items == Normalized(body, {"release_dates"},
                               RestrictValues(rows, LAMBDA r : r.date # Absent),
                               {"date"}, LAMBDA r : r.date)
<1>1. /\ DOMAIN rows = DOMAIN figures
      /\ \A k \in DOMAIN figures :
           /\ rows[k].date \in {Release(k), Absent, Unreadable}
           /\ k # Len(figures) => rows[k].date = Release(k)
  <2>1. /\ DOMAIN given = DOMAIN figures
        /\ given = [k \in DOMAIN given |-> given[k]]
        /\ \A k \in DOMAIN figures :
             /\ DOMAIN given[k] = {"date"}
             /\ given[k] = [f \in DOMAIN given[k] |-> given[k][f]]
             /\ given[k].date = Release(k)
    OBVIOUS
  <2> HIDE DEF given
  <2>2. /\ DOMAIN rows = DOMAIN figures
        /\ \A k \in DOMAIN figures : rows[k].date \in {given[k].date, Absent, Unreadable}
        /\ \A k \in DOMAIN figures :
             k # Len(figures) \/ DOMAIN reply = {} => rows[k] = given[k]
    BY <2>1, LastRowMarred
  <2> HIDE DEF rows
  <2>3. QED
    BY <2>1, <2>2
<1>2. RestrictValues(rows, LAMBDA r : r.date # Absent) = [k \in dated |-> rows[k]]
  BY DEF RestrictValues, Restrict
<1>3. FredDays(reply) = {} \/ (items # Rejected /\ FredDays(reply) = Range(items))
  BY DEF FredDays, ReleaseDates
<1> HIDE DEF rows, body
<1>4. items # Rejected => /\ DOMAIN items = dated
                          /\ \A k \in dated : /\ rows[k].date # Unreadable
                                              /\ items[k] = rows[k].date
  <2> HIDE DEF dated
  <2>1. QED
    BY <1>2 DEF Normalized
<1> HIDE DEF items
<1>5. ASSUME items # Rejected, FredDays(reply) = Range(items)
      PROVE  /\ \A d \in FredDays(reply) : \E k \in DOMAIN figures : d = Release(k)
             /\ \A k \in DOMAIN figures : k # Len(figures) => Release(k) \in FredDays(reply)
  <2>1. \A k \in dated : k \in DOMAIN figures /\ items[k] = Release(k)
    BY <1>1, <1>4, <1>5
  <2>2. \A k \in DOMAIN figures : k # Len(figures) => k \in dated
    BY <1>1, CalendarDays
  <2>3. Range(items) = {items[k] : k \in dated}
    BY <1>4, <1>5 DEF Range
  <2> HIDE DEF dated
  <2>4. QED
    BY <1>5, <2>1, <2>2, <2>3
<1>6. QED
  BY <1>3, <1>5

-----------------------------------------------------------------------------
(* The changes of a series, from each figure to the next.                  *)
Changes(events, size) == [i \in 1 .. size - 1 |-> events[i + 1].value - events[i].value]

(* A reading of a series whose periods are all past is of the last.        *)
LEMMA ReleaseChangeIs ==
  ASSUME today \in Int, NEW size \in Nat, NEW events, DOMAIN events = 1 .. size,
         \A n \in 1 .. size : events[n].period <= today, NEW factor
  PROVE  LET r == ReleaseChange(events, factor, today, MacroAge, MinHistory)
         IN  /\ \/ r = NoReading
                \/ size > MinHistory /\ r.day = KnownAt(events[size]) /\ r.factor = factor
             /\ (size > MinHistory /\ ~IsStale(KnownAt(events[size]), today, MacroAge)
                  /\ Spread(Changes(events, size)) # 0)
                  => r.day = KnownAt(events[size]) /\ r.factor = factor
<1> DEFINE n == Cardinality({i \in DOMAIN events : events[i].period <= today})
           r == ReleaseChange(events, factor, today, MacroAge, MinHistory)
<1>1. MinHistory \in Nat
  BY WorldAssumption
<1>2. {i \in DOMAIN events : events[i].period <= today} = 1 .. size
  OBVIOUS
<1>3. n = size
  <2>1. Cardinality(1 .. size) = size
    BY FS_Interval
  <2>2. QED
    BY <1>2, <2>1
<1> DEFINE changes == Changes(events, n)
           known == KnownAt(events[n])
           strength == Strength(changes[n - 1], changes)
<1>4. r = IF n < MinHistory + 1 THEN NoReading
          ELSE IF IsStale(known, today, MacroAge) THEN NoReading
          ELSE IF Spread(changes) = 0 THEN NoReading
          ELSE Trend(factor, factor, strength, known)
  BY DEF ReleaseChange, Changes
<1> HIDE DEF r, n
<1>5. n < MinHistory + 1 <=> ~(size > MinHistory)
  BY <1>1, <1>3
<1> HIDE DEF known, strength, changes
<1>6. LET t == Trend(factor, factor, strength, known) IN t.day = known /\ t.factor = factor
  BY DEF Trend
<1>7. /\ r = NoReading \/ (size > MinHistory /\ r.day = known /\ r.factor = factor)
      /\ (size > MinHistory /\ ~IsStale(known, today, MacroAge) /\ Spread(changes) # 0)
           => r.day = known /\ r.factor = factor
  BY <1>4, <1>5, <1>6
<1>8. QED
  BY <1>3, <1>7 DEF r, known, changes

(* The window in which a reading is dated.                                 *)
InItsWindow(r, reply) ==
  /\ r.day <= today
  /\ Sporadic /\ Even =>
       \E k \in PrintedFigures :
         /\ r.day \in Start(k) .. Release(k)
         /\ Cardinality(Later(k)) <= 1 /\ (DOMAIN reply = {} => k = Newest)

(* FMP's series, whose figures are dated by their periods.                 *)
LEMMA UnreleasedInWindow ==
  ASSUME CalendarInv, NEW reply, NEW events, NEW factor,
         events = <<>> \/ \E K : /\ Kept(K, reply) /\ Told(events, K)
                                 /\ \A n \in DOMAIN events : events[n].released = -1,
         ReleaseChange(events, factor, today, MacroAge, MinHistory) # NoReading
  PROVE  InItsWindow(ReleaseChange(events, factor, today, MacroAge, MinHistory), reply)
<1> DEFINE r == ReleaseChange(events, factor, today, MacroAge, MinHistory)
<1>1. today \in Int /\ MinHistory \in Nat
  BY WorldAssumption DEF CalendarInv
<1>2. events # <<>>
  <2>1. SUFFICES ASSUME events = <<>> PROVE FALSE
    OBVIOUS
  <2>2. DOMAIN events = 1 .. 0
    BY <2>1
  <2>3. \A n \in 1 .. 0 : events[n].period <= today
    OBVIOUS
  <2>4. r = NoReading \/ 0 > MinHistory
    BY <1>1, <2>2, <2>3, ReleaseChangeIs
  <2>5. QED
    BY <1>1, <2>4
<1>3. PICK K : /\ Kept(K, reply) /\ Told(events, K)
               /\ \A n \in DOMAIN events : events[n].released = -1
  BY <1>2
<1> DEFINE size == Cardinality(K)
           k == OrderOf(K)[size]
<1>4. K \in SUBSET DOMAIN figures
  BY <1>3 DEF Kept, PrintedFigures
<1>5. size \in Nat /\ \A n \in 1 .. size : OrderOf(K)[n] \in K
  BY <1>4, KeptInOrder
<1>6. DOMAIN events = 1 .. size /\ \A n \in 1 .. size : events[n].period = Start(OrderOf(K)[n])
  BY <1>3 DEF Told
<1>7. \A n \in 1 .. size : events[n].period <= today
  <2>1. ASSUME NEW n \in 1 .. size PROVE events[n].period <= today
    <3>1. OrderOf(K)[n] \in DOMAIN figures
      BY <1>4, <1>5
    <3>2. /\ Start(OrderOf(K)[n]) <= Release(OrderOf(K)[n])
          /\ Release(OrderOf(K)[n]) <= today /\ Start(OrderOf(K)[n]) \in Nat
          /\ Release(OrderOf(K)[n]) \in Nat
      BY <3>1, CalendarDays
    <3>3. QED
      BY <1>1, <1>6, <3>2
  <2>2. QED
    BY <2>1
<1> HIDE DEF size
<1>8. size > MinHistory /\ r.day = KnownAt(events[size])
  BY <1>1, <1>5, <1>6, <1>7, ReleaseChangeIs
<1>9. size \in 1 .. size /\ K # {}
  <2>1. size \in 1 .. size
    BY <1>1, <1>5, <1>8
  <2>2. QED
    BY <1>5, <2>1
<1> HIDE DEF r
<1>10. r.day = Start(k)
  BY <1>3, <1>6, <1>8, <1>9 DEF KnownAt
<1>11. /\ k \in PrintedFigures /\ Cardinality(Later(k)) <= 1
       /\ DOMAIN reply = {} => k = Newest
  BY <1>3, <1>9, NewestKept DEF size
<1>12. Start(k) \in Start(k) .. Release(k) /\ Start(k) <= today
  <2>1. /\ Start(k) \in Nat /\ Release(k) \in Nat
        /\ Start(k) <= Release(k) /\ Release(k) <= today
    BY <1>4, <1>5, <1>9, CalendarDays
  <2>2. QED
    BY <1>1, <2>1
<1>13. InItsWindow(r, reply)
  BY <1>10, <1>11, <1>12 DEF InItsWindow
<1>14. QED
  BY <1>13 DEF r

(* The newest of FRED's observations, dated by its release.                *)
LEMMA ObservedInWindow ==
  ASSUME CalendarInv, NEW reply, NEW K, Kept(K, reply), Cardinality(K) >= 4
  PROVE  LET events == Observed(K, FredDays(reply))
             k == OrderOf(K)[Cardinality(K)]
         IN  /\ KnownAt(events[Cardinality(K)]) <= today
             /\ Sporadic /\ Even => KnownAt(events[Cardinality(K)]) \in Start(k) .. Release(k)
<1> DEFINE size == Cardinality(K)
           releases == FredDays(reply)
           last == Observed(K, releases)[size]
           k == OrderOf(K)[size]
           gap == MedianGap(StartsOf(K))
           day == CarriedBy(Start(k), Start(k) + gap, releases)
<1>1. K \in SUBSET DOMAIN figures /\ today \in Int
  BY DEF Kept, PrintedFigures, CalendarInv
<1>2. size \in Nat /\ size >= 4 /\ size \in 1 .. size /\ ~(size < size)
  <2>1. size \in Nat
    BY <1>1, KeptInOrder
  <2> HIDE DEF size
  <2>2. size >= 4
    BY DEF size
  <2>3. QED
    BY <2>1, <2>2
<1>3. /\ StartsOf(K) \in Seq(Int) /\ Len(StartsOf(K)) = size
      /\ StartsOf(K)[size] = Start(k) /\ k \in K
  BY <1>1, <1>2, StartsInOrder
<1>4. gap \in Int
  <2>1. \E i \in 1 .. Len(StartsOf(K)) - 1 :
          MedianGap(StartsOf(K)) = Gaps(StartsOf(K))[i] /\ Gaps(StartsOf(K))[i] \in Int
    BY <1>2, <1>3, MedianOfGaps
  <2>2. QED
    BY <2>1
<1>5. last = Figure(Start(k), day, figures[k])
  BY <1>2, <1>3 DEF Observed, EndOf
<1>6. KnownAt(last) = IF day < 0 THEN Start(k) ELSE day
  BY <1>5 DEF KnownAt, Figure
<1>7. /\ k \in DOMAIN figures /\ Start(k) \in Nat /\ Release(k) \in Nat /\ schedule[k] \in Nat
      /\ Start(k) <= Release(k) /\ Release(k) <= today
      /\ Release(k) = Start(k) + schedule[k] + Lag /\ Lag \in Nat
  BY <1>1, <1>3, CalendarDays, WorldAssumption
<1> HIDE DEF size, k, gap, last
<1>8. \A d \in releases : \E j \in DOMAIN figures : d = Release(j)
  BY ReleasesKnown
<1>9. releases \in SUBSET Nat
  BY <1>8, CalendarDays
<1>10. \/ day = -1
       \/ /\ day \in releases /\ day >= Start(k) + gap /\ Start(k) + gap > Start(k)
          /\ \A d \in releases : d >= Start(k) + gap => day <= d
  BY <1>4, <1>7, <1>9, CarriedIs
<1>11. \/ releases = {}
       \/ \A j \in DOMAIN figures : j # Len(figures) => Release(j) \in releases
  BY ReleasesKnown
<1> HIDE DEF releases, day
<1>12. KnownAt(last) <= today
  <2>1. day \in releases => day <= today
    BY <1>8, CalendarDays
  <2>2. QED
    BY <1>1, <1>6, <1>7, <1>10, <2>1
<1>13. ASSUME Sporadic, Even PROVE KnownAt(last) \in Start(k) .. Release(k)
  <2>1. gap <= schedule[k] + Lag
    BY <1>2, <1>13, UsualGap DEF gap, k, size
  <2>2. Release(k) >= Start(k) + gap
    BY <1>4, <1>7, <2>1
  <2>3. CASE day = -1
    BY <1>6, <1>7, <2>3
  <2>4. CASE day # -1
    <3>1. /\ day \in releases /\ day >= Start(k) + gap /\ Start(k) + gap > Start(k)
          /\ \A d \in releases : d >= Start(k) + gap => day <= d
      BY <1>10, <2>4
    <3>2. PICK j \in DOMAIN figures : day = Release(j)
      BY <1>8, <3>1
    <3>3. day <= Release(k)
      <4>1. CASE k # Len(figures)
        <5>1. Release(k) \in releases
          BY <1>7, <1>11, <3>1, <4>1
        <5>2. QED
          BY <2>2, <3>1, <5>1
      <4>2. CASE k = Len(figures)
        <5>1. j \in Nat /\ k \in Nat /\ j <= k
          BY <1>7, <3>2, <4>2, CalendarDays
        <5>2. j < k => Release(j) < Release(k)
          BY <1>7, <3>2, CalendarDays
        <5>3. Release(j) \in Nat /\ (j = k \/ j < k)
          BY <3>2, <5>1, CalendarDays
        <5>4. QED
          BY <1>7, <3>2, <5>2, <5>3
      <4>3. QED
        BY <4>1, <4>2
    <3>4. day \in Nat /\ ~(day < 0)
      BY <1>9, <3>1
    <3>5. QED
      BY <1>4, <1>6, <1>7, <3>1, <3>3, <3>4
  <2>5. QED
    BY <2>3, <2>4
<1>14. QED
  BY <1>12, <1>13 DEF last, releases, size, k

-----------------------------------------------------------------------------
(* FRED's reading is in its window.                                        *)
LEMMA FredInWindow ==
  ASSUME CalendarInv, NEW reply, FredReading(reply) # NoReading
  PROVE  InItsWindow(FredReading(reply), reply)
<1> DEFINE body == BodyOf(reply, "fred_series", "observations")
           rows == Marred(reply, "fred_series", Prints, "date")
           list == SeriesObservations(body, rows, FredDays(reply))
           r == ReleaseChange(Items(list), "cpi", today, MacroAge, MinHistory)
<1>1. FredReading(reply) = r
  BY DEF FredReading, FredDays
<1>2. today \in Int /\ MinHistory \in Nat /\ MinHistory >= 3
  BY WorldAssumption, SeriesAssumption DEF CalendarInv
<1>3. list = Rejected \/ \E K : Kept(K, reply) /\ list = Observed(K, FredDays(reply))
  BY ObservationsTold
<1> HIDE DEF list
<1>4. list # Rejected
  <2>1. SUFFICES ASSUME list = Rejected PROVE FALSE
    OBVIOUS
  <2>2. Items(list) = <<>>
    BY <2>1 DEF Items
  <2>3. DOMAIN Items(list) = 1 .. 0
    BY <2>2
  <2>4. \A n \in 1 .. 0 : Items(list)[n].period <= today
    OBVIOUS
  <2>5. r = NoReading \/ 0 > MinHistory
    BY <1>2, <2>3, <2>4, ReleaseChangeIs
  <2>6. QED
    BY <1>1, <1>2, <2>5
<1>5. PICK K : Kept(K, reply) /\ list = Observed(K, FredDays(reply))
  BY <1>3, <1>4
<1>6. Items(list) = Observed(K, FredDays(reply))
  BY <1>4, <1>5 DEF Items
<1> DEFINE size == Cardinality(K)
           events == Observed(K, FredDays(reply))
           k == OrderOf(K)[size]
<1>7. K \in SUBSET DOMAIN figures
  BY <1>5 DEF Kept, PrintedFigures
<1>8. size \in Nat /\ \A n \in 1 .. size : OrderOf(K)[n] \in K
  BY <1>7, KeptInOrder
<1>9. /\ DOMAIN events = 1 .. size
      /\ \A n \in 1 .. size : events[n].period = Start(OrderOf(K)[n])
  <2>1. \A n \in 1 .. size : StartsOf(K)[n] = Start(OrderOf(K)[n])
    BY <1>7, StartsInOrder
  <2>2. QED
    BY <2>1 DEF Observed, Figure
<1> HIDE DEF size, events
<1>10. \A n \in 1 .. size : events[n].period <= today
  <2>1. ASSUME NEW n \in 1 .. size PROVE events[n].period <= today
    <3>1. OrderOf(K)[n] \in DOMAIN figures
      BY <1>7, <1>8
    <3>2. /\ Start(OrderOf(K)[n]) <= Release(OrderOf(K)[n])
          /\ Release(OrderOf(K)[n]) <= today /\ Start(OrderOf(K)[n]) \in Nat
          /\ Release(OrderOf(K)[n]) \in Nat
      BY <3>1, CalendarDays
    <3>3. QED
      BY <1>2, <1>9, <3>2
  <2>2. QED
    BY <2>1
<1>11. r = ReleaseChange(events, "cpi", today, MacroAge, MinHistory)
  BY <1>6 DEF events
<1> HIDE DEF r, k
<1>12. size > MinHistory /\ r.day = KnownAt(events[size])
  <2> DEFINE change == ReleaseChange(events, "cpi", today, MacroAge, MinHistory)
  <2>1. change = NoReading \/ (size > MinHistory /\ change.day = KnownAt(events[size]))
    BY <1>2, <1>8, <1>9, <1>10, ReleaseChangeIs
  <2>2. r = change /\ r # NoReading
    BY <1>1, <1>11
  <2> HIDE DEF change
  <2>3. QED
    BY <2>1, <2>2
<1>13. size >= 4
  BY <1>2, <1>8, <1>12
<1>14. /\ r.day <= today
       /\ Sporadic /\ Even => r.day \in Start(k) .. Release(k)
  BY <1>5, <1>12, <1>13, ObservedInWindow DEF size, events, k
<1>15. K # {}
  BY <1>8, <1>13
<1>16. /\ k \in PrintedFigures /\ Cardinality(Later(k)) <= 1
       /\ DOMAIN reply = {} => k = Newest
  BY <1>5, <1>15, NewestKept DEF size, k
<1>17. InItsWindow(r, reply)
  BY <1>14, <1>16 DEF InItsWindow
<1>18. QED
  BY <1>1, <1>17

(* All readings of a run are in theirs.                                    *)
LEMMA ReadingsInWindow ==
  ASSUME CalendarInv, NEW reply, NEW r \in Readings(reply)
  PROVE  InItsWindow(r, reply)
<1> DEFINE Of(provider) ==
             (IF provider = "fred" THEN {FredReading(reply)} ELSE FmpReadings(reply))
               \ {NoReading}
<1>1. PICK provider : r \in Of(provider)
  BY DEF Readings
<1>2. r # NoReading /\ (r = FredReading(reply) \/ r \in FmpReadings(reply))
  BY <1>1
<1>3. CASE r = FredReading(reply)
  BY <1>2, <1>3, FredInWindow
<1>4. CASE r \in FmpReadings(reply)
  <2> DEFINE series == Items(EconomicIndicators(BodyOf(reply, "fmp_indicator", "root"),
                                                Marred(reply, "fmp_indicator", Prints, "date")))
             yields == [k \in DOMAIN figures |->
                          [date |-> Start(k), ten |-> figures[k], two |-> 0]]
             curve  == Items(TreasuryCurve(BodyOf(reply, "fmp_treasury", "root"),
                                           Marred(reply, "fmp_treasury", yields, "date")))
  <2>1. \/ r = ReleaseChange(series, "cpi", today, MacroAge, MinHistory)
        \/ r = ReleaseChange(curve, "yield_curve", today, MacroAge, MinHistory)
    BY <1>4 DEF FmpReadings
  <2>2. series = <<>> \/ \E K : /\ Kept(K, reply) /\ Told(series, K)
                                /\ \A n \in DOMAIN series : series[n].released = -1
    BY EconomicIndicatorsTold
  <2>3. curve = <<>> \/ \E K : /\ Kept(K, reply) /\ Told(curve, K)
                               /\ \A n \in DOMAIN curve : curve[n].released = -1
    BY TreasuryCurveTold
  <2> HIDE DEF series, curve
  <2>4. CASE r = ReleaseChange(series, "cpi", today, MacroAge, MinHistory)
    BY <1>2, <2>2, <2>4, UnreleasedInWindow
  <2>5. CASE r = ReleaseChange(curve, "yield_curve", today, MacroAge, MinHistory)
    BY <1>2, <2>3, <2>5, UnreleasedInWindow
  <2>6. QED
    BY <2>1, <2>4, <2>5
<1>5. QED
  BY <1>2, <1>3, <1>4

-----------------------------------------------------------------------------
(* A square is natural, and that of 0 alone is 0.                          *)
LEMMA Square ==
  ASSUME NEW y \in Int
  PROVE  y * y \in Nat /\ (y * y = 0 => y = 0)
<1>1. CASE y >= 0
  BY <1>1
<1>2. CASE y < 0
  BY <1>2
<1>3. QED
  BY <1>1, <1>2

(* A positive factor leaves the sign of a product to the other.            *)
LEMMA Signed ==
  ASSUME NEW n \in Nat \ {0}, NEW y \in Int
  PROVE  /\ n * y \in Int
         /\ n * y >= 0 <=> y >= 0
         /\ n * y = 0 <=> y = 0
OBVIOUS

(* What one more figure adds to n times their squares less the square of   *)
(* their sum, n times: the first is 0, or more, with the second.           *)
LEMMA OneMore ==
  ASSUME NEW n \in Int, NEW q \in Int, NEW t \in Int, NEW x \in Int
  PROVE  n * ((n + 1) * (x * x + q) - (x + t) * (x + t))
           = (n + 1) * (n * q - t * t) + (t - n * x) * (t - n * x)
OBVIOUS

(* So the spread stays natural, and stays 0 only for one more of the same. *)
LEMMA OneMoreSpreads ==
  ASSUME NEW n \in Nat \ {0}, NEW q \in Int, NEW t \in Int, NEW x \in Int,
         n * q - t * t >= 0
  PROVE  LET more == (n + 1) * (x * x + q) - (x + t) * (x + t)
         IN  /\ more \in Int /\ more >= 0
             /\ more = 0 => n * q - t * t = 0 /\ t = n * x
<1> DEFINE more == (n + 1) * (x * x + q) - (x + t) * (x + t)
           less == n * q - t * t
           off  == t - n * x
<1>1. n * more = (n + 1) * less + off * off
  BY OneMore
<1>2. less \in Int /\ off \in Int /\ more \in Int /\ less >= 0 /\ n + 1 \in Nat \ {0}
  OBVIOUS
<1>3. off = 0 => t = n * x
  OBVIOUS
<1> HIDE DEF more, less, off
<1>4. off * off \in Nat /\ (off * off = 0 => off = 0)
  BY <1>2, Square
<1>5. /\ (n + 1) * less \in Int /\ (n + 1) * less >= 0
      /\ (n + 1) * less = 0 => less = 0
  BY <1>2, Signed
<1>6. n * more >= 0 /\ (n * more = 0 => less = 0 /\ off = 0)
  BY <1>1, <1>4, <1>5
<1>7. more >= 0 /\ (more = 0 => n * more = 0)
  BY <1>2, <1>6, Signed
<1>8. QED
  BY <1>2, <1>3, <1>6, <1>7 DEF more, less

(* The figures of a set: n times their squares, less the square of their   *)
(* sum, which is 0 only if they are all the same.                          *)
On(s, f)   == [x \in s |-> f[x]]
Squared(f) == [x \in DOMAIN f |-> f[x] * f[x]]
Off(s, f)  == Cardinality(s) * SumFunction(Squared(On(s, f)))
                - SumFunction(On(s, f)) * SumFunction(On(s, f))
Alike(s, f, v) == SumFunction(On(s, f)) = Cardinality(s) * v /\ \A x \in s : f[x] = v

(* All of these are integers.                                              *)
LEMMA OffType ==
  ASSUME NEW s, IsFiniteSet(s), NEW f, \A x \in s : f[x] \in Int
  PROVE  /\ SumFunction(On(s, f)) \in Int /\ SumFunction(Squared(On(s, f))) \in Int
         /\ Cardinality(s) \in Nat /\ Off(s, f) \in Int
<1>1. On(s, f) \in [s -> Int]
  BY DEF On
<1>2. Squared(On(s, f)) \in [s -> Int]
  BY <1>1 DEF Squared
<1>3. /\ SumFunction(On(s, f)) \in Int /\ SumFunction(Squared(On(s, f))) \in Int
      /\ Cardinality(s) \in Nat
  BY <1>1, <1>2, SumType, FS_CardinalityType
<1>4. QED
  BY <1>3 DEF Off

(* One figure more.                                                        *)
LEMMA OffOut ==
  ASSUME NEW s, IsFiniteSet(s), NEW f, \A y \in s : f[y] \in Int, NEW x \in s
  PROVE  LET r == s \ {x}
         IN  /\ IsFiniteSet(r) /\ Cardinality(s) = Cardinality(r) + 1
             /\ SumFunction(On(s, f)) = f[x] + SumFunction(On(r, f))
             /\ SumFunction(Squared(On(s, f))) = f[x] * f[x] + SumFunction(Squared(On(r, f)))
<1> DEFINE r == s \ {x}
           g == On(s, f)
           h == Squared(g)
<1>1. g \in [s -> Int]
  BY DEF On
<1>2. h \in [s -> Int]
  BY <1>1 DEF Squared
<1>3. g[x] = f[x] /\ h[x] = f[x] * f[x]
  BY DEF On, Squared
<1>4. [y \in r |-> g[y]] = On(r, f) /\ [y \in r |-> h[y]] = Squared(On(r, f))
  BY DEF On, Squared
<1> HIDE DEF g, h
<1>5. /\ SumFunction(g) = g[x] + SumFunction([y \in r |-> g[y]])
      /\ SumFunction(h) = h[x] + SumFunction([y \in r |-> h[y]])
  BY <1>1, <1>2, SumOut
<1>6. IsFiniteSet(r) /\ Cardinality(r) = Cardinality(s) - 1 /\ Cardinality(s) \in Nat
  BY FS_RemoveElement, FS_CardinalityType
<1>7. QED
  BY <1>3, <1>4, <1>5, <1>6 DEF g, h

(* The spread of figures is natural, and 0 only if they are all the same.  *)
LEMMA OffOnlyIfUnlike ==
  ASSUME NEW S, IsFiniteSet(S), NEW f, \A x \in S : f[x] \in Int
  PROVE  Off(S, f) >= 0 /\ (Off(S, f) = 0 => \E v \in Int : Alike(S, f, v))
<1> DEFINE Holds(s) == Off(s, f) >= 0 /\ (Off(s, f) = 0 => \E v \in Int : Alike(s, f, v))
           T == {s \in SUBSET S : Holds(s)}
<1>1. {} \in T
  <2>1. DOMAIN On({}, f) = {} /\ DOMAIN Squared(On({}, f)) = {}
    BY DEF On, Squared
  <2>2. SumFunction(On({}, f)) = 0 /\ Cardinality({}) = 0
        /\ SumFunction(Squared(On({}, f))) = 0
    BY <2>1, SumEmpty, FS_EmptySet
  <2>3. Off({}, f) = 0
    BY <2>2 DEF Off
  <2>4. Alike({}, f, 0)
    BY <2>2 DEF Alike
  <2>5. QED
    BY <2>3, <2>4
<1>2. ASSUME NEW s \in SUBSET S, s # {}, s \ {First(s)} \in T PROVE s \in T
  <2> DEFINE x == First(s)
             r == s \ {x}
             y == f[x]
             n == Cardinality(r)
             t == SumFunction(On(r, f))
             q == SumFunction(Squared(On(r, f)))
  <2>1. x \in s /\ IsFiniteSet(s) /\ y \in Int
    BY <1>2, FirstOut
  <2>2. /\ IsFiniteSet(r) /\ Cardinality(s) = n + 1
        /\ SumFunction(On(s, f)) = y + t
        /\ SumFunction(Squared(On(s, f))) = y * y + q
    BY <2>1, OffOut
  <2>3. t \in Int /\ q \in Int /\ n \in Nat /\ Off(r, f) = n * q - t * t
    BY <2>2, OffType DEF Off
  <2>4. Off(s, f) = (n + 1) * (y * y + q) - (y + t) * (y + t)
    BY <2>2 DEF Off
  <2>5. Holds(r)
    BY <1>2
  <2>6. (n = 0 => r = {} /\ q = 0 /\ t = 0)
    <3>1. n = 0 => r = {}
      BY <2>2, FS_EmptySet
    <3>2. DOMAIN On({}, f) = {} /\ DOMAIN Squared(On({}, f)) = {}
      BY DEF On, Squared
    <3>3. SumFunction(On({}, f)) = 0 /\ SumFunction(Squared(On({}, f))) = 0
      BY <3>2, SumEmpty
    <3> HIDE DEF x
    <3>4. QED
      BY <3>1, <3>3
  <2>7. s = r \union {x}
    BY <2>1
  <2> HIDE DEF x, r, n, t, q, y
  <2>8. CASE n = 0
    <3>1. Off(s, f) = 0 /\ SumFunction(On(s, f)) = Cardinality(s) * y
      BY <2>1, <2>2, <2>4, <2>6, <2>8
    <3>2. Alike(s, f, y)
      BY <2>6, <2>7, <2>8, <3>1 DEF Alike, y
    <3>3. QED
      BY <2>1, <3>1, <3>2
  <2>9. CASE n # 0
    <3>1. n \in Nat \ {0} /\ n * q - t * t >= 0
      BY <2>3, <2>5, <2>9
    <3>2. /\ Off(s, f) >= 0
          /\ Off(s, f) = 0 => n * q - t * t = 0 /\ t = n * y
      <4>1. LET more == (n + 1) * (y * y + q) - (y + t) * (y + t)
            IN  /\ more >= 0
                /\ more = 0 => n * q - t * t = 0 /\ t = n * y
        BY <2>1, <2>3, <3>1, OneMoreSpreads
      <4>2. QED
        BY <2>4, <4>1
    <3>3. ASSUME Off(s, f) = 0 PROVE Alike(s, f, y)
      <4>1. Off(r, f) = 0 /\ t = n * y
        BY <2>3, <3>2, <3>3
      <4>2. PICK v \in Int : Alike(r, f, v)
        BY <2>5, <4>1
      <4>3. t = n * v /\ \A z \in r : f[z] = v
        BY <4>2 DEF Alike, t, n
      <4>4. n * (v - y) = n * v - n * y
        BY <2>1, <2>3
      <4>5. v - y \in Int /\ n * (v - y) = 0
        BY <2>1, <4>1, <4>3, <4>4
      <4>6. v - y = 0
        BY <3>1, <4>5, Signed
      <4>7. v = y
        BY <2>1, <4>6
      <4>8. y + n * y = (n + 1) * y
        BY <2>1, <2>3
      <4>9. SumFunction(On(s, f)) = Cardinality(s) * y
        BY <2>2, <4>1, <4>8
      <4>10. QED
        BY <2>7, <4>3, <4>7, <4>9 DEF Alike, y
    <3>4. QED
      BY <2>1, <3>2, <3>3
  <2>10. QED
    BY <2>8, <2>9
<1>3. S \in T
  <2> HIDE DEF T
  <2>1. QED
    BY <1>1, <1>2, OneByOne
<1>4. QED
  BY <1>3

(* So a series that moves unevenly has a deviation.                        *)
LEMMA UnevenSpreads ==
  ASSUME NEW n \in Nat, NEW f \in [1 .. n -> Int],
         NEW i \in 1 .. n, NEW j \in 1 .. n, f[i] # f[j]
  PROVE  Spread(f) # 0
<1> DEFINE S == 1 .. n
<1>1. IsFiniteSet(S) /\ Cardinality(S) = n
  BY FS_Interval
<1>2. f \in Seq(Int)
  OBVIOUS
<1>3. Len(f) = n
  OBVIOUS
<1>4. \A x \in S : f[x] \in Int
  OBVIOUS
<1>5. On(S, f) = f /\ Squared(On(S, f)) = [x \in DOMAIN f |-> f[x] * f[x]]
  BY DEF On, Squared
<1>6. Spread(f) = Off(S, f)
  BY <1>1, <1>3, <1>5 DEF Spread, Off
<1> HIDE DEF S
<1>7. Spread(f) = 0 => \E v \in Int : Alike(S, f, v)
  BY <1>1, <1>4, <1>6, OffOnlyIfUnlike
<1>8. QED
  BY <1>7 DEF Alike, S

-----------------------------------------------------------------------------
(* A whole run.  Nothing is missing, and a list in order stays as it is.   *)
LEMMA OrderOfAll ==
  ASSUME CalendarInv
  PROVE  LET K == DOMAIN figures
         IN  Cardinality(K) = Len(figures) /\ \A n \in K : OrderOf(K)[n] = n
<1> DEFINE size == Len(figures)
           K == DOMAIN figures
           keys == [k \in K |-> Start(k)]
<1>1. size \in Nat /\ K = 1 .. size
  BY CalendarDays
<1>2. Cardinality(K) = size
  <2> HIDE DEF size, K
  <2>1. Cardinality(1 .. size) = size
    BY <1>1, FS_Interval
  <2>2. QED
    BY <1>1, <2>1
<1>3. /\ DOMAIN keys = K /\ \A k \in K : keys[k] \in Int
      /\ \A j, k \in K : j < k => keys[j] < keys[k]
  BY CalendarDays
<1> HIDE DEF size, keys, K
<1>4. ASSUME NEW i \in K PROVE Cardinality(Ahead(keys, i)) = i - 1
  <2>1. ASSUME NEW j \in K
        PROVE  (keys[j] < keys[i] \/ (keys[j] = keys[i] /\ j < i)) <=> j < i
    <3>1. i \in Int /\ j \in Int /\ (j < i \/ i < j \/ i = j)
      BY <1>1
    <3>2. keys[i] \in Int /\ keys[j] \in Int
      BY <1>3
    <3>3. (j < i => keys[j] < keys[i]) /\ (i < j => keys[i] < keys[j])
      BY <1>3
    <3>4. QED
      BY <3>1, <3>2, <3>3
  <2>2. Ahead(keys, i) = {j \in K : j < i}
    BY <1>3, <2>1 DEF Ahead
  <2>3. {j \in K : j < i} = 1 .. i - 1
    BY <1>1
  <2>4. i - 1 \in Int /\ i - 1 >= 0
    BY <1>1
  <2>5. Cardinality(1 .. i - 1) = i - 1
    <3> DEFINE m == i - 1
    <3>1. m \in Int /\ m >= 0
      BY <2>4
    <3> HIDE DEF m
    <3>2. Cardinality(1 .. m) = m
      BY <3>1, FS_Interval
    <3>3. QED
      BY <3>2 DEF m
  <2>6. QED
    BY <2>2, <2>3, <2>5
<1>5. ASSUME NEW n \in K PROVE InOrder(keys)[n] = n
  <2> DEFINE Is(i) == Cardinality(Ahead(keys, i)) = n - 1
  <2>1. Is(n)
    BY <1>4
  <2>2. \A i \in K : Is(i) => i = n
    BY <1>1, <1>4
  <2>3. InOrder(keys)[n] = CHOOSE i \in K : Is(i)
    BY <1>1, <1>2, <1>3 DEF InOrder
  <2> HIDE DEF Is
  <2>4. (CHOOSE i \in K : Is(i)) = n
    BY <2>1, <2>2
  <2>5. QED
    BY <2>3, <2>4
<1>6. QED
  BY <1>2, <1>5 DEF K, keys, size, OrderOf

(* Of a feed that answers, every row is as it was.                         *)
LEMMA WholeRows ==
  ASSUME NEW reply, DOMAIN reply = {}, NEW feed, NEW rows, NEW field
  PROVE  Marred(reply, feed, rows, field) = rows
BY DEF Ok, Marred

(* Its body is one that a normalizer can use.                              *)
LEMMA WholeBody ==
  ASSUME NEW reply, DOMAIN reply = {}, NEW feed, NEW path
  PROVE  Usable(BodyOf(reply, feed, path), {path})
<1>1. BodyOf(reply, feed, path) = [form |-> "object", says |-> "rows", holds |-> {path}]
  BY DEF Ok, BodyOf
<1>2. QED
  BY <1>1 DEF Usable, Validated, Refusing

(* FRED's release dates are then those of every print that is out.         *)
LEMMA WholeReleases ==
  ASSUME CalendarInv, NEW reply, DOMAIN reply = {}
  PROVE  \A k \in DOMAIN figures : Release(k) \in FredDays(reply)
<1> DEFINE given == [k \in DOMAIN figures |-> [date |-> Release(k)]]
           body  == BodyOf(reply, "fred_dates", "release_dates")
           dated == RestrictValues(given, LAMBDA r : r.date # Absent)
           items == Normalized(body, {"release_dates"}, dated, {"date"}, LAMBDA r : r.date)
<1>1. /\ Ok(reply, "fred_release") /\ Marred(reply, "fred_dates", given, "date") = given
      /\ Usable(body, {"release_dates"})
  <2>1. Ok(reply, "fred_release") /\ Usable(body, {"release_dates"})
    BY WholeBody DEF Ok
  <2> HIDE DEF given
  <2>2. Marred(reply, "fred_dates", given, "date") = given
    BY WholeRows
  <2>3. QED
    BY <2>1, <2>2
<1>2. FredDays(reply) = IF items = Rejected THEN {} ELSE Range(items)
  BY <1>1 DEF FredDays, ReleaseDates
<1>3. /\ DOMAIN given = DOMAIN figures
      /\ \A k \in DOMAIN figures : /\ given[k].date = Release(k)
                                   /\ Release(k) \notin {Absent, Unreadable}
  BY CalendarDays
<1> HIDE DEF given
<1>4. DOMAIN dated = DOMAIN figures /\ \A k \in DOMAIN figures : dated[k] = given[k]
  BY <1>3 DEF RestrictValues, Restrict
<1> HIDE DEF dated, body
<1>5. items = [k \in DOMAIN figures |-> dated[k].date]
  BY <1>1, <1>3, <1>4 DEF Normalized
<1> HIDE DEF items
<1>6. \A k \in DOMAIN figures : items[k] = Release(k)
  BY <1>3, <1>4, <1>5
<1>7. items # Rejected
  <2>1. DOMAIN figures = 1 .. Len(figures) /\ Len(figures) \in Nat
    BY CalendarDays
  <2>2. items \in [1 .. Len(figures) -> Int]
    BY <1>5, <1>6, <2>1, CalendarDays
  <2>3. items \in Seq(Int)
    BY <2>1, <2>2
  <2>4. QED
    BY <2>3, HolesAssumption
<1>8. QED
  BY <1>2, <1>5, <1>6, <1>7 DEF Range

(* And of the observations none is lost.                                   *)
LEMMA WholeSeries ==
  ASSUME CalendarInv, NEW reply, DOMAIN reply = {}, PrintedFigures = DOMAIN figures
  PROVE  LET body == BodyOf(reply, "fred_series", "observations")
             rows == Marred(reply, "fred_series", Prints, "date")
         IN  Items(SeriesObservations(body, rows, FredDays(reply)))
               = Observed(DOMAIN figures, FredDays(reply))
<1> DEFINE days  == FredDays(reply)
           body  == BodyOf(reply, "fred_series", "observations")
           rows  == Marred(reply, "fred_series", Prints, "date")
           items == Normalized(body, {"observations"}, Printed(rows), {"date"}, LAMBDA r : r)
           list  == SeriesObservations(body, rows, days)
           K     == DOMAIN figures
<1>1. rows = Prints /\ Usable(body, {"observations"})
  <2>1. rows = Prints
    BY WholeRows
  <2>2. Usable(body, {"observations"})
    BY WholeBody
  <2>3. QED
    BY <2>1, <2>2
<1>2. /\ DOMAIN Prints = K
      /\ \A k \in K : Prints[k] = [date |-> Start(k), value |-> figures[k]]
  BY DEF Prints
<1>3. ASSUME NEW k \in K
      PROVE  /\ Start(k) \in Int /\ Start(k) \notin {Absent, Unreadable}
             /\ figures[k] \in Int /\ figures[k] # Absent
  <2>1. figures[k] \in Values /\ figures[k] # Absent
    BY DEF CalendarInv, PrintedFigures
  <2>2. figures[k] \in Int
    BY <2>1, SeriesAssumption
  <2>3. QED
    BY <2>1, <2>2, CalendarDays
<1>4. DOMAIN figures = 1 .. Len(figures) /\ Len(figures) \in Nat
  BY CalendarDays
<1>5. items # Rejected
  <2>1. Printed(Prints) = [k \in K |-> Prints[k]]
    <3> DEFINE whole == {k \in DOMAIN Prints : /\ Prints[k].date # Absent
                                               /\ Prints[k].value # Absent}
    <3>1. Printed(Prints) = [k \in whole |-> Prints[k]]
      BY DEF Printed, RestrictValues, Restrict
    <3>2. \A k \in K : /\ Prints[k].date = Start(k) /\ Prints[k].value = figures[k]
                       /\ Start(k) # Absent /\ figures[k] # Absent
      BY <1>2, <1>3
    <3>3. DOMAIN Prints = K
      BY <1>2
    <3>4. whole = K
      <4> HIDE DEF K
      <4>1. QED
        BY <3>2, <3>3
    <3> HIDE DEF whole, K
    <3>5. QED
      BY <3>1, <3>4
  <2> HIDE DEF body
  <2>2. items = [k \in K |-> Prints[k]]
    <3>1. Printed(rows) = [k \in K |-> Prints[k]]
      BY <1>1, <2>1
    <3>2. \A k \in K : Prints[k].date # Unreadable
      BY <1>2, <1>3
    <3> HIDE DEF rows, K
    <3>3. QED
      BY <1>1, <3>1, <3>2 DEF Normalized
  <2> HIDE DEF items, rows
  <2> DEFINE size == Len(figures)
             Entry == [date : Int, value : Int]
  <2>3. \A k \in 1 .. size : Prints[k] \in Entry
    BY <1>2, <1>3, <1>4
  <2>4. items = [k \in 1 .. size |-> Prints[k]] /\ size \in Nat
    BY <1>4, <2>2
  <2> HIDE DEF size
  <2>5. Entry = [date : Int, value : Int]
    OBVIOUS
  <2> HIDE DEF Entry
  <2>6. items \in Seq(Entry)
    BY <2>3, <2>4
  <2>7. QED
    BY <2>5, <2>6, HolesAssumption
<1>6. PICK L : Kept(L, reply) /\ list = Observed(L, days)
  BY <1>5, ObservationsTold
<1>7. L = K
  BY <1>6 DEF Kept
<1>8. list # Rejected
  <2> DEFINE size == Len(figures)
             seen == Observed(K, days)
             Entry == [period : Int, released : Int, value : Int]
             carried(n) == CarriedBy(StartsOf(K)[n], EndOf(K, n), days)
  <2>1. Cardinality(K) = size /\ \A n \in K : OrderOf(K)[n] = n
    BY OrderOfAll
  <2>2. StartsOf(K) = [n \in 1 .. size |-> Start(OrderOf(K)[n])]
    BY <2>1 DEF StartsOf
  <2>3. seen = [n \in 1 .. size |->
                  Figure(StartsOf(K)[n], carried(n), figures[OrderOf(K)[n]])]
    BY <2>1 DEF Observed
  <2>4. days \in SUBSET Nat
    BY ReleasesKnown, CalendarDays
  <2>5. K = 1 .. size /\ size \in Nat
    BY <1>4
  <2> HIDE DEF days, K, size, seen
  <2>6. ASSUME NEW n \in 1 .. size PROVE carried(n) \in Int
    <3> DEFINE later == {d \in days : d >= EndOf(K, n)}
    <3>1. carried(n) = -1 \/ (later # {} /\ carried(n) = Min(later))
      BY DEF CarriedBy
    <3>2. later \in SUBSET Nat
      BY <2>4
    <3> HIDE DEF later, carried
    <3>3. later # {} => Min(later) \in later
      BY <3>2, LeastOf DEF Min
    <3>4. \A d \in later : d \in Int
      BY <3>2
    <3>5. CASE later # {}
      <4>1. carried(n) = -1 \/ carried(n) = Min(later)
        BY <3>1
      <4>2. Min(later) \in Int
        BY <3>3, <3>4, <3>5
      <4>3. QED
        BY <4>1, <4>2
    <3>6. CASE later = {}
      BY <3>1, <3>6
    <3>7. QED
      BY <3>5, <3>6
  <2> HIDE DEF carried
  <2>7. ASSUME NEW n \in 1 .. size PROVE seen[n] \in Entry
    <3>1. n \in K /\ StartsOf(K)[n] = Start(n) /\ OrderOf(K)[n] = n
      BY <2>1, <2>2, <2>5
    <3>2. seen[n] = Figure(Start(n), carried(n), figures[n])
      BY <2>3, <3>1
    <3>3. Start(n) \in Int /\ figures[n] \in Int /\ carried(n) \in Int
      BY <1>3, <2>6, <3>1
    <3>4. QED
      BY <3>2, <3>3 DEF Figure
  <2>8. Entry = [period : Int, released : Int, value : Int]
    OBVIOUS
  <2> HIDE DEF Entry
  <2>9. seen \in Seq(Entry)
    BY <2>3, <2>5, <2>7
  <2>10. QED
    BY <1>6, <1>7, <2>8, <2>9, HolesAssumption DEF seen
<1>9. QED
  BY <1>6, <1>7, <1>8 DEF Items

-----------------------------------------------------------------------------
(* Of regular periods, the usual gap is the length of each.                *)
LEMMA RegularGap ==
  ASSUME CalendarInv, Regular, Len(figures) >= 2
  PROVE  MedianGap(StartsOf(DOMAIN figures)) = schedule[Len(figures)]
<1> DEFINE size == Len(figures)
           K == DOMAIN figures
           s == StartsOf(K)
           gap == schedule[size]
<1>1. K = 1 .. size /\ size \in Nat /\ size >= 2
  BY CalendarDays
<1>2. Cardinality(K) = size /\ \A n \in K : OrderOf(K)[n] = n
  BY OrderOfAll
<1>3. s \in Seq(Int) /\ Len(s) = size /\ \A n \in K : s[n] = Start(n)
  <2>1. /\ s \in Seq(Int) /\ Len(s) = Cardinality(K)
        /\ \A n \in 1 .. Cardinality(K) : s[n] = Start(OrderOf(K)[n])
    BY StartsInOrder
  <2> HIDE DEF s, K
  <2>2. QED
    BY <1>1, <1>2, <2>1
<1>4. \A n \in K : /\ n \in DOMAIN schedule /\ schedule[n] \in Int /\ Start(n) \in Int
                   /\ Start(n + 1) = Start(n) + schedule[n]
  BY CalendarDays
<1> HIDE DEF s, K, size
<1>5. size \in K
  BY <1>1
<1>6. gap \in Int /\ \A n \in K : schedule[n] = gap
  BY <1>4, <1>5 DEF Regular
<1> HIDE DEF gap
<1>7. ASSUME NEW n \in 1 .. Len(s) - 1 PROVE s[n + 1] - s[n] = gap
  <2>1. n \in K /\ n + 1 \in K
    BY <1>1, <1>3
  <2>2. s[n] = Start(n) /\ s[n + 1] = Start(n) + gap /\ Start(n) \in Int
    BY <1>3, <1>4, <1>6, <2>1
  <2>3. QED
    BY <1>6, <2>2
<1>8. MedianGap(s) = gap
  BY <1>1, <1>3, <1>6, <1>7, MedianOfAlike
<1>9. QED
  BY <1>8 DEF gap, s, K, size

(* The release that carries the newest period is that of its print, for    *)
(* those before it were printed before it was over.                        *)
LEMMA CarriedByItsPrint ==
  ASSUME CalendarInv, Prompt, NEW reply, DOMAIN reply = {}, NEW last \in DOMAIN figures,
         last = Len(figures)
  PROVE  CarriedBy(Start(last), Start(last) + schedule[last], FredDays(reply))
           = Release(last)
<1> DEFINE days == FredDays(reply)
           end == Start(last) + schedule[last]
           later == {d \in days : d >= end}
<1>1. /\ last \in Nat /\ Start(last) \in Nat /\ schedule[last] \in Nat \ {0} /\ Lag \in Nat
      /\ Release(last) = end + Lag /\ last \in DOMAIN schedule
  BY CalendarDays, WorldAssumption
<1>2. Release(last) \in later
  <2>1. Release(last) \in days
    BY WholeReleases
  <2>2. Release(last) >= end
    BY <1>1
  <2>3. QED
    BY <2>1, <2>2
<1>3. ASSUME NEW d \in later PROVE d = Release(last)
  <2>1. PICK j \in DOMAIN figures : d = Release(j)
    BY <1>3, ReleasesKnown
  <2>2. j \in Nat /\ j <= last
    BY <2>1, CalendarDays
  <2>3. CASE j < last
    <3>1. Start(j + 1) <= Start(last)
      BY <2>3, CalendarDays
    <3>2. Release(j) = Start(j + 1) + Lag /\ Release(j) \in Nat
      BY CalendarDays DEF Release
    <3>3. Start(j + 1) \in Int
      BY CalendarDays
    <3>4. Lag < schedule[last]
      BY <1>1 DEF Prompt
    <3>5. Release(j) < end
      BY <1>1, <3>1, <3>2, <3>3, <3>4
    <3>6. d >= end /\ end \in Int
      BY <1>1, <1>3
    <3>7. QED
      BY <2>1, <3>2, <3>5, <3>6
  <2>4. QED
    BY <1>1, <2>1, <2>2, <2>3
<1>4. ~(end <= Start(last)) /\ Release(last) \in Int
  BY <1>1
<1>5. CarriedBy(Start(last), end, days)
        = IF end <= Start(last) \/ later = {} THEN -1 ELSE Min(later)
  BY DEF CarriedBy
<1> HIDE DEF later, end, days
<1>6. later = {Release(last)}
  BY <1>2, <1>3
<1>7. Min({Release(last)}) = Release(last)
  BY <1>4 DEF Min
<1>8. QED
  BY <1>4, <1>5, <1>6, <1>7 DEF end, days

(* What CurrentPrintScores supposes of the world.                          *)
Current ==
  /\ PrintedFigures = DOMAIN figures /\ Regular /\ Prompt /\ Moving
  /\ Len(figures) > MinHistory /\ today - Release(Newest) <= MacroAge

(* FRED's reading is then of the newest print, and of its day.             *)
LEMMA CurrentPrintRead ==
  ASSUME CalendarInv, Current, NEW reply, DOMAIN reply = {}
  PROVE  FredReading(reply).factor = "cpi" /\ FredReading(reply).day = Release(Newest)
<1> DEFINE size == Len(figures)
           K == DOMAIN figures
           days == FredDays(reply)
           events == Observed(K, days)
           r == ReleaseChange(events, "cpi", today, MacroAge, MinHistory)
<1>1. /\ size \in Nat /\ size > MinHistory /\ MinHistory \in Nat /\ MinHistory >= 3
      /\ today \in Int /\ K = 1 .. size
  BY CalendarDays, WorldAssumption, SeriesAssumption DEF CalendarInv, Current
<1>2. FredReading(reply) = r
  <2>1. Items(SeriesObservations(BodyOf(reply, "fred_series", "observations"),
                                 Marred(reply, "fred_series", Prints, "date"), days))
          = events
    BY WholeSeries DEF Current
  <2>2. FredReading(reply) =
          ReleaseChange(Items(SeriesObservations(
                                BodyOf(reply, "fred_series", "observations"),
                                Marred(reply, "fred_series", Prints, "date"), days)),
                        "cpi", today, MacroAge, MinHistory)
    BY DEF FredReading, FredDays
  <2>3. QED
    BY <2>1, <2>2
<1>3. Cardinality(K) = size /\ \A n \in K : OrderOf(K)[n] = n
  BY OrderOfAll
<1>4. size >= 2 /\ size \in K
  BY <1>1
<1>5. Newest = size
  <2>1. Newest \in K /\ size <= Newest
    BY <1>4, NewestIs DEF Current
  <2>2. QED
    BY <1>1, <2>1
<1>6. \A n \in K : StartsOf(K)[n] = Start(n)
  <2>1. \A n \in 1 .. Cardinality(K) : StartsOf(K)[n] = Start(OrderOf(K)[n])
    BY StartsInOrder
  <2> HIDE DEF K
  <2>2. QED
    BY <1>1, <1>3, <2>1
<1>7. EndOf(K, size) = Start(size) + schedule[size]
  <2>1. MedianGap(StartsOf(K)) = schedule[size]
    BY <1>4, RegularGap DEF Current
  <2>2. ~(size < Cardinality(K))
    BY <1>1, <1>3
  <2> HIDE DEF K
  <2>3. QED
    BY <1>4, <1>6, <2>1, <2>2 DEF EndOf
<1> HIDE DEF days, K
<1>8. \A n \in K : events[n] = Figure(Start(n), CarriedBy(Start(n), EndOf(K, n), days), figures[n])
  BY <1>1, <1>3, <1>6 DEF Observed
<1>9. DOMAIN events = 1 .. size
  BY <1>3 DEF Observed
<1> HIDE DEF events, size
<1>10. /\ \A n \in K : events[n].period = Start(n) /\ events[n].value = figures[n]
       /\ events[size].released = CarriedBy(Start(size), EndOf(K, size), days)
  <2>1. ASSUME NEW n \in K
        PROVE  /\ events[n].period = Start(n) /\ events[n].value = figures[n]
               /\ events[n].released = CarriedBy(Start(n), EndOf(K, n), days)
    <3> DEFINE day == CarriedBy(Start(n), EndOf(K, n), days)
    <3>1. events[n] = Figure(Start(n), day, figures[n])
      BY <1>8
    <3> HIDE DEF day
    <3>2. /\ events[n].period = Start(n) /\ events[n].value = figures[n]
          /\ events[n].released = day
      BY <3>1 DEF Figure
    <3>3. QED
      BY <3>2 DEF day
  <2>2. QED
    BY <1>4, <2>1
<1>11. KnownAt(events[size]) = Release(size) /\ Release(size) \in Int
  <2>1. events[size].released = Release(size)
    BY <1>4, <1>7, <1>10, CarriedByItsPrint DEF Current, days, K, size
  <2>2. Release(size) \in Nat
    BY <1>4, CalendarDays DEF K
  <2>3. QED
    BY <2>1, <2>2 DEF KnownAt
<1>12. ~IsStale(KnownAt(events[size]), today, MacroAge)
  <2>1. today - Release(size) <= MacroAge /\ MacroAge \in Nat
    BY <1>5, WorldAssumption DEF Current
  <2>2. QED
    BY <1>1, <1>11, <2>1 DEF IsStale
<1> DEFINE changes == Changes(events, size)
<1>13. Spread(changes) # 0
  <2>1. PICK i \in 1 .. size - 1, j \in 1 .. size - 1 :
          figures[i + 1] - figures[i] # figures[j + 1] - figures[j]
    BY DEF Current, Moving, size
  <2>2. \A n \in K : figures[n] \in Int
    <3>1. \A n \in K : figures[n] \in Values /\ figures[n] # Absent
      BY DEF CalendarInv, Current, PrintedFigures, K
    <3>2. QED
      BY <3>1, SeriesAssumption
  <2>3. ASSUME NEW n \in 1 .. size - 1
        PROVE  /\ events[n + 1].value - events[n].value = figures[n + 1] - figures[n]
               /\ figures[n + 1] - figures[n] \in Int
    <3>1. n \in K /\ n + 1 \in K
      BY <1>1
    <3>2. QED
      BY <1>10, <2>2, <3>1
  <2> DEFINE last == size - 1
  <2>4. /\ last \in Nat /\ changes \in [1 .. last -> Int]
        /\ changes[i] # changes[j]
    BY <1>1, <2>1, <2>3 DEF Changes
  <2>5. i \in 1 .. last /\ j \in 1 .. last
    BY <2>1
  <2> HIDE DEF changes, last
  <2>6. QED
    BY <2>4, <2>5, UnevenSpreads
<1>14. \A n \in 1 .. size : events[n].period <= today
  <2>1. ASSUME NEW n \in 1 .. size PROVE events[n].period <= today
    <3>1. n \in DOMAIN figures
      BY <1>1 DEF K
    <3>2. /\ Start(n) <= Release(n) /\ Release(n) <= today
          /\ Start(n) \in Nat /\ Release(n) \in Nat
      BY <3>1, CalendarDays
    <3>3. events[n].period = Start(n)
      BY <1>1, <1>10
    <3>4. QED
      BY <1>1, <3>2, <3>3
  <2>2. QED
    BY <2>1
<1>15. r.day = KnownAt(events[size]) /\ r.factor = "cpi"
  <2>1. (size > MinHistory /\ ~IsStale(KnownAt(events[size]), today, MacroAge)
          /\ Spread(changes) # 0)
          => r.day = KnownAt(events[size]) /\ r.factor = "cpi"
    BY <1>1, <1>9, <1>14, ReleaseChangeIs
  <2>2. QED
    BY <1>1, <1>12, <1>13, <2>1
<1>16. QED
  BY <1>2, <1>5, <1>11, <1>15

(* Where FRED is asked first, and has a reading, it is the run's.          *)
LEMMA FredFirst ==
  ASSUME setup \in DOMAIN Configs, config.chains.macro # <<>>,
         config.chains.macro[1] = "fred", NEW reply, FredReading(reply) # NoReading
  PROVE  FredReading(reply) \in Readings(reply)
<1> DEFINE chain == config.chains.macro
           Of(provider) ==
             (IF provider = "fred" THEN {FredReading(reply)} ELSE FmpReadings(reply))
               \ {NoReading}
           some == {i \in DOMAIN chain : Of(chain[i]) # {}}
<1>1. chain \in Seq({"fred", "fmp"})
  <2>1. config \in Range(Configs)
    BY DEF config, Range
  <2>2. config.chains \in Config
    BY <2>1, ConfigsAssumption
  <2>3. QED
    BY <2>2 DEF Config
<1>2. Readings(reply) = IF some = {} THEN {} ELSE Of(chain[Min(some)])
  BY DEF Readings
<1>3. Of(chain[1]) = {FredReading(reply)}
  OBVIOUS
<1> HIDE DEF chain
<1>4. 1 \in DOMAIN chain /\ \A i \in DOMAIN chain : i \in Nat /\ 1 <= i
  <2>1. Len(chain) \in Nat /\ DOMAIN chain = 1 .. Len(chain)
    BY <1>1
  <2>2. Len(chain) # 0
    BY <1>1 DEF chain
  <2>3. QED
    BY <2>1, <2>2
<1>5. 1 \in some /\ \A i \in some : i \in Nat /\ 1 <= i
  BY <1>3, <1>4
<1> HIDE DEF some, Of
<1>6. Min(some) = 1
  BY <1>5 DEF Min
<1>7. QED
  BY <1>2, <1>3, <1>5, <1>6

-----------------------------------------------------------------------------
(* The inductive invariant of S_M: a print is out no earlier than it is    *)
(* due, a run waits for those of its day, and no reading is without a run. *)
MacroInv ==
  /\ setup \in DOMAIN Configs
  /\ CalendarInv
  /\ result.done => ~Due
  /\ ~result.done => result.readings = {}
  /\ NeverYoungerThanItsRelease /\ CurrentPrintScores

(* The calendar is that of the schedule and of the prints: what leaves     *)
(* them alone leaves it as it was.                                         *)
LEMMA SameCalendar ==
  ASSUME schedule' = schedule, figures' = figures
  PROVE  /\ PrintedFigures' = PrintedFigures /\ Newest' = Newest
         /\ (Sporadic' <=> Sporadic) /\ (Even' <=> Even)
         /\ (Regular' <=> Regular) /\ (Prompt' <=> Prompt) /\ (Moving' <=> Moving)
         /\ \A k : Start(k)' = Start(k) /\ Release(k)' = Release(k) /\ Later(k)' = Later(k)
<1>1. PrintedFigures' = PrintedFigures
  BY DEF PrintedFigures
<1>2. Newest' = Newest
  BY <1>1 DEF Newest
<1>3. Sporadic' <=> Sporadic
  BY <1>2 DEF Sporadic
<1>4. (Even' <=> Even) /\ (Regular' <=> Regular) /\ (Prompt' <=> Prompt)
  BY DEF Even, Regular, Prompt
<1>5. ASSUME NEW k PROVE Start(k)' = Start(k)
  BY DEF Start
<1>6. ASSUME NEW k PROVE Release(k)' = Release(k)
  <2>1. Start(k + 1)' = Start(k + 1)
    BY <1>5
  <2>2. QED
    BY <2>1 DEF Release
<1>7. ASSUME NEW k PROVE Later(k)' = Later(k)
  BY <1>1 DEF Later
<1>8. Moving' <=> Moving
  BY DEF Moving
<1>9. QED
  BY <1>1, <1>2, <1>3, <1>4, <1>5, <1>6, <1>7, <1>8

(* Without a run nothing is asked of its readings.                         *)
LEMMA NoRunNoReadings ==
  ~result.done /\ result.readings = {} => NeverYoungerThanItsRelease /\ CurrentPrintScores
BY DEF NeverYoungerThanItsRelease, CurrentPrintScores

(* Nothing is printed at first.                                            *)
LEMMA MacroInit == Init => MacroInv
<1> SUFFICES ASSUME Init PROVE MacroInv
  OBVIOUS
<1>1. schedule \in Seq(Nat \ {0})
  <2>1. schedule = <<>> \/ schedule \in Schedules
    <3>1. CASE config.chains.macro = <<>>
      BY <3>1 DEF Init
    <3>2. CASE config.chains.macro # <<>>
      BY <3>2 DEF Init
    <3>3. QED
      BY <3>1, <3>2
  <2>2. Schedules \subseteq Seq(Nat \ {0})
    BY WorldAssumption
  <2>3. <<>> \in Seq(Nat \ {0})
    OBVIOUS
  <2>4. CASE schedule = <<>>
    BY <2>3, <2>4
  <2>5. CASE schedule \in Schedules
    BY <2>2, <2>5
  <2>6. QED
    BY <2>1, <2>4, <2>5
<1>2. figures = <<>> /\ today = 0 /\ result.done = FALSE /\ result.readings = {}
  BY DEF Init, NoRun
<1>3. CalendarInv
  BY <1>1, <1>2 DEF CalendarInv
<1>4. NeverYoungerThanItsRelease /\ CurrentPrintScores
  BY <1>2, NoRunNoReadings
<1>5. QED
  BY <1>2, <1>3, <1>4 DEF MacroInv, Init

(* A print that is due comes out, before the run of its day.               *)
LEMMA PublishStep ==
  ASSUME MacroInv, NEW v \in Values, Publish(v)
  PROVE  MacroInv'
<1>1. ~result.done /\ result.readings = {}
  BY DEF MacroInv, Publish
<1>2. /\ schedule \in Seq(Nat \ {0}) /\ figures \in Seq(Values) /\ today \in Nat
      /\ \A k \in DOMAIN figures : Release(k) <= today
  BY DEF MacroInv, CalendarInv
<1>3. /\ figures' = Append(figures, v) /\ UNCHANGED <<setup, schedule, today, result>>
      /\ Len(figures) < Len(schedule) /\ Release(Len(figures) + 1) <= today
  BY DEF Publish, Due
<1>4. figures' \in Seq(Values) /\ Len(figures') = Len(figures) + 1
  BY <1>2, <1>3
<1>5. ASSUME NEW k \in DOMAIN figures' PROVE Release(k)' <= today
  <2>1. k \in DOMAIN figures \/ k = Len(figures) + 1
    BY <1>2, <1>4
  <2>2. Release(k)' = Release(k)
    <3>1. Start(k + 1)' = Start(k + 1)
      BY <1>3 DEF Start
    <3>2. QED
      BY <3>1 DEF Release
  <2>3. QED
    BY <1>2, <1>3, <2>1, <2>2
<1>6. CalendarInv'
  BY <1>2, <1>3, <1>4, <1>5 DEF CalendarInv
<1>7. NeverYoungerThanItsRelease' /\ CurrentPrintScores'
  BY <1>1, <1>3 DEF NeverYoungerThanItsRelease, CurrentPrintScores
<1>8. QED
  BY <1>1, <1>3, <1>6, <1>7 DEF MacroInv

(* A run reads what is out.                                                *)
LEMMA MacroRunStep ==
  ASSUME MacroInv, NEW reply, NEW attention, Run(reply, attention)
  PROVE  MacroInv'
<1>1. /\ UNCHANGED <<setup, today, schedule, figures>> /\ ~Due
      /\ result'.done = TRUE /\ result'.readings = Readings(reply)
      /\ result'.whole = (DOMAIN reply = {})
  BY DEF Run, world
<1>2. CalendarInv
  BY DEF MacroInv
<1>3. \A r \in Readings(reply) : InItsWindow(r, reply)
  BY <1>2, ReadingsInWindow
<1>4. /\ PrintedFigures' = PrintedFigures /\ Newest' = Newest
      /\ (Sporadic' <=> Sporadic) /\ (Even' <=> Even)
      /\ (Regular' <=> Regular) /\ (Prompt' <=> Prompt) /\ (Moving' <=> Moving)
      /\ \A k : Start(k)' = Start(k) /\ Release(k)' = Release(k) /\ Later(k)' = Later(k)
  BY <1>1, SameCalendar
<1>5. CalendarInv' /\ ~Due'
  BY <1>1, <1>2, <1>4 DEF CalendarInv, Due
<1>6. NeverYoungerThanItsRelease'
  BY <1>1, <1>3, <1>4 DEF NeverYoungerThanItsRelease, InItsWindow
<1>7. CurrentPrintScores'
  <2>1. SUFFICES ASSUME DOMAIN reply = {}, Current, config.chains.macro # <<>>,
                        config.chains.macro[1] = "fred"
                 PROVE  \E r \in Readings(reply) : /\ r.factor = "cpi"
                                                   /\ r.day = Release(Newest)
    <3>1. config' = config
      BY <1>1 DEF config
    <3>2. Release(Newest)' = Release(Newest)
      BY <1>4
    <3>3. QED
      BY <1>1, <1>4, <3>1, <3>2 DEF CurrentPrintScores, Current
  <2>2. FredReading(reply).factor = "cpi" /\ FredReading(reply).day = Release(Newest)
    BY <1>2, <2>1, CurrentPrintRead
  <2>3. FredReading(reply) # NoReading
    BY <2>2 DEF NoReading, Trend
  <2>4. FredReading(reply) \in Readings(reply)
    BY <2>1, <2>3, FredFirst DEF MacroInv
  <2>5. QED
    BY <2>2, <2>4
<1>8. QED
  BY <1>1, <1>5, <1>6, <1>7 DEF MacroInv

(* The other actions leave the prints and S_M alone, or forget the run.    *)
LEMMA MacroStep == MacroInv /\ [Next]_vars => MacroInv'
<1> SUFFICES ASSUME MacroInv, [Next]_vars PROVE MacroInv'
  OBVIOUS
<1>1. ASSUME UNCHANGED <<setup, today, schedule, figures, result>> PROVE MacroInv'
  <2>1. /\ PrintedFigures' = PrintedFigures /\ Newest' = Newest
        /\ (Sporadic' <=> Sporadic) /\ (Even' <=> Even)
        /\ (Regular' <=> Regular) /\ (Prompt' <=> Prompt) /\ (Moving' <=> Moving)
        /\ \A k : Start(k)' = Start(k) /\ Release(k)' = Release(k) /\ Later(k)' = Later(k)
    BY <1>1, SameCalendar
  <2>2. CalendarInv' /\ (Due' <=> Due)
    BY <1>1, <2>1 DEF MacroInv, CalendarInv, Due
  <2>3. NeverYoungerThanItsRelease'
    BY <1>1, <2>1 DEF MacroInv, NeverYoungerThanItsRelease
  <2>4. CurrentPrintScores'
    <3>1. config' = config /\ Release(Newest)' = Release(Newest)
      BY <1>1, <2>1 DEF config
    <3>2. QED
      BY <1>1, <2>1, <3>1 DEF MacroInv, CurrentPrintScores
  <2>5. QED
    BY <1>1, <2>2, <2>3, <2>4 DEF MacroInv
<1>2. ASSUME NEW v \in Values, Publish(v) PROVE MacroInv'
  BY <1>2, PublishStep
<1>3. ASSUME NEW t \in Filings, FileTrade(t) PROVE MacroInv'
  BY <1>1, <1>3 DEF FileTrade
<1>4. ASSUME NEW o \in Opinions, GiveOpinion(o) PROVE MacroInv'
  BY <1>1, <1>4 DEF GiveOpinion
<1>5. ASSUME NEW s \in Stories, RunStory(s) PROVE MacroInv'
  BY <1>1, <1>5 DEF RunStory
<1>6. ASSUME NEW d \in Disclosures, Disclose(d) PROVE MacroInv'
  BY <1>1, <1>6 DEF Disclose
<1>7. ASSUME NEW r \in config.faults, NEW a \in Attention, Run(r, a) PROVE MacroInv'
  BY <1>7, MacroRunStep
<1>8. CASE NextDay
  <2>1. /\ UNCHANGED <<setup, schedule, figures>> /\ today' = today + 1
        /\ result'.done = FALSE /\ result'.readings = {}
    BY <1>8 DEF NextDay, world, NoRun
  <2>2. CalendarInv
    BY DEF MacroInv
  <2>3. \A k \in DOMAIN figures : Release(k)' = Release(k) /\ Release(k) \in Nat
    BY <2>1, <2>2, CalendarDays, SameCalendar
  <2>4. CalendarInv'
    BY <2>1, <2>2, <2>3 DEF CalendarInv
  <2>5. NeverYoungerThanItsRelease' /\ CurrentPrintScores'
    BY <2>1 DEF NeverYoungerThanItsRelease, CurrentPrintScores
  <2>6. QED
    BY <2>1, <2>4, <2>5 DEF MacroInv
<1>9. CASE UNCHANGED vars
  BY <1>1, <1>9 DEF vars, world
<1>10. QED
  BY <1>2, <1>3, <1>4, <1>5, <1>6, <1>7, <1>8, <1>9 DEF Next

(* A macro reading is dated no later than it was known, whatever the feeds *)
(* leave out; of a calendar, it is of the newest print, or the one before. *)
THEOREM NoReadingIsYounger == Spec => []NeverYoungerThanItsRelease
<1>1. MacroInv => NeverYoungerThanItsRelease
  BY DEF MacroInv
<1>2. QED
  BY <1>1, MacroInit, MacroStep, PTL DEF Spec

(* A figure scores from the day it is printed until it is stale.           *)
THEOREM CurrentPrintIsHeard == Spec => []CurrentPrintScores
<1>1. MacroInv => CurrentPrintScores
  BY DEF MacroInv
<1>2. QED
  BY <1>1, MacroInit, MacroStep, PTL DEF Spec
=============================================================================
