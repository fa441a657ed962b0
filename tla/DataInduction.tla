--------------------------- MODULE DataInduction ---------------------------
(***************************************************************************)
(* Induction over data, in the form in which it can be cited: of sets and  *)
(* functions, where the library's theorems are of operators.  It rests on  *)
(* the well-foundedness of the naturals.  Sums over a finite set are the   *)
(* first use: Functions defines them by a recursive function on subsets.   *)
(***************************************************************************)
EXTENDS Integers, Sequences, FiniteSets, Functions, FiniteSetTheorems, WellFoundedInduction, TLAPS

-----------------------------------------------------------------------------
(* Induction *)

LEMMA LeastNatural ==
    ASSUME NEW T \in SUBSET Nat, T # {}
    PROVE  \E x \in T : \A y \in T : x <= y
  <1> DEFINE R == {p \in Nat \X Nat : p[1] < p[2]}
  <1>1. R = OpToRel(<, Nat)
    BY Zenon DEF OpToRel
  <1>2. IsWellFoundedOn(R, Nat)
    BY <1>1, NatLessThanWellFounded, Zenon
  <1>3. PICK x \in T : \A y \in T : <<y, x>> \notin R
    <2> HIDE DEF R
    <2> QED
      BY <1>2, WFMin
  <1>4. \A y \in T : ~ (y < x)
    BY <1>3
  <1> QED
    BY <1>4

(* A set of numbers with 0 and the successor of each of them has them all. *)
LEMMA NatSetInduction ==
    ASSUME NEW G, 0 \in G, \A n \in Nat : n \in G => n + 1 \in G
    PROVE  Nat \subseteq G
  <1> SUFFICES ASSUME Nat \ G # {} PROVE FALSE
    OBVIOUS
  <1>1. PICK x \in Nat \ G : \A y \in Nat \ G : x <= y
    BY LeastNatural
  <1>2. x # 0 /\ x - 1 \in Nat
    BY <1>1
  <1>3. x - 1 \in G
    BY <1>1, <1>2
  <1>4. (x - 1) + 1 \in G
    BY <1>2, <1>3
  <1> QED
    BY <1>1, <1>4

(* The element that the folds of the community modules take first.         *)
Chosen(s) == CHOOSE x \in s : TRUE

LEMMA ChosenIsElement == ASSUME NEW s, s # {} PROVE Chosen(s) \in s
  BY DEF Chosen

(* Each subset of a finite set is made of a smaller one in this way.       *)
LEMMA SubsetInduction ==
    ASSUME NEW S, IsFiniteSet(S), NEW G, {} \in G,
           \A s \in SUBSET S : s # {} /\ s \ {Chosen(s)} \in G => s \in G
    PROVE  SUBSET S \subseteq G
  <1> DEFINE N == {n \in Nat : \A s \in SUBSET S : Cardinality(s) = n => s \in G}
  <1>1. \A s \in SUBSET S : IsFiniteSet(s) /\ Cardinality(s) \in Nat
    BY FS_Subset, FS_CardinalityType
  <1>2. 0 \in N
    BY <1>1, FS_EmptySet
  <1>3. \A n \in Nat : n \in N => n + 1 \in N
    <2> SUFFICES ASSUME NEW n \in N, NEW s \in SUBSET S, Cardinality(s) = n + 1
                 PROVE  s \in G
      OBVIOUS
    <2>1. s # {}
      BY FS_EmptySet
    <2>2. Cardinality(s \ {Chosen(s)}) = Cardinality(s) - 1
      BY <1>1, <2>1, ChosenIsElement, FS_RemoveElement
    <2>3. s \ {Chosen(s)} \in SUBSET S /\ Cardinality(s \ {Chosen(s)}) = n
      BY <2>2
    <2>4. s \ {Chosen(s)} \in G
      BY <2>3
    <2> QED
      BY <2>1, <2>4
  <1> HIDE DEF N
  <1>4. Nat \subseteq N
    BY <1>2, <1>3, NatSetInduction
  <1> QED
    BY <1>1, <1>4 DEF N

-----------------------------------------------------------------------------
(* Sums *)

(* What a sum over subsets satisfies at each of them.                      *)
AddsUp(f, g, s) == f[s] = IF s = {} THEN 0 ELSE g[Chosen(s)] + f[s \ {Chosen(s)}]

Summands(g, S) == \A x \in S : g[x] \in Int

(* A function adds up on all subsets of at most n elements.                *)
AddedUpto(f, g, S, n) == \A s \in SUBSET S : Cardinality(s) <= n => AddsUp(f, g, s)
AddsUpto(g, S, n) == \E f \in [SUBSET S -> Int] : AddedUpto(f, g, S, n)

(* There is one for all subsets, by induction over their size.             *)
LEMMA SumsExist ==
    ASSUME NEW S, IsFiniteSet(S), NEW g, Summands(g, S)
    PROVE  \E f \in [SUBSET S -> Int] : \A s \in SUBSET S : AddsUp(f, g, s)
  <1> DEFINE N == {n \in Nat : AddsUpto(g, S, n)}
  <1>1. \A s \in SUBSET S : IsFiniteSet(s) /\ Cardinality(s) \in Nat
    BY FS_Subset, FS_CardinalityType
  <1>2. 0 \in N
    <2> DEFINE f == [s \in SUBSET S |-> 0]
    <2>1. \A s \in SUBSET S : Cardinality(s) <= 0 => s = {}
      BY <1>1, FS_EmptySet
    <2>2. f \in [SUBSET S -> Int]
      OBVIOUS
    <2>3. AddedUpto(f, g, S, 0)
      BY <2>1 DEF AddedUpto, AddsUp
    <2> HIDE DEF f
    <2> QED
      BY <2>2, <2>3 DEF AddsUpto
  <1>3. \A n \in Nat : n \in N => n + 1 \in N
    <2> SUFFICES ASSUME NEW n \in Nat, AddsUpto(g, S, n)
                 PROVE  AddsUpto(g, S, n + 1)
      OBVIOUS
    <2>0. PICK f \in [SUBSET S -> Int] : AddedUpto(f, g, S, n)
      BY DEF AddsUpto
    <2> DEFINE h == [s \in SUBSET S |-> IF Cardinality(s) <= n THEN f[s]
                                        ELSE g[Chosen(s)] + f[s \ {Chosen(s)}]]
    <2>1. \A s \in SUBSET S : ~ (Cardinality(s) <= n) => s # {}
      <3>1. Cardinality({}) <= n
        BY FS_EmptySet
      <3> QED
        BY <3>1
    <2>2. h \in [SUBSET S -> Int]
      <3> SUFFICES ASSUME NEW s \in SUBSET S, ~ (Cardinality(s) <= n)
                   PROVE  g[Chosen(s)] + f[s \ {Chosen(s)}] \in Int
        BY <2>0
      <3>1. Chosen(s) \in S
        BY <2>1, ChosenIsElement
      <3>2. s \ {Chosen(s)} \in SUBSET S
        OBVIOUS
      <3> QED
        BY <2>0, <3>1, <3>2 DEF Summands
    <2>3. AddedUpto(h, g, S, n + 1)
      <3> SUFFICES ASSUME NEW s \in SUBSET S, Cardinality(s) <= n + 1
                   PROVE  AddsUp(h, g, s)
        BY DEF AddedUpto
      <3>1. CASE s = {}
        <4>1. Cardinality(s) <= n
          BY <3>1, FS_EmptySet
        <4>2. AddsUp(f, g, s)
          BY <2>0, <4>1 DEF AddedUpto
        <4> QED
          BY <3>1, <4>1, <4>2 DEF AddsUp
      <3>2. CASE s # {}
        <4> DEFINE t == s \ {Chosen(s)}
        <4>1. t \in SUBSET S /\ Cardinality(t) = Cardinality(s) - 1
          BY <1>1, <3>2, ChosenIsElement, FS_RemoveElement
        <4>2. Cardinality(t) <= n
          BY <1>1, <4>1
        <4>3. h[t] = f[t]
          BY <4>1, <4>2
        <4>4. h[s] = g[Chosen(s)] + f[t]
          <5>1. CASE Cardinality(s) <= n
            <6>1. AddsUp(f, g, s)
              BY <2>0, <5>1 DEF AddedUpto
            <6> QED
              BY <3>2, <5>1, <6>1 DEF AddsUp
          <5>2. CASE ~ (Cardinality(s) <= n)
            BY <5>2
          <5> QED
            BY <5>1, <5>2
        <4> QED
          BY <3>2, <4>3, <4>4 DEF AddsUp
      <3> QED
        BY <3>1, <3>2
    <2> HIDE DEF h
    <2> QED
      BY <2>2, <2>3 DEF AddsUpto
  <1> HIDE DEF N
  <1>4. Nat \subseteq N
    BY <1>2, <1>3, NatSetInduction
  <1>5. Cardinality(S) \in N
    BY <1>4, FS_CardinalityType
  <1>6. PICK f \in [SUBSET S -> Int] : AddedUpto(f, g, S, Cardinality(S))
    BY <1>5 DEF N, AddsUpto
  <1>7. \A s \in SUBSET S : Cardinality(s) <= Cardinality(S)
    BY FS_Subset
  <1> QED
    BY <1>6, <1>7 DEF AddedUpto

(* The community module's sum is one of them.                              *)
LEMMA SumIsOne ==
    ASSUME NEW S, IsFiniteSet(S), NEW g, Summands(g, S)
    PROVE  \E f : /\ SumFunctionOnSet(g, S) = f[S]
                  /\ \A s \in SUBSET S : AddsUp(f, g, s) /\ f[s] \in Int
  <1> DEFINE Body(f) == [s \in SUBSET S |-> IF s = {} THEN 0
                                            ELSE g[Chosen(s)] + f[s \ {Chosen(s)}]]
             c == CHOOSE f : f = Body(f)
  <1>1. PICK f \in [SUBSET S -> Int] : \A s \in SUBSET S : AddsUp(f, g, s)
    BY SumsExist
  <1>2. f = Body(f)
    BY <1>1 DEF AddsUp
  <1>3. c = Body(c)
    BY <1>2
  <1>4. SumFunctionOnSet(g, S) = c[S]
    BY DEF SumFunctionOnSet, FoldFunctionOnSet, MapThenFoldSet, Chosen
  <1> HIDE DEF c
  <1>5. \A s \in SUBSET S : AddsUp(c, g, s)
    <2>1. \A s \in SUBSET S : c[s] = Body(c)[s]
      BY <1>3
    <2> QED
      BY <2>1 DEF AddsUp
  <1> DEFINE G == {s \in SUBSET S : c[s] \in Int}
  <1>6. {} \in G
    <2>1. {} \in SUBSET S /\ AddsUp(c, g, {})
      BY <1>5
    <2> QED
      BY <2>1 DEF AddsUp
  <1>7. \A s \in SUBSET S : s # {} /\ s \ {Chosen(s)} \in G => s \in G
    BY <1>5, ChosenIsElement DEF AddsUp, Summands
  <1> HIDE DEF G
  <1>8. SUBSET S \subseteq G
    BY <1>6, <1>7, SubsetInduction
  <1> QED
    BY <1>4, <1>5, <1>8 DEF G

LEMMA SumType ==
    ASSUME NEW S, IsFiniteSet(S), NEW g, Summands(g, S)
    PROVE  SumFunctionOnSet(g, S) \in Int
  BY SumIsOne

(* Two sums whose summands differ in one place differ by what they differ  *)
(* there.                                                                  *)
LEMMA SumChange ==
    ASSUME NEW S, IsFiniteSet(S), NEW g, NEW h, Summands(g, S), Summands(h, S),
           NEW x \in S, \A y \in S \ {x} : h[y] = g[y]
    PROVE  SumFunctionOnSet(h, S) = SumFunctionOnSet(g, S) + (h[x] - g[x])
  <1>1. PICK f : /\ SumFunctionOnSet(g, S) = f[S]
                 /\ \A s \in SUBSET S : AddsUp(f, g, s) /\ f[s] \in Int
    BY SumIsOne
  <1>2. PICK e : /\ SumFunctionOnSet(h, S) = e[S]
                 /\ \A s \in SUBSET S : AddsUp(e, h, s) /\ e[s] \in Int
    BY SumIsOne
  <1> DEFINE G == {s \in SUBSET S : e[s] = f[s] + (IF x \in s THEN h[x] - g[x] ELSE 0)}
  <1>3. {} \in G
    <2>1. {} \in SUBSET S /\ AddsUp(f, g, {}) /\ AddsUp(e, h, {})
      BY <1>1, <1>2
    <2>2. f[{}] = 0 /\ e[{}] = 0
      BY <2>1 DEF AddsUp
    <2> QED
      BY <2>1, <2>2
  <1>4. \A s \in SUBSET S : s # {} /\ s \ {Chosen(s)} \in G => s \in G
    <2> SUFFICES ASSUME NEW s \in SUBSET S, s # {}, s \ {Chosen(s)} \in G
                 PROVE  s \in G
      OBVIOUS
    <2> DEFINE t == s \ {Chosen(s)}
    <2>1. Chosen(s) \in s
      BY ChosenIsElement
    <2>2. t \in SUBSET S /\ e[t] = f[t] + (IF x \in t THEN h[x] - g[x] ELSE 0)
      OBVIOUS
    <2>3. f[s] = g[Chosen(s)] + f[t] /\ e[s] = h[Chosen(s)] + e[t]
      BY <1>1, <1>2 DEF AddsUp
    <2>4. f[t] \in Int /\ e[t] \in Int
      BY <1>1, <1>2, <2>2
    <2>5. g[Chosen(s)] \in Int /\ h[Chosen(s)] \in Int /\ g[x] \in Int /\ h[x] \in Int
      BY <2>1 DEF Summands
    <2>6. CASE x = Chosen(s)
      <3>1. x \in s /\ x \notin t
        BY <2>1, <2>6
      <3> QED
        BY <2>2, <2>3, <2>4, <2>5, <2>6, <3>1
    <2>7. CASE x # Chosen(s)
      <3>1. h[Chosen(s)] = g[Chosen(s)] /\ (x \in s <=> x \in t)
        BY <2>1, <2>7
      <3> QED
        BY <2>2, <2>3, <2>4, <2>5, <3>1
    <2> QED
      BY <2>6, <2>7
  <1> HIDE DEF G
  <1>5. S \in G
    BY <1>3, <1>4, SubsetInduction
  <1> QED
    BY <1>1, <1>2, <1>5 DEF G

LEMMA SumOfZeros ==
    ASSUME NEW S, IsFiniteSet(S), NEW g, \A x \in S : g[x] = 0
    PROVE  SumFunctionOnSet(g, S) = 0
  <1>1. PICK f : /\ SumFunctionOnSet(g, S) = f[S]
                 /\ \A s \in SUBSET S : AddsUp(f, g, s) /\ f[s] \in Int
    BY SumIsOne DEF Summands
  <1> DEFINE G == {s \in SUBSET S : f[s] = 0}
  <1>2. {} \in G
    <2>1. {} \in SUBSET S /\ AddsUp(f, g, {})
      BY <1>1
    <2> QED
      BY <2>1 DEF AddsUp
  <1>3. \A s \in SUBSET S : s # {} /\ s \ {Chosen(s)} \in G => s \in G
    <2> SUFFICES ASSUME NEW s \in SUBSET S, s # {}, s \ {Chosen(s)} \in G
                 PROVE  s \in G
      OBVIOUS
    <2>1. Chosen(s) \in s
      BY ChosenIsElement
    <2>2. f[s] = g[Chosen(s)] + f[s \ {Chosen(s)}]
      BY <1>1 DEF AddsUp
    <2>3. g[Chosen(s)] = 0 /\ f[s \ {Chosen(s)}] = 0
      BY <2>1
    <2> QED
      BY <2>2, <2>3
  <1> HIDE DEF G
  <1>4. S \in G
    BY <1>2, <1>3, SubsetInduction
  <1> QED
    BY <1>1, <1>4 DEF G
=============================================================================
