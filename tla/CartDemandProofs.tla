-------------------------- MODULE CartDemandProofs --------------------------
(* What the operators on carts compute, for every cart; first, facts about    *)
(* sets of naturals, stated of sets so that the provers can use them: least   *)
(* and greatest elements, and induction.                                      *)
EXTENDS CartDemand, FiniteSetTheorems, WellFoundedInduction, TLAPS

(* Every nonempty set of naturals has a least element.                        *)
LEMMA LeastNatural ==
  ASSUME NEW T \in SUBSET Nat, T # {}
  PROVE  \E n \in T : \A m \in T : n <= m
<1> DEFINE Less == {ss \in Nat \X Nat : ss[1] < ss[2]}
<1>1. IsWellFoundedOn(Less, Nat)
  BY NatLessThanWellFounded DEF OpToRel
<1>2. PICK n \in T : \A m \in T : <<m, n>> \notin Less
  BY <1>1, WFMin
<1>3. \A m \in T : ~(m < n)
  BY <1>2
<1> QED
  BY <1>3

(* Induction, stated of a set: 0 belongs to it and it is closed under +1.     *)
LEMMA InductionOnSets ==
  ASSUME NEW T \in SUBSET Nat, 0 \in T, \A n \in T : n + 1 \in T
  PROVE  T = Nat
<1> SUFFICES ASSUME Nat \ T # {} PROVE FALSE
  OBVIOUS
<1>1. PICK n \in Nat \ T : \A m \in Nat \ T : n <= m
  BY LeastNatural
<1>2. n # 0 /\ n - 1 \in T
  BY <1>1
<1> QED
  BY <1>2

(* A finite nonempty set of naturals has a greatest element.                  *)
LEMMA GreatestNatural ==
  ASSUME NEW T \in SUBSET Nat, IsFiniteSet(T), T # {}
  PROVE  \E n \in T : \A m \in T : m <= n
<1>0. PICK n \in Nat : ExistsSurjection(1..n, T)
  BY FS_NatSurjection
<1>1. PICK f \in [1..n -> T] : \A t \in T : \E i \in 1..n : f[i] = t
  BY <1>0 DEF ExistsSurjection, Surjection
<1> DEFINE Bounded == {k \in Nat : k <= n => \E b \in Nat : \A i \in 1..k : f[i] <= b}
<1>2. 0 \in Bounded
  OBVIOUS
<1>3. ASSUME NEW k \in Bounded PROVE k + 1 \in Bounded
  <2> SUFFICES ASSUME k + 1 <= n
               PROVE  \E b \in Nat : \A i \in 1..(k + 1) : f[i] <= b
    OBVIOUS
  <2>1. PICK b \in Nat : \A i \in 1..k : f[i] <= b
    OBVIOUS
  <2>2. k + 1 \in 1..n /\ f[k + 1] \in Nat
    <3>1. k \in Nat /\ k + 1 \in 1..n
      OBVIOUS
    <3>2. f[k + 1] \in T
      BY <3>1
    <3> QED
      BY <3>1, <3>2
  <2>3. \A i \in 1..(k + 1) : i \in 1..n /\ (i \in 1..k \/ i = k + 1)
    OBVIOUS
  <2>4. \A i \in 1..n : f[i] \in Nat
    <3>1. \A i \in 1..n : f[i] \in T
      OBVIOUS
    <3> QED
      BY <3>1
  <2>5. \A i \in 1..(k + 1) : f[i] <= b + f[k + 1]
    <3> TAKE i \in 1..(k + 1)
    <3> DEFINE x == f[i]
               y == f[k + 1]
    <3>1. x \in Nat /\ y \in Nat /\ (x <= b \/ x = y)
      BY <2>1, <2>2, <2>3, <2>4
    <3> HIDE DEF x, y
    <3>2. x <= b + y
      BY <3>1
    <3> QED
      BY <3>2 DEF x, y
  <2> QED
    BY <2>2, <2>5
<1>4. Bounded = Nat
  <2>1. Bounded \in SUBSET Nat
    OBVIOUS
  <2> HIDE DEF Bounded
  <2> QED
    BY <1>2, <1>3, <2>1, InductionOnSets
<1>5. PICK b \in Nat : \A t \in T : t <= b
  <2>1. \E b \in Nat : \A i \in 1..n : f[i] <= b
    <3>1. n \in Bounded
      <4> HIDE DEF Bounded
      <4> QED
        BY <1>4
    <3>2. n <= n
      OBVIOUS
    <3> QED
      BY <3>1, <3>2
  <2> QED
    BY <1>1, <2>1
<1> DEFINE Gaps == {b - t : t \in T}
<1>6. Gaps \in SUBSET Nat /\ Gaps # {}
  <2>1. \A t \in T : t \in Nat /\ t <= b
    BY <1>5
  <2>2. \A t \in T : b - t \in Nat
    BY <2>1
  <2> QED
    BY <2>2
<1>7. PICK g \in Gaps : \A h \in Gaps : g <= h
  <2> HIDE DEF Gaps
  <2> QED
    BY <1>6, LeastNatural
<1>8. PICK t \in T : g = b - t
  OBVIOUS
<1>9. \A m \in T : b - t <= b - m
  BY <1>7, <1>8
<1> QED
  BY <1>9

-----------------------------------------------------------------------------
(* A line has an id and a positive quantity (model/order.go:34 and            *)
(* order_repo.go:95).                                                         *)
LEMMA LineFacts ==
  ASSUME NEW c \in Carts, NEW i \in 1..Len(c)
  PROVE  /\ ResolveProductID(c[i]) \in Int
         /\ EffectiveQty(c[i]) \in Nat \ {0}
<1>1. c[i] \in Line
  BY CartsAssumption
<1> QED
  BY <1>1 DEF Line, ResolveProductID, EffectiveQty

(* A cart has a length.                                                       *)
LEMMA LengthFact == ASSUME NEW c \in Carts PROVE Len(c) \in Nat
  BY CartsAssumption

(* A recursive definition of the sums of the first members of f has a solution.*)
LEMMA RunningSums ==
  ASSUME NEW n \in Nat, NEW f
  PROVE  \E d : d = [i \in 0..n |-> IF i = 0 THEN 0 ELSE d[i - 1] + f[i]]
<1> DEFINE Solves(d, m) == d = [i \in 0..m |-> IF i = 0 THEN 0 ELSE d[i - 1] + f[i]]
           Solvable == {m \in Nat : \E d : Solves(d, m)}
<1>1. 0 \in Solvable
  <2>1. Solves([i \in 0..0 |-> 0], 0)
    OBVIOUS
  <2> QED
    BY <2>1
<1>2. ASSUME NEW m \in Solvable PROVE m + 1 \in Solvable
  <2>1. PICK d : Solves(d, m)
    OBVIOUS
  <2> DEFINE e == [i \in 0..(m + 1) |-> IF i = 0 THEN 0 ELSE d[i - 1] + f[i]]
  <2>2. \A i \in 0..m : e[i] = d[i]
    BY <2>1
  <2>3. \A i \in 0..(m + 1) : i # 0 => e[i - 1] = d[i - 1]
    <3>1. m \in Nat /\ \A i \in 0..(m + 1) : i # 0 => i - 1 \in 0..m
      OBVIOUS
    <3> HIDE DEF e
    <3> QED
      BY <2>2, <3>1
  <2>4. e = [i \in 0..(m + 1) |-> IF i = 0 THEN 0 ELSE e[i - 1] + f[i]]
    BY <2>3
  <2>5. \E g : Solves(g, m + 1)
    BY <2>4
  <2>6. m + 1 \in Nat
    OBVIOUS
  <2> QED
    BY <2>5, <2>6
<1>3. Solvable = Nat
  <2>1. Solvable \in SUBSET Nat
    OBVIOUS
  <2> HIDE DEF Solvable
  <2> QED
    BY <1>1, <1>2, <2>1, InductionOnSets
<1>4. \E d : Solves(d, n)
  BY <1>3
<1> QED
  BY <1>4

(* So Demand solves its own.                                                  *)
LEMMA DemandUnfolds ==
  ASSUME NEW c \in Carts, NEW p
  PROVE  Demand(c, p) =
           [i \in 0..Len(c) |->
              IF i = 0 THEN 0 ELSE Demand(c, p)[i - 1] + LineDemand(c[i], p)]
<1> DEFINE f == [i \in 1..Len(c) |-> LineDemand(c[i], p)]
           Solves(d) ==
             d = [i \in 0..Len(c) |-> IF i = 0 THEN 0 ELSE d[i - 1] + LineDemand(c[i], p)]
<1>1. \A i \in 0..Len(c) : i # 0 => f[i] = LineDemand(c[i], p)
  BY LengthFact
<1>2. PICK d : d = [i \in 0..Len(c) |-> IF i = 0 THEN 0 ELSE d[i - 1] + f[i]]
  BY LengthFact, RunningSums
<1> HIDE DEF f
<1>3. \E e : Solves(e)
  BY <1>1, <1>2
<1>4. Demand(c, p) = CHOOSE e : Solves(e)
  BY DEF Demand
<1> QED
  BY <1>3, <1>4

(* A line asks for a number of units.                                         *)
LEMMA LineDemandType ==
  ASSUME NEW c \in Carts, NEW i \in 1..Len(c), NEW p
  PROVE  LineDemand(c[i], p) \in Nat
  BY LineFacts DEF LineDemand

(* The demand of a cart starts at 0 and grows line by line.                   *)
LEMMA DemandSteps ==
  ASSUME NEW c \in Carts, NEW p
  PROVE  /\ Demand(c, p)[0] = 0
         /\ \A i \in 1..Len(c) : Demand(c, p)[i] = Demand(c, p)[i - 1] + LineDemand(c[i], p)
<1>1. Len(c) \in Nat
  BY LengthFact
<1> DEFINE d == Demand(c, p)
<1>2. d = [i \in 0..Len(c) |-> IF i = 0 THEN 0 ELSE d[i - 1] + LineDemand(c[i], p)]
  BY DemandUnfolds
<1> HIDE DEF d
<1>3. d[0] = 0 /\ \A i \in 1..Len(c) : d[i] = d[i - 1] + LineDemand(c[i], p)
  BY <1>1, <1>2
<1> QED
  BY <1>3 DEF d

(* So do the first lines of a cart.                                           *)
LEMMA DemandType ==
  ASSUME NEW c \in Carts, NEW p
  PROVE  \A i \in 0..Len(c) : Demand(c, p)[i] \in Nat
<1> DEFINE Typed == {n \in Nat : n <= Len(c) => Demand(c, p)[n] \in Nat}
<1>1. 0 \in Typed
  BY DemandSteps
<1>2. ASSUME NEW n \in Typed PROVE n + 1 \in Typed
  <2> SUFFICES ASSUME n + 1 <= Len(c) PROVE Demand(c, p)[n + 1] \in Nat
    OBVIOUS
  <2>1. n + 1 \in 1..Len(c) /\ (n + 1) - 1 = n /\ Demand(c, p)[n] \in Nat
    BY LengthFact
  <2>2. Demand(c, p)[n + 1] = Demand(c, p)[n] + LineDemand(c[n + 1], p)
    BY <2>1, DemandSteps
  <2>3. LineDemand(c[n + 1], p) \in Nat
    BY <2>1, LineDemandType
  <2> QED
    BY <2>1, <2>2, <2>3
<1>3. Typed = Nat
  <2>1. Typed \in SUBSET Nat
    OBVIOUS
  <2> HIDE DEF Typed
  <2> QED
    BY <1>1, <1>2, <2>1, InductionOnSets
<1> QED
  BY <1>3, LengthFact

(* What a prefix of the cart asks for, the whole cart asks for.               *)
LEMMA DemandMonotone ==
  ASSUME NEW c \in Carts, NEW p, NEW i \in 0..Len(c)
  PROVE  Demand(c, p)[i] <= TotalDemand(c, p)
<1> DEFINE Grown == {n \in Nat : i + n <= Len(c) => Demand(c, p)[i] <= Demand(c, p)[i + n]}
<1>0. Len(c) \in Nat /\ \A j \in 0..Len(c) : Demand(c, p)[j] \in Nat
  BY LengthFact, DemandType
<1>1. 0 \in Grown
  BY <1>0
<1>2. ASSUME NEW n \in Grown PROVE n + 1 \in Grown
  <2> SUFFICES ASSUME i + (n + 1) <= Len(c)
               PROVE  Demand(c, p)[i] <= Demand(c, p)[i + (n + 1)]
    OBVIOUS
  <2> DEFINE j == i + (n + 1)
  <2>1. j \in 1..Len(c) /\ j - 1 = i + n /\ i + n \in 0..Len(c)
    BY <1>0
  <2>2. Demand(c, p)[j] = Demand(c, p)[i + n] + LineDemand(c[j], p)
    BY <2>1, DemandSteps
  <2>3. LineDemand(c[j], p) \in Nat
    BY <2>1, LineDemandType
  <2>4. Demand(c, p)[i] <= Demand(c, p)[i + n]
    BY <1>0, <2>1
  <2> QED
    BY <1>0, <2>1, <2>2, <2>3, <2>4
<1>3. Grown = Nat
  <2>1. Grown \in SUBSET Nat
    OBVIOUS
  <2> HIDE DEF Grown
  <2> QED
    BY <1>1, <1>2, <2>1, InductionOnSets
<1>4. Len(c) - i \in Nat /\ i + (Len(c) - i) = Len(c)
  BY <1>0
<1>5. Len(c) - i \in Grown
  <2> HIDE DEF Grown
  <2> QED
    BY <1>3, <1>4
<1> QED
  BY <1>0, <1>4, <1>5 DEF TotalDemand

(* A line that names p makes the demand for p positive from there on.         *)
LEMMA NamedIsDemanded ==
  ASSUME NEW c \in Carts, NEW p, NEW i \in 1..Len(c), ResolveProductID(c[i]) = p
  PROVE  TotalDemand(c, p) > 0
<1>1. Len(c) \in Nat /\ i - 1 \in 0..Len(c) /\ i \in 0..Len(c)
  BY LengthFact
<1>2. Demand(c, p)[i] = Demand(c, p)[i - 1] + EffectiveQty(c[i])
  BY DemandSteps DEF LineDemand
<1>3. Demand(c, p)[i - 1] \in Nat /\ EffectiveQty(c[i]) \in Nat \ {0}
  BY <1>1, DemandType, LineFacts
<1>4. Demand(c, p)[i] <= TotalDemand(c, p) /\ TotalDemand(c, p) \in Nat
  BY <1>1, DemandMonotone, DemandType DEF TotalDemand
<1> QED
  BY <1>2, <1>3, <1>4

(* Conversely, only a product some line names is demanded.                    *)
LEMMA DemandedIsNamed ==
  ASSUME NEW c \in Carts, NEW p, TotalDemand(c, p) # 0
  PROVE  \E i \in 1..Len(c) : ResolveProductID(c[i]) = p
<1> SUFFICES ASSUME \A i \in 1..Len(c) : ResolveProductID(c[i]) # p PROVE FALSE
  OBVIOUS
<1> DEFINE Idle == {n \in Nat : n <= Len(c) => Demand(c, p)[n] = 0}
<1>1. 0 \in Idle
  BY DemandSteps
<1>2. ASSUME NEW n \in Idle PROVE n + 1 \in Idle
  <2> SUFFICES ASSUME n + 1 <= Len(c) PROVE Demand(c, p)[n + 1] = 0
    OBVIOUS
  <2>1. n + 1 \in 1..Len(c) /\ (n + 1) - 1 = n /\ Demand(c, p)[n] = 0
    BY LengthFact
  <2>2. Demand(c, p)[n + 1] = Demand(c, p)[n] + LineDemand(c[n + 1], p)
    BY <2>1, DemandSteps
  <2> QED
    BY <2>1, <2>2 DEF LineDemand
<1>3. Idle = Nat
  <2>1. Idle \in SUBSET Nat
    OBVIOUS
  <2> HIDE DEF Idle
  <2> QED
    BY <1>1, <1>2, <2>1, InductionOnSets
<1> QED
  BY <1>3, LengthFact DEF TotalDemand

(* So does the whole cart.                                                    *)
LEMMA TotalType ==
  ASSUME NEW c \in Carts, NEW p
  PROVE  TotalDemand(c, p) \in Nat
  BY LengthFact, DemandType DEF TotalDemand

(* What one stock cannot meet, a smaller stock cannot.                        *)
LEMMA LessIsNotMore ==
  ASSUME NEW c \in Carts, NEW a, NEW b,
         \A p \in Products : a[p] \in Int /\ b[p] \in Int /\ b[p] <= a[p],
         ~Fulfillable(c, a)
  PROVE  ~Fulfillable(c, b)
<1>1. \A p \in Products : TotalDemand(c, p) \in Nat
  BY TotalType
<1> QED
  BY <1>1 DEF Fulfillable

(* A cart that asks for nothing is refused whatever the stock.                *)
LEMMA NothingDemanded ==
  ASSUME NEW c \in Carts, NEW a, \A p \in Products : TotalDemand(c, p) = 0
  PROVE  ~Fulfillable(c, a)
<1> SUFFICES ASSUME NEW i \in 1..Len(c), KnownLine(c[i]), ResolveProductID(c[i]) # 0
             PROVE  FALSE
  BY DEF Fulfillable
<1>1. ResolveProductID(c[i]) \in Products
  BY DEF KnownLine
<1>2. TotalDemand(c, ResolveProductID(c[i])) > 0
  BY NamedIsDemanded
<1> QED
  BY <1>1, <1>2
=============================================================================
