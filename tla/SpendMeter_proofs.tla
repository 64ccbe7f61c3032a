------------------------- MODULE SpendMeter_proofs -------------------------
(***************************************************************************)
(* The overshoot of a budget is bounded, for every number of slots, every  *)
(* budget and every price of a call.  The bound alone is not inductive: a  *)
(* state in which the whole overshoot is used up while a call is under way *)
(* satisfies it, and the charge of that call breaks it.  OvershootReserved *)
(* excludes that state: past the cap, the calls under way still have their *)
(* share of the overshoot in reserve.                                      *)
(***************************************************************************)
EXTENDS SpendMeter, FiniteSetTheorems, TLAPS

\* Multiplying the cost of a call by a number of calls: what the solver does
\* not know of a product of two unknowns.
LEMMA CostOfCalls ==
  ASSUME NEW m \in Nat, NEW k \in Nat
  PROVE  /\ m * k \in Nat
         /\ m * (k + 1) = m * k + m
         /\ \A j \in Nat : j <= k => m * j <= m * k
<1>1. m * k \in Nat /\ m * (k + 1) = m * k + m
  BY Z3
<1>2. ASSUME NEW j \in Nat, j <= k PROVE m * j <= m * k
  <2>1. PICK d \in Nat : k = j + d
    <3>1. k - j \in Nat /\ k = j + (k - j)
      BY <1>2
    <3> QED BY <3>1
  <2>2. m * k = m * j + m * d /\ m * d \in Nat /\ m * j \in Nat
    BY <2>1, Z3
  <2> QED BY <2>2
<1> QED BY <1>1, <1>2

\* The holders of a token are a finite set, never larger than the set of slots.
LEMMA HoldersFinite ==
  ASSUME MeterAssumption, NEW t \in Tokens
  PROVE  /\ IsFiniteSet(Holders(t)) /\ IsFiniteSet(Slots)
         /\ Cardinality(Holders(t)) \in Nat
         /\ Cardinality(Slots) \in Nat
         /\ Cardinality(Holders(t)) <= Cardinality(Slots)
<1>1. IsFiniteSet(Slots) /\ Holders(t) \subseteq Slots
  BY DEF MeterAssumption, Holders
<1>2. IsFiniteSet(Holders(t)) /\ Cardinality(Holders(t)) <= Cardinality(Slots)
  BY <1>1, FS_Subset
<1> QED BY <1>1, <1>2, FS_CardinalityType

THEOREM MeterTypeCorrect ==
  ASSUME MeterAssumption
  PROVE  Spec => []TypeOK
<1> USE DEF MeterAssumption
<1>1. Init => TypeOK
  <2> SUFFICES ASSUME Init PROVE TypeOK
    OBVIOUS
  <2>1. InitialCaps \subseteq (Nat \ {0}) \cup {NoCap}
    OBVIOUS
  <2>2. cap \in [Tokens -> (Nat \ {0}) \cup {NoCap}]
    BY <2>1 DEF Init
  <2> QED BY <2>2 DEF Init, TypeOK
<1>2. TypeOK /\ [Next]_vars => TypeOK'
  <2> SUFFICES ASSUME TypeOK, [Next]_vars PROVE TypeOK'
    OBVIOUS
  <2> USE DEF TypeOK
  <2>1. ASSUME NEW s \in Slots, NEW t \in Tokens, Take(s, t) PROVE TypeOK'
    BY <2>1 DEF Take
  <2>2. ASSUME NEW s \in Slots, NEW c \in 0..MaxCost, Charge(s, c) PROVE TypeOK'
    <3>1. holds[s] \in Tokens
      BY <2>2 DEF Charge
    <3>2. spent[holds[s]] + c \in Nat
      BY <3>1
    <3> QED BY <2>2, <3>1, <3>2 DEF Charge
  <2>3. ASSUME NEW S \in SUBSET Slots, Drop(S) PROVE TypeOK'
    BY <2>3 DEF Drop
  <2>4. ASSUME NEW t \in Tokens, NEW b \in Budgets, NewPeriod(t, b) PROVE TypeOK'
    BY <2>4 DEF NewPeriod
  <2>5. ASSUME NEW T \in SUBSET Tokens, NEW b \in Budgets, Raise(T, b) PROVE TypeOK'
    <3>1. \A t \in Tokens : Raised(t, b) \in Nat \ {0}
      BY DEF Raised
    <3> QED BY <2>5, <3>1 DEF Raise
  <2>6. ASSUME UNCHANGED vars PROVE TypeOK'
    BY <2>6 DEF vars
  <2> QED BY <2>1, <2>2, <2>3, <2>4, <2>5, <2>6 DEF Next
<1> QED BY <1>1, <1>2, PTL DEF Spec

\* A token that is not below its cap once a step is over, whose spend the step
\* leaves alone and whose cap it does not lower, was not below it before.
LEMMA ReservedWhenUncharged ==
  ASSUME MeterAssumption, TypeOK, TypeOK', OvershootReserved, NEW t \in Tokens,
         cap'[t] # NoCap, cap[t] # NoCap, spent'[t] = spent[t], cap[t] <= cap'[t],
         Holders(t)' \subseteq Holders(t)
  PROVE  \/ spent'[t] < cap'[t]
         \/ spent'[t] + MaxCost * Cardinality(Holders(t)')
              < cap'[t] + MaxCost * Cardinality(Slots)
<1> USE DEF MeterAssumption
<1>1. CASE spent[t] < cap[t]
  BY <1>1 DEF TypeOK
<1>2. CASE spent[t] + MaxCost * Cardinality(Holders(t))
             < cap[t] + MaxCost * Cardinality(Slots)
  <2> DEFINE n  == MaxCost * Cardinality(Holders(t))
             n1 == MaxCost * Cardinality(Holders(t)')
             m  == MaxCost * Cardinality(Slots)
  <2>1. IsFiniteSet(Holders(t)') /\ Cardinality(Holders(t)') \in Nat
        /\ Cardinality(Holders(t)') <= Cardinality(Holders(t))
    BY HoldersFinite, FS_Subset, FS_CardinalityType
  <2>2. n1 <= n /\ n1 \in Nat /\ n \in Nat /\ m \in Nat
    BY <2>1, HoldersFinite, CostOfCalls
  <2>3. spent[t] + n < cap[t] + m
    BY <1>2
  <2>4. spent[t] \in Nat /\ cap[t] \in Nat /\ cap'[t] \in Nat
    BY DEF TypeOK
  <2> HIDE DEF n, n1, m
  <2>5. spent'[t] + n1 < cap'[t] + m
    BY <2>2, <2>3, <2>4
  <2> QED BY <2>5 DEF n1, m
<1> QED BY <1>1, <1>2 DEF OvershootReserved

THEOREM MeterInductive ==
  ASSUME MeterAssumption
  PROVE  Spec => []IInv
<1> USE DEF MeterAssumption
<1>1. Init /\ TypeOK => IInv
  BY DEF Init, IInv, TypeOK, OvershootReserved
<1>2. IInv /\ TypeOK' /\ [Next]_vars => IInv'
  <2> SUFFICES ASSUME TypeOK, TypeOK', OvershootReserved, [Next]_vars
               PROVE  OvershootReserved'
    BY DEF IInv
  <2> SUFFICES ASSUME NEW t \in Tokens, cap'[t] # NoCap
               PROVE  \/ spent'[t] < cap'[t]
                      \/ spent'[t] + MaxCost * Cardinality(Holders(t)')
                           < cap'[t] + MaxCost * Cardinality(Slots)
    BY DEF OvershootReserved, Holders
  <2>1. ASSUME NEW s \in Slots, NEW u \in Tokens, Take(s, u)
        PROVE  \/ spent'[t] < cap'[t]
               \/ spent'[t] + MaxCost * Cardinality(Holders(t)')
                    < cap'[t] + MaxCost * Cardinality(Slots)
    <3>1. CASE u = t
      BY <2>1, <3>1 DEF Take, Below
    <3>2. CASE u # t
      <4>1. Holders(t)' \subseteq Holders(t)
        BY <2>1, <3>2 DEF Take, Holders, TypeOK
      <4> QED BY <2>1, <4>1, ReservedWhenUncharged DEF Take, TypeOK
    <3> QED BY <3>1, <3>2
  <2>2. ASSUME NEW s \in Slots, NEW c \in 0..MaxCost, Charge(s, c)
        PROVE  \/ spent'[t] < cap'[t]
               \/ spent'[t] + MaxCost * Cardinality(Holders(t)')
                    < cap'[t] + MaxCost * Cardinality(Slots)
    <3>1. CASE holds[s] # t
      <4>1. Holders(t)' \subseteq Holders(t)
        BY <2>2, <3>1 DEF Charge, Holders, TypeOK
      <4>2. spent'[t] = spent[t] /\ cap'[t] = cap[t]
        BY <2>2, <3>1 DEF Charge, TypeOK
      <4> QED BY <2>2, <4>1, <4>2, ReservedWhenUncharged DEF TypeOK
    <3>2. CASE holds[s] = t
      <4> DEFINE k == Cardinality(Holders(t)')
                 n == MaxCost * k
                 m == MaxCost * Cardinality(Slots)
      <4>1. s \in Holders(t) /\ Holders(t)' = Holders(t) \ {s}
        BY <2>2, <3>2 DEF Charge, Holders, TypeOK
      <4>2. k \in Nat /\ Cardinality(Holders(t)) = k + 1
        <5>1. IsFiniteSet(Holders(t)')
              /\ Cardinality(Holders(t)') = Cardinality(Holders(t)) - 1
          BY <4>1, HoldersFinite, FS_RemoveElement
        <5> QED BY <5>1, HoldersFinite, FS_CardinalityType
      <4>3. Cardinality(Slots) \in Nat /\ k + 1 <= Cardinality(Slots)
        BY <4>2, HoldersFinite
      <4>4. n \in Nat /\ m \in Nat
            /\ MaxCost * Cardinality(Holders(t)) = n + MaxCost /\ n + MaxCost <= m
        <5>1. MaxCost * (k + 1) = n + MaxCost /\ n \in Nat
          BY <4>2, CostOfCalls
        <5>2. m \in Nat /\ MaxCost * (k + 1) <= m
          BY <4>2, <4>3, CostOfCalls
        <5> QED BY <4>2, <5>1, <5>2
      <4>5. spent'[t] = spent[t] + c /\ cap'[t] = cap[t] /\ spent[t] \in Nat
            /\ cap[t] \in Nat /\ cap[t] # NoCap
        BY <2>2, <3>2 DEF Charge, TypeOK
      <4>6. spent[t] < cap[t] \/ spent[t] + (n + MaxCost) < cap[t] + m
        BY <4>4, <4>5 DEF OvershootReserved
      <4> HIDE DEF n, m, k
      <4>7. spent'[t] + n < cap'[t] + m
        BY <4>4, <4>5, <4>6
      <4> QED BY <4>7 DEF n, m, k
    <3> QED BY <3>1, <3>2
  <2>3. ASSUME NEW S \in SUBSET Slots, Drop(S)
        PROVE  \/ spent'[t] < cap'[t]
               \/ spent'[t] + MaxCost * Cardinality(Holders(t)')
                    < cap'[t] + MaxCost * Cardinality(Slots)
    <3>1. Holders(t)' \subseteq Holders(t)
      BY <2>3 DEF Drop, Holders, TypeOK
    <3> QED BY <2>3, <3>1, ReservedWhenUncharged DEF Drop, TypeOK
  <2>4. ASSUME NEW u \in Tokens, NEW b \in Budgets, NewPeriod(u, b)
        PROVE  \/ spent'[t] < cap'[t]
               \/ spent'[t] + MaxCost * Cardinality(Holders(t)')
                    < cap'[t] + MaxCost * Cardinality(Slots)
    <3>1. CASE u = t
      BY <2>4, <3>1 DEF NewPeriod, TypeOK
    <3>2. CASE u # t
      <4>1. Holders(t)' \subseteq Holders(t)
        BY <2>4 DEF NewPeriod, Holders
      <4> QED BY <2>4, <3>2, <4>1, ReservedWhenUncharged DEF NewPeriod, TypeOK
    <3> QED BY <3>1, <3>2
  <2>5. ASSUME NEW T \in SUBSET Tokens, NEW b \in Budgets, Raise(T, b)
        PROVE  \/ spent'[t] < cap'[t]
               \/ spent'[t] + MaxCost * Cardinality(Holders(t)')
                    < cap'[t] + MaxCost * Cardinality(Slots)
    <3>1. CASE cap[t] = NoCap
      BY <2>5, <3>1 DEF Raise, Raised, TypeOK
    <3>2. CASE cap[t] # NoCap
      <4>1. Holders(t)' \subseteq Holders(t)
        BY <2>5 DEF Raise, Holders
      <4>2. spent'[t] = spent[t] /\ cap[t] <= cap'[t]
        BY <2>5, <3>2 DEF Raise, Raised, TypeOK
      <4> QED BY <3>2, <4>1, <4>2, ReservedWhenUncharged
    <3> QED BY <3>1, <3>2
  <2>6. ASSUME UNCHANGED vars
        PROVE  \/ spent'[t] < cap'[t]
               \/ spent'[t] + MaxCost * Cardinality(Holders(t)')
                    < cap'[t] + MaxCost * Cardinality(Slots)
    BY <2>6 DEF vars, OvershootReserved, Holders
  <2> QED BY <2>1, <2>2, <2>3, <2>4, <2>5, <2>6 DEF Next
<1> QED BY <1>1, <1>2, MeterTypeCorrect, PTL DEF Spec

\* The spend of a budgeted token stays below its cap plus the cost of one call
\* per slot, whatever the budgets, the prices and the number of slots.
THEOREM MeterOvershootBounded ==
  ASSUME MeterAssumption
  PROVE  Spec => []OvershootBounded
<1> USE DEF MeterAssumption
<1>1. IInv => OvershootBounded
  <2> SUFFICES ASSUME TypeOK, OvershootReserved, NEW t \in Tokens, cap[t] # NoCap
               PROVE  spent[t] < cap[t] + MaxCost * Cardinality(Slots)
    BY DEF IInv, OvershootBounded
  <2> DEFINE n == MaxCost * Cardinality(Holders(t))
             m == MaxCost * Cardinality(Slots)
  <2>1. n \in Nat /\ m \in Nat
    BY HoldersFinite, CostOfCalls
  <2>2. spent[t] < cap[t] \/ spent[t] + n < cap[t] + m
    BY DEF OvershootReserved
  <2>3. spent[t] \in Nat /\ cap[t] \in Nat
    BY DEF TypeOK
  <2> HIDE DEF n, m
  <2>4. spent[t] < cap[t] + m
    BY <2>1, <2>2, <2>3
  <2> QED BY <2>4 DEF m
<1> QED BY <1>1, MeterInductive, PTL
============================================================================
