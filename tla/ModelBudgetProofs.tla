------------------------- MODULE ModelBudgetProofs ---------------------------
(***************************************************************************)
(* What the model budget guarantees for every set of requests, limit,      *)
(* price and number of network attempts, wherever the requests die.        *)
(***************************************************************************)
EXTENDS ModelBudget, FiniteSetTheorems, WellFoundedInduction, TLAPS

Costs == Nat \cup {Unknown}

RowType == [state : {"absent", "reserved", "settled", "consumed"},
            month : 0..LastMonth, charged : 0..Amount]

LocalType == [pc : Phases, attempt : {1, 2}, month : 0..LastMonth,
              network : 0..MaxNetwork, ambiguous : 0..MaxNetwork, cost : Costs]

RecordType == [status : {"absent", "record_success", "record_failure"},
               network : 0..MaxNetwork, cost : Costs]

\* The price of n attempts that may have been billed.
WorstOf(n) == Worst * n

-----------------------------------------------------------------------------
(* Arithmetic of the worst case *)

LEMMA WorstZero == WorstOf(0) = 0
BY BudgetAssumption DEF WorstOf

LEMMA WorstNat == \A n \in Nat : WorstOf(n) \in Nat
BY BudgetAssumption DEF WorstOf

LEMMA WorstStep == \A n \in Nat : WorstOf(n + 1) = WorstOf(n) + Worst
BY BudgetAssumption DEF WorstOf

LEMMA WorstMonotone ==
    ASSUME NEW m \in Nat, NEW n \in Nat, m <= n
    PROVE  WorstOf(m) <= WorstOf(n)
<1>1. PICK k \in Nat : n = m + k
    <2>1. n - m \in Nat /\ n = m + (n - m)
        OBVIOUS
    <2> QED BY <2>1
<1>2. Worst \in Nat /\ Worst * k \in Nat
    BY BudgetAssumption
<1>3. Worst * (m + k) = Worst * m + Worst * k
    BY <1>2
<1> QED BY <1>1, <1>2, <1>3 DEF WorstOf

LEMMA AmountWorst == Amount = WorstOf(MaxNetwork) /\ Amount \in Nat
BY BudgetAssumption, WorstNat DEF Amount, WorstOf

-----------------------------------------------------------------------------
(***************************************************************************)
(* Sums over finite sets.  The induction is over sets of natural numbers:  *)
(* N collects the sizes for which a claim holds, and N = Nat.              *)
(***************************************************************************)

\* A nonempty set of natural numbers has a least element.
LEMMA LeastNat ==
    ASSUME NEW T \in SUBSET Nat, T # {}
    PROVE  \E x \in T : \A y \in T : x <= y
<1>1. PICK x \in T : \A y \in T : ~(<<y, x>> \in OpToRel(<, Nat))
    BY NatLessThanWellFounded, WFMin
<1>2. \A y \in T : ~(y < x)
    BY <1>1 DEF OpToRel
<1> QED BY <1>2

\* Induction over the natural numbers, for a set of them.
LEMMA NaturalSetInduction ==
    ASSUME NEW T \in SUBSET Nat, 0 \in T, \A n \in T : n + 1 \in T
    PROVE  T = Nat
<1> SUFFICES ASSUME T # Nat PROVE FALSE
    OBVIOUS
<1>1. PICK x \in Nat \ T : \A y \in Nat \ T : x <= y
    <2>1. Nat \ T \in SUBSET Nat /\ Nat \ T # {}
        OBVIOUS
    <2> QED BY <2>1, LeastNat
<1>2. x # 0 /\ x - 1 \in Nat /\ x - 1 \in T
    BY <1>1
<1> QED BY <1>1, <1>2

Pick(s) == CHOOSE x \in s : TRUE

Rec(f, D, g) ==
    g = [s \in D |-> IF s = {} THEN 0 ELSE f[Pick(s)] + g[s \ {Pick(s)}]]

SumBy(f, S) == CHOOSE g : Rec(f, SUBSET S, g)

LEMMA SumIsSumBy ==
    ASSUME NEW f, NEW S
    PROVE  SumFunctionOnSet(f, S) = SumBy(f, S)[S]
BY DEF SumFunctionOnSet, FoldFunctionOnSet, MapThenFoldSet, SumBy, Rec, Pick

\* The subsets of S with at most n elements.
Upto(S, n) == {s \in SUBSET S : Cardinality(s) <= n}

LEMMA Picked ==
    ASSUME NEW s, s # {}
    PROVE  Pick(s) \in s
BY DEF Pick

LEMMA Smaller ==
    ASSUME NEW S, IsFiniteSet(S), NEW s \in SUBSET S, NEW x \in s
    PROVE  /\ IsFiniteSet(s) /\ s \ {x} \in SUBSET S /\ IsFiniteSet(s \ {x})
           /\ Cardinality(s) \in Nat /\ Cardinality(s \ {x}) \in Nat
           /\ Cardinality(s) = Cardinality(s \ {x}) + 1
<1>1. IsFiniteSet(s) /\ IsFiniteSet(s \ {x}) /\ s \ {x} \in SUBSET S
    BY FS_Subset
<1>2. Cardinality(s \ {x}) = Cardinality(s) - 1
    BY <1>1, FS_RemoveElement
<1>3. Cardinality(s) \in Nat /\ Cardinality(s \ {x}) \in Nat
    BY <1>1, FS_CardinalityType
<1> QED BY <1>1, <1>2, <1>3

\* There is a function that sums up, one subset after another.
LEMMA RecExists ==
    ASSUME NEW S, IsFiniteSet(S), NEW f
    PROVE  \E g : Rec(f, SUBSET S, g)
<1> DEFINE N == {n \in Nat : \E g : Rec(f, Upto(S, n), g)}
<1>1. 0 \in N
    <2> DEFINE g == [s \in Upto(S, 0) |-> 0]
    <2>1. ASSUME NEW s \in Upto(S, 0) PROVE s = {}
        <3>1. IsFiniteSet(s) /\ Cardinality(s) \in Nat /\ Cardinality(s) <= 0
            BY FS_Subset, FS_CardinalityType DEF Upto
        <3> QED BY <3>1, FS_EmptySet
    <2>2. Rec(f, Upto(S, 0), g)
        BY <2>1 DEF Rec
    <2> HIDE DEF g
    <2> QED BY <2>2
<1>2. ASSUME NEW n \in N
      PROVE  n + 1 \in N
    <2>1. PICK g : Rec(f, Upto(S, n), g)
        OBVIOUS
    <2> DEFINE D == Upto(S, n + 1)
               h == [s \in D |-> IF s = {} THEN 0 ELSE f[Pick(s)] + g[s \ {Pick(s)}]]
    <2>2. ASSUME NEW s \in D, s # {}
          PROVE  s \ {Pick(s)} \in Upto(S, n) /\ s \ {Pick(s)} \in D
        <3>1. s \in SUBSET S /\ Cardinality(s) <= n + 1 /\ Pick(s) \in s
            BY <2>2, Picked DEF Upto
        <3>2. /\ s \ {Pick(s)} \in SUBSET S /\ Cardinality(s \ {Pick(s)}) \in Nat
              /\ Cardinality(s \ {Pick(s)}) <= n
            BY <3>1, Smaller
        <3>3. Cardinality(s \ {Pick(s)}) <= n + 1
            BY <3>2
        <3> QED BY <3>2, <3>3 DEF Upto
    <2>3. ASSUME NEW t \in Upto(S, n), t \in D
          PROVE  h[t] = g[t]
        BY <2>1, <2>3 DEF Rec
    <2>4. ASSUME NEW s \in D, s # {}
          PROVE  h[s \ {Pick(s)}] = g[s \ {Pick(s)}]
        BY <2>2, <2>3, <2>4
    <2>5. h = [s \in D |-> IF s = {} THEN 0 ELSE f[Pick(s)] + h[s \ {Pick(s)}]]
        BY <2>4
    <2>6. Rec(f, D, h)
        BY <2>5 DEF Rec
    <2> HIDE DEF h
    <2> QED BY <2>6
<1>3. N = Nat
    <2> HIDE DEF N
    <2>1. N \in SUBSET Nat
        BY DEF N
    <2> QED BY <1>1, <1>2, <2>1, NaturalSetInduction
<1>4. Cardinality(S) \in N
    BY <1>3, FS_CardinalityType
<1>5. Upto(S, Cardinality(S)) = SUBSET S
    BY FS_Subset DEF Upto
<1> QED BY <1>4, <1>5

\* The sum over a set, taken apart at the element that the fold picks.
LEMMA SumByStep ==
    ASSUME NEW S, IsFiniteSet(S), NEW f, NEW T \in SUBSET S
    PROVE  SumBy(f, S)[T] = IF T = {} THEN 0
                            ELSE f[Pick(T)] + SumBy(f, S)[T \ {Pick(T)}]
<1>1. Rec(f, SUBSET S, SumBy(f, S))
    BY RecExists DEF SumBy
<1> QED BY <1>1 DEF Rec

\* The sum of f over S.
Sum(f, S) == SumFunctionOnSet(f, S)

LEMMA SumBySub ==
    ASSUME NEW U, IsFiniteSet(U), NEW f
    PROVE  \A S \in SUBSET U : \A T \in SUBSET S : SumBy(f, S)[T] = SumBy(f, T)[T]
<1> DEFINE N == {n \in Nat : \A S \in SUBSET U : \A T \in SUBSET S :
                    Cardinality(T) = n => SumBy(f, S)[T] = SumBy(f, T)[T]}
<1>0. ASSUME NEW S \in SUBSET U, NEW T \in SUBSET S
      PROVE  IsFiniteSet(S) /\ IsFiniteSet(T) /\ Cardinality(T) \in Nat
    BY FS_Subset, FS_CardinalityType
<1>1. 0 \in N
    <2>1. ASSUME NEW S \in SUBSET U, NEW T \in SUBSET S, Cardinality(T) = 0
          PROVE  SumBy(f, S)[T] = SumBy(f, T)[T]
        <3>1. T = {} /\ IsFiniteSet(S) /\ IsFiniteSet(T) /\ T \in SUBSET T
            BY <1>0, <2>1, FS_EmptySet
        <3> QED BY <3>1, SumByStep
    <2> QED BY <2>1
<1>2. ASSUME NEW n \in N
      PROVE  n + 1 \in N
    <2>1. ASSUME NEW S \in SUBSET U, NEW T \in SUBSET S, Cardinality(T) = n + 1
          PROVE  SumBy(f, S)[T] = SumBy(f, T)[T]
        <3> DEFINE x == Pick(T)
                   R == T \ {x}
        <3>1. IsFiniteSet(S) /\ IsFiniteSet(T) /\ T \in SUBSET T /\ T \in SUBSET U
            BY <1>0
        <3>0. n \in Nat /\ n + 1 # 0
            OBVIOUS
        <3>2. T # {}
            BY <2>1, <3>0, FS_EmptySet
        <3>3. x \in T
            BY <3>2, Picked
        <3>4. R \in SUBSET S /\ R \in SUBSET T /\ Cardinality(R) = n
            <4>1. IsFiniteSet(R) /\ Cardinality(R) = Cardinality(T) - 1
                BY <3>1, <3>3, FS_RemoveElement
            <4> QED BY <4>1, <3>0, <2>1
        <3>5. SumBy(f, S)[R] = SumBy(f, R)[R] /\ SumBy(f, T)[R] = SumBy(f, R)[R]
            BY <3>1, <3>4
        <3>6. SumBy(f, S)[T] = f[x] + SumBy(f, S)[R]
            BY <3>1, <3>2, SumByStep
        <3>7. SumBy(f, T)[T] = f[x] + SumBy(f, T)[R]
            BY <3>1, <3>2, SumByStep
        <3> QED BY <3>5, <3>6, <3>7
    <2>2. n + 1 \in Nat
        OBVIOUS
    <2> QED BY <2>1, <2>2
<1>3. N = Nat
    <2> HIDE DEF N
    <2>1. N \in SUBSET Nat
        BY DEF N
    <2> QED BY <1>1, <1>2, <2>1, NaturalSetInduction
<1> QED BY <1>0, <1>3

LEMMA SumEmpty == \A f : Sum(f, {}) = 0
BY SumIsSumBy, SumByStep, FS_EmptySet DEF Sum

LEMMA SumPick ==
    ASSUME NEW S, IsFiniteSet(S), S # {}, NEW f
    PROVE  Sum(f, S) = f[Pick(S)] + Sum(f, S \ {Pick(S)})
<1>1. S \in SUBSET S /\ S \ {Pick(S)} \in SUBSET S
    OBVIOUS
<1>2. SumBy(f, S)[S] = f[Pick(S)] + SumBy(f, S)[S \ {Pick(S)}]
    BY <1>1, SumByStep
<1>3. SumBy(f, S)[S \ {Pick(S)}] = SumBy(f, S \ {Pick(S)})[S \ {Pick(S)}]
    BY <1>1, SumBySub
<1> QED BY <1>2, <1>3, SumIsSumBy DEF Sum

\* Sums of natural numbers are natural numbers.
LEMMA SumNat ==
    ASSUME NEW U, IsFiniteSet(U), NEW f \in [U -> Nat]
    PROVE  \A S \in SUBSET U : Sum(f, S) \in Nat
<1> DEFINE N == {n \in Nat : \A S \in SUBSET U : Cardinality(S) = n => Sum(f, S) \in Nat}
<1>0. ASSUME NEW S \in SUBSET U
      PROVE  IsFiniteSet(S) /\ Cardinality(S) \in Nat
    BY FS_Subset, FS_CardinalityType
<1>1. 0 \in N
    BY <1>0, FS_EmptySet, SumEmpty
<1>2. ASSUME NEW n \in N
      PROVE  n + 1 \in N
    <2>1. n \in Nat /\ n + 1 \in Nat /\ n + 1 # 0
        OBVIOUS
    <2>2. ASSUME NEW S \in SUBSET U, Cardinality(S) = n + 1
          PROVE  Sum(f, S) \in Nat
        <3> DEFINE x == Pick(S)
                   R == S \ {x}
        <3>1. IsFiniteSet(S) /\ S # {}
            BY <1>0, <2>1, <2>2, FS_EmptySet
        <3>2. x \in S /\ x \in U /\ f[x] \in Nat
            BY <3>1, Picked
        <3>3. R \in SUBSET U /\ Cardinality(R) \in Nat /\ Cardinality(S) = Cardinality(R) + 1
            BY <3>2, Smaller
        <3>4. Cardinality(R) = n
            BY <3>3, <2>1, <2>2
        <3>5. Sum(f, R) \in Nat
            BY <3>3, <3>4
        <3>6. Sum(f, S) = f[x] + Sum(f, R)
            BY <3>1, SumPick
        <3> QED BY <3>2, <3>5, <3>6
    <2> QED BY <2>1, <2>2
<1>3. N = Nat
    <2> HIDE DEF N
    <2>1. N \in SUBSET Nat
        BY DEF N
    <2> QED BY <1>1, <1>2, <2>1, NaturalSetInduction
<1> QED BY <1>0, <1>3

\* A sum can be taken apart at any element.
LEMMA SumRemove ==
    ASSUME NEW U, IsFiniteSet(U), NEW f \in [U -> Nat]
    PROVE  \A S \in SUBSET U : \A c \in S : Sum(f, S) = f[c] + Sum(f, S \ {c})
<1> DEFINE N == {n \in Nat : \A S \in SUBSET U : Cardinality(S) = n =>
                    \A c \in S : Sum(f, S) = f[c] + Sum(f, S \ {c})}
<1>0. ASSUME NEW S \in SUBSET U
      PROVE  IsFiniteSet(S) /\ Cardinality(S) \in Nat
    BY FS_Subset, FS_CardinalityType
<1>1. 0 \in N
    BY <1>0, FS_EmptySet
<1>2. ASSUME NEW n \in N
      PROVE  n + 1 \in N
    <2>1. n \in Nat /\ n + 1 \in Nat
        OBVIOUS
    <2>2. ASSUME NEW S \in SUBSET U, Cardinality(S) = n + 1, NEW c \in S
          PROVE  Sum(f, S) = f[c] + Sum(f, S \ {c})
        <3> DEFINE x == Pick(S)
        <3>1. IsFiniteSet(S) /\ S # {}
            BY <1>0
        <3>2. Sum(f, S) = f[x] + Sum(f, S \ {x}) /\ x \in S
            BY <3>1, SumPick, Picked
        <3>3. CASE c = x
            BY <3>2, <3>3
        <3>4. CASE c # x
            <4>1. \A y \in S : /\ S \ {y} \in SUBSET U /\ Cardinality(S \ {y}) \in Nat
                               /\ Cardinality(S) = Cardinality(S \ {y}) + 1
                BY Smaller
            <4>2. \A y \in S : Cardinality(S \ {y}) = n
                BY <4>1, <2>1, <2>2
            <4>3. Sum(f, S \ {x}) = f[c] + Sum(f, (S \ {x}) \ {c})
                BY <4>1, <4>2, <3>2, <3>4
            <4>4. Sum(f, S \ {c}) = f[x] + Sum(f, (S \ {c}) \ {x})
                BY <4>1, <4>2, <3>2, <3>4
            <4>5. (S \ {x}) \ {c} = (S \ {c}) \ {x} /\ (S \ {x}) \ {c} \in SUBSET U
                OBVIOUS
            <4>6. Sum(f, (S \ {x}) \ {c}) \in Nat /\ f[x] \in Nat /\ f[c] \in Nat
                BY <4>5, <3>2, SumNat
            <4> DEFINE k == Sum(f, (S \ {x}) \ {c})
            <4>7. Sum(f, S \ {x}) = f[c] + k /\ Sum(f, S \ {c}) = f[x] + k /\ k \in Nat
                BY <4>3, <4>4, <4>5, <4>6
            <4> HIDE DEF k, x
            <4> QED BY <3>2, <4>6, <4>7
        <3> QED BY <3>3, <3>4
    <2> QED BY <2>1, <2>2
<1>3. N = Nat
    <2> HIDE DEF N
    <2>1. N \in SUBSET Nat
        BY DEF N
    <2> QED BY <1>1, <1>2, <2>1, NaturalSetInduction
<1> QED BY <1>0, <1>3

\* A sum grows with its terms.
LEMMA SumMonotone ==
    ASSUME NEW U, IsFiniteSet(U), NEW f \in [U -> Nat], NEW g \in [U -> Nat]
    PROVE  \A S \in SUBSET U : (\A c \in S : f[c] <= g[c]) => Sum(f, S) <= Sum(g, S)
<1> DEFINE N == {n \in Nat : \A S \in SUBSET U :
                    Cardinality(S) = n /\ (\A c \in S : f[c] <= g[c]) => Sum(f, S) <= Sum(g, S)}
<1>0. ASSUME NEW S \in SUBSET U
      PROVE  IsFiniteSet(S) /\ Cardinality(S) \in Nat
    BY FS_Subset, FS_CardinalityType
<1>1. 0 \in N
    BY <1>0, FS_EmptySet, SumEmpty
<1>2. ASSUME NEW n \in N
      PROVE  n + 1 \in N
    <2>1. n \in Nat /\ n + 1 \in Nat /\ n + 1 # 0
        OBVIOUS
    <2>2. ASSUME NEW S \in SUBSET U, Cardinality(S) = n + 1, \A c \in S : f[c] <= g[c]
          PROVE  Sum(f, S) <= Sum(g, S)
        <3> DEFINE x == Pick(S)
                   R == S \ {x}
        <3>1. IsFiniteSet(S) /\ S # {}
            BY <1>0, <2>1, <2>2, FS_EmptySet
        <3>2. x \in S /\ f[x] \in Nat /\ g[x] \in Nat /\ f[x] <= g[x]
            BY <3>1, <2>2, Picked
        <3>3. R \in SUBSET U /\ Cardinality(R) \in Nat /\ Cardinality(S) = Cardinality(R) + 1
            BY <3>2, Smaller
        <3>4. Cardinality(R) = n
            BY <3>3, <2>1, <2>2
        <3>5. Sum(f, R) <= Sum(g, R)
            BY <3>3, <3>4, <2>2
        <3>6. Sum(f, R) \in Nat /\ Sum(g, R) \in Nat
            BY <3>3, SumNat
        <3>7. Sum(f, S) = f[x] + Sum(f, R) /\ Sum(g, S) = g[x] + Sum(g, R)
            BY <3>1, SumPick
        <3> QED BY <3>2, <3>5, <3>6, <3>7
    <2> QED BY <2>1, <2>2
<1>3. N = Nat
    <2> HIDE DEF N
    <2>1. N \in SUBSET Nat
        BY DEF N
    <2> QED BY <1>1, <1>2, <2>1, NaturalSetInduction
<1> QED BY <1>0, <1>3

-----------------------------------------------------------------------------
(* The inductive invariant *)

\* What is known of one logical call whoever works on it: its bill is charged,
\* a row that is gone has left nothing behind, and a record of a call that
\* reached the network carries the final charge.
CallOK(row, b, a) ==
    /\ b <= row.charged
    /\ row.state = "absent" => row = NoRow
    /\ a.network > 0 => row.state \in {"settled", "consumed"} /\ a.cost = row.charged

\* What a request in memory l knows of its current logical call: how much of
\* the reservation the attempts made so far can have used up.
Shape(l, row, b, a) ==
    /\ l.ambiguous <= l.network
    /\ l.pc \in {"start", "reserve"} => row = NoRow /\ b = 0 /\ l.network = 0
    /\ l.pc \in {"attempt", "posted", "settle", "give_up"} =>
          row.state = "reserved" /\ row.charged = Amount
    /\ l.pc = "attempt" => l.network < MaxNetwork /\ b <= WorstOf(l.ambiguous)
    /\ l.pc = "posted" => l.ambiguous < l.network /\ b <= WorstOf(l.ambiguous)
    /\ l.pc = "settle" => l.network > 0 /\ l.cost \in Nat /\ b <= l.cost /\ l.cost <= Amount
    /\ l.pc = "give_up" => (l.network = 0 => b = 0)
    /\ l.pc = "record_success" => row.state = "settled" /\ l.cost = row.charged
    /\ l.pc = "record_failure" /\ l.network > 0 =>
          row.state = "consumed" /\ l.cost = row.charged
    /\ l.pc \notin {"done", "failed", "lost"} => a = NoRecord

\* A logical call that has not begun.
Untouched(c) == rows[c] = NoRow /\ billed[c] = 0 /\ audit[c] = NoRecord

Types ==
    /\ month \in Months
    /\ rows \in [Calls -> RowType]
    /\ local \in [Requests -> LocalType]
    /\ audit \in [Calls -> RecordType]
    /\ billed \in [Calls -> Nat]

IndInv ==
    /\ Types
    /\ \A c \in Calls : CallOK(rows[c], billed[c], audit[c])
    /\ \A r \in Requests :
          Shape(local[r], rows[Call(r)], billed[Call(r)], audit[Call(r)])
    /\ \A r \in Requests : local[r].attempt = 1 => Untouched(<<r, 2>>)

LEMMA EmptyTypes ==
    /\ NoRow \in RowType /\ NoRecord \in RecordType /\ Fresh \in LocalType
    /\ CallOK(NoRow, 0, NoRecord) /\ Shape(Fresh, NoRow, 0, NoRecord)
<1>1. 0 \in 0..LastMonth /\ 0 \in 0..MaxNetwork /\ 0 \in 0..Amount
    BY BudgetAssumption, AmountWorst
<1>2. NoRow \in RowType
    BY <1>1 DEF NoRow, RowType
<1>3. NoRecord \in RecordType
    BY <1>1 DEF NoRecord, RecordType, Costs
<1>4. Fresh \in LocalType
    BY <1>1 DEF Fresh, LocalType, Phases, Costs
<1>5. CallOK(NoRow, 0, NoRecord)
    BY DEF CallOK, NoRow, NoRecord
<1>6. Shape(Fresh, NoRow, 0, NoRecord)
    BY DEF Shape, Fresh
<1> QED BY <1>2, <1>3, <1>4, <1>5, <1>6

LEMMA CallsOfRequest ==
    ASSUME Types, NEW r \in Requests
    PROVE  Call(r) \in Calls /\ <<r, 1>> \in Calls /\ <<r, 2>> \in Calls
BY DEF Types, Call, Calls, LocalType

\* The initial state satisfies it.
LEMMA InitInv == Init => IndInv
<1> SUFFICES ASSUME Init PROVE IndInv
    OBVIOUS
<1>1. month \in Months
    BY BudgetAssumption DEF Init, Months
<1>2. Types
    BY <1>1, EmptyTypes DEF Init, Types
<1>3. \A c \in Calls : CallOK(rows[c], billed[c], audit[c])
    BY EmptyTypes DEF Init
<1>4. ASSUME NEW r \in Requests
      PROVE  /\ Shape(local[r], rows[Call(r)], billed[Call(r)], audit[Call(r)])
             /\ Untouched(<<r, 2>>)
    <2>1. Call(r) \in Calls /\ <<r, 2>> \in Calls
        BY <1>2, CallsOfRequest
    <2> QED BY <2>1, EmptyTypes DEF Init, Untouched
<1> QED BY <1>2, <1>3, <1>4 DEF IndInv

\* A step of one request that leaves it at the same logical call: what it
\* writes is right for that call, and nothing else changes.
LEMMA OneCall ==
    ASSUME IndInv, NEW r \in Requests,
           NEW l \in LocalType, l.attempt = local[r].attempt,
           NEW row \in RowType, NEW b \in Nat, NEW a \in RecordType,
           CallOK(row, b, a), Shape(l, row, b, a), month' = month,
           local' = [local EXCEPT ![r] = l],
           rows' = [rows EXCEPT ![Call(r)] = row],
           billed' = [billed EXCEPT ![Call(r)] = b],
           audit' = [audit EXCEPT ![Call(r)] = a]
    PROVE  IndInv'
<1>1. Call(r) \in Calls
    BY CallsOfRequest DEF IndInv
<1>2. Types'
    BY <1>1 DEF IndInv, Types
<1>3. \A c \in Calls : (c = Call(r) => rows'[c] = row /\ billed'[c] = b /\ audit'[c] = a)
    BY <1>1 DEF IndInv, Types
<1>4. \A c \in Calls : (c # Call(r) => /\ rows'[c] = rows[c] /\ billed'[c] = billed[c]
                                       /\ audit'[c] = audit[c])
    BY <1>1 DEF IndInv, Types
<1>5. \A c \in Calls : CallOK(rows'[c], billed'[c], audit'[c])
    BY <1>3, <1>4 DEF IndInv
<1>6. \A q \in Requests : local'[q].attempt = local[q].attempt
    BY DEF IndInv, Types
<1>7. \A q \in Requests : Call(q)' = Call(q)
    BY <1>6 DEF Call
<1>8. ASSUME NEW q \in Requests
      PROVE  Shape(local'[q], rows'[Call(q)], billed'[Call(q)], audit'[Call(q)])
    <2>1. CASE q = r
        <3>1. local'[q] = l
            BY <2>1 DEF IndInv, Types
        <3> QED BY <2>1, <3>1, <1>1, <1>3
    <2>2. CASE q # r
        <3>1. Call(q) # Call(r) /\ Call(q) \in Calls
            BY <2>2, CallsOfRequest DEF Call, IndInv
        <3>2. local'[q] = local[q]
            BY <2>2 DEF IndInv, Types
        <3> QED BY <3>1, <3>2, <1>4 DEF IndInv
    <2> QED BY <2>1, <2>2
<1>9. ASSUME NEW q \in Requests, local'[q].attempt = 1
      PROVE  Untouched(<<q, 2>>)'
    <2>1. local[q].attempt = 1 /\ <<q, 2>> \in Calls /\ Untouched(<<q, 2>>)
        BY <1>6, <1>9, CallsOfRequest DEF IndInv
    <2>2. <<q, 2>> # Call(r)
        BY <2>1 DEF Call
    <2> QED BY <2>1, <2>2, <1>4 DEF Untouched
<1> QED BY <1>2, <1>5, <1>7, <1>8, <1>9 DEF IndInv

\* What the invariant says of the logical call of one request.
LEMMA Known ==
    ASSUME IndInv, NEW r \in Requests
    PROVE  /\ Call(r) \in Calls
           /\ local[r] \in LocalType /\ rows[Call(r)] \in RowType
           /\ billed[Call(r)] \in Nat /\ audit[Call(r)] \in RecordType
           /\ CallOK(rows[Call(r)], billed[Call(r)], audit[Call(r)])
           /\ Shape(local[r], rows[Call(r)], billed[Call(r)], audit[Call(r)])
BY CallsOfRequest DEF IndInv, Types

\* A step of one request that changes only what the request remembers.
LEMMA OnlyLocal ==
    ASSUME IndInv, NEW r \in Requests,
           NEW l \in LocalType, l.attempt = local[r].attempt,
           Shape(l, rows[Call(r)], billed[Call(r)], audit[Call(r)]),
           local' = [local EXCEPT ![r] = l],
           UNCHANGED <<month, rows, audit, billed>>
    PROVE  IndInv'
<1> DEFINE row == rows[Call(r)]
           b == billed[Call(r)]
           a == audit[Call(r)]
<1>1. /\ rows' = [rows EXCEPT ![Call(r)] = row]
      /\ billed' = [billed EXCEPT ![Call(r)] = b]
      /\ audit' = [audit EXCEPT ![Call(r)] = a]
    BY Known DEF IndInv, Types
<1>2. row \in RowType /\ b \in Nat /\ a \in RecordType /\ CallOK(row, b, a)
    BY Known
<1>3. Shape(l, row, b, a) /\ month' = month
    OBVIOUS
<1> HIDE DEF row, b, a
<1> QED BY <1>1, <1>2, <1>3, OneCall

\* A step of one request that changes what it remembers and its reservation.
LEMMA LocalAndRow ==
    ASSUME IndInv, NEW r \in Requests,
           NEW l \in LocalType, l.attempt = local[r].attempt, NEW row \in RowType,
           CallOK(row, billed[Call(r)], audit[Call(r)]),
           Shape(l, row, billed[Call(r)], audit[Call(r)]),
           local' = [local EXCEPT ![r] = l],
           rows' = [rows EXCEPT ![Call(r)] = row],
           UNCHANGED <<month, audit, billed>>
    PROVE  IndInv'
<1> DEFINE b == billed[Call(r)]
           a == audit[Call(r)]
<1>1. /\ billed' = [billed EXCEPT ![Call(r)] = b]
      /\ audit' = [audit EXCEPT ![Call(r)] = a]
    BY Known DEF IndInv, Types
<1>2. b \in Nat /\ a \in RecordType
    BY Known
<1>3. CallOK(row, b, a) /\ Shape(l, row, b, a) /\ month' = month
    OBVIOUS
<1> HIDE DEF b, a
<1> QED BY <1>1, <1>2, <1>3, OneCall

\* A step of one request that changes what it remembers and what it is billed.
LEMMA LocalAndBill ==
    ASSUME IndInv, NEW r \in Requests,
           NEW l \in LocalType, l.attempt = local[r].attempt, NEW b \in Nat,
           b <= rows[Call(r)].charged,
           Shape(l, rows[Call(r)], b, audit[Call(r)]),
           local' = [local EXCEPT ![r] = l],
           billed' = [billed EXCEPT ![Call(r)] = b],
           UNCHANGED <<month, rows, audit>>
    PROVE  IndInv'
<1> DEFINE row == rows[Call(r)]
           a == audit[Call(r)]
<1>1. /\ rows' = [rows EXCEPT ![Call(r)] = row]
      /\ audit' = [audit EXCEPT ![Call(r)] = a]
    BY Known DEF IndInv, Types
<1>2. CallOK(row, b, a) /\ row \in RowType /\ a \in RecordType
    BY Known DEF CallOK
<1>3. Shape(l, row, b, a) /\ month' = month
    OBVIOUS
<1> HIDE DEF row, a
<1> QED BY <1>1, <1>2, <1>3, OneCall

\* A request that only goes somewhere else keeps everything it remembers.
LEMMA GotoLocal ==
    ASSUME IndInv, NEW r \in Requests, NEW pc \in Phases, Goto(r, pc)
    PROVE  LET l == [local[r] EXCEPT !.pc = pc] IN
           /\ local' = [local EXCEPT ![r] = l]
           /\ l \in LocalType /\ l.pc = pc /\ l.attempt = local[r].attempt
           /\ l.network = local[r].network /\ l.ambiguous = local[r].ambiguous
           /\ l.cost = local[r].cost
BY Known DEF Goto, LocalType

-----------------------------------------------------------------------------
(* One lemma per action *)

LEMMA StartStep ==
    ASSUME IndInv, NEW r \in Requests, Start(r)
    PROVE  IndInv'
<1>1. CASE Unpriced(month)
    <2> DEFINE l == [local[r] EXCEPT !.pc = "failed"]
    <2>1. Goto(r, "failed") /\ "failed" \in Phases
        BY <1>1 DEF Start, Phases
    <2>2. /\ local' = [local EXCEPT ![r] = l] /\ l \in LocalType
          /\ l.pc = "failed" /\ l.attempt = local[r].attempt
          /\ l.network = local[r].network /\ l.ambiguous = local[r].ambiguous
        BY <2>1, GotoLocal
    <2> HIDE DEF l
    <2>3. Shape(l, rows[Call(r)], billed[Call(r)], audit[Call(r)])
        BY <2>2, Known DEF Shape
    <2> QED BY <2>2, <2>3, OnlyLocal DEF Start
<1>2. CASE ~Unpriced(month)
    <2> DEFINE l == [local[r] EXCEPT !.pc = "reserve", !.month = month]
    <2>1. local' = [local EXCEPT ![r] = l]
        BY <1>2 DEF Start
    <2>2. month \in 0..LastMonth
        BY BudgetAssumption DEF IndInv, Types, Months
    <2>3. /\ l \in LocalType /\ l.pc = "reserve" /\ l.attempt = local[r].attempt
          /\ l.network = local[r].network /\ l.ambiguous = local[r].ambiguous
        BY <2>2, Known DEF LocalType, Phases
    <2> HIDE DEF l
    <2>4. Shape(l, rows[Call(r)], billed[Call(r)], audit[Call(r)])
        BY <2>3, Known DEF Shape, Start
    <2> QED BY <2>1, <2>3, <2>4, OnlyLocal DEF Start
<1> QED BY <1>1, <1>2

\* A request that only changes its place, to one that asks nothing more.
LEMMA PlainStep ==
    ASSUME IndInv, NEW r \in Requests, NEW pc \in Phases, Goto(r, pc),
           UNCHANGED <<month, rows, audit, billed>>,
           \/ pc \in {"failed", "lost"}
           \/ local[r].pc = "reserve" /\ pc = "record_failure"
           \/ /\ local[r].pc \in {"attempt", "posted"} /\ pc = "give_up"
           \/ /\ local[r].pc = "posted" /\ pc = "attempt"
              /\ local[r].network < MaxNetwork
    PROVE  IndInv'
<1> DEFINE l == [local[r] EXCEPT !.pc = pc]
<1>1. /\ local' = [local EXCEPT ![r] = l] /\ l \in LocalType
      /\ l.pc = pc /\ l.attempt = local[r].attempt /\ l.cost = local[r].cost
      /\ l.network = local[r].network /\ l.ambiguous = local[r].ambiguous
    BY GotoLocal
<1> HIDE DEF l
<1>2. local[r].network \in Nat /\ local[r].ambiguous \in Nat
    BY Known DEF LocalType
<1>3. Shape(l, rows[Call(r)], billed[Call(r)], audit[Call(r)])
    <2>1. CASE pc \in {"failed", "lost"}
        BY <1>1, <2>1, Known DEF Shape
    <2>2. CASE local[r].pc = "reserve" /\ pc = "record_failure"
        BY <1>1, <2>2, Known DEF Shape
    <2>3. CASE local[r].pc \in {"attempt", "posted"} /\ pc = "give_up"
        <3>1. l.network = 0 => billed[Call(r)] = 0
            <4> HAVE l.network = 0
            <4>1. local[r].ambiguous = 0
                BY <1>1, <1>2, Known DEF Shape
            <4>2. billed[Call(r)] <= 0 /\ billed[Call(r)] \in Nat
                BY <2>3, <4>1, WorstZero, Known DEF Shape
            <4> QED BY <4>2
        <3> QED BY <1>1, <2>3, <3>1, Known DEF Shape
    <2>4. CASE local[r].pc = "posted" /\ pc = "attempt" /\ local[r].network < MaxNetwork
        BY <1>1, <2>4, Known DEF Shape
    <2> QED BY <2>1, <2>2, <2>3, <2>4
<1> QED BY <1>1, <1>3, OnlyLocal

LEMMA RefuseStep ==
    ASSUME IndInv, NEW r \in Requests, Refuse(r)
    PROVE  IndInv'
BY PlainStep DEF Refuse, Phases

LEMMA ReserveStep ==
    ASSUME IndInv, NEW r \in Requests, Reserve(r)
    PROVE  IndInv'
<1>1. CASE Affordable(local[r].month)
    <2> DEFINE l == [local[r] EXCEPT !.pc = "attempt"]
               row == [state |-> "reserved", month |-> local[r].month, charged |-> Amount]
    <2>1. Goto(r, "attempt") /\ "attempt" \in Phases /\ rows' = [rows EXCEPT ![Call(r)] = row]
        BY <1>1 DEF Reserve, Phases
    <2>2. /\ local' = [local EXCEPT ![r] = l] /\ l \in LocalType
          /\ l.pc = "attempt" /\ l.attempt = local[r].attempt
          /\ l.network = local[r].network /\ l.ambiguous = local[r].ambiguous
        BY <2>1, GotoLocal
    <2>3. /\ row \in RowType /\ row.state = "reserved" /\ row.charged = Amount
        BY AmountWorst, Known DEF RowType, LocalType
    <2> HIDE DEF l, row
    <2>4. /\ billed[Call(r)] = 0 /\ audit[Call(r)] = NoRecord
          /\ local[r].network = 0 /\ local[r].ambiguous = 0
        BY Known DEF Shape, Reserve, LocalType
    <2>5. CallOK(row, billed[Call(r)], audit[Call(r)])
        BY <2>3, <2>4, AmountWorst DEF CallOK, NoRecord
    <2>6. Shape(l, row, billed[Call(r)], audit[Call(r)])
        BY <2>2, <2>3, <2>4, WorstZero, BudgetAssumption DEF Shape
    <2> QED BY <2>1, <2>2, <2>3, <2>5, <2>6, LocalAndRow DEF Reserve
<1>2. CASE ~Affordable(local[r].month)
    BY <1>2, PlainStep DEF Reserve, Phases
<1> QED BY <1>1, <1>2

LEMMA AttemptStep ==
    ASSUME IndInv, NEW r \in Requests, Attempt(r)
    PROVE  IndInv'
<1>1. CASE CanAttempt(r)
    <2> DEFINE n == local[r].network + 1
               l == [local[r] EXCEPT !.pc = "posted", !.network = n]
    <2>1. local' = [local EXCEPT ![r] = l]
        BY <1>1 DEF Attempt
    <2>2. /\ local[r].network \in 0..MaxNetwork /\ local[r].ambiguous \in 0..MaxNetwork
          /\ local[r].ambiguous <= local[r].network /\ local[r].network < MaxNetwork
        BY Known DEF Shape, LocalType, Attempt
    <2>3. n \in 0..MaxNetwork /\ local[r].ambiguous < n
        BY <2>2, BudgetAssumption
    <2> HIDE DEF n
    <2>4. /\ l \in LocalType /\ l.pc = "posted" /\ l.attempt = local[r].attempt
          /\ l.network = n /\ l.ambiguous = local[r].ambiguous
        BY <2>3, Known DEF LocalType, Phases
    <2> HIDE DEF l
    <2>5. l.ambiguous <= l.network
        BY <2>2, <2>3, <2>4
    <2>6. Shape(l, rows[Call(r)], billed[Call(r)], audit[Call(r)])
        BY <2>3, <2>4, <2>5, Known DEF Shape, Attempt
    <2> QED BY <2>1, <2>4, <2>6, OnlyLocal DEF Attempt
<1>2. CASE ~CanAttempt(r)
    BY <1>2, PlainStep DEF Attempt, Phases
<1> QED BY <1>1, <1>2

LEMMA UnservedStep ==
    ASSUME IndInv, NEW r \in Requests, Unserved(r)
    PROVE  IndInv'
<1>1. CASE local[r].network = MaxNetwork
    BY <1>1, PlainStep DEF Unserved, Retried, Phases
<1>2. CASE local[r].network # MaxNetwork
    <2>1. local[r].network < MaxNetwork
        BY <1>2, BudgetAssumption, Known DEF LocalType
    <2> QED BY <1>2, <2>1, PlainStep DEF Unserved, Retried, Phases
<1> QED BY <1>1, <1>2

\* A post in flight: with what is billed for it the call stays within the price
\* of its attempts, and so within its reservation.
LEMMA PostPrice ==
    ASSUME IndInv, NEW r \in Requests, local[r].pc = "posted", NEW b \in 0..Worst
    PROVE  /\ billed[Call(r)] + b \in Nat
           /\ billed[Call(r)] + b <= WorstOf(local[r].ambiguous + 1)
           /\ billed[Call(r)] + b <= b + WorstOf(local[r].ambiguous)
           /\ b + WorstOf(local[r].ambiguous) \in Nat
           /\ b + WorstOf(local[r].ambiguous) <= Amount
           /\ billed[Call(r)] + b <= Amount /\ rows[Call(r)].charged = Amount
           /\ local[r].ambiguous + 1 \in 0..MaxNetwork
           /\ local[r].ambiguous + 1 <= local[r].network
<1> DEFINE amb == local[r].ambiguous
           x == billed[Call(r)]
<1>1. /\ amb \in Nat /\ local[r].network \in Nat /\ local[r].network <= MaxNetwork
      /\ amb < local[r].network /\ x \in Nat /\ x <= WorstOf(amb)
      /\ rows[Call(r)].charged = Amount
    BY Known, BudgetAssumption DEF Shape, LocalType
<1>2. /\ amb + 1 \in Nat /\ amb + 1 <= local[r].network /\ amb + 1 <= MaxNetwork
      /\ amb + 1 \in 0..MaxNetwork
    BY <1>1, BudgetAssumption
<1>3. WorstOf(amb + 1) = WorstOf(amb) + Worst /\ WorstOf(amb) \in Nat
    BY <1>1, WorstStep, WorstNat
<1>4. WorstOf(amb + 1) <= Amount
    BY <1>2, WorstMonotone, AmountWorst, BudgetAssumption
<1>5. /\ x + b \in Nat /\ x + b <= WorstOf(amb) + Worst /\ x + b <= b + WorstOf(amb)
      /\ b + WorstOf(amb) \in Nat /\ b + WorstOf(amb) <= WorstOf(amb) + Worst
    BY <1>1, <1>3, BudgetAssumption
<1>6. x + b <= Amount /\ b + WorstOf(amb) <= Amount
    BY <1>3, <1>4, <1>5, AmountWorst, BudgetAssumption
<1> QED BY <1>1, <1>2, <1>3, <1>5, <1>6

LEMMA AmbiguousStep ==
    ASSUME IndInv, NEW r \in Requests, Ambiguous(r)
    PROVE  IndInv'
<1>1. PICK b \in 0..Worst : Bill(r, b)
    BY DEF Ambiguous
<1> DEFINE n == local[r].ambiguous + 1
           x == billed[Call(r)] + b
           l == [local[r] EXCEPT !.pc = Retried(r), !.ambiguous = n]
<1>2. local[r].pc = "posted" /\ local' = [local EXCEPT ![r] = l]
    BY DEF Ambiguous
<1>3. billed' = [billed EXCEPT ![Call(r)] = x]
    BY <1>1 DEF Bill
<1>4. /\ x \in Nat /\ x <= WorstOf(n) /\ x <= rows[Call(r)].charged
      /\ n \in 0..MaxNetwork /\ n <= local[r].network
    BY <1>2, PostPrice
<1>5. n # 0 /\ local[r].network # 0
    BY <1>4, Known DEF LocalType
<1> HIDE DEF n, x
<1>6. Retried(r) \in Phases /\ Retried(r) \in {"give_up", "attempt"}
    BY DEF Retried, Phases
<1>7. /\ l \in LocalType /\ l.pc = Retried(r) /\ l.attempt = local[r].attempt
      /\ l.network = local[r].network /\ l.ambiguous = n
    BY <1>4, <1>6, Known DEF LocalType
<1> HIDE DEF l
<1>8. Retried(r) = "attempt" => local[r].network < MaxNetwork
    BY Known, BudgetAssumption DEF Retried, LocalType
<1>9. Shape(l, rows[Call(r)], x, audit[Call(r)])
    BY <1>2, <1>4, <1>5, <1>6, <1>7, <1>8, Known DEF Shape
<1> QED BY <1>2, <1>3, <1>4, <1>7, <1>9, LocalAndBill DEF Ambiguous

LEMMA UnusableStep ==
    ASSUME IndInv, NEW r \in Requests, Unusable(r)
    PROVE  IndInv'
<1>1. PICK b \in 0..Worst : Bill(r, b)
    BY DEF Unusable
<1> DEFINE x == billed[Call(r)] + b
           l == [local[r] EXCEPT !.pc = "give_up"]
<1>2. local[r].pc = "posted" /\ Goto(r, "give_up") /\ "give_up" \in Phases
    BY DEF Unusable, Phases
<1>3. billed' = [billed EXCEPT ![Call(r)] = x]
    BY <1>1 DEF Bill
<1>4. x \in Nat /\ x <= rows[Call(r)].charged
    BY <1>2, PostPrice
<1>5. local[r].network # 0
    BY <1>2, Known DEF Shape, LocalType
<1> HIDE DEF x
<1>6. /\ local' = [local EXCEPT ![r] = l] /\ l \in LocalType
      /\ l.pc = "give_up" /\ l.attempt = local[r].attempt
      /\ l.network = local[r].network /\ l.ambiguous = local[r].ambiguous
    BY <1>2, GotoLocal
<1> HIDE DEF l
<1>7. Shape(l, rows[Call(r)], x, audit[Call(r)])
    BY <1>2, <1>5, <1>6, Known DEF Shape
<1> QED BY <1>3, <1>4, <1>6, <1>7, LocalAndBill DEF Unusable

LEMMA UsableStep ==
    ASSUME IndInv, NEW r \in Requests, Usable(r)
    PROVE  IndInv'
<1>1. PICK b \in 0..Worst :
         /\ Bill(r, b)
         /\ local' = [local EXCEPT ![r].pc = "settle",
                                   ![r].cost = b + Worst * local[r].ambiguous]
    BY DEF Usable
<1> DEFINE x == billed[Call(r)] + b
           cost == b + WorstOf(local[r].ambiguous)
           l == [local[r] EXCEPT !.pc = "settle", !.cost = cost]
<1>2. local[r].pc = "posted" /\ local' = [local EXCEPT ![r] = l]
    BY <1>1 DEF Usable, WorstOf
<1>3. billed' = [billed EXCEPT ![Call(r)] = x]
    BY <1>1 DEF Bill
<1>4. x \in Nat /\ x <= cost /\ x <= rows[Call(r)].charged /\ cost \in Nat /\ cost <= Amount
    BY <1>2, PostPrice
<1>5. local[r].network > 0
    BY <1>2, Known DEF Shape, LocalType
<1> HIDE DEF x, cost
<1>6. /\ l \in LocalType /\ l.pc = "settle" /\ l.attempt = local[r].attempt
      /\ l.network = local[r].network /\ l.ambiguous = local[r].ambiguous /\ l.cost = cost
    BY <1>4, Known DEF LocalType, Phases, Costs
<1> HIDE DEF l
<1>7. Shape(l, rows[Call(r)], x, audit[Call(r)])
    BY <1>2, <1>4, <1>5, <1>6, Known DEF Shape
<1> QED BY <1>2, <1>3, <1>4, <1>6, <1>7, LocalAndBill DEF Usable

LEMMA SettleStep ==
    ASSUME IndInv, NEW r \in Requests, Settle(r)
    PROVE  IndInv'
<1> DEFINE l == [local[r] EXCEPT !.pc = "record_success"]
           row == [rows[Call(r)] EXCEPT !.state = "settled", !.charged = local[r].cost]
<1>1. /\ local[r].pc = "settle" /\ rows[Call(r)].state = "reserved"
      /\ local[r].cost \in Nat /\ local[r].cost <= Amount
      /\ billed[Call(r)] <= local[r].cost /\ audit[Call(r)] = NoRecord
    BY Known DEF Settle, Shape
<1>2. Goto(r, "record_success") /\ Transition(r, "settled", local[r].cost)
    BY <1>1 DEF Settle
<1>3. /\ local' = [local EXCEPT ![r] = l] /\ l \in LocalType /\ l.cost = local[r].cost
      /\ l.pc = "record_success" /\ l.attempt = local[r].attempt
      /\ l.network = local[r].network /\ l.ambiguous = local[r].ambiguous
    BY <1>2, GotoLocal DEF Phases
<1>4. rows' = [rows EXCEPT ![Call(r)] = row]
    BY <1>2, Known DEF Transition, RowType, IndInv, Types
<1>5. local[r].cost \in 0..Amount
    BY <1>1, AmountWorst
<1>6. row \in RowType /\ row.state = "settled" /\ row.charged = local[r].cost
    BY <1>5, Known DEF RowType
<1> HIDE DEF l, row
<1>7. CallOK(row, billed[Call(r)], audit[Call(r)])
    BY <1>1, <1>6 DEF CallOK, NoRecord
<1>8. Shape(l, row, billed[Call(r)], audit[Call(r)])
    BY <1>1, <1>3, <1>6, Known DEF Shape
<1> QED BY <1>3, <1>4, <1>6, <1>7, <1>8, LocalAndRow DEF Settle

LEMMA GiveUpStep ==
    ASSUME IndInv, NEW r \in Requests, GiveUp(r)
    PROVE  IndInv'
<1>1. /\ local[r].pc = "give_up" /\ rows[Call(r)].state = "reserved"
      /\ audit[Call(r)] = NoRecord /\ local[r].network \in Nat
      /\ billed[Call(r)] \in Nat /\ billed[Call(r)] <= Amount
    BY Known DEF GiveUp, Shape, CallOK, LocalType
<1>2. CASE local[r].network > 0
    <2> DEFINE l == [local[r] EXCEPT !.pc = "record_failure", !.cost = Amount]
               row == [rows[Call(r)] EXCEPT !.state = "consumed", !.charged = Amount]
    <2>1. local' = [local EXCEPT ![r] = l]
        BY <1>2 DEF GiveUp
    <2>2. rows' = [rows EXCEPT ![Call(r)] = row]
        BY <1>2, Known DEF GiveUp, Consume, Transition, RowType, IndInv, Types
    <2>3. Amount \in 0..Amount /\ Amount \in Costs
        BY AmountWorst DEF Costs
    <2>4. /\ l \in LocalType /\ l.pc = "record_failure" /\ l.attempt = local[r].attempt
          /\ l.network = local[r].network /\ l.ambiguous = local[r].ambiguous
          /\ l.cost = Amount
        BY <2>3, Known DEF LocalType, Phases
    <2>5. row \in RowType /\ row.state = "consumed" /\ row.charged = Amount
        BY <2>3, Known DEF RowType
    <2> HIDE DEF l, row
    <2>6. CallOK(row, billed[Call(r)], audit[Call(r)])
        BY <1>1, <2>5 DEF CallOK, NoRecord
    <2>7. Shape(l, row, billed[Call(r)], audit[Call(r)])
        BY <1>1, <2>4, <2>5, Known DEF Shape
    <2> QED BY <2>1, <2>2, <2>4, <2>5, <2>6, <2>7, LocalAndRow DEF GiveUp
<1>3. CASE ~(local[r].network > 0)
    <2> DEFINE l == [local[r] EXCEPT !.pc = "record_failure"]
    <2>1. local[r].network = 0 /\ billed[Call(r)] = 0
        BY <1>1, <1>3, Known DEF Shape
    <2>2. local' = [local EXCEPT ![r] = l]
        <3>1. local[r] = [local[r] EXCEPT !.cost = local[r].cost]
            BY Known DEF LocalType
        <3> QED BY <1>3, <3>1 DEF GiveUp
    <2>3. rows' = [rows EXCEPT ![Call(r)] = NoRow]
        BY <1>1, <1>3 DEF GiveUp, Release
    <2>4. /\ l \in LocalType /\ l.pc = "record_failure" /\ l.attempt = local[r].attempt
          /\ l.network = local[r].network /\ l.ambiguous = local[r].ambiguous
        BY Known DEF LocalType, Phases
    <2> HIDE DEF l
    <2>5. CallOK(NoRow, billed[Call(r)], audit[Call(r)])
        BY <1>1, <2>1, EmptyTypes
    <2>6. Shape(l, NoRow, billed[Call(r)], audit[Call(r)])
        BY <1>1, <2>1, <2>4, Known DEF Shape
    <2> QED BY <2>2, <2>3, <2>4, <2>5, <2>6, EmptyTypes, LocalAndRow DEF GiveUp
<1> QED BY <1>2, <1>3

\* The record that a request writes: its cost is the final charge.
LEMMA RecordFits ==
    ASSUME IndInv, NEW r \in Requests,
           local[r].pc \in {"record_success", "record_failure"}
    PROVE  /\ AuditRecord(r) \in RecordType
           /\ CallOK(rows[Call(r)], billed[Call(r)], AuditRecord(r))
           /\ audit[Call(r)] = NoRecord
<1>1. AuditRecord(r) \in RecordType
    BY Known DEF AuditRecord, RecordType, LocalType
<1>2. CallOK(rows[Call(r)], billed[Call(r)], AuditRecord(r))
    <2>1. /\ AuditRecord(r).network = local[r].network
          /\ AuditRecord(r).cost = local[r].cost
        BY DEF AuditRecord
    <2>2. local[r].network > 0 =>
             /\ rows[Call(r)].state \in {"settled", "consumed"}
             /\ local[r].cost = rows[Call(r)].charged
        BY Known DEF Shape
    <2> QED BY <2>1, <2>2, Known DEF CallOK
<1>3. audit[Call(r)] = NoRecord
    BY Known DEF Shape
<1> QED BY <1>1, <1>2, <1>3

\* A request that ends with its record.
LEMMA RecordEnds ==
    ASSUME IndInv, NEW r \in Requests, NEW pc \in {"done", "failed"}, Goto(r, pc),
           local[r].pc \in {"record_success", "record_failure"},
           Append(Call(r), AuditRecord(r)), UNCHANGED <<month, rows, billed>>
    PROVE  IndInv'
<1> DEFINE l == [local[r] EXCEPT !.pc = pc]
<1>1. /\ local' = [local EXCEPT ![r] = l] /\ l \in LocalType
      /\ l.pc = pc /\ l.attempt = local[r].attempt
      /\ l.network = local[r].network /\ l.ambiguous = local[r].ambiguous
    <2>1. pc \in Phases
        BY DEF Phases
    <2> QED BY <2>1, GotoLocal
<1> HIDE DEF l
<1>2. audit' = [audit EXCEPT ![Call(r)] = AuditRecord(r)]
    BY RecordFits DEF Append
<1>3. /\ rows' = [rows EXCEPT ![Call(r)] = rows[Call(r)]]
      /\ billed' = [billed EXCEPT ![Call(r)] = billed[Call(r)]]
    BY Known DEF IndInv, Types
<1>4. Shape(l, rows[Call(r)], billed[Call(r)], AuditRecord(r))
    BY <1>1, Known DEF Shape
<1> QED BY <1>1, <1>2, <1>3, <1>4, Known, RecordFits, OneCall

\* A request whose first answer is reviewed by a second logical call.
LEMMA RecordReviews ==
    ASSUME IndInv, NEW r \in Requests,
           local[r].pc = "record_success", local[r].attempt = 1,
           local' = [local EXCEPT ![r] =
                        [Fresh EXCEPT !.pc = "reserve", !.attempt = 2, !.month = month]],
           Append(Call(r), AuditRecord(r)), UNCHANGED <<month, rows, billed>>
    PROVE  IndInv'
<1> DEFINE l == [Fresh EXCEPT !.pc = "reserve", !.attempt = 2, !.month = month]
<1>1. month \in 0..LastMonth
    BY BudgetAssumption DEF IndInv, Types, Months
<1>2. l \in LocalType
    BY <1>1, EmptyTypes DEF LocalType, Phases
<1>3. /\ l.pc = "reserve" /\ l.attempt = 2 /\ l.network = 0 /\ l.ambiguous = 0
      /\ local' = [local EXCEPT ![r] = l]
    BY DEF Fresh
<1> HIDE DEF l
<1>4. Call(r) = <<r, 1>> /\ <<r, 1>> \in Calls /\ <<r, 2>> \in Calls
    BY CallsOfRequest DEF Call, IndInv
<1>5. audit' = [audit EXCEPT ![<<r, 1>>] = AuditRecord(r)]
    BY <1>4, RecordFits DEF Append
<1>6. Types'
    BY <1>2, <1>3, <1>5, RecordFits DEF IndInv, Types
<1>7. \A c \in Calls : c # <<r, 1>> => audit'[c] = audit[c]
    BY <1>5 DEF IndInv, Types
<1>8. audit'[<<r, 1>>] = AuditRecord(r)
    BY <1>4, <1>5 DEF IndInv, Types
<1>9. ASSUME NEW c \in Calls
      PROVE  CallOK(rows[c], billed[c], audit[c])'
    <2>1. CASE c = <<r, 1>>
        BY <1>4, <1>8, <2>1, RecordFits
    <2>2. CASE c # <<r, 1>>
        BY <1>7, <2>2 DEF IndInv
    <2> QED BY <2>1, <2>2
<1>10. ASSUME NEW q \in Requests
       PROVE  Shape(local[q], rows[Call(q)], billed[Call(q)], audit[Call(q)])'
    <2>1. CASE q = r
        <3>1. local'[q] = l /\ Call(q)' = <<r, 2>>
            BY <1>3, <2>1 DEF IndInv, Types, Call
        <3>2. Untouched(<<r, 2>>) /\ <<r, 2>> # <<r, 1>>
            BY DEF IndInv
        <3>3. rows'[<<r, 2>>] = NoRow /\ billed'[<<r, 2>>] = 0 /\ audit'[<<r, 2>>] = NoRecord
            BY <3>2, <1>4, <1>7 DEF Untouched
        <3>4. Shape(l, NoRow, 0, NoRecord)
            BY <1>3 DEF Shape
        <3> QED BY <3>1, <3>3, <3>4
    <2>2. CASE q # r
        <3>1. local'[q] = local[q] /\ Call(q)' = Call(q)
            BY <2>2, <1>3 DEF IndInv, Types, Call
        <3>2. Call(q) # <<r, 1>> /\ Call(q) \in Calls
            BY <2>2, CallsOfRequest DEF Call, IndInv
        <3>3. audit'[Call(q)] = audit[Call(q)]
            BY <3>2, <1>7
        <3> QED BY <3>1, <3>3 DEF IndInv
    <2> QED BY <2>1, <2>2
<1>11. ASSUME NEW q \in Requests, local'[q].attempt = 1
       PROVE  Untouched(<<q, 2>>)'
    <2>1. q # r
        BY <1>3, <1>11 DEF IndInv, Types
    <2>2. local'[q] = local[q] /\ <<q, 2>> # <<r, 1>> /\ <<q, 2>> \in Calls
        BY <2>1, <1>3, CallsOfRequest DEF IndInv, Types
    <2> QED BY <2>2, <1>7, <1>11 DEF IndInv, Untouched
<1> QED BY <1>6, <1>9, <1>10, <1>11 DEF IndInv

LEMMA RecordStep ==
    ASSUME IndInv, NEW r \in Requests, Record(r)
    PROVE  IndInv'
<1>1. CASE Unpriced(month)
    BY <1>1, PlainStep DEF Record, Phases
<1>2. CASE ~Unpriced(month)
    <2>1. CASE local[r].pc = "record_failure"
        BY <1>2, <2>1, RecordEnds DEF Record
    <2>2. CASE local[r].pc # "record_failure"
        BY <1>2, <2>2, RecordEnds, RecordReviews DEF Record
    <2> QED BY <2>1, <2>2
<1> QED BY <1>1, <1>2

\* Every step keeps the invariant.
LEMMA StepInv == IndInv /\ [Next]_vars => IndInv'
<1> SUFFICES ASSUME IndInv, [Next]_vars PROVE IndInv'
    OBVIOUS
<1>1. ASSUME NEW r \in Requests, Invoke(r)
      PROVE  IndInv'
    BY <1>1, StartStep, RefuseStep, ReserveStep, AttemptStep, UnservedStep,
       AmbiguousStep, UnusableStep, UsableStep, SettleStep, GiveUpStep, RecordStep
    DEF Invoke
<1>2. ASSUME NEW r \in Requests, Crash(r)
      PROVE  IndInv'
    BY <1>2, PlainStep DEF Crash, Phases
<1>3. CASE NextMonth
    <2>1. month' \in Months
        BY <1>3, BudgetAssumption DEF NextMonth, IndInv, Types, Months
    <2>2. \A r \in Requests : Call(r)' = Call(r)
        BY <1>3 DEF NextMonth, Call
    <2>3. Types'
        BY <1>3, <2>1 DEF NextMonth, IndInv, Types
    <2>4. UNCHANGED <<rows, local, audit, billed>>
        BY <1>3 DEF NextMonth
    <2> QED BY <2>2, <2>3, <2>4 DEF IndInv, Untouched
<1>4. CASE UNCHANGED vars
    BY <1>4 DEF vars, IndInv, Types, Call, Untouched
<1> QED BY <1>1, <1>2, <1>3, <1>4 DEF Next

LEMMA Invariance == Spec => []IndInv
BY InitInv, StepInv, PTL DEF Spec

-----------------------------------------------------------------------------
(* The theorems *)

\* Every variable of the ledger and of its callers keeps its type.
THEOREM TypeCorrect == Spec => []TypeOK
<1>1. IndInv => TypeOK
    BY DEF IndInv, Types, TypeOK, RowType, LocalType, RecordType, Costs
<1> QED BY <1>1, Invariance, PTL

\* What the provider bills for a logical call is always charged to a
\* reservation: reserve comes before the first post, and neither settle, consume,
\* release nor a crash leaves a bill uncovered.
THEOREM SpendIsCovered == Spec => []SpendCovered
<1>1. IndInv => SpendCovered
    BY DEF IndInv, CallOK, SpendCovered
<1> QED BY <1>1, Invariance, PTL

\* No record of the adapter makes _fail_on_unknown_cost stop the month: a call
\* that reached the network is recorded with the final charge of its row.
THEOREM RecordsArePriced == Spec => []NeverBlocksItself
<1>1. IndInv => NeverBlocksItself
    BY DEF IndInv, CallOK, NeverBlocksItself
<1> QED BY <1>1, Invariance, PTL

-----------------------------------------------------------------------------
(***************************************************************************)
(* The monthly limit.  Budget is inductive together with IndInv: the sum of *)
(* what a month is charged changes only with one row at a time.            *)
(***************************************************************************)

ChargesOf(rs) == [c \in Calls |-> rs[c].charged]

ChargedIn(rs, m) == {c \in Calls : rs[c].state # "absent" /\ rs[c].month = m}

\* What the table rs charges to the month m.
TotalOf(rs, m) == Sum(ChargesOf(rs), ChargedIn(rs, m))

\* No month is charged more than the limit.
WithinLimit(rs) ==
    \A m \in Months : Prior[m] # Unknown => Prior[m] + TotalOf(rs, m) <= Limit

Budget == WithinLimit(rows)

LEMMA ChargedTotal == \A m : Charged(m) = Prior[m] + TotalOf(rows, m)
BY DEF Charged, TotalOf, Charges, ChargesOf, ChargedCalls, ChargedIn, Sum

LEMMA CallsFinite == IsFiniteSet(Calls)
<1>1. IsFiniteSet({1, 2})
    <2>1. {1, 2} = 1..2 /\ 1 \in Int /\ 2 \in Int
        OBVIOUS
    <2>2. IsFiniteSet(1..2)
        BY <2>1, FS_Interval, Zenon
    <2> QED BY <2>1, <2>2
<1> QED BY <1>1, FS_Product, RequestAssumption DEF Calls

LEMMA TotalTypes ==
    ASSUME NEW rs \in [Calls -> RowType], NEW m
    PROVE  /\ ChargesOf(rs) \in [Calls -> Nat] /\ ChargedIn(rs, m) \in SUBSET Calls
           /\ TotalOf(rs, m) \in Nat
<1>1. ASSUME NEW c \in Calls
      PROVE  rs[c].charged \in Nat
    BY AmountWorst DEF RowType
<1>2. ChargesOf(rs) \in [Calls -> Nat]
    BY <1>1 DEF ChargesOf
<1>3. ChargedIn(rs, m) \in SUBSET Calls
    BY DEF ChargedIn
<1> QED BY <1>2, <1>3, CallsFinite, SumNat DEF TotalOf

\* What one row contributes to a month.
Share(row, m) == IF row.state # "absent" /\ row.month = m THEN row.charged ELSE 0

\* The total of a month is the share of one row and that of all others.
LEMMA TotalSplit ==
    ASSUME NEW rs \in [Calls -> RowType], NEW m, NEW c \in Calls
    PROVE  LET rest == Sum(ChargesOf(rs), ChargedIn(rs, m) \ {c}) IN
           /\ TotalOf(rs, m) = Share(rs[c], m) + rest
           /\ rest \in Nat /\ Share(rs[c], m) \in Nat
<1> DEFINE f == ChargesOf(rs)
           S == ChargedIn(rs, m)
           rest == Sum(f, S \ {c})
<1>1. f \in [Calls -> Nat] /\ S \in SUBSET Calls /\ S \ {c} \in SUBSET Calls
    BY TotalTypes
<1>2. rest \in Nat
    BY <1>1, CallsFinite, SumNat
<1>3. f[c] = rs[c].charged /\ f[c] \in Nat
    BY <1>1 DEF ChargesOf
<1>4. Share(rs[c], m) \in Nat
    BY <1>3 DEF Share
<1>5. CASE c \in S
    <2>1. Sum(f, S) = f[c] + rest
        BY <1>1, <1>5, CallsFinite, SumRemove
    <2>2. Share(rs[c], m) = f[c]
        BY <1>3, <1>5 DEF Share, ChargedIn
    <2> QED BY <2>1, <2>2, <1>2, <1>4 DEF TotalOf
<1>6. CASE c \notin S
    <2>1. S \ {c} = S /\ Share(rs[c], m) = 0
        BY <1>6 DEF Share, ChargedIn
    <2> QED BY <2>1, <1>2, <1>4 DEF TotalOf
<1> QED BY <1>5, <1>6

\* A month whose rows agree except for one.
LEMMA TotalChange ==
    ASSUME NEW rs \in [Calls -> RowType], NEW c \in Calls, NEW row \in RowType, NEW m,
           NEW ss, ss = [rs EXCEPT ![c] = row]
    PROVE  /\ TotalOf(ss, m) + Share(rs[c], m) = TotalOf(rs, m) + Share(row, m)
           /\ TotalOf(ss, m) \in Nat /\ TotalOf(rs, m) \in Nat
           /\ Share(row, m) \in Nat /\ Share(rs[c], m) \in Nat
<1> DEFINE f == ChargesOf(rs)
           g == ChargesOf(ss)
           S == ChargedIn(rs, m) \ {c}
           T == ChargedIn(ss, m) \ {c}
<1>1. ss \in [Calls -> RowType] /\ ss[c] = row
    OBVIOUS
<1>2. \A d \in Calls : d # c => ss[d] = rs[d]
    OBVIOUS
<1>3. S = T
    BY <1>2 DEF ChargedIn
<1>4. \A d \in S : f[d] = g[d]
    BY <1>2 DEF ChargesOf, ChargedIn
<1>5. f \in [Calls -> Nat] /\ g \in [Calls -> Nat] /\ S \in SUBSET Calls
    BY <1>1, TotalTypes
<1>6. \A d \in S : f[d] \in Nat /\ g[d] \in Nat /\ f[d] <= g[d] /\ g[d] <= f[d]
    <2>1. \A d \in S : f[d] \in Nat /\ g[d] = f[d]
        BY <1>4, <1>5, Zenon
    <2> HIDE DEF f, g, S
    <2> QED BY <2>1
<1>7. Sum(f, S) <= Sum(g, S) /\ Sum(g, S) <= Sum(f, S)
    BY <1>5, <1>6, CallsFinite, SumMonotone
<1>8. Sum(f, S) \in Nat /\ Sum(g, S) \in Nat
    BY <1>5, CallsFinite, SumNat
<1>9. /\ TotalOf(rs, m) = Share(rs[c], m) + Sum(f, S)
      /\ Share(rs[c], m) \in Nat
    BY TotalSplit
<1>10. /\ TotalOf(ss, m) = Share(row, m) + Sum(g, S)
       /\ Share(row, m) \in Nat
    <2>1. /\ TotalOf(ss, m) = Share(ss[c], m) + Sum(g, T)
          /\ Share(ss[c], m) \in Nat
        BY <1>1, TotalSplit
    <2> QED BY <2>1, <1>1, <1>3
<1> HIDE DEF f, g, S, T
<1>11. Sum(f, S) = Sum(g, S)
    BY <1>7, <1>8
<1> QED BY <1>8, <1>9, <1>10, <1>11

\* A row that is charged no more than before, to the same month or to none.
LEMMA ChargeLess ==
    ASSUME Budget, NEW c \in Calls, NEW row \in RowType,
           rows \in [Calls -> RowType],
           \/ row.state = "absent"
           \/ /\ rows[c].state # "absent" /\ row.month = rows[c].month
              /\ row.charged <= rows[c].charged
    PROVE  WithinLimit([rows EXCEPT ![c] = row])
<1> DEFINE ss == [rows EXCEPT ![c] = row]
<1>1. ASSUME NEW m \in Months, Prior[m] # Unknown
      PROVE  Prior[m] + TotalOf(ss, m) <= Limit
    <2>1. Share(row, m) <= Share(rows[c], m)
        <3>1. rows[c].charged \in Nat /\ row.charged \in Nat
            BY AmountWorst DEF RowType
        <3> QED BY <3>1 DEF Share
    <2>2. /\ TotalOf(ss, m) + Share(rows[c], m) = TotalOf(rows, m) + Share(row, m)
          /\ TotalOf(ss, m) \in Nat /\ TotalOf(rows, m) \in Nat
          /\ Share(row, m) \in Nat /\ Share(rows[c], m) \in Nat
        BY TotalChange
    <2>3. TotalOf(ss, m) <= TotalOf(rows, m)
        BY <2>1, <2>2
    <2>4. Prior[m] \in Nat /\ Limit \in Nat
        BY <1>1, PriorAssumption, BudgetAssumption
    <2>5. Prior[m] + TotalOf(rows, m) <= Limit
        BY <1>1 DEF Budget, WithinLimit
    <2> QED BY <2>2, <2>3, <2>4, <2>5
<1> QED BY <1>1 DEF WithinLimit

\* A new row in a month that can afford it.
LEMMA ChargeMore ==
    ASSUME Budget, NEW c \in Calls, NEW row \in RowType,
           rows \in [Calls -> RowType], rows[c] = NoRow,
           row.charged = Amount, Affordable(row.month)
    PROVE  WithinLimit([rows EXCEPT ![c] = row])
<1> DEFINE ss == [rows EXCEPT ![c] = row]
<1>1. ASSUME NEW m \in Months, Prior[m] # Unknown
      PROVE  Prior[m] + TotalOf(ss, m) <= Limit
    <2>1. /\ TotalOf(ss, m) + Share(rows[c], m) = TotalOf(rows, m) + Share(row, m)
          /\ TotalOf(ss, m) \in Nat /\ TotalOf(rows, m) \in Nat
          /\ Share(row, m) \in Nat /\ Share(rows[c], m) \in Nat
        BY TotalChange
    <2>2. Share(rows[c], m) = 0
        BY DEF Share, NoRow
    <2>3. Prior[m] \in Nat /\ Limit \in Nat /\ Amount \in Nat
        BY <1>1, PriorAssumption, BudgetAssumption, AmountWorst
    <2>4. TotalOf(ss, m) = TotalOf(rows, m) + Share(row, m)
        BY <2>1, <2>2
    <2>5. CASE m = row.month
        <3>1. Share(row, m) <= Amount
            BY <2>3 DEF Share
        <3>2. Prior[m] + TotalOf(rows, m) + Amount <= Limit
            BY <2>5, ChargedTotal DEF Affordable
        <3> QED BY <2>1, <2>3, <2>4, <3>1, <3>2
    <2>6. CASE m # row.month
        <3>1. Share(row, m) = 0
            BY <2>6 DEF Share
        <3>2. Prior[m] + TotalOf(rows, m) <= Limit
            BY <1>1 DEF Budget, WithinLimit
        <3> QED BY <2>1, <2>3, <2>4, <3>1, <3>2
    <2> QED BY <2>5, <2>6
<1> QED BY <1>1 DEF WithinLimit

\* reserve charges a month that can afford it.
LEMMA ReserveAffords ==
    ASSUME IndInv, Budget, NEW r \in Requests, Reserve(r)
    PROVE  Budget'
<1>1. CASE Affordable(local[r].month)
    <2> DEFINE row == [state |-> "reserved", month |-> local[r].month, charged |-> Amount]
               c == Call(r)
    <2>1. rows' = [rows EXCEPT ![c] = row]
        BY <1>1 DEF Reserve
    <2>2. c \in Calls /\ rows \in [Calls -> RowType] /\ rows[c] = NoRow
        BY Known DEF IndInv, Types, Reserve, Shape
    <2>3. row \in RowType /\ row.charged = Amount /\ row.month = local[r].month
        BY AmountWorst, Known DEF RowType, LocalType
    <2> HIDE DEF row, c
    <2>4. WithinLimit([rows EXCEPT ![c] = row])
        BY <1>1, <2>2, <2>3, ChargeMore
    <2> QED BY <2>1, <2>4 DEF Budget, WithinLimit
<1>2. CASE ~Affordable(local[r].month)
    BY <1>2 DEF Reserve, Budget, WithinLimit
<1> QED BY <1>1, <1>2

\* settle charges no more than was reserved.
LEMMA SettleAffords ==
    ASSUME IndInv, Budget, NEW r \in Requests, Settle(r)
    PROVE  Budget'
<1> DEFINE c == Call(r)
           row == [rows[c] EXCEPT !.state = "settled", !.charged = local[r].cost]
<1>1. /\ rows[c].state = "reserved" /\ rows[c].charged = Amount
      /\ local[r].cost \in Nat /\ local[r].cost <= Amount
    BY Known DEF Settle, Shape
<1>2. c \in Calls /\ rows \in [Calls -> RowType] /\ rows[c] \in RowType
    BY Known DEF IndInv, Types
<1>3. rows' = [rows EXCEPT ![c] = row]
    BY <1>1, <1>2 DEF Settle, Transition, RowType
<1>4. local[r].cost \in 0..Amount
    BY <1>1, AmountWorst
<1>5. /\ row \in RowType /\ row.month = rows[c].month
      /\ row.charged = local[r].cost
    BY <1>2, <1>4 DEF RowType
<1> HIDE DEF row, c
<1>6. WithinLimit([rows EXCEPT ![c] = row])
    BY <1>1, <1>2, <1>5, ChargeLess
<1> QED BY <1>3, <1>6 DEF Budget, WithinLimit

\* consume charges what was reserved, release nothing.
LEMMA GiveUpAffords ==
    ASSUME IndInv, Budget, NEW r \in Requests, GiveUp(r)
    PROVE  Budget'
<1> DEFINE c == Call(r)
           row == [rows[c] EXCEPT !.state = "consumed", !.charged = Amount]
<1>1. rows[c].state = "reserved" /\ rows[c].charged = Amount /\ Amount \in Nat
    BY Known, AmountWorst DEF GiveUp, Shape
<1>2. c \in Calls /\ rows \in [Calls -> RowType] /\ rows[c] \in RowType
    BY Known DEF IndInv, Types
<1>3. CASE local[r].network > 0
    <2>1. rows' = [rows EXCEPT ![c] = row]
        BY <1>2, <1>3 DEF GiveUp, Consume, Transition, RowType
    <2>2. /\ row \in RowType /\ row.month = rows[c].month
          /\ row.charged <= rows[c].charged
        <3>1. row \in RowType /\ row.month = rows[c].month /\ row.charged = Amount
            BY <1>1, <1>2 DEF RowType
        <3> QED BY <3>1, <1>1
    <2> HIDE DEF row, c
    <2>3. WithinLimit([rows EXCEPT ![c] = row])
        BY <1>1, <1>2, <2>2, ChargeLess
    <2> QED BY <2>1, <2>3 DEF Budget, WithinLimit
<1>4. CASE ~(local[r].network > 0)
    <2>1. rows' = [rows EXCEPT ![c] = NoRow]
        BY <1>1, <1>4 DEF GiveUp, Release
    <2>2. NoRow.state = "absent"
        BY DEF NoRow
    <2>3. WithinLimit([rows EXCEPT ![c] = NoRow])
        BY <1>2, <2>2, EmptyTypes, ChargeLess
    <2> QED BY <2>1, <2>3 DEF Budget, WithinLimit
<1> QED BY <1>3, <1>4

LEMMA InitBudget == Init => Budget
<1> SUFFICES ASSUME Init, NEW m \in Months, Prior[m] # Unknown
             PROVE  Prior[m] + TotalOf(rows, m) <= Limit
    BY DEF Budget, WithinLimit
<1>1. ChargedIn(rows, m) = {}
    BY DEF Init, ChargedIn, NoRow
<1>2. TotalOf(rows, m) = 0
    BY <1>1, SumEmpty DEF TotalOf
<1>3. Prior[m] \in 0..Limit
    BY PriorAssumption
<1> QED BY <1>2, <1>3, BudgetAssumption

LEMMA StepBudget == IndInv /\ Budget /\ [Next]_vars => Budget'
<1> SUFFICES ASSUME IndInv, Budget, [Next]_vars PROVE Budget'
    OBVIOUS
<1>1. CASE UNCHANGED rows
    BY <1>1 DEF Budget, WithinLimit
<1>2. ASSUME NEW r \in Requests, Reserve(r) \/ Settle(r) \/ GiveUp(r)
      PROVE  Budget'
    BY <1>2, ReserveAffords, SettleAffords, GiveUpAffords
<1>3. ASSUME NEW r \in Requests, Invoke(r) \/ Crash(r)
      PROVE  UNCHANGED rows \/ Reserve(r) \/ Settle(r) \/ GiveUp(r)
    BY <1>3 DEF Invoke, Crash, Start, Refuse, Attempt, Unserved, Ambiguous, Unusable,
                Usable, Record
<1>4. NextMonth \/ UNCHANGED vars => UNCHANGED rows
    BY DEF NextMonth, vars
<1> QED BY <1>1, <1>2, <1>3, <1>4 DEF Next

\* The hard monthly limit, for every number of requests: with what was spent
\* before, the provider's bill for the calls reserved in a month never exceeds
\* HARD_MONTHLY_LIMIT_USD.
THEOREM MonthlyLimit == Spec => []BillWithinLimit
<1>1. Spec => [](IndInv /\ Budget)
    BY InitInv, InitBudget, StepInv, StepBudget, PTL DEF Spec
<1>2. IndInv /\ Budget => BillWithinLimit
    <2> SUFFICES ASSUME IndInv, Budget, NEW m \in Months, Prior[m] # Unknown
                 PROVE  Prior[m] + Sum(billed, {c \in Calls : rows[c].month = m}) <= Limit
        BY DEF BillWithinLimit, Sum
    <2> DEFINE S == {c \in Calls : rows[c].month = m}
    <2>1. rows \in [Calls -> RowType] /\ billed \in [Calls -> Nat]
        BY DEF IndInv, Types
    <2>2. m # 0
        BY DEF Months
    <2>3. \A c \in Calls : rows[c].state = "absent" => rows[c].month = 0
        BY DEF IndInv, CallOK, NoRow
    <2>4. S = ChargedIn(rows, m)
        BY <2>2, <2>3 DEF ChargedIn
    <2>5. \A c \in S : billed[c] <= ChargesOf(rows)[c]
        BY DEF ChargesOf, IndInv, CallOK
    <2>6. ChargesOf(rows) \in [Calls -> Nat] /\ S \in SUBSET Calls
        BY <2>1, TotalTypes
    <2>7. Sum(billed, S) <= TotalOf(rows, m)
        BY <2>1, <2>4, <2>5, <2>6, CallsFinite, SumMonotone DEF TotalOf
    <2>8. Sum(billed, S) \in Nat /\ TotalOf(rows, m) \in Nat
        BY <2>1, <2>6, CallsFinite, SumNat, TotalTypes
    <2>9. Prior[m] \in Nat /\ Limit \in Nat
        BY PriorAssumption, BudgetAssumption
    <2>10. Prior[m] + TotalOf(rows, m) <= Limit
        BY DEF Budget, WithinLimit
    <2> HIDE DEF S
    <2>11. Prior[m] + Sum(billed, S) <= Limit
        BY <2>7, <2>8, <2>9, <2>10
    <2> QED BY <2>11 DEF S
<1> QED BY <1>1, <1>2, PTL
=============================================================================
