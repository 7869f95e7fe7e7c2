-------------------------- MODULE DataBuffer_proofs --------------------------
(***************************************************************************)
(* Theorems about DataBuffer for every number of elements, every finite    *)
(* set of processes and every budget of crashes, destructors and dropped   *)
(* readers; with any number of writers, but for the two about the search   *)
(* of a single one, and with interrupted waits where NoInterrupts is not   *)
(* assumed.                                                                *)
(***************************************************************************)
EXTENDS Feed, FiniteSetTheorems, TLAPS

-----------------------------------------------------------------------------
\* The semaphore set: what each operation does to its accounts.  The units on the
\* kernel's records and the value add up, or at least cover the initial value when
\* waits are interrupted.

\* The units of one semaphore when process p has u[p] of them on record.
Units(u) == {x \in Procs \X (1 .. Elements) : x[2] <= u[x[1]]}

\* The records of all processes about semaphore i.
Account(i) == [p \in Procs |-> undo[p][i]]

SemType ==
  /\ sem  \in [Index -> Nat]
  /\ undo \in [Procs -> [Index -> 0 .. Elements]]

\* The accounts are in order: what every step of the buffer preserves.
SemInv == SemType /\ UnitsConserved

\* One column of a set of pairs has as many members as its height
\* (a process's part of the units of a semaphore).
LEMMA ColumnSize ==
  ASSUME NEW p \in Procs, NEW n \in Nat
  PROVE  /\ IsFiniteSet({p} \X (1 .. n))
         /\ Cardinality({p} \X (1 .. n)) = n
<1>1. IsFiniteSet({p}) /\ Cardinality({p}) = 1
  BY FS_Singleton
<1>2. IsFiniteSet(1 .. n) /\ Cardinality(1 .. n) = n
  <2>1. n \in Int /\ (IF 1 > n THEN 0 ELSE n - 1 + 1) = n
    OBVIOUS
  <2>2. IsFiniteSet(1 .. n) /\ Cardinality(1 .. n) = IF 1 > n THEN 0 ELSE n - 1 + 1
    BY <2>1, FS_Interval
  <2>3. QED
    BY <2>1, <2>2
<1>3. /\ IsFiniteSet({p} \X (1 .. n))
      /\ Cardinality({p} \X (1 .. n)) = Cardinality({p}) * Cardinality(1 .. n)
  BY <1>1, <1>2, FS_Product
<1>4. 1 * n = n
  OBVIOUS
<1>5. QED
  BY <1>1, <1>2, <1>3, <1>4

\* The units of a semaphore are finitely many (there are finitely many processes).
LEMMA UnitsFinite ==
  ASSUME NEW u
  PROVE  IsFiniteSet(Units(u))
<1>1. IsFiniteSet(1 .. Elements)
  BY FS_Interval, ElementsAssumption
<1>2. IsFiniteSet(Procs \X (1 .. Elements))
  BY <1>1, ProcsAssumption, FS_Product
<1>3. QED
  BY <1>2, FS_Subset DEF Units

\* The units of a semaphore are those of one process and those of the others.
LEMMA UnitsSplit ==
  ASSUME NEW u \in [Procs -> 0 .. Elements], NEW p \in Procs
  PROVE  LET Others == {x \in Units(u) : x[1] # p}
         IN  /\ IsFiniteSet(Others)
             /\ Cardinality(Others) \in Nat
             /\ Cardinality(Units(u)) = Cardinality(Others) + u[p]
<1> DEFINE Others == {x \in Units(u) : x[1] # p}
           Column == {p} \X (1 .. u[p])
<1>1. Units(u) = Others \cup Column
  <2>1. 1 .. u[p] \subseteq 1 .. Elements
    BY ElementsAssumption
  <2>2. Column \subseteq Units(u)
    BY <2>1, ElementsAssumption DEF Units
  <2>3. ASSUME NEW x \in Units(u), x[1] = p
        PROVE  x \in Column
    BY <2>3 DEF Units
  <2>4. QED
    BY <2>2, <2>3
<1>2. Others \cap Column = {}
  OBVIOUS
<1>3. IsFiniteSet(Others)
  BY UnitsFinite, FS_Subset
<1>4. Cardinality(Others) \in Nat
  BY <1>3, FS_CardinalityType
<1>5. IsFiniteSet(Column) /\ Cardinality(Column) = u[p]
  <2>1. u[p] \in Nat
    BY ElementsAssumption
  <2>2. QED
    BY <2>1, ColumnSize
<1>6. Cardinality(Units(u)) = Cardinality(Others) + u[p]
  <2> HIDE DEF Others, Column
  <2>1. Cardinality(Others \cup Column)
          = Cardinality(Others) + Cardinality(Column) - Cardinality(Others \cap Column)
    BY <1>3, <1>5, FS_Union
  <2>2. Cardinality(Others \cap Column) = 0
    BY <1>2, FS_EmptySet
  <2>3. QED
    BY <1>1, <1>4, <1>5, <2>1, <2>2
<1>7. QED
  BY <1>3, <1>4, <1>6

\* When the record of one process changes, the units change by the difference.
LEMMA UnitsChange ==
  ASSUME NEW u \in [Procs -> 0 .. Elements], NEW p \in Procs, NEW n \in 0 .. Elements
  PROVE  Cardinality(Units([u EXCEPT ![p] = n])) = Cardinality(Units(u)) - u[p] + n
<1> DEFINE v == [u EXCEPT ![p] = n]
           OthersU == {x \in Units(u) : x[1] # p}
           OthersV == {x \in Units(v) : x[1] # p}
<1>1. v \in [Procs -> 0 .. Elements] /\ v[p] = n
  OBVIOUS
<1>2. OthersU = OthersV
  BY DEF Units
<1>3. Cardinality(OthersU) \in Nat /\ Cardinality(Units(u)) = Cardinality(OthersU) + u[p]
  BY UnitsSplit
<1>4. Cardinality(Units(v)) = Cardinality(OthersV) + v[p]
  <2> HIDE DEF v
  <2>1. QED
    BY <1>1, UnitsSplit
<1>5. QED
  <2> HIDE DEF v, OthersU, OthersV
  <2>1. Cardinality(Units(v)) = Cardinality(Units(u)) - u[p] + n
    BY <1>1, <1>2, <1>3, <1>4, ElementsAssumption
  <2>2. QED
    BY <2>1 DEF v

\* Two processes have no more units than there are.
LEMMA UnitsOfTwo ==
  ASSUME NEW u \in [Procs -> 0 .. Elements], NEW p \in Procs, NEW q \in Procs, p # q
  PROVE  u[p] + u[q] <= Cardinality(Units(u))
<1> DEFINE v == [u EXCEPT ![p] = 0]
<1>1. v \in [Procs -> 0 .. Elements] /\ v[q] = u[q]
  BY ElementsAssumption
<1>2. Cardinality(Units(v)) = Cardinality(Units(u)) - u[p] + 0
  <2>1. 0 \in 0 .. Elements
    BY ElementsAssumption
  <2>2. QED
    BY <2>1, UnitsChange
<1>3. v[q] <= Cardinality(Units(v))
  <2> HIDE DEF v
  <2> DEFINE Others == {x \in Units(v) : x[1] # q}
  <2>1. Cardinality(Others) \in Nat /\ Cardinality(Units(v)) = Cardinality(Others) + v[q]
    BY <1>1, UnitsSplit
  <2> HIDE DEF Others
  <2>2. QED
    BY <1>1, <2>1
<1>4. Cardinality(Units(u)) \in Nat
  BY UnitsFinite, FS_CardinalityType
<1>5. QED
  <2> HIDE DEF v
  <2>1. QED
    BY <1>1, <1>2, <1>3, <1>4

-----------------------------------------------------------------------------
\* The outstanding units of a semaphore are those of its account.
LEMMA OutstandingUnits ==
  ASSUME SemType, NEW i \in Index
  PROVE  /\ Account(i) \in [Procs -> 0 .. Elements]
         /\ Outstanding(i) = Units(Account(i))
         /\ Cardinality(Outstanding(i)) \in Nat
<1>1. Account(i) \in [Procs -> 0 .. Elements]
  BY DEF SemType, Account
<1>2. Outstanding(i) = Units(Account(i))
  BY DEF Outstanding, Units, Account
<1>3. QED
  BY <1>1, <1>2, UnitsFinite, FS_CardinalityType

\* What two processes have on record never exceeds the units of a semaphore.
LEMMA SharesOfTwo ==
  ASSUME SemInv, NEW i \in Index, NEW p \in Procs, NEW q \in Procs, p # q
  PROVE  undo[p][i] + undo[q][i] <= Elements
<1>1. Account(i)[p] + Account(i)[q] <= Cardinality(Outstanding(i))
  BY OutstandingUnits, UnitsOfTwo DEF SemInv
<1>2. sem[i] + Cardinality(Outstanding(i)) = Elements /\ sem[i] \in Nat
  BY DEF SemInv, SemType, UnitsConserved
<1>3. undo[p][i] + undo[q][i] <= Cardinality(Outstanding(i))
  BY <1>1 DEF Account
<1>4. QED
  BY <1>2, <1>3, OutstandingUnits, ElementsAssumption DEF SemInv, SemType

\* What one process has on record never exceeds the units that are taken.
LEMMA ShareOfOne ==
  ASSUME SemInv, NEW i \in Index, NEW p \in Procs
  PROVE  undo[p][i] <= Elements - sem[i]
<1> DEFINE Others == {x \in Units(Account(i)) : x[1] # p}
<1>1. /\ Cardinality(Others) \in Nat
      /\ Cardinality(Outstanding(i)) = Cardinality(Others) + Account(i)[p]
  BY OutstandingUnits, UnitsSplit DEF SemInv
<1>2. sem[i] + Cardinality(Outstanding(i)) = Elements /\ sem[i] \in Nat
  BY DEF SemInv, SemType, UnitsConserved
<1>3. Account(i)[p] = undo[p][i] /\ undo[p][i] \in Int
  BY DEF Account, SemInv, SemType
<1>4. QED
  <2> HIDE DEF Others
  <2>1. QED
    BY <1>1, <1>2, <1>3, ElementsAssumption

\* A step that changes the record of p about i from r to n and the value of i by
\* r - n, the other records and values staying, leaves the accounts in order.
LEMMA Balanced ==
  ASSUME SemInv, NEW i \in Index, NEW p \in Procs, NEW n \in 0 .. Elements,
         sem[i] + undo[p][i] - n \in Nat,
         sem'  = [sem EXCEPT ![i] = sem[i] + undo[p][i] - n],
         undo' = [undo EXCEPT ![p][i] = n]
  PROVE  SemInv'
<1>1. SemType'
  BY DEF SemInv, SemType
<1>2. ASSUME NEW j \in Index
      PROVE  sem'[j] + Cardinality(Outstanding(j)') = Elements
  <2>1. Outstanding(j)' = Units(Account(j)')
    BY DEF Outstanding, Units, Account
  <2>2. sem[j] + Cardinality(Units(Account(j))) = Elements
    BY OutstandingUnits DEF SemInv, UnitsConserved
  <2>3. CASE j = i
    <3>1. Account(i)' = [Account(i) EXCEPT ![p] = n]
      BY DEF SemInv, SemType, Account
    <3>2. Account(i)[p] = undo[p][i]
      BY DEF Account
    <3>3. Cardinality(Units([Account(i) EXCEPT ![p] = n]))
            = Cardinality(Units(Account(i))) - undo[p][i] + n
      BY <3>2, OutstandingUnits, UnitsChange DEF SemInv
    <3>4. sem'[i] = sem[i] + undo[p][i] - n
      BY DEF SemInv, SemType
    <3>5. Cardinality(Units(Account(i))) \in Nat /\ sem[i] \in Nat /\ undo[p][i] \in Int
      BY UnitsFinite, FS_CardinalityType DEF SemInv, SemType
    <3>6. QED
      BY <2>1, <2>2, <2>3, <3>1, <3>3, <3>4, <3>5, ElementsAssumption
  <2>4. CASE j # i
    <3>1. Account(j)' = Account(j)
      BY <2>4 DEF SemInv, SemType, Account
    <3>2. sem'[j] = sem[j]
      BY <2>4 DEF SemInv, SemType
    <3>3. QED
      BY <2>1, <2>2, <3>1, <3>2
  <2>5. QED
    BY <2>3, <2>4
<1>3. QED
  BY <1>1, <1>2 DEF SemInv, UnitsConserved

\* semop(-k): the units move from the value to the caller's record.
LEMMA WaitKeeps ==
  ASSUME SemInv, NEW p \in Procs, NEW i \in Index, NEW k \in 1 .. Elements,
         SemWait(p, i, k)
  PROVE  SemInv' /\ undo'[p][i] = undo[p][i] + k
<1>1. undo[p][i] <= Elements - sem[i]
  BY ShareOfOne
<1>2. undo[p][i] \in 0 .. Elements /\ sem[i] \in Nat /\ sem[i] >= k
  BY DEF SemInv, SemType, SemWait
<1> DEFINE n == undo[p][i] + k
<1>3. n \in 0 .. Elements /\ sem[i] + undo[p][i] - n = sem[i] - k /\ sem[i] - k \in Nat
  BY <1>1, <1>2, ElementsAssumption
<1>4. /\ sem'  = [sem EXCEPT ![i] = sem[i] + undo[p][i] - n]
      /\ undo' = [undo EXCEPT ![p][i] = n]
  BY <1>3 DEF SemInv, SemType, SemWait
<1>5. SemInv'
  <2> HIDE DEF n
  <2>1. QED
    BY <1>3, <1>4, Balanced
<1>6. QED
  BY <1>4, <1>5 DEF SemInv, SemType

\* semop(+k) by a process that has k units on record: they go back to the value.
LEMMA PostKeeps ==
  ASSUME SemInv, NEW p \in Procs, NEW i \in Index, NEW k \in 1 .. Elements,
         undo[p][i] >= k, SemPost(p, i, k)
  PROVE  SemInv'
<1>1. undo[p][i] \in 0 .. Elements /\ sem[i] \in Nat
  BY DEF SemInv, SemType
<1> DEFINE n == undo[p][i] - k
<1>2. n \in 0 .. Elements /\ sem[i] + undo[p][i] - n = sem[i] + k /\ sem[i] + k \in Nat
  BY <1>1, ElementsAssumption
<1>3. /\ sem'  = [sem EXCEPT ![i] = sem[i] + undo[p][i] - n]
      /\ undo' = [undo EXCEPT ![p][i] = n]
  BY <1>2 DEF SemInv, SemType, SemPost
<1>4. QED
  <2> HIDE DEF n
  <2>1. QED
    BY <1>2, <1>3, Balanced

\* The end of a process: all it has on record goes back.
LEMMA ExitKeeps ==
  ASSUME SemInv, NEW p \in Procs, SemExit(p)
  PROVE  SemInv'
<1>1. \A i \in Index : sem'[i] = sem[i] + undo[p][i] /\ sem'[i] \in Nat
  BY DEF SemInv, SemType, SemExit
<1>2. SemType'
  <2>1. sem' \in [Index -> Nat]
    BY <1>1 DEF SemExit
  <2>2. undo' \in [Procs -> [Index -> 0 .. Elements]]
    <3>1. [i \in Index |-> 0] \in [Index -> 0 .. Elements]
      BY ElementsAssumption
    <3>2. QED
      BY <3>1 DEF SemInv, SemType, SemExit
  <2>3. QED
    BY <2>1, <2>2 DEF SemType
<1>3. ASSUME NEW i \in Index
      PROVE  sem'[i] + Cardinality(Outstanding(i)') = Elements
  <2>1. Outstanding(i)' = Units(Account(i)')
    BY DEF Outstanding, Units, Account
  <2>2. sem[i] + Cardinality(Units(Account(i))) = Elements
    BY OutstandingUnits DEF SemInv, UnitsConserved
  <2>3. Account(i)' = [Account(i) EXCEPT ![p] = 0]
    BY DEF SemInv, SemType, Account, SemExit
  <2>4. 0 \in 0 .. Elements /\ Account(i)[p] = undo[p][i]
    BY ElementsAssumption DEF Account
  <2>5. Cardinality(Units([Account(i) EXCEPT ![p] = 0]))
          = Cardinality(Units(Account(i))) - undo[p][i] + 0
    BY <2>4, OutstandingUnits, UnitsChange DEF SemInv
  <2>6. Cardinality(Units(Account(i))) \in Nat /\ sem[i] \in Nat /\ undo[p][i] \in Int
    BY UnitsFinite, FS_CardinalityType DEF SemInv, SemType
  <2>7. QED
    BY <1>1, <2>1, <2>2, <2>3, <2>5, <2>6, ElementsAssumption
<1>4. QED
  BY <1>2, <1>3 DEF SemInv, UnitsConserved

\* Initially no process has anything on record.
LEMMA SemInitKeeps ==
  ASSUME SemInit
  PROVE  SemInv
<1>1. SemType
  BY ElementsAssumption DEF SemInit, SemType
<1>2. ASSUME NEW i \in Index
      PROVE  sem[i] + Cardinality(Outstanding(i)) = Elements
  <2>1. Outstanding(i) = {}
    BY ElementsAssumption DEF Outstanding, SemInit
  <2>2. sem[i] = Elements /\ Cardinality(Outstanding(i)) = 0
    BY <2>1, FS_EmptySet DEF SemInit
  <2>3. QED
    BY <2>2, ElementsAssumption
<1>3. QED
  BY <1>1, <1>2 DEF SemInv, UnitsConserved

-----------------------------------------------------------------------------
\* The accounts when a wait may be interrupted.  A process then posts what it did
\* not take, its record goes below zero, and an exit may be cut off at zero: value
\* and records no longer add up.  What is left is an inequality, between signed
\* sums over the processes: each sum is kept as two sets, of what records owe the
\* semaphore and of what posts have advanced it.

\* The units a column of records amounts to, what is below zero left out.
Due(u) == {x \in Procs \X (Nat \ {0}) : x[2] <= u[x[1]]}

Positive(n) == IF n > 0 THEN n ELSE 0

Owed(i)     == Due(Account(i))
Advanced(i) == Due([p \in Procs |-> -undo[p][i]])

\* Value, and what is owed less what was advanced, cover the units of i.
Covered(i) == sem[i] + Cardinality(Owed(i)) - Cardinality(Advanced(i)) >= Elements

\* The records of the processes are between -m and m.
Within(m) == \A p \in Procs, i \in Index : undo[p][i] \in -m .. m

SemCovered ==
  /\ sem  \in [Index -> Nat]
  /\ undo \in [Procs -> [Index -> Int]]
  /\ \E m \in Nat : Within(m)
  /\ \A i \in Index : Covered(i)

\* Records that are bounded amount to finitely many units.
LEMMA DueFinite ==
  ASSUME NEW u \in [Procs -> Int], NEW m \in Nat, \A p \in Procs : u[p] <= m
  PROVE  IsFiniteSet(Due(u)) /\ Cardinality(Due(u)) \in Nat
<1>1. IsFiniteSet(1 .. m)
  BY FS_Interval
<1>2. IsFiniteSet(Procs \X (1 .. m))
  BY <1>1, ProcsAssumption, FS_Product
<1>3. Due(u) \subseteq Procs \X (1 .. m)
  <2> SUFFICES ASSUME NEW x \in Due(u)
               PROVE  x \in Procs \X (1 .. m)
    OBVIOUS
  <2>1. /\ x \in Procs \X (Nat \ {0}) /\ x[2] <= u[x[1]]
        /\ x[1] \in Procs /\ x[2] \in Nat \ {0}
    BY DEF Due
  <2>2. u[x[1]] \in Int /\ u[x[1]] <= m
    BY <2>1
  <2>3. x[2] \in 1 .. m
    BY <2>1, <2>2
  <2>4. QED
    BY <2>1, <2>3
<1>4. QED
  BY <1>2, <1>3, FS_Subset, FS_CardinalityType

\* The units due are those of one process and those of the others.
LEMMA DueSplit ==
  ASSUME NEW u \in [Procs -> Int], NEW m \in Nat, \A q \in Procs : u[q] <= m, NEW p \in Procs
  PROVE  LET Others == {x \in Due(u) : x[1] # p}
         IN  /\ Cardinality(Others) \in Nat
             /\ Cardinality(Due(u)) = Cardinality(Others) + Positive(u[p])
<1> DEFINE Others == {x \in Due(u) : x[1] # p}
           Column == {p} \X (1 .. Positive(u[p]))
<1>0. u[p] \in Int /\ Positive(u[p]) \in Nat
  BY DEF Positive
<1>1. \A n \in Nat \ {0} : n <= u[p] <=> n \in 1 .. Positive(u[p])
  BY <1>0 DEF Positive
<1>2. Due(u) = Others \cup Column
  <2>1. ASSUME NEW x \in Column
        PROVE  x \in Due(u)
    <3>1. x[1] = p /\ x[2] \in 1 .. Positive(u[p]) /\ x = <<x[1], x[2]>>
      OBVIOUS
    <3>2. x[2] \in Nat \ {0}
      BY <1>0, <3>1
    <3>3. x[2] <= u[p]
      BY <1>1, <3>1, <3>2
    <3>4. x \in Procs \X (Nat \ {0})
      BY <3>1, <3>2
    <3>5. QED
      BY <3>1, <3>3, <3>4 DEF Due
  <2>2. ASSUME NEW x \in Due(u), x[1] = p
        PROVE  x \in Column
    <3>1. x[2] \in Nat \ {0} /\ x[2] <= u[p] /\ x = <<x[1], x[2]>>
      BY <2>2 DEF Due
    <3>2. x[2] \in 1 .. Positive(u[p])
      BY <1>1, <3>1
    <3>3. QED
      BY <2>2, <3>1, <3>2
  <2>3. QED
    BY <2>1, <2>2
<1>3. Others \cap Column = {}
  OBVIOUS
<1>4. IsFiniteSet(Others) /\ Cardinality(Others) \in Nat
  BY DueFinite, FS_Subset, FS_CardinalityType
<1>5. IsFiniteSet(Column) /\ Cardinality(Column) = Positive(u[p])
  BY <1>0, ColumnSize
<1>6. Cardinality(Due(u)) = Cardinality(Others) + Positive(u[p])
  <2> HIDE DEF Others, Column
  <2>1. Cardinality(Others \cup Column)
          = Cardinality(Others) + Cardinality(Column) - Cardinality(Others \cap Column)
    BY <1>4, <1>5, FS_Union
  <2>2. Cardinality(Others \cap Column) = 0
    BY <1>3, FS_EmptySet
  <2>3. QED
    BY <1>0, <1>2, <1>4, <1>5, <2>1, <2>2
<1>7. QED
  BY <1>4, <1>6

\* When the record of one process changes, the units due change accordingly.
LEMMA DueChange ==
  ASSUME NEW u \in [Procs -> Int], NEW m \in Nat, \A q \in Procs : u[q] <= m,
         NEW v \in [Procs -> Int], \A q \in Procs : v[q] <= m,
         NEW p \in Procs, \A q \in Procs \ {p} : v[q] = u[q]
  PROVE  Cardinality(Due(v)) = Cardinality(Due(u)) - Positive(u[p]) + Positive(v[p])
<1> DEFINE OthersU == {x \in Due(u) : x[1] # p}
           OthersV == {x \in Due(v) : x[1] # p}
<1>1. OthersU = OthersV
  BY DEF Due
<1>2. Cardinality(OthersU) \in Nat /\ Cardinality(Due(u)) = Cardinality(OthersU) + Positive(u[p])
  BY DueSplit
<1>3. Cardinality(OthersV) \in Nat /\ Cardinality(Due(v)) = Cardinality(OthersV) + Positive(v[p])
  BY DueSplit
<1>4. Positive(u[p]) \in Nat /\ Positive(v[p]) \in Nat
  BY DEF Positive
<1>5. QED
  <2> HIDE DEF OthersU, OthersV
  <2>1. QED
    BY <1>1, <1>2, <1>3, <1>4

\* A step of process p after which the value and p's record of each semaphore amount
\* to no less than before, the other records staying, leaves every semaphore covered.
LEMMA CoveredStep ==
  ASSUME SemCovered, NEW p \in Procs, NEW k \in Nat,
         sem' \in [Index -> Nat], undo' \in [Procs -> [Index -> Int]],
         \A q \in Procs \ {p} : undo'[q] = undo[q],
         \A m \in Nat : Within(m) => \A i \in Index : undo'[p][i] \in -(m + k) .. m + k,
         \A i \in Index : sem'[i] + undo'[p][i] >= sem[i] + undo[p][i]
  PROVE  SemCovered'
<1>1. PICK b \in Nat : Within(b)
  BY DEF SemCovered
<1> DEFINE m == b + k
<1>2. m \in Nat /\ \A x \in -b .. b : x \in -m .. m
  OBVIOUS
<1>3. Within(m)
  BY <1>1, <1>2 DEF Within
<1>4. Within(m)'
  <2>1. ASSUME NEW q \in Procs, NEW i \in Index
        PROVE  undo'[q][i] \in -m .. m
    <3>1. CASE q = p
      BY <1>1, <3>1
    <3>2. CASE q # p
      BY <1>3, <3>2 DEF Within
    <3>3. QED
      BY <3>1, <3>2
  <2>2. QED
    BY <2>1 DEF Within
<1> HIDE DEF m
<1>5. ASSUME NEW i \in Index
      PROVE  Covered(i)'
  <2> DEFINE u  == Account(i)
             v  == Account(i)'
             nu == [q \in Procs |-> -undo[q][i]]
             nv == [q \in Procs |-> -undo'[q][i]]
  <2>1. /\ u \in [Procs -> Int] /\ v \in [Procs -> Int]
        /\ nu \in [Procs -> Int] /\ nv \in [Procs -> Int]
    BY DEF SemCovered, Account
  <2>2. \A q \in Procs : undo[q][i] \in -m .. m /\ undo'[q][i] \in -m .. m
    BY <1>3, <1>4 DEF Within
  <2>3. \A q \in Procs : u[q] <= m /\ v[q] <= m /\ nu[q] <= m /\ nv[q] <= m
    BY <1>2, <2>2 DEF Account
  <2>4. /\ u[p] = undo[p][i] /\ v[p] = undo'[p][i]
        /\ nu[p] = -undo[p][i] /\ nv[p] = -undo'[p][i]
    BY DEF Account
  <2>5. \A q \in Procs \ {p} : v[q] = u[q] /\ nv[q] = nu[q]
    BY DEF Account
  <2>6. /\ Owed(i) = Due(u) /\ Owed(i)' = Due(v)
        /\ Advanced(i) = Due(nu) /\ Advanced(i)' = Due(nv)
    BY DEF Owed, Advanced, Due
  <2>7. sem[i] \in Nat /\ sem'[i] \in Nat /\ undo[p][i] \in Int /\ undo'[p][i] \in Int
    BY DEF SemCovered
  <2>8. sem[i] + Cardinality(Due(u)) - Cardinality(Due(nu)) >= Elements
    BY <2>6 DEF SemCovered, Covered
  <2> HIDE DEF u, v, nu, nv
  <2>9. Cardinality(Due(v)) = Cardinality(Due(u)) - Positive(u[p]) + Positive(v[p])
    BY <1>2, <2>1, <2>3, <2>5, DueChange
  <2>10. Cardinality(Due(nv)) = Cardinality(Due(nu)) - Positive(nu[p]) + Positive(nv[p])
    BY <1>2, <2>1, <2>3, <2>5, DueChange
  <2>11. Cardinality(Due(u)) \in Nat /\ Cardinality(Due(nu)) \in Nat
    BY <1>2, <2>1, <2>3, DueFinite
  <2>12. /\ Positive(u[p]) - Positive(nu[p]) = undo[p][i]
         /\ Positive(v[p]) - Positive(nv[p]) = undo'[p][i]
         /\ Positive(u[p]) \in Int /\ Positive(nu[p]) \in Int
         /\ Positive(v[p]) \in Int /\ Positive(nv[p]) \in Int
    BY <2>4, <2>7 DEF Positive
  <2>13. sem'[i] + undo'[p][i] >= sem[i] + undo[p][i]
    OBVIOUS
  <2>14. sem'[i] + Cardinality(Due(v)) - Cardinality(Due(nv)) >= Elements
    BY <2>7, <2>8, <2>9, <2>10, <2>11, <2>12, <2>13, ElementsAssumption
  <2>15. QED
    BY <2>6, <2>14 DEF Covered
<1>6. QED
  BY <1>2, <1>4, <1>5 DEF SemCovered

\* A semaphore that is covered has no unit that nobody holds.
LEMMA CoveredLosesNone == SemCovered => NoUnitLost
<1> SUFFICES ASSUME SemCovered, NEW i \in Index
             PROVE  sem[i] + Cardinality(Outstanding(i)) >= Elements
  BY DEF NoUnitLost
<1>1. PICK m \in Nat : Within(m)
  BY DEF SemCovered
<1>2. sem[i] \in Nat /\ Elements \in Nat
  BY ElementsAssumption DEF SemCovered
<1>3. IsFiniteSet(Outstanding(i)) /\ Cardinality(Outstanding(i)) \in Nat
  <2>1. IsFiniteSet(1 .. Elements)
    BY <1>2, FS_Interval
  <2>2. IsFiniteSet(Procs \X (1 .. Elements))
    BY <2>1, ProcsAssumption, FS_Product
  <2>3. Outstanding(i) \subseteq Procs \X (1 .. Elements)
    BY DEF Outstanding
  <2>4. QED
    BY <2>2, <2>3, FS_Subset, FS_CardinalityType
<1>4. ASSUME NEW p \in Procs, undo[p][i] > Elements
      PROVE  Cardinality(Outstanding(i)) >= Elements
  <2>1. undo[p][i] \in Int
    BY DEF SemCovered
  <2>2. \A n \in 1 .. Elements : n <= undo[p][i]
    BY <1>2, <1>4, <2>1
  <2>3. {p} \X (1 .. Elements) \subseteq Outstanding(i)
    BY <2>2 DEF Outstanding
  <2>4. Cardinality({p} \X (1 .. Elements)) = Elements
    BY <1>2, ColumnSize
  <2>5. QED
    BY <1>2, <1>3, <2>3, <2>4, FS_Subset
<1>5. CASE \A p \in Procs : undo[p][i] <= Elements
  <2>1. Owed(i) \subseteq Outstanding(i)
    <3> SUFFICES ASSUME NEW x \in Owed(i)
                 PROVE  x \in Outstanding(i)
      OBVIOUS
    <3>1. /\ x \in Procs \X (Nat \ {0}) /\ x[1] \in Procs /\ x[2] \in Nat \ {0}
          /\ x[2] <= undo[x[1]][i]
      BY DEF Owed, Due, Account
    <3>2. undo[x[1]][i] \in Int /\ undo[x[1]][i] <= Elements
      BY <1>5, <3>1 DEF SemCovered
    <3>3. x[2] \in 1 .. Elements
      BY <1>2, <3>1, <3>2
    <3>4. QED
      BY <3>1, <3>3 DEF Outstanding
  <2>2. Cardinality(Owed(i)) <= Cardinality(Outstanding(i)) /\ Cardinality(Owed(i)) \in Nat
    BY <1>3, <2>1, FS_Subset, FS_CardinalityType
  <2>3. Cardinality(Advanced(i)) \in Nat
    <3> DEFINE u == [p \in Procs |-> -undo[p][i]]
    <3>1. u \in [Procs -> Int]
      BY DEF SemCovered
    <3>2. \A p \in Procs : undo[p][i] \in -m .. m
      BY <1>1 DEF Within
    <3>3. \A p \in Procs : u[p] <= m
      BY <3>2
    <3> HIDE DEF u
    <3>4. Cardinality(Due(u)) \in Nat
      BY <3>1, <3>3, DueFinite
    <3>5. QED
      BY <3>4 DEF Advanced, u
  <2>4. sem[i] + Cardinality(Owed(i)) - Cardinality(Advanced(i)) >= Elements
    BY DEF SemCovered, Covered
  <2>5. QED
    BY <1>2, <1>3, <2>2, <2>3, <2>4
<1>6. CASE \E p \in Procs : ~(undo[p][i] <= Elements)
  <2>1. PICK p \in Procs : ~(undo[p][i] <= Elements)
    BY <1>6
  <2>2. undo[p][i] \in Int
    BY DEF SemCovered
  <2>3. undo[p][i] > Elements
    BY <1>2, <2>1, <2>2
  <2>4. Cardinality(Outstanding(i)) >= Elements
    BY <1>4, <2>3
  <2>5. QED
    BY <1>2, <1>3, <2>4
<1>7. QED
  BY <1>5, <1>6

\* A wait that succeeds moves units from the value to the caller's record.
LEMMA WaitCovered ==
  ASSUME SemCovered, NEW p \in Procs, NEW i \in Index, NEW k \in Nat, SemWait(p, i, k)
  PROVE  SemCovered'
<1>1. /\ sem \in [Index -> Nat] /\ undo \in [Procs -> [Index -> Int]]
      /\ sem[i] >= k /\ sem' = [sem EXCEPT ![i] = @ - k]
      /\ undo' = [undo EXCEPT ![p][i] = @ + k]
  BY DEF SemCovered, SemWait
<1>2. sem[i] \in Nat /\ sem[i] - k \in Nat
  BY <1>1
<1>3. sem' \in [Index -> Nat] /\ undo' \in [Procs -> [Index -> Int]]
  BY <1>1, <1>2
<1>4. \A j \in Index : /\ sem'[j]     = IF j = i THEN sem[j] - k ELSE sem[j]
                       /\ undo'[p][j] = IF j = i THEN undo[p][j] + k ELSE undo[p][j]
                       /\ sem[j] \in Nat /\ undo[p][j] \in Int
  BY <1>1
<1>5. \A q \in Procs \ {p} : undo'[q] = undo[q]
  BY <1>1
<1>6. \A j \in Index : sem'[j] + undo'[p][j] >= sem[j] + undo[p][j]
  BY <1>4
<1>7. \A m \in Nat : Within(m) => \A j \in Index : undo'[p][j] \in -(m + k) .. m + k
  BY <1>4 DEF Within
<1>8. QED
  BY <1>3, <1>5, <1>6, <1>7, CoveredStep

\* A post moves units from the caller's record, whatever it amounts to, to the value;
\* on no semaphore of the set it moves nothing.
LEMMA PostCovered ==
  ASSUME SemCovered, NEW p \in Procs, NEW i, NEW k \in Nat, SemPost(p, i, k)
  PROVE  SemCovered'
<1>1. /\ sem \in [Index -> Nat] /\ undo \in [Procs -> [Index -> Int]]
      /\ sem' = [sem EXCEPT ![i] = @ + k] /\ undo' = [undo EXCEPT ![p][i] = @ - k]
  BY DEF SemCovered, SemPost
<1>2. \A j \in Index : /\ sem'[j]     = IF j = i THEN sem[j] + k ELSE sem[j]
                       /\ undo'[p][j] = IF j = i THEN undo[p][j] - k ELSE undo[p][j]
                       /\ sem[j] \in Nat /\ undo[p][j] \in Int
  BY <1>1
<1>3. sem' \in [Index -> Nat] /\ undo' \in [Procs -> [Index -> Int]]
  <2>1. DOMAIN sem' = Index /\ sem' = [j \in Index |-> sem'[j]]
    BY <1>1
  <2>2. \A j \in Index : sem'[j] \in Nat /\ undo'[p][j] \in Int
    BY <1>2
  <2>3. undo'[p] = [j \in Index |-> undo'[p][j]]
    BY <1>1
  <2>4. undo'[p] \in [Index -> Int]
    BY <2>2, <2>3
  <2>5. sem' \in [Index -> Nat]
    BY <2>1, <2>2
  <2>6. undo' = [undo EXCEPT ![p] = undo'[p]]
    BY <1>1
  <2>7. QED
    BY <1>1, <2>4, <2>5, <2>6
<1>4. \A q \in Procs \ {p} : undo'[q] = undo[q]
  BY <1>1
<1>5. \A j \in Index : sem'[j] + undo'[p][j] >= sem[j] + undo[p][j]
  BY <1>2
<1>6. \A m \in Nat : Within(m) => \A j \in Index : undo'[p][j] \in -(m + k) .. m + k
  BY <1>2 DEF Within
<1>7. QED
  BY <1>3, <1>4, <1>5, <1>6, CoveredStep

\* An exit applies the record to the value; what it is cut off at zero only adds.
LEMMA ExitCovered ==
  ASSUME SemCovered, NEW p \in Procs, SemExit(p)
  PROVE  SemCovered'
<1>1. /\ sem \in [Index -> Nat] /\ undo \in [Procs -> [Index -> Int]]
      /\ undo' = [undo EXCEPT ![p] = [j \in Index |-> 0]]
      /\ sem' = [j \in Index |-> IF sem[j] + undo[p][j] < 0 THEN 0 ELSE sem[j] + undo[p][j]]
  BY DEF SemCovered, SemExit
<1>2. \A j \in Index : sem[j] \in Nat /\ undo[p][j] \in Int
  BY <1>1
<1>3. sem' \in [Index -> Nat] /\ undo' \in [Procs -> [Index -> Int]]
  BY <1>1, <1>2
<1>4. \A j \in Index : /\ sem'[j] >= sem[j] + undo[p][j] /\ sem'[j] \in Nat
                       /\ undo'[p][j] = 0
  BY <1>1, <1>2
<1>5. \A q \in Procs \ {p} : undo'[q] = undo[q]
  BY <1>1
<1>6. \A j \in Index : sem'[j] + undo'[p][j] >= sem[j] + undo[p][j]
  BY <1>4
<1>7. \A m \in Nat : Within(m) => \A j \in Index : undo'[p][j] \in -(m + 0) .. m + 0
  BY <1>4
<1>8. QED
  BY <1>3, <1>5, <1>6, <1>7, CoveredStep

\* Whether a semaphore is covered depends on the set only.
LEMMA CoveredFrame ==
  ASSUME SemCovered, UNCHANGED semVars
  PROVE  SemCovered'
BY DEF SemCovered, Within, Covered, Owed, Advanced, Due, Account, semVars

\* Initially every semaphore has its units and no process has anything on record.
LEMMA SemInitCovered ==
  ASSUME SemInit
  PROVE  SemCovered
<1>1. sem \in [Index -> Nat] /\ undo \in [Procs -> [Index -> Int]]
  BY ElementsAssumption DEF SemInit
<1>2. Within(0)
  BY DEF SemInit, Within
<1>3. ASSUME NEW i \in Index
      PROVE  Covered(i)
  <2>1. Owed(i) = {} /\ Advanced(i) = {}
    BY DEF SemInit, Owed, Advanced, Due, Account
  <2>2. Cardinality(Owed(i)) = 0 /\ Cardinality(Advanced(i)) = 0 /\ sem[i] = Elements
    BY <2>1, FS_EmptySet DEF SemInit
  <2>3. QED
    BY <2>2, ElementsAssumption DEF Covered
<1>4. QED
  BY <1>1, <1>2, <1>3 DEF SemCovered

-----------------------------------------------------------------------------
\* The ring.

\* A remainder is an index of the ring (databuffer.cpp:150, 168).
LEMMA RemainderIsIndex ==
  ASSUME NEW n \in Nat
  PROVE  n % Elements \in Index
<1>1. \A m \in Nat \ {0} : n % m \in 0 .. m - 1
  OBVIOUS
<1>2. QED
  BY <1>1, ElementsAssumption DEF Index

-----------------------------------------------------------------------------
\* Type correctness, interrupted waits included.

\* A post on the index of an element, or on none, keeps the types of the set.
LEMMA PostTypes ==
  ASSUME sem \in [Index -> Nat], undo \in [Procs -> [Index -> Int]],
         NEW p \in Procs, NEW i \in Index \cup {None}, NEW k \in Nat, SemPost(p, i, k)
  PROVE  sem' \in [Index -> Nat] /\ undo' \in [Procs -> [Index -> Int]]
<1>1. \A j \in Index : sem[j] + k \in Nat
  OBVIOUS
<1>2. \A j \in Index : undo[p][j] - k \in Int
  OBVIOUS
<1>3. CASE i \in Index
  BY <1>1, <1>2, <1>3 DEF SemPost
<1>4. CASE i \notin Index
  <2>1. sem' = sem
    BY <1>4 DEF SemPost
  <2>2. [undo[p] EXCEPT ![i] = @ - k] = undo[p]
    BY <1>4
  <2>3. undo' = undo
    BY <2>2 DEF SemPost
  <2>4. QED
    BY <2>1, <2>3
<1>5. QED
  BY <1>3, <1>4

\* The two constructors and the header a new memory starts with have their types.
LEMMA InitTypeOK == Init => TypeOK
BY ElementsAssumption, BudgetAssumption, WritersAssumption
   DEF Init, SemInit, TypeOK, Index, Payload, WriterPC, ReaderPC, Readers, None, FaultKinds

\* Every step of getWriteAccess, copyWrite and Writer::update keeps the types; the
\* loop variable is reduced before it is used as an index (databuffer.cpp:150).
LEMMA WriterStepTypeOK ==
  ASSUME TypeOK, NEW w \in Writers, WriterStep(w)
  PROVE  TypeOK'
<1> USE WritersAssumption DEF TypeOK, WriterPC, ReaderPC, Readers, Goto, semVars, shared
<1>1. ASSUME NEW x \in Nat, ScanFrom(w, x),
             UNCHANGED <<semVars, shared, elem, faults>>,
             prev' \in [Writers -> Index \cup {None}]
      PROVE  TypeOK'
  BY <1>1 DEF ScanFrom
<1>2. CASE OpenWriter(w)
  BY <1>1, <1>2, ElementsAssumption DEF OpenWriter, Index
<1>3. CASE Fill(w)
  BY <1>3 DEF Fill, Payload
<1>4. CASE Update(w)
  BY <1>1, <1>4, ElementsAssumption DEF Update, Index
<1>5. CASE Probe(w)
  <2>1. idx[w] % Elements \in Index
    BY RemainderIsIndex
  <2>2. idx[w] % Elements \in Nat
    BY <2>1 DEF Index
  <2>3. CASE idx' = [idx EXCEPT ![w] = idx[w] % Elements] /\ pc' = [pc EXCEPT ![w] = "take"]
    BY <1>5, <2>1, <2>2, <2>3 DEF Probe
  <2>4. CASE UNCHANGED idx /\ pc' = [pc EXCEPT ![w] = "retest"]
    BY <1>5, <2>4 DEF Probe
  <2>5. QED
    BY <1>5, <2>3, <2>4 DEF Probe
<1>6. CASE Retest(w)
  BY <1>1, <1>6 DEF Retest
<1>7. CASE Fallback(w)
  <2>1. current + 1 \in Nat
    BY ElementsAssumption DEF Index
  <2>2. (current + 1) % Elements \in Index
    BY <2>1, RemainderIsIndex
  <2>3. (current + 1) % Elements \in Nat
    BY <2>2 DEF Index
  <2>4. QED
    BY <1>7, <2>2, <2>3 DEF Fallback
<1>8. CASE Take(w)
  BY <1>8, ElementsAssumption DEF Take, WaitAll, SemWait
<1>9. CASE Claim(w)
  BY <1>9 DEF Claim, Payload
<1>10. CASE Release(w)
  <2>1. sem' \in [Index -> Nat] /\ undo' \in [Procs -> [Index -> Int]]
    BY <1>10, PostTypes, ElementsAssumption DEF Release, PostAll
  <2>2. QED
    BY <1>10, <2>1 DEF Release
<1>11. QED
  BY <1>2, <1>3, <1>4, <1>5, <1>6, <1>7, <1>8, <1>9, <1>10 DEF WriterStep

\* Every step of getReadAccess and Reader::update keeps the types.
LEMMA ReaderStepTypeOK ==
  ASSUME TypeOK, NEW r \in Readers, ReaderStep(r)
  PROVE  TypeOK'
<1> USE WritersAssumption DEF TypeOK, WriterPC, ReaderPC, Readers, Goto, semVars, shared
<1>1. CASE OpenReader(r)
  BY <1>1 DEF OpenReader
<1>2. CASE Load(r)
  <2>1. current \in Nat
    BY DEF Index
  <2>2. QED
    BY <1>2, <2>1 DEF Load
<1>3. CASE Wait(r)
  <2>1. idx[r] \in Index /\ sem[idx[r]] - 1 \in Nat
    BY <1>3 DEF Wait, WaitOne, SemWait
  <2>2. sem' \in [Index -> Nat] /\ undo' \in [Procs -> [Index -> Int]]
    BY <1>3, <2>1 DEF Wait, WaitOne, SemWait
  <2>3. QED
    BY <1>3, <2>1, <2>2 DEF Wait
<1>4. CASE Check(r)
  BY <1>4 DEF Check
<1>5. ASSUME ReleaseRead(r)
      PROVE  /\ sem' \in [Index -> Nat] /\ undo' \in [Procs -> [Index -> Int]]
             /\ elem' \in [Procs -> Index \cup {None}]
  BY <1>5, PostTypes DEF ReleaseRead, PostOne
<1>6. CASE GiveBack(r)
  BY <1>5, <1>6 DEF GiveBack
<1>7. CASE UpdateReader(r)
  BY <1>5, <1>7 DEF UpdateReader
<1>8. QED
  BY <1>1, <1>2, <1>3, <1>4, <1>6, <1>7 DEF ReaderStep

\* What a writer that ends leaves behind is one of the things a payload can be.
LEMMA AbandonedType ==
  ASSUME TypeOK, NEW w \in Writers, Abandon(w)
  PROVE  data' \in [Index -> Payload]
BY DEF TypeOK, Abandon, Payload

\* So do destructors, dropped readers, exits and interrupted waits.
LEMMA FaultTypeOK ==
  ASSUME TypeOK,
         \/ \E w \in Writers : WriterFault(w)
         \/ \E r \in Readers : ReaderFault(r)
  PROVE  TypeOK'
<1> USE WritersAssumption
    DEF TypeOK, WriterPC, ReaderPC, Readers, Goto, semVars, shared
<1>1. \A k \in FaultKinds : Fault(k) => faults' \in [FaultKinds -> Nat]
  BY DEF Fault
<1>2. /\ \A k \in {"close", "writerCrash", "interrupt", "drop", "readerCrash"} : k \in FaultKinds
  BY DEF FaultKinds
<1>3. \A p \in Procs : SemExit(p) => /\ sem'  \in [Index -> Nat]
                                     /\ undo' \in [Procs -> [Index -> Int]]
  BY DEF SemExit
<1>4. ASSUME NEW w \in Writers, Close(w)
      PROVE  TypeOK'
  <2>1. sem' \in [Index -> Nat] /\ undo' \in [Procs -> [Index -> Int]]
    BY <1>4, PostTypes, ElementsAssumption DEF Close, PostAll
  <2>2. data' \in [Index -> Payload]
    BY <1>4, AbandonedType DEF Close
  <2>3. QED
    BY <1>1, <1>2, <1>4, <2>1, <2>2 DEF Close
<1>5. ASSUME NEW w \in Writers, CrashWriter(w)
      PROVE  TypeOK'
  <2>1. data' \in [Index -> Payload]
    BY <1>5, AbandonedType DEF CrashWriter
  <2>2. QED
    BY <1>1, <1>2, <1>3, <1>5, <2>1 DEF CrashWriter
<1>6. ASSUME NEW w \in Writers, TakeInterrupted(w)
      PROVE  TypeOK'
  BY <1>1, <1>2, <1>6 DEF TakeInterrupted, SemWaitFails
<1>7. ASSUME NEW r \in Readers, Drop(r)
      PROVE  TypeOK'
  BY <1>1, <1>2, <1>7 DEF Drop
<1>8. ASSUME NEW r \in Readers, CrashReader(r)
      PROVE  TypeOK'
  BY <1>1, <1>2, <1>3, <1>8 DEF CrashReader
<1>9. ASSUME NEW r \in Readers, WaitInterrupted(r)
      PROVE  TypeOK'
  BY <1>1, <1>2, <1>9 DEF WaitInterrupted, SemWaitFails
<1>10. QED
  BY <1>4, <1>5, <1>6, <1>7, <1>8, <1>9 DEF WriterFault, ReaderFault

\* Every variable keeps its type and every index in use is one of the ring,
\* whatever fails and however often (databuffer.cpp:119-196 with the exits and
\* interrupted semops of semaphore_interface.cpp).
THEOREM TypeCorrect == Spec => []TypeOK
<1>1. TypeOK /\ [Next]_vars => TypeOK'
  <2>1. ASSUME TypeOK, UNCHANGED vars
        PROVE  TypeOK'
    BY <2>1 DEF vars, TypeOK
  <2>2. QED
    BY <2>1, WriterStepTypeOK, ReaderStepTypeOK, FaultTypeOK DEF Next
<1>2. QED
  BY <1>1, InitTypeOK, PTL DEF Spec

-----------------------------------------------------------------------------
\* The inductive invariant.  Exclusion alone is not inductive: it does not say
\* why nobody else can take an element that is owned.  The reason is in the
\* accounts: an owner has all units of the element on record and a reader one,
\* and there are no more units than Elements.

\* What a writer's registers and records amount to at each of its places.
WriterOK(w) ==
  /\ pc[w] = "closed" => elem[w] = None /\ prev[w] = None
  /\ pc[w] \in {"fill", "ready"} => elem[w] # None /\ prev[w] = None
  /\ pc[w] \in {"probe", "retest", "fallback", "take", "claim"} => prev[w] = elem[w]
  /\ pc[w] = "claim" => idx[w] # elem[w]
  /\ pc[w] = "release" => elem[w] # None /\ prev[w] # None /\ elem[w] # prev[w]
  /\ \A i \in Owned(w) : undo[w][i] = Elements

ReaderOK(r) ==
  /\ elem[r] = IF pc[r] \in {"check", "giveback", "hold"} THEN idx[r] ELSE None
  /\ elem[r] # None => undo[r][elem[r]] >= 1

\* No code sets the flag (databuffer.cpp:69, 157, 173 clear it).
NeverComplete == \A i \in Index : ~complete[i]

Places == (\A w \in Writers : WriterOK(w)) /\ (\A r \in Readers : ReaderOK(r))

IInv == TypeOK /\ SemInv /\ Places /\ NeverComplete

\* No signal handler ever runs in a process asleep in semop (SIGINT of the daemons).
NoInterrupts == Budget["interrupt"] = 0

\* Exclusion is what the accounts leave room for (the argument of the theorem).
LEMMA IInvExclusion == IInv => Exclusion
<1> SUFFICES ASSUME IInv, NEW w \in Writers, NEW p \in Procs, p # w, NEW i \in Owned(w) \cap Owned(p)
             PROVE  FALSE
  BY DEF Exclusion
<1>1. w \in Procs /\ i \in Index
  BY WritersAssumption DEF IInv, TypeOK, Owned, None, Places, WriterOK
<1>2. undo[w][i] = Elements
  BY DEF IInv, Places, WriterOK
<1>3. undo[p][i] >= 1
  <2>1. CASE p \in Writers
    BY <2>1, ElementsAssumption DEF IInv, Places, WriterOK
  <2>2. CASE p \in Readers
    BY <2>2 DEF IInv, Places, ReaderOK, Owned, Readers
  <2>3. QED
    BY <2>1, <2>2 DEF Readers
<1>4. undo[w][i] + undo[p][i] <= Elements
  BY <1>1, SharesOfTwo DEF IInv
<1>5. undo[p][i] \in Int
  BY <1>1 DEF IInv, TypeOK
<1>6. QED
  BY <1>2, <1>3, <1>4, <1>5, ElementsAssumption

\* A process whose registers and records a step leaves alone stays in order.
LEMMA WriterFrame ==
  ASSUME NEW w \in Writers, WriterOK(w),
         pc'[w] = pc[w], idx'[w] = idx[w], elem'[w] = elem[w], prev'[w] = prev[w],
         undo'[w] = undo[w]
  PROVE  WriterOK(w)'
BY DEF WriterOK, Owned

\* The same for a reader.
LEMMA ReaderFrame ==
  ASSUME NEW r \in Readers, ReaderOK(r),
         pc'[r] = pc[r], idx'[r] = idx[r], elem'[r] = elem[r], undo'[r] = undo[r]
  PROVE  ReaderOK(r)'
BY DEF ReaderOK

\* What a step of writer w leaves to be shown: the accounts and its own place.
LEMMA WriterPlaces ==
  ASSUME IInv, NEW w \in Writers, WriterOK(w)',
         \A p \in Procs \ {w} : /\ pc'[p] = pc[p] /\ idx'[p] = idx[p]
                                /\ elem'[p] = elem[p] /\ undo'[p] = undo[p],
         \A v \in Writers \ {w} : prev'[v] = prev[v]
  PROVE  Places'
<1>1. ASSUME NEW v \in Writers
      PROVE  WriterOK(v)'
  BY WriterFrame, WritersAssumption DEF IInv, Places
<1>2. ASSUME NEW r \in Readers
      PROVE  ReaderOK(r)'
  BY ReaderFrame DEF IInv, Places, Readers
<1>3. QED
  BY <1>1, <1>2 DEF Places, Readers

\* The same for a step of reader r.
LEMMA ReaderPlaces ==
  ASSUME IInv, NEW r \in Readers, ReaderOK(r)', UNCHANGED prev,
         \A p \in Procs \ {r} : /\ pc'[p] = pc[p] /\ idx'[p] = idx[p]
                                /\ elem'[p] = elem[p] /\ undo'[p] = undo[p]
  PROVE  Places'
<1>1. ASSUME NEW v \in Writers
      PROVE  WriterOK(v)'
  BY WriterFrame, WritersAssumption DEF IInv, Places, Readers
<1>2. ASSUME NEW q \in Readers
      PROVE  ReaderOK(q)'
  BY ReaderFrame DEF IInv, Places, Readers
<1>3. QED
  BY <1>1, <1>2 DEF Places, Readers

\* Before any process has come, every unit is in its semaphore and nobody owns
\* anything: the invariant holds.
LEMMA InitIInv == Init => IInv
<1> SUFFICES ASSUME Init
             PROVE  IInv
  OBVIOUS
<1>1. SemInv
  BY SemInitKeeps DEF Init
<1>2. Places
  BY WritersAssumption DEF Init, Places, WriterOK, ReaderOK, Owned, Readers, None
<1>3. NeverComplete
  BY DEF Init, NeverComplete
<1>4. QED
  BY <1>1, <1>2, <1>3, InitTypeOK DEF IInv

-----------------------------------------------------------------------------
\* Each action preserves the invariant; first those that move no unit.

\* The accounts depend on the semaphores only.
LEMMA SemFrame ==
  ASSUME SemInv, UNCHANGED semVars
  PROVE  SemInv'
BY DEF SemInv, SemType, UnitsConserved, Outstanding, semVars

\* The search of getWriteAccess: no unit moves, only pc and idx change.
LEMMA SearchKeeps ==
  ASSUME IInv, NEW w \in Writers,
         \/ OpenWriter(w) \/ Update(w) \/ Probe(w) \/ Retest(w) \/ Fallback(w)
  PROVE  SemInv' /\ Places' /\ NeverComplete'
<1> USE DEF semVars, shared
<1>1. UNCHANGED <<semVars, shared, elem>>
  BY DEF OpenWriter, Update, Probe, Retest, Fallback, ScanFrom, Goto
<1>2. SemInv' /\ NeverComplete'
  BY <1>1, SemFrame DEF IInv, NeverComplete
<1>3. pc'[w] \in {"probe", "retest", "fallback", "take"}
  BY WritersAssumption DEF OpenWriter, Update, Probe, Retest, Fallback, ScanFrom, Goto, IInv, TypeOK
<1>4. prev'[w] = elem[w]
  <2>1. WriterOK(w)
    BY DEF IInv, Places
  <2>2. CASE Update(w)
    BY <2>2 DEF Update, IInv, TypeOK
  <2>3. CASE OpenWriter(w)
    BY <2>1, <2>3 DEF OpenWriter, WriterOK
  <2>4. CASE Probe(w) \/ Retest(w) \/ Fallback(w)
    BY <2>1, <2>4 DEF Probe, Retest, Fallback, Goto, WriterOK
  <2>5. QED
    BY <2>2, <2>3, <2>4
<1>5. Owned(w)' \subseteq Owned(w)
  BY <1>1, <1>3, <1>4 DEF Owned
<1>6. WriterOK(w)'
  BY <1>1, <1>3, <1>4, <1>5 DEF WriterOK, IInv, Places
<1>7. /\ \A p \in Procs \ {w} : pc'[p] = pc[p] /\ idx'[p] = idx[p]
      /\ \A v \in Writers \ {w} : prev'[v] = prev[v]
  BY DEF OpenWriter, Update, Probe, Retest, Fallback, ScanFrom, Goto, IInv, TypeOK
<1>8. Places'
  BY <1>1, <1>6, <1>7, WriterPlaces
<1>9. QED
  BY <1>2, <1>8

\* copyWrite changes the payload of an element only its writer owns.
LEMMA FillKeeps ==
  ASSUME IInv, NEW w \in Writers, Fill(w)
  PROVE  SemInv' /\ Places' /\ NeverComplete'
<1>1. UNCHANGED <<sem, undo, complete, idx, elem, prev>>
  BY DEF Fill, semVars
<1>2. SemInv' /\ NeverComplete'
  BY <1>1, SemFrame DEF IInv, NeverComplete, semVars
<1>3. pc[w] = "fill" /\ pc' = [pc EXCEPT ![w] = "ready"] /\ pc'[w] = "ready"
  BY WritersAssumption DEF Fill, Goto, IInv, TypeOK
<1>4. WriterOK(w)'
  BY <1>1, <1>3 DEF WriterOK, Owned, IInv, Places
<1>5. QED
  BY <1>1, <1>2, <1>3, <1>4, WriterPlaces DEF IInv, TypeOK

\* The element taken was all in the semaphore, so its taker did not have it yet.
LEMMA TakeKeeps ==
  ASSUME IInv, NEW w \in Writers, Take(w)
  PROVE  SemInv' /\ Places' /\ NeverComplete'
<1>1. /\ pc[w] = "take" /\ idx[w] \in Index /\ w \in Procs /\ WriterOK(w)
      /\ SemWait(w, idx[w], Elements)
      /\ UNCHANGED <<complete, idx, elem, prev>>
      /\ pc' = [pc EXCEPT ![w] = "claim"] /\ pc'[w] = "claim"
  BY WritersAssumption DEF Take, WaitAll, Goto, shared, IInv, TypeOK, Places
<1>2. SemInv' /\ undo'[w][idx[w]] = undo[w][idx[w]] + Elements
  BY <1>1, WaitKeeps, ElementsAssumption DEF IInv
<1>3. undo[w][idx[w]] = 0
  <2>1. undo[w][idx[w]] <= Elements - sem[idx[w]]
    BY <1>1, ShareOfOne DEF IInv
  <2>2. undo[w][idx[w]] \in 0 .. Elements /\ sem[idx[w]] \in Nat /\ sem[idx[w]] >= Elements
    BY <1>1 DEF IInv, SemInv, SemType, SemWait
  <2>3. QED
    BY <2>1, <2>2, ElementsAssumption
<1>4. idx[w] # elem[w] /\ prev[w] = elem[w] /\ idx[w] \notin Owned(w)
  BY <1>1, <1>3, ElementsAssumption DEF WriterOK, Owned, Index, None
<1>5. \A i \in Owned(w)' : undo'[w][i] = Elements
  <2>1. Owned(w)' \subseteq Owned(w) \cup {idx[w]}
    BY <1>1 DEF Owned
  <2>2. ASSUME NEW i \in Owned(w)
        PROVE  undo'[w][i] = Elements
    <3>1. undo[w][i] = Elements
      BY <1>1 DEF WriterOK
    <3>2. undo'[w][i] = undo[w][i]
      BY <1>1, <1>4 DEF SemWait, IInv, TypeOK
    <3>3. QED
      BY <3>1, <3>2
  <2>3. undo'[w][idx[w]] = Elements
    BY <1>2, <1>3, ElementsAssumption
  <2>4. QED
    BY <2>1, <2>2, <2>3
<1>6. WriterOK(w)'
  BY <1>1, <1>4, <1>5 DEF WriterOK
<1>7. \A p \in Procs \ {w} : pc'[p] = pc[p] /\ undo'[p] = undo[p]
  BY <1>1 DEF IInv, TypeOK, SemWait
<1>8. Places'
  BY <1>1, <1>6, <1>7, WriterPlaces
<1>9. QED
  BY <1>1, <1>2, <1>8 DEF IInv, NeverComplete

\* The element stored as current (databuffer.cpp:155, 171) is held by its writer
\* alone, so no reader that is working is left on it.
LEMMA ClaimKeeps ==
  ASSUME IInv, NEW w \in Writers, Claim(w)
  PROVE  SemInv' /\ Places' /\ NeverComplete'
<1>1. /\ pc[w] = "claim" /\ idx[w] \in Nat /\ w \in Procs /\ WriterOK(w)
      /\ UNCHANGED <<sem, undo, idx, prev>>
      /\ pc' = [pc EXCEPT ![w] = IF prev[w] = None THEN "fill" ELSE "release"]
      /\ pc'[w] = IF prev[w] = None THEN "fill" ELSE "release"
      /\ elem' = [elem EXCEPT ![w] = idx[w]] /\ elem'[w] = idx[w]
  BY WritersAssumption DEF Claim, Goto, semVars, IInv, TypeOK, Places
<1>2. SemInv'
  BY <1>1, SemFrame DEF IInv, semVars
<1>3. NeverComplete'
  BY DEF Claim, IInv, NeverComplete, TypeOK
<1>4. Owned(w)' \subseteq Owned(w)
  BY <1>1 DEF Owned
<1>5. WriterOK(w)'
  BY <1>1, <1>4 DEF WriterOK, None
<1>6. Places'
  BY <1>1, <1>5, WriterPlaces DEF IInv, TypeOK
<1>7. QED
  BY <1>2, <1>3, <1>6

\* The element released is the previous one; the new one stays owned.
LEMMA ReleaseKeeps ==
  ASSUME IInv, NEW w \in Writers, Release(w)
  PROVE  SemInv' /\ Places' /\ NeverComplete'
<1>1. /\ pc[w] = "release" /\ w \in Procs /\ WriterOK(w)
      /\ SemPost(w, prev[w], Elements)
      /\ UNCHANGED <<complete, idx, elem>>
      /\ pc' = [pc EXCEPT ![w] = "fill"] /\ pc'[w] = "fill"
      /\ prev' = [prev EXCEPT ![w] = None] /\ prev'[w] = None
  BY WritersAssumption DEF Release, PostAll, Goto, shared, IInv, TypeOK, Places
<1>2. prev[w] \in Index /\ elem[w] \in Index /\ elem[w] # prev[w]
  BY <1>1 DEF WriterOK, IInv, TypeOK
<1>3. undo[w][prev[w]] = Elements /\ undo[w][elem[w]] = Elements
  BY <1>1, <1>2 DEF WriterOK, Owned, Index, None
<1>4. SemInv'
  BY <1>1, <1>2, <1>3, PostKeeps, ElementsAssumption DEF IInv
<1>5. undo'[w][elem[w]] = Elements
  BY <1>1, <1>2, <1>3 DEF SemPost, IInv, TypeOK
<1>6. Owned(w)' = {elem[w]}
  BY <1>1, <1>2 DEF Owned, Index, None
<1>7. WriterOK(w)'
  BY <1>1, <1>5, <1>6 DEF WriterOK
<1>8. \A p \in Procs \ {w} : pc'[p] = pc[p] /\ undo'[p] = undo[p]
  BY <1>1 DEF IInv, TypeOK, SemPost
<1>9. Places'
  BY <1>1, <1>7, <1>8, WriterPlaces DEF IInv, TypeOK
<1>10. QED
  BY <1>1, <1>4, <1>9 DEF IInv, NeverComplete

\* ~Writer returns the one element it owns (writer.cpp:60-65).
LEMMA CloseKeeps ==
  ASSUME IInv, NEW w \in Writers, Close(w)
  PROVE  SemInv' /\ Places' /\ NeverComplete'
<1>1. /\ pc[w] \in {"fill", "ready"} /\ w \in Procs /\ WriterOK(w)
      /\ SemPost(w, elem[w], Elements)
      /\ UNCHANGED <<complete, idx, prev>>
      /\ pc' = [pc EXCEPT ![w] = "closed"] /\ pc'[w] = "closed"
      /\ elem' = [elem EXCEPT ![w] = None] /\ elem'[w] = None
  BY WritersAssumption DEF Close, PostAll, shared, IInv, TypeOK, Places
<1>2. elem[w] \in Index /\ prev[w] = None /\ undo[w][elem[w]] = Elements
  BY <1>1 DEF WriterOK, Owned, IInv, TypeOK
<1>3. SemInv'
  BY <1>1, <1>2, PostKeeps, ElementsAssumption DEF IInv
<1>4. WriterOK(w)'
  BY <1>1, <1>2 DEF WriterOK, Owned
<1>5. \A p \in Procs \ {w} : pc'[p] = pc[p] /\ undo'[p] = undo[p] /\ elem'[p] = elem[p]
  BY <1>1 DEF IInv, TypeOK, SemPost
<1>6. Places'
  BY <1>1, <1>4, <1>5, WriterPlaces
<1>7. QED
  BY <1>1, <1>3, <1>6 DEF IInv, NeverComplete

\* SEM_UNDO returns what a dead writer's record says, at whatever point it died.
LEMMA CrashWriterKeeps ==
  ASSUME IInv, NEW w \in Writers, CrashWriter(w)
  PROVE  SemInv' /\ Places' /\ NeverComplete'
<1>1. /\ w \in Procs /\ SemExit(w) /\ UNCHANGED <<complete, idx>>
      /\ pc' = [pc EXCEPT ![w] = "closed"] /\ pc'[w] = "closed"
      /\ elem' = [elem EXCEPT ![w] = None] /\ elem'[w] = None
      /\ prev' = [prev EXCEPT ![w] = None] /\ prev'[w] = None
  BY WritersAssumption DEF CrashWriter, shared, IInv, TypeOK
<1>2. SemInv'
  BY <1>1, ExitKeeps DEF IInv
<1>3. WriterOK(w)'
  BY <1>1 DEF WriterOK, Owned
<1>4. \A p \in Procs \ {w} : pc'[p] = pc[p] /\ undo'[p] = undo[p] /\ elem'[p] = elem[p]
  BY <1>1 DEF IInv, TypeOK, SemExit
<1>5. Places'
  BY <1>1, <1>3, <1>4, WriterPlaces DEF IInv, TypeOK
<1>6. QED
  BY <1>1, <1>2, <1>5 DEF IInv, NeverComplete

-----------------------------------------------------------------------------
\* The same for the actions of a reader.

\* Opening, reading current_index and testing it move no unit.
LEMMA LookKeeps ==
  ASSUME IInv, NEW r \in Readers, OpenReader(r) \/ Load(r) \/ Check(r)
  PROVE  SemInv' /\ Places' /\ NeverComplete'
<1>1. /\ r \in Procs /\ ReaderOK(r)
      /\ UNCHANGED <<sem, undo, complete, elem, prev>>
  BY DEF OpenReader, Load, Check, semVars, shared, IInv, Places, Readers
<1>2. SemInv' /\ NeverComplete'
  BY <1>1, SemFrame DEF IInv, NeverComplete, semVars
<1>3. ReaderOK(r)'
  <2>1. CASE OpenReader(r)
    BY <1>1, <2>1 DEF OpenReader, Goto, ReaderOK, IInv, TypeOK
  <2>2. CASE Load(r)
    BY <1>1, <2>2 DEF Load, Goto, ReaderOK, IInv, TypeOK
  <2>3. CASE Check(r)
    BY <1>1, <2>3 DEF Check, Goto, ReaderOK, IInv, TypeOK
  <2>4. QED
    BY <2>1, <2>2, <2>3
<1>4. \A p \in Procs \ {r} : pc'[p] = pc[p] /\ idx'[p] = idx[p]
  BY DEF OpenReader, Load, Check, Goto, IInv, TypeOK
<1>5. QED
  BY <1>1, <1>2, <1>3, <1>4, ReaderPlaces

\* A reader that gets a unit shows that no writer has all of that element.
LEMMA WaitReaderKeeps ==
  ASSUME IInv, NEW r \in Readers, Wait(r)
  PROVE  SemInv' /\ Places' /\ NeverComplete'
<1>1. /\ r \in Procs /\ idx[r] \in Index /\ SemWait(r, idx[r], 1)
      /\ UNCHANGED <<complete, idx, prev>>
      /\ pc' = [pc EXCEPT ![r] = "check"] /\ pc'[r] = "check"
      /\ elem' = [elem EXCEPT ![r] = idx[r]] /\ elem'[r] = idx[r]
  BY DEF Wait, WaitOne, Goto, shared, IInv, TypeOK, Readers
<1>2. 1 \in 1 .. Elements
  BY ElementsAssumption
<1>3. SemInv' /\ undo'[r][idx[r]] = undo[r][idx[r]] + 1
  BY <1>1, <1>2, WaitKeeps DEF IInv
<1>4. undo[r][idx[r]] \in Nat
  BY <1>1, ElementsAssumption DEF IInv, SemInv, SemType
<1>5. ReaderOK(r)'
  BY <1>1, <1>3, <1>4 DEF ReaderOK
<1>6. \A p \in Procs \ {r} : pc'[p] = pc[p] /\ undo'[p] = undo[p] /\ elem'[p] = elem[p]
  BY <1>1 DEF IInv, TypeOK, SemWait
<1>7. QED
  BY <1>1, <1>3, <1>5, <1>6, ReaderPlaces DEF IInv, NeverComplete

\* A reader returns the unit it took, whether it accepted the element or not
\* (databuffer.cpp:137, 192).
LEMMA ReleaseReadKeeps ==
  ASSUME IInv, NEW r \in Readers, GiveBack(r) \/ UpdateReader(r)
  PROVE  SemInv' /\ Places' /\ NeverComplete'
<1>1. /\ r \in Procs /\ ReaderOK(r) /\ pc[r] \in {"giveback", "hold"}
      /\ SemPost(r, elem[r], 1)
      /\ UNCHANGED <<complete, idx, prev>>
      /\ pc' = [pc EXCEPT ![r] = "load"] /\ pc'[r] = "load"
      /\ elem' = [elem EXCEPT ![r] = None] /\ elem'[r] = None
  BY DEF GiveBack, UpdateReader, ReleaseRead, PostOne, Goto, shared, IInv, TypeOK, Places, Readers
<1>2. elem[r] = idx[r] /\ elem[r] \in Index /\ elem[r] # None
  BY <1>1 DEF ReaderOK, IInv, TypeOK, Index, None
<1>3. undo[r][elem[r]] >= 1
  BY <1>1, <1>2 DEF ReaderOK
<1>4. 1 \in 1 .. Elements
  BY ElementsAssumption
<1>5. SemInv'
  BY <1>1, <1>2, <1>3, <1>4, PostKeeps DEF IInv
<1>6. ReaderOK(r)'
  BY <1>1 DEF ReaderOK
<1>7. \A p \in Procs \ {r} : pc'[p] = pc[p] /\ undo'[p] = undo[p] /\ elem'[p] = elem[p]
  BY <1>1 DEF IInv, TypeOK, SemPost
<1>8. QED
  BY <1>1, <1>5, <1>6, <1>7, ReaderPlaces DEF IInv, NeverComplete

\* A dropped reader's units stay on its process's record: the accounts balance.
LEMMA DropKeeps ==
  ASSUME IInv, NEW r \in Readers, Drop(r)
  PROVE  SemInv' /\ Places' /\ NeverComplete'
<1>1. /\ r \in Procs /\ UNCHANGED <<sem, undo, complete, idx, prev>>
      /\ pc' = [pc EXCEPT ![r] = "closed"] /\ pc'[r] = "closed"
      /\ elem' = [elem EXCEPT ![r] = None] /\ elem'[r] = None
  BY DEF Drop, Goto, shared, semVars, IInv, TypeOK, Readers
<1>2. SemInv'
  BY <1>1, SemFrame DEF IInv, semVars
<1>3. ReaderOK(r)'
  BY <1>1 DEF ReaderOK
<1>4. \A p \in Procs \ {r} : pc'[p] = pc[p] /\ elem'[p] = elem[p]
  BY <1>1 DEF IInv, TypeOK
<1>5. QED
  BY <1>1, <1>2, <1>3, <1>4, ReaderPlaces DEF IInv, NeverComplete

\* SEM_UNDO returns a dead process's units, those of readers it dropped included.
LEMMA CrashReaderKeeps ==
  ASSUME IInv, NEW r \in Readers, CrashReader(r)
  PROVE  SemInv' /\ Places' /\ NeverComplete'
<1>1. /\ r \in Procs /\ SemExit(r) /\ UNCHANGED <<complete, idx, prev>>
      /\ pc' = [pc EXCEPT ![r] = "closed"] /\ pc'[r] = "closed"
      /\ elem' = [elem EXCEPT ![r] = None] /\ elem'[r] = None
  BY DEF CrashReader, shared, IInv, TypeOK, Readers
<1>2. SemInv'
  BY <1>1, ExitKeeps DEF IInv
<1>3. ReaderOK(r)'
  BY <1>1 DEF ReaderOK
<1>4. \A p \in Procs \ {r} : pc'[p] = pc[p] /\ undo'[p] = undo[p] /\ elem'[p] = elem[p]
  BY <1>1 DEF IInv, TypeOK, SemExit
<1>5. QED
  BY <1>1, <1>2, <1>3, <1>4, ReaderPlaces DEF IInv, NeverComplete

\* Without a budget for interrupts, no interrupted wait is a step.
LEMMA NeverInterrupted ==
  ASSUME NoInterrupts, TypeOK, Fault("interrupt")
  PROVE  FALSE
BY DEF NoInterrupts, TypeOK, Fault, FaultKinds

\* Every step preserves the invariant.
LEMMA NextIInv ==
  ASSUME NoInterrupts, IInv, [Next]_vars
  PROVE  IInv'
<1>1. TypeOK'
  <2>1. CASE UNCHANGED vars
    BY <2>1 DEF vars, TypeOK, IInv
  <2>2. CASE Next
    BY <2>2, WriterStepTypeOK, ReaderStepTypeOK, FaultTypeOK DEF Next, IInv
  <2>3. QED
    BY <2>1, <2>2
<1>2. ASSUME NEW w \in Writers, WriterStep(w)
      PROVE  SemInv' /\ Places' /\ NeverComplete'
  BY <1>2, SearchKeeps, FillKeeps, TakeKeeps, ClaimKeeps, ReleaseKeeps DEF WriterStep
<1>3. ASSUME NEW w \in Writers, WriterFault(w)
      PROVE  SemInv' /\ Places' /\ NeverComplete'
  BY <1>3, CloseKeeps, CrashWriterKeeps, NeverInterrupted DEF WriterFault, TakeInterrupted, IInv
<1>4. ASSUME NEW r \in Readers, ReaderStep(r)
      PROVE  SemInv' /\ Places' /\ NeverComplete'
  BY <1>4, LookKeeps, WaitReaderKeeps, ReleaseReadKeeps DEF ReaderStep
<1>5. ASSUME NEW r \in Readers, ReaderFault(r)
      PROVE  SemInv' /\ Places' /\ NeverComplete'
  BY <1>5, DropKeeps, CrashReaderKeeps, NeverInterrupted DEF ReaderFault, WaitInterrupted, IInv
<1>6. CASE UNCHANGED vars
  <2>1. SemInv' /\ NeverComplete'
    BY <1>6, SemFrame DEF vars, semVars, IInv, NeverComplete
  <2>2. Places'
    BY <1>6, WriterFrame, ReaderFrame DEF vars, IInv, Places, Readers
  <2>3. QED
    BY <1>1, <2>1, <2>2 DEF IInv
<1>7. QED
  BY <1>1, <1>2, <1>3, <1>4, <1>5, <1>6 DEF Next, IInv

\* The invariant from which the safety theorems follow.
THEOREM Invariance ==
  ASSUME NoInterrupts
  PROVE  Spec => []IInv
BY InitIInv, NextIInv, PTL DEF Spec

-----------------------------------------------------------------------------
\* The safety theorems.

\* No process ever touches an element a writer owns: waitAll and wait on one
\* semaphore exclude each other across searches, crashes and leaked units
\* (databuffer.cpp:126, 154, 170, 182, 192).
THEOREM MutualExclusion ==
  ASSUME NoInterrupts
  PROVE  Spec => []Exclusion
BY Invariance, IInvExclusion, PTL

\* A semaphore's value and the units on the kernel's records always add up to
\* the number of elements (semaphore_interface.cpp:107-131).
THEOREM Conservation ==
  ASSUME NoInterrupts
  PROVE  Spec => []UnitsConserved
<1>1. IInv => UnitsConserved
  BY DEF IInv, SemInv
<1>2. QED
  BY <1>1, Invariance, PTL

\* What a reader works on is left alone: the only steps that write an element
\* are those of its owner (databuffer.cpp:155-157, writer.cpp:91-113).
THEOREM Stability ==
  ASSUME NoInterrupts
  PROVE  Spec => StableWhileHeld
<1> DEFINE Kept == \A r \in Readers :
                     pc[r] = "hold" /\ pc'[r] = "hold" => data'[elem[r]] = data[elem[r]]
<1>1. ASSUME IInv, [Next]_vars, NEW r \in Readers, pc[r] = "hold"
      PROVE  data'[elem[r]] = data[elem[r]]
  <2>1. elem[r] \in Owned(r) /\ r \in Procs /\ elem[r] \in Index
    BY <1>1 DEF IInv, TypeOK, Places, ReaderOK, Owned, Readers, Index, None
  <2>2. ASSUME NEW w \in Writers
        PROVE  elem[r] \notin Owned(w)
    BY <1>1, <2>1, IInvExclusion, WritersAssumption DEF Exclusion, Readers
  <2>3. ASSUME NEW w \in Writers, Fill(w)
        PROVE  data'[elem[r]] = data[elem[r]]
    <3>1. elem[w] \in Owned(w)
      BY <1>1, <2>3 DEF Fill, Goto, IInv, Places, WriterOK, Owned
    <3>2. elem[w] # elem[r]
      BY <2>2, <3>1
    <3>3. QED
      BY <1>1, <2>1, <2>3, <3>2 DEF Fill, IInv, TypeOK
  <2>4. ASSUME NEW w \in Writers, Claim(w)
        PROVE  data'[elem[r]] = data[elem[r]]
    <3>1. idx[w] \in Owned(w)
      BY <1>1, <2>4 DEF Claim, Goto, IInv, TypeOK, Owned, Index, None
    <3>2. idx[w] # elem[r]
      BY <2>2, <3>1
    <3>3. QED
      BY <1>1, <2>1, <2>4, <3>2 DEF Claim, IInv, TypeOK
  <2>5. ASSUME NEW w \in Writers, Close(w) \/ CrashWriter(w)
        PROVE  data'[elem[r]] = data[elem[r]]
    <3>1. elem[w] # elem[r]
      BY <2>1, <2>2 DEF Owned, Index, None
    <3>2. Abandon(w)
      BY <2>5 DEF Close, CrashWriter
    <3>3. QED
      BY <2>1, <3>1, <3>2 DEF Abandon
  <2>6. \/ UNCHANGED data
        \/ \E w \in Writers : Fill(w) \/ Claim(w) \/ Close(w) \/ CrashWriter(w)
    BY <1>1 DEF Next, WriterStep, ReaderStep, WriterFault, ReaderFault, vars, shared,
                OpenWriter, Update, Probe, Retest, Fallback, Take, Release, Close,
                CrashWriter, TakeInterrupted, OpenReader, Load, Wait, Check, GiveBack,
                UpdateReader, Drop, CrashReader, WaitInterrupted
  <2>7. QED
    BY <2>3, <2>4, <2>5, <2>6
<1>2. IInv /\ [Next]_vars => [Kept]_vars
  BY <1>1
<1>3. QED
  BY <1>2, Invariance, PTL DEF Spec, StableWhileHeld

-----------------------------------------------------------------------------
\* What readers are handed.

\* The steps that store current_index or write an element, and the rest.
LEMMA StoresAndWrites ==
  ASSUME [Next]_vars
  PROVE  /\ UNCHANGED current \/ \E w \in Writers : Claim(w)
         /\ \/ UNCHANGED data
            \/ \E w \in Writers : Fill(w) \/ Claim(w) \/ Abandon(w)
BY DEF Next, WriterStep, ReaderStep, WriterFault, ReaderFault, vars, shared,
       OpenWriter, Fill, Update, Probe, Retest, Fallback, Take, Release, Close,
       CrashWriter, TakeInterrupted, OpenReader, Load, Wait, Check, GiveBack,
       UpdateReader, Drop, CrashReader, WaitInterrupted

\* What a step does to one reader: nothing, or one of its own actions.
LEMMA ReaderMoves ==
  ASSUME TypeOK, [Next]_vars, NEW r \in Readers
  PROVE  \/ pc'[r] = pc[r] /\ idx'[r] = idx[r] /\ elem'[r] = elem[r]
         \/ ReaderStep(r)
         \/ ReaderFault(r)
<1>1. ASSUME NEW w \in Writers, WriterStep(w) \/ WriterFault(w)
      PROVE  pc'[r] = pc[r] /\ idx'[r] = idx[r] /\ elem'[r] = elem[r]
  BY <1>1, WritersAssumption
     DEF WriterStep, WriterFault, OpenWriter, Fill, Update, Probe, Retest, Fallback, Take,
         Claim, Release, Close, CrashWriter, TakeInterrupted, ScanFrom, Goto, shared,
         TypeOK, Readers
<1>2. ASSUME NEW q \in Readers, ReaderStep(q) \/ ReaderFault(q), q # r
      PROVE  pc'[r] = pc[r] /\ idx'[r] = idx[r] /\ elem'[r] = elem[r]
  BY <1>2
     DEF ReaderStep, ReaderFault, OpenReader, Load, Wait, Check, GiveBack, UpdateReader,
         ReleaseRead, Drop, CrashReader, WaitInterrupted, Goto, shared, TypeOK, Readers
<1>3. CASE UNCHANGED vars
  BY <1>3 DEF vars
<1>4. QED
  BY <1>1, <1>2, <1>3 DEF Next

\* The element readers are sent to is never the one a reader works on: it was
\* not at the test of line 130, and who stores another takes all its units first.
THEOREM NewestLeftAlone ==
  ASSUME NoInterrupts
  PROVE  Spec => []NeverHoldsCurrent
<1>1. Init => NeverHoldsCurrent
  BY DEF Init, NeverHoldsCurrent, Readers
<1>2. ASSUME IInv, NeverHoldsCurrent, [Next]_vars
      PROVE  NeverHoldsCurrent'
  <2> SUFFICES ASSUME NEW r \in Readers, pc'[r] = "hold"
               PROVE  elem'[r] # current'
    BY DEF NeverHoldsCurrent
  <2>1. CASE UNCHANGED current
    <3>1. CASE pc'[r] = pc[r] /\ idx'[r] = idx[r] /\ elem'[r] = elem[r]
      BY <1>2, <2>1, <3>1 DEF NeverHoldsCurrent
    <3>2. CASE Check(r)
      <4>1. ~Refused(r) /\ UNCHANGED elem
        BY <1>2, <3>2 DEF Check, Goto, IInv, TypeOK, Readers
      <4>2. pc[r] = "check" /\ elem[r] = idx[r]
        BY <1>2, <3>2 DEF Check, Goto, IInv, Places, ReaderOK
      <4>3. idx[r] # current
        BY <1>2, <4>1 DEF Refused, IInv, TypeOK, NeverComplete
      <4>4. QED
        BY <2>1, <4>1, <4>2, <4>3
    <3>3. CASE (ReaderStep(r) \/ ReaderFault(r)) /\ ~Check(r)
      BY <1>2, <3>3 DEF ReaderStep, ReaderFault, OpenReader, Load, Wait, GiveBack, UpdateReader,
                        Drop, CrashReader, WaitInterrupted, Goto, IInv, TypeOK, Readers
    <3>4. QED
      BY <1>2, <3>1, <3>2, <3>3, ReaderMoves DEF IInv
  <2>2. ASSUME NEW w \in Writers, Claim(w)
        PROVE  elem'[r] # current'
    <3>1. current' = idx[w] /\ elem'[r] = elem[r] /\ pc[r] = "hold"
      BY <1>2, <2>2, WritersAssumption DEF Claim, Goto, IInv, TypeOK, Readers
    <3>2. idx[w] \in Owned(w)
      BY <1>2, <2>2 DEF Claim, Goto, Owned, IInv, TypeOK, Index, None
    <3>3. elem[r] \in Owned(r)
      BY <1>2, <3>1 DEF IInv, TypeOK, Places, ReaderOK, Owned, Readers, Index, None
    <3>4. Owned(w) \cap Owned(r) = {}
      BY <1>2, IInvExclusion DEF Exclusion, Readers
    <3>5. QED
      BY <3>1, <3>2, <3>3, <3>4
  <2>3. QED
    BY <1>2, <2>1, <2>2, StoresAndWrites
<1>3. QED
  <2>1. Spec => []IInv
    BY Invariance
  <2>2. IInv /\ NeverHoldsCurrent /\ [Next]_vars => NeverHoldsCurrent'
    BY <1>2
  <2>3. QED
    BY <1>1, <2>1, <2>2, PTL DEF Spec

\* Why a reader is handed whole frames: an element half written has a writer at
\* work on it, and readers are only ever sent where a writer has been.
FrameInv ==
  /\ \A i \in Index : data[i] = "partial" =>
       \E w \in Writers : elem[w] = i /\ pc[w] \in {"fill", "release"}
  /\ current = 0 \/ data[current] # "blank"
  /\ \A r \in Readers : idx[r] = 0 \/ data[idx[r]] # "blank"

\* An element is partial only while a writer is at it; one that ends leaves it marked.
LEMMA PartialKept ==
  ASSUME IInv, FrameInv, [Next]_vars, NEW i \in Index, data'[i] = "partial"
  PROVE  \E w \in Writers : elem'[w] = i /\ pc'[w] \in {"fill", "release"}
<1>1. ASSUME NEW w \in Writers, Claim(w), i = idx[w]
      PROVE  elem'[w] = i /\ pc'[w] \in {"fill", "release"}
  BY <1>1, WritersAssumption DEF Claim, Goto, IInv, TypeOK
<1>2. ASSUME ~ \E w \in Writers : Claim(w) /\ i = idx[w]
      PROVE  \E w \in Writers : elem'[w] = i /\ pc'[w] \in {"fill", "release"}
  <2>1. data[i] = "partial"
    BY <1>2, StoresAndWrites DEF Fill, Claim, Abandon, IInv, TypeOK
  <2>2. PICK v \in Writers : elem[v] = i /\ pc[v] \in {"fill", "release"}
    BY <2>1 DEF FrameInv
  <2>3. ~Fill(v)
    BY <2>2 DEF Fill, IInv, TypeOK
  <2>4. ~Close(v) /\ ~CrashWriter(v)
    BY <2>1, <2>2 DEF Close, CrashWriter, Abandon
  <2>5. CASE Release(v)
    BY <2>2, <2>5, WritersAssumption DEF Release, Goto, shared, IInv, TypeOK
  <2>6. CASE ~Close(v) /\ ~CrashWriter(v) /\ ~Release(v)
    <3>1. elem'[v] = elem[v] /\ pc'[v] = pc[v]
      <4>1. ASSUME NEW w \in Writers, WriterStep(w) \/ WriterFault(w)
            PROVE  elem'[v] = elem[v] /\ pc'[v] = pc[v]
        BY <2>2, <2>3, <2>6, <4>1, WritersAssumption
           DEF WriterStep, WriterFault, OpenWriter, Fill, Update, Probe, Retest, Fallback,
               Take, Claim, Release, Close, CrashWriter, TakeInterrupted, ScanFrom, Goto,
               shared, IInv, TypeOK
      <4>2. ASSUME NEW q \in Readers, ReaderStep(q) \/ ReaderFault(q)
            PROVE  elem'[v] = elem[v] /\ pc'[v] = pc[v]
        <5>1. q # v
          BY <4>2 DEF Readers
        <5>2. QED
          BY <4>2, <5>1, WritersAssumption
             DEF ReaderStep, ReaderFault, OpenReader, Load, Wait, Check, GiveBack,
                 UpdateReader, ReleaseRead, Drop, CrashReader, WaitInterrupted, Goto,
                 shared, IInv, TypeOK
      <4>3. QED
        BY <4>1, <4>2 DEF Next, vars
    <3>2. QED
      BY <2>2, <3>1
  <2>7. QED
    BY <2>4, <2>5, <2>6
<1>3. QED
  BY <1>1, <1>2

\* An element that has been written stays written.
LEMMA WrittenStays ==
  ASSUME TypeOK, [Next]_vars, NEW i \in Index, data[i] # "blank"
  PROVE  data'[i] # "blank"
BY StoresAndWrites DEF Fill, Claim, Abandon, TypeOK

\* Readers are sent to element 0 or to one a writer has stored, at every step.
LEMMA FrameInvStep ==
  ASSUME IInv, FrameInv, [Next]_vars
  PROVE  FrameInv'
<1>1. current' = 0 \/ data'[current'] # "blank"
  <2>1. CASE UNCHANGED current
    <3>1. current \in Index
      BY DEF IInv, TypeOK
    <3>2. QED
      BY <2>1, <3>1, WrittenStays DEF FrameInv, IInv
  <2>2. ASSUME NEW w \in Writers, Claim(w)
        PROVE  data'[current'] # "blank"
    BY <2>2 DEF Claim, Goto, IInv, TypeOK
  <2>3. QED
    BY <2>1, <2>2, StoresAndWrites
<1>2. ASSUME NEW r \in Readers
      PROVE  idx'[r] = 0 \/ data'[idx'[r]] # "blank"
  <2>1. idx[r] \in Index /\ current \in Index
    BY DEF IInv, TypeOK
  <2>2. idx'[r] = idx[r] \/ idx'[r] = current
    <3>1. CASE ReaderStep(r) \/ ReaderFault(r)
      BY <3>1 DEF ReaderStep, ReaderFault, OpenReader, Load, Wait, Check, GiveBack, UpdateReader,
                  Drop, CrashReader, WaitInterrupted, IInv, TypeOK, Readers
    <3>2. QED
      BY <3>1, ReaderMoves DEF IInv
  <2>3. QED
    BY <2>1, <2>2, WrittenStays DEF FrameInv, IInv
<1>3. QED
  BY <1>1, <1>2, PartialKept DEF FrameInv

\* A reader is handed a frame its writer finished, except element 0, which is current
\* before any writer has come (databuffer.cpp:61, 130), and an element whose writer died
\* or was destroyed in the middle of it, for as long as no other takes it.
THEOREM WholeFrames ==
  ASSUME NoInterrupts
  PROVE  Spec => []HandsOutWholeFrames
<1>1. Init => FrameInv
  BY DEF Init, FrameInv, Readers
<1>2. IInv /\ FrameInv /\ [Next]_vars => FrameInv'
  BY FrameInvStep
<1>3. ASSUME IInv, FrameInv
      PROVE  HandsOutWholeFrames
  <2> SUFFICES ASSUME NEW r \in Readers, pc[r] = "hold", data[elem[r]] \notin {"whole", "left"}
               PROVE  data[elem[r]] = "blank" /\ elem[r] = 0
    BY DEF HandsOutWholeFrames
  <2>1. elem[r] = idx[r] /\ elem[r] \in Index
    BY <1>3 DEF IInv, Places, ReaderOK, TypeOK
  <2>2. elem[r] \in Owned(r) /\ r \in Procs
    BY <2>1 DEF Owned, Readers, Index, None
  <2>3. data[elem[r]] # "partial"
    <3>1. ASSUME NEW w \in Writers, elem[w] = elem[r]
          PROVE  FALSE
      <4>1. elem[r] \in Owned(w)
        BY <2>1, <3>1 DEF Owned, Index, None
      <4>2. QED
        BY <1>3, <2>2, <4>1, IInvExclusion DEF Exclusion, Readers
    <3>2. QED
      BY <1>3, <2>1, <3>1 DEF FrameInv
  <2>4. data[elem[r]] = "blank"
    BY <1>3, <2>1, <2>3 DEF IInv, TypeOK, Payload
  <2>5. QED
    BY <1>3, <2>1, <2>4 DEF FrameInv
<1>4. QED
  <2>1. Spec => []IInv
    BY Invariance
  <2>2. Spec => []FrameInv
    BY <1>1, <1>2, <2>1, PTL DEF Spec
  <2>3. IInv /\ FrameInv => HandsOutWholeFrames
    BY <1>3
  <2>4. QED
    BY <2>1, <2>2, <2>3, PTL

-----------------------------------------------------------------------------
\* The search of a single writer, the arrangement the library is written for.

\* At most one process writes (two Writer objects of one stream would search from
\* a current_index that either of them moves).
Alone == \A v, w \in Writers : v = w

Searching == {"probe", "retest", "fallback"}

\* While it owns anything, a single writer owns the current element and the search
\* runs through the others, once around the ring.
SearchOK(w) ==
  /\ elem[w] \in {None, current}
  /\ pc[w] = "closed" => elem[w] = None /\ prev[w] = None
  /\ pc[w] \in {"fill", "ready"} => prev[w] = None
  /\ pc[w] \in Searching \cup {"take", "claim"} => prev[w] = elem[w]
  /\ pc[w] \in {"probe", "retest"} => idx[w] \in current + 1 .. current + Elements - 1
  /\ pc[w] = "fallback" => idx[w] = current + Elements
  /\ pc[w] \in {"take", "claim"} => idx[w] # current

SearchInv == \A w \in Writers : SearchOK(w)

\* The value of the loop variable at which the search looks at element i.
VisitedAt(i) == IF i > current THEN i ELSE i + Elements

\* A remainder below twice the divisor (the loop variable stays below that).
LEMMA SmallRemainder ==
  ASSUME NEW m \in Nat \ {0}, NEW x \in 0 .. 2 * m - 1
  PROVE  x % m = IF x < m THEN x ELSE x - m
<1>1. CASE x < m
  BY <1>1
<1>2. CASE x >= m /\ x < 2 * m
  BY <1>2
<1>3. QED
  BY <1>1, <1>2

\* The search visits each element but the current one exactly once, and reduces
\* the loop variable to its index (databuffer.cpp:148-150).
LEMMA Visits ==
  ASSUME current \in Index, NEW x \in current + 1 .. current + Elements - 1
  PROVE  /\ x % Elements \in Index \ {current}
         /\ \A i \in Index : VisitedAt(i) = x <=> i = x % Elements
<1>1. Elements \in Nat \ {0} /\ current \in 0 .. Elements - 1 /\ x \in 0 .. 2 * Elements - 1
  BY ElementsAssumption DEF Index
<1>2. x % Elements = IF x < Elements THEN x ELSE x - Elements
  BY <1>1, SmallRemainder
<1>3. QED
  BY <1>1, <1>2 DEF VisitedAt, Index

\* The element picked when the search fails is not the current one either, a ring
\* having two elements at least (databuffer.cpp:168).
LEMMA NextIsOther ==
  ASSUME current \in Index
  PROVE  (current + 1) % Elements # current
<1>1. current + 1 \in current + 1 .. current + Elements - 1
  BY ElementsAssumption DEF Index
<1>2. QED
  BY <1>1, Visits

\* What the steps of others leave to a single writer.
LEMMA LeftAlone ==
  ASSUME Alone, TypeOK, [Next]_vars, NEW w \in Writers
  PROVE  \/ WriterStep(w) \/ WriterFault(w)
         \/ /\ UNCHANGED <<current, prev>>
            /\ pc'[w] = pc[w] /\ idx'[w] = idx[w] /\ elem'[w] = elem[w] /\ undo'[w] = undo[w]
<1>1. ASSUME NEW r \in Readers, ReaderStep(r) \/ ReaderFault(r)
      PROVE  /\ UNCHANGED <<current, prev>>
             /\ pc'[w] = pc[w] /\ idx'[w] = idx[w] /\ elem'[w] = elem[w] /\ undo'[w] = undo[w]
  <2>1. r # w /\ w \in Procs
    BY WritersAssumption DEF Readers
  <2>2. QED
    BY <1>1, <2>1
       DEF ReaderStep, ReaderFault, OpenReader, Load, Wait, Check, GiveBack, UpdateReader,
           ReleaseRead, Drop, CrashReader, WaitInterrupted, Goto, shared, semVars, WaitOne,
           PostOne, SemWait, SemPost, SemExit, SemWaitFails, TypeOK
<1>2. CASE UNCHANGED vars
  BY <1>2 DEF vars
<1>3. QED
  BY <1>1, <1>2 DEF Next, Alone

\* The test of the loop sends the writer to an element it has not visited, or out
\* of the loop after the last one.
LEMMA ScanFromOK ==
  ASSUME TypeOK, NEW w \in Writers,
         NEW x \in current + 1 .. current + Elements, ScanFrom(w, x),
         UNCHANGED <<current, elem>>,
         elem[w] \in {None, current}, prev'[w] = elem[w]
  PROVE  SearchOK(w)'
<1>1. w \in Procs
  BY WritersAssumption
<1>2. idx'[w] = x /\ pc'[w] = IF x < Elements + current THEN "probe" ELSE "fallback"
  BY <1>1 DEF ScanFrom, TypeOK
<1>3. current \in Nat /\ Elements \in Nat
  BY ElementsAssumption DEF TypeOK, Index
<1>4. CASE x < Elements + current
  <2>1. x \in current + 1 .. current + Elements - 1
    BY <1>3, <1>4
  <2>2. QED
    BY <1>2, <1>4, <2>1 DEF SearchOK, Searching
<1>5. CASE ~(x < Elements + current)
  <2>1. x = current + Elements
    BY <1>3, <1>5
  <2>2. QED
    BY <1>2, <1>5, <2>1 DEF SearchOK, Searching
<1>6. QED
  BY <1>4, <1>5

\* The search never comes back to the element its writer owns.
LEMMA SearchStepOK ==
  ASSUME TypeOK, NEW w \in Writers, SearchOK(w), WriterStep(w)
  PROVE  SearchOK(w)'
<1>1. w \in Procs /\ current \in Index /\ current \in Nat /\ Elements \in Nat /\ Elements >= 2
  BY WritersAssumption, ElementsAssumption DEF TypeOK, Index
<1>2. current + 1 \in current + 1 .. current + Elements
  BY <1>1
<1>3. CASE OpenWriter(w)
  <2>1. ScanFrom(w, current + 1) /\ UNCHANGED <<current, elem>> /\ prev'[w] = elem[w]
    BY <1>3 DEF OpenWriter, SearchOK, shared
  <2>2. QED
    BY <1>2, <2>1, ScanFromOK DEF SearchOK
<1>4. CASE Fill(w)
  BY <1>1, <1>4 DEF Fill, Goto, SearchOK, Searching, TypeOK
<1>5. CASE Update(w)
  <2>1. ScanFrom(w, current + 1) /\ UNCHANGED <<current, elem>> /\ prev'[w] = elem[w]
    BY <1>5 DEF Update, shared, TypeOK
  <2>2. QED
    BY <1>2, <2>1, ScanFromOK DEF SearchOK
<1>6. CASE Probe(w)
  <2>1. UNCHANGED <<current, elem, prev>> /\ pc[w] = "probe"
    BY <1>6 DEF Probe, Goto, shared
  <2>2. CASE pc'[w] = "take" /\ idx'[w] = idx[w] % Elements
    <3>1. idx[w] % Elements # current
      BY <1>1, <2>1, Visits DEF SearchOK
    <3>2. QED
      BY <2>1, <2>2, <3>1 DEF SearchOK, Searching
  <2>3. CASE pc'[w] = "retest" /\ idx'[w] = idx[w]
    BY <2>1, <2>3 DEF SearchOK, Searching
  <2>4. QED
    BY <1>1, <1>6, <2>2, <2>3 DEF Probe, Goto, TypeOK
<1>7. CASE Retest(w)
  <2>1. /\ ScanFrom(w, idx[w] + 1) /\ UNCHANGED <<current, elem, prev>>
        /\ pc[w] = "retest"
    BY <1>7 DEF Retest, shared
  <2>2. idx[w] + 1 \in current + 1 .. current + Elements /\ prev'[w] = elem[w]
    BY <1>1, <2>1 DEF SearchOK, Searching
  <2>3. QED
    BY <2>1, <2>2, ScanFromOK DEF SearchOK
<1>8. CASE Fallback(w)
  <2>1. /\ UNCHANGED <<current, elem, prev>> /\ pc[w] = "fallback" /\ pc'[w] = "take"
        /\ idx'[w] = (current + 1) % Elements
    BY <1>1, <1>8 DEF Fallback, Goto, shared, TypeOK
  <2>2. QED
    BY <1>1, <2>1, NextIsOther DEF SearchOK, Searching
<1>9. CASE Take(w)
  BY <1>1, <1>9 DEF Take, Goto, shared, SearchOK, Searching, TypeOK
<1>10. CASE Claim(w)
  BY <1>1, <1>10 DEF Claim, Goto, SearchOK, Searching, TypeOK
<1>11. CASE Release(w)
  BY <1>1, <1>11 DEF Release, Goto, shared, SearchOK, Searching, TypeOK
<1>12. QED
  BY <1>3, <1>4, <1>5, <1>6, <1>7, <1>8, <1>9, <1>10, <1>11 DEF WriterStep

\* Nor does a writer's end or an interrupted wait bring it there.
LEMMA SearchFaultOK ==
  ASSUME TypeOK, NEW w \in Writers, SearchOK(w), WriterFault(w)
  PROVE  SearchOK(w)'
<1>1. w \in Procs
  BY WritersAssumption
<1>2. CASE Close(w)
  BY <1>1, <1>2 DEF Close, shared, SearchOK, Searching, TypeOK
<1>3. CASE CrashWriter(w)
  BY <1>1, <1>3 DEF CrashWriter, shared, SearchOK, Searching, TypeOK
<1>4. CASE TakeInterrupted(w)
  BY <1>1, <1>4 DEF TakeInterrupted, Goto, shared, SearchOK, Searching, TypeOK
<1>5. QED
  BY <1>2, <1>3, <1>4 DEF WriterFault

\* Every step keeps a single writer's search in order, interrupted waits included.
LEMMA SearchInvariant ==
  ASSUME Alone
  PROVE  Spec => []SearchInv
<1>1. Init => SearchInv
  BY WritersAssumption DEF Init, SearchInv, SearchOK, Searching
<1>2. ASSUME TypeOK, SearchInv, [Next]_vars
      PROVE  SearchInv'
  <2> SUFFICES ASSUME NEW w \in Writers
               PROVE  SearchOK(w)'
    BY DEF SearchInv
  <2>1. SearchOK(w)
    BY <1>2 DEF SearchInv
  <2>2. CASE WriterStep(w) \/ WriterFault(w)
    BY <1>2, <2>1, <2>2, SearchStepOK, SearchFaultOK
  <2>3. CASE /\ UNCHANGED <<current, prev>>
             /\ pc'[w] = pc[w] /\ idx'[w] = idx[w] /\ elem'[w] = elem[w]
    BY <2>1, <2>3 DEF SearchOK
  <2>4. QED
    BY <1>2, <2>2, <2>3, LeftAlone
<1>3. QED
  BY <1>1, <1>2, TypeCorrect, PTL DEF Spec

\* A single writer never waits for the element it holds, which no one else could
\* free: not when its search fails, and not after an interrupted wait has left the
\* values of the semaphores off (databuffer.cpp:148-170, writer.cpp:102-103).
THEOREM NoSelfWait ==
  ASSUME Alone
  PROVE  Spec => []NeverWaitsForItself
<1>1. ASSUME TypeOK, SearchInv
      PROVE  NeverWaitsForItself
  <2> SUFFICES ASSUME NEW w \in Writers, pc[w] = "take"
               PROVE  idx[w] \notin Owned(w)
    BY DEF NeverWaitsForItself
  <2>1. elem[w] \in {None, current} /\ prev[w] = elem[w] /\ idx[w] # current
    BY <1>1 DEF SearchInv, SearchOK
  <2>2. QED
    BY <2>1 DEF Owned
<1>2. QED
  BY <1>1, TypeCorrect, SearchInvariant, PTL

-----------------------------------------------------------------------------
\* Why the search succeeds.  The elements that can be found taken are those some
\* reader is at or has leaked a unit of, and while the search runs their number
\* never grows: a reader that moves on is sent to the current element, which the
\* search does not visit.

\* What a writer has on record is exactly what it owns.
Recorded == \A w \in Writers, i \in Index : undo[w][i] # 0 => i \in Owned(w)

\* The elements a reader's process holds a unit of that no Reader object releases.
Leaked == {i \in Index :
             \E r \in Readers : undo[r][i] > IF elem[r] = i THEN 1 ELSE 0}

LeakInv == Cardinality(Leaked) <= faults["drop"]

\* The elements the search has found taken.
Visited(w) ==
  {i \in Index \ {current} :
     VisitedAt(i) < IF pc[w] = "retest" THEN idx[w] + 1 ELSE idx[w]}

\* The elements that can be found taken.
Spots == (Leaked \cup {idx[r] : r \in Readers}) \ {current}

SeenInv ==
  \A w \in Writers : pc[w] \in Searching =>
    Cardinality(Visited(w) \cup Spots) <= Cardinality(Readers) + faults["drop"]

\* A record that a step leaves alone is still what its writer owns.
LEMMA RecordFrame ==
  ASSUME NEW w \in Writers, \A i \in Index : undo[w][i] # 0 => i \in Owned(w),
         undo'[w] = undo[w], Owned(w) \subseteq Owned(w)'
  PROVE  \A i \in Index : undo'[w][i] # 0 => i \in Owned(w)'
OBVIOUS

\* Every step of a writer keeps its record to what it owns.
LEMMA RecordStep ==
  ASSUME IInv, Recorded, NEW w \in Writers,
         WriterStep(w) \/ Close(w) \/ CrashWriter(w)
  PROVE  \A i \in Index : undo'[w][i] # 0 => i \in Owned(w)'
<1>1. w \in Procs /\ TypeOK /\ WriterOK(w)
  BY WritersAssumption DEF IInv, Places
<1>2. \A i \in Index : undo[w][i] # 0 => i \in Owned(w)
  BY DEF Recorded
<1>3. CASE OpenWriter(w) \/ Update(w) \/ Probe(w) \/ Retest(w) \/ Fallback(w)
  <2>1. /\ UNCHANGED <<undo, elem>> /\ pc[w] # "claim"
        /\ prev'[w] = prev[w] \/ prev[w] = None
    BY <1>1, <1>3 DEF OpenWriter, Update, Probe, Retest, Fallback, Goto, shared, semVars, WriterOK
  <2>2. Owned(w) \subseteq Owned(w)'
    BY <2>1 DEF Owned
  <2>3. QED
    BY <1>2, <2>1, <2>2, RecordFrame
<1>4. CASE Fill(w)
  <2>1. UNCHANGED <<undo, elem, prev, idx>> /\ pc[w] = "fill"
    BY <1>4 DEF Fill, Goto, semVars
  <2>2. Owned(w) \subseteq Owned(w)'
    BY <2>1 DEF Owned
  <2>3. QED
    BY <1>2, <2>1, <2>2, RecordFrame
<1>5. CASE Take(w)
  <2>1. /\ UNCHANGED <<elem, prev, idx>> /\ pc[w] = "take" /\ pc'[w] = "claim"
        /\ undo' = [undo EXCEPT ![w][idx[w]] = @ + Elements] /\ idx[w] \in Index
    BY <1>1, <1>5 DEF Take, WaitAll, SemWait, Goto, shared, TypeOK
  <2>2. Owned(w)' = Owned(w) \cup {idx[w]}
    BY <2>1 DEF Owned, Index, None
  <2>3. \A i \in Index : i # idx[w] => undo'[w][i] = undo[w][i]
    BY <1>1, <2>1 DEF TypeOK
  <2>4. QED
    BY <1>2, <2>2, <2>3
<1>6. CASE Claim(w)
  <2>1. /\ UNCHANGED <<undo, prev, idx>> /\ pc[w] = "claim" /\ elem'[w] = idx[w]
        /\ prev[w] = elem[w]
    BY <1>1, <1>6 DEF Claim, Goto, semVars, TypeOK, WriterOK
  <2>2. Owned(w) \subseteq Owned(w)'
    BY <2>1 DEF Owned
  <2>3. QED
    BY <1>2, <2>1, <2>2, RecordFrame
<1>7. CASE Release(w) \/ Close(w)
  <2> DEFINE j == IF pc[w] = "release" THEN prev[w] ELSE elem[w]
  <2>1. /\ UNCHANGED idx /\ pc[w] # "claim" /\ SemPost(w, j, Elements) /\ j \in Index
        /\ undo[w][j] = Elements /\ Owned(w) \ {j} \subseteq Owned(w)'
    <3>1. CASE Release(w)
      BY <1>1, <3>1 DEF Release, PostAll, Goto, shared, TypeOK, WriterOK, Owned
    <3>2. CASE Close(w)
      BY <1>1, <3>2 DEF Close, PostAll, shared, TypeOK, WriterOK, Owned
    <3>3. QED
      BY <1>7, <3>1, <3>2
  <2>2. undo'[w][j] = 0 /\ \A i \in Index : i # j => undo'[w][i] = undo[w][i]
    <3> HIDE DEF j
    <3>1. QED
      BY <1>1, <2>1, ElementsAssumption DEF SemPost, TypeOK
  <2>3. QED
    BY <1>2, <2>1, <2>2
<1>8. CASE CrashWriter(w)
  BY <1>1, <1>8 DEF CrashWriter, SemExit, TypeOK
<1>9. QED
  BY <1>3, <1>4, <1>5, <1>6, <1>7, <1>8 DEF WriterStep

\* What a writer has on record is exactly what it owns, wherever it stands.
LEMMA RecordInvariant ==
  ASSUME Alone, NoInterrupts
  PROVE  Spec => []Recorded
<1>1. Init => Recorded
  BY WritersAssumption DEF Init, SemInit, Recorded
<1>2. ASSUME IInv, Recorded, [Next]_vars
      PROVE  Recorded'
  <2> SUFFICES ASSUME NEW w \in Writers
               PROVE  \A i \in Index : undo'[w][i] # 0 => i \in Owned(w)'
    BY DEF Recorded
  <2>1. CASE WriterStep(w) \/ WriterFault(w)
    BY <1>2, <2>1, RecordStep, NeverInterrupted DEF WriterFault, TakeInterrupted, IInv
  <2>2. CASE /\ UNCHANGED <<current, prev>> /\ undo'[w] = undo[w]
             /\ pc'[w] = pc[w] /\ idx'[w] = idx[w] /\ elem'[w] = elem[w]
    <3>1. Owned(w)' = Owned(w)
      BY <2>2 DEF Owned
    <3>2. QED
      BY <1>2, <2>2, <3>1 DEF Recorded
  <2>3. QED
    BY <1>2, <2>1, <2>2, LeftAlone DEF IInv
<1>3. QED
  <2>1. Spec => []IInv
    BY Invariance
  <2>2. IInv /\ Recorded /\ [Next]_vars => Recorded'
    BY <1>2
  <2>3. QED
    BY <1>1, <2>1, <2>2, PTL DEF Spec

\* The element found taken by the search of a single writer is one some reader is
\* at or has leaked a unit of.
LEMMA TakenBySome ==
  ASSUME Alone, IInv, Recorded, SearchInv, NEW w \in Writers, pc[w] = "probe",
         NEW i \in Index \ {current}, sem[i] # Elements
  PROVE  i \in Spots
<1>1. Outstanding(i) # {}
  <2>1. sem[i] + Cardinality(Outstanding(i)) = Elements /\ sem[i] \in Nat
    BY DEF IInv, SemInv, SemType, UnitsConserved
  <2>2. Cardinality(Outstanding(i)) # 0
    BY <2>1, ElementsAssumption
  <2>3. QED
    BY <2>2, FS_EmptySet
<1>2. PICK q \in Procs : undo[q][i] >= 1
  <2>1. PICK u \in Procs \X (1 .. Elements) : u[2] <= undo[u[1]][i]
    BY <1>1 DEF Outstanding
  <2>2. u[1] \in Procs /\ undo[u[1]][i] \in Int
    BY <2>1 DEF IInv, TypeOK
  <2>3. undo[u[1]][i] >= 1
    BY <2>1, <2>2, ElementsAssumption
  <2>4. QED
    BY <2>2, <2>3
<1>3. undo[q][i] \in Int
  BY DEF IInv, TypeOK
<1>4. q \in Readers
  <2>1. SUFFICES ASSUME q = w PROVE FALSE
    BY DEF Readers, Alone
  <2>2. undo[w][i] # 0
    BY <1>2, <2>1
  <2>3. i \in Owned(w)
    BY <2>2 DEF Recorded
  <2>4. i \in {elem[w], prev[w]} /\ i # None
    BY <2>3 DEF Owned
  <2>5. elem[w] \in {None, current} /\ prev[w] = elem[w]
    BY DEF SearchInv, SearchOK, Searching
  <2>6. QED
    BY <2>4, <2>5
<1>5. CASE elem[q] = i
  BY <1>4, <1>5 DEF Spots, IInv, Places, ReaderOK, Index, None
<1>6. CASE elem[q] # i
  BY <1>2, <1>3, <1>4, <1>6 DEF Spots, Leaked
<1>7. QED
  BY <1>5, <1>6

-----------------------------------------------------------------------------
\* What a step does to the leaked elements and to those readers are at.

\* The part of one reader in Leaked.
LeakedBy(r) == {i \in Index : undo[r][i] > IF elem[r] = i THEN 1 ELSE 0}

\* Only dropping a reader leaks a unit, and then of the element it worked on.
LEMMA ReaderLeaks ==
  ASSUME IInv, NEW r \in Readers, ReaderStep(r) \/ Drop(r) \/ CrashReader(r)
  PROVE  \/ LeakedBy(r)' \subseteq LeakedBy(r)
         \/ Drop(r) /\ LeakedBy(r)' \subseteq LeakedBy(r) \cup {elem[r]}
<1>1. r \in Procs /\ TypeOK /\ ReaderOK(r)
  BY DEF IInv, Places, Readers
<1>2. \A i \in Index : undo[r][i] \in Int
  BY <1>1 DEF TypeOK
<1>3. CASE OpenReader(r) \/ Load(r) \/ Check(r)
  <2>1. UNCHANGED <<undo, elem>>
    BY <1>3 DEF OpenReader, Load, Check, shared, semVars
  <2>2. QED
    BY <2>1 DEF LeakedBy
<1>4. CASE Wait(r)
  <2>1. /\ elem[r] = None /\ elem'[r] = idx[r] /\ idx[r] \in Index
        /\ undo' = [undo EXCEPT ![r][idx[r]] = @ + 1]
    BY <1>1, <1>4 DEF Wait, WaitOne, SemWait, Goto, ReaderOK, TypeOK
  <2>2. \A i \in Index : undo'[r][i] = IF i = idx[r] THEN undo[r][i] + 1 ELSE undo[r][i]
    BY <1>1, <2>1 DEF TypeOK
  <2>3. \A i \in Index : i # None
    BY DEF Index, None
  <2>4. QED
    BY <1>2, <2>1, <2>2, <2>3 DEF LeakedBy
<1>5. CASE GiveBack(r) \/ UpdateReader(r)
  <2>1. /\ elem[r] \in Index /\ elem'[r] = None
        /\ undo' = [undo EXCEPT ![r][elem[r]] = @ - 1]
    BY <1>1, <1>5 DEF GiveBack, UpdateReader, ReleaseRead, PostOne, SemPost, Goto, ReaderOK, TypeOK
  <2>2. \A i \in Index : undo'[r][i] = IF i = elem[r] THEN undo[r][i] - 1 ELSE undo[r][i]
    BY <1>1, <2>1 DEF TypeOK
  <2>3. \A i \in Index : i # None
    BY DEF Index, None
  <2>4. QED
    BY <1>2, <2>1, <2>2, <2>3 DEF LeakedBy
<1>6. CASE Drop(r)
  <2>1. UNCHANGED undo /\ elem'[r] = None
    BY <1>1, <1>6 DEF Drop, semVars, TypeOK
  <2>2. QED
    BY <1>2, <1>6, <2>1 DEF LeakedBy, Index, None
<1>7. CASE CrashReader(r)
  BY <1>1, <1>7 DEF CrashReader, SemExit, LeakedBy, TypeOK
<1>8. QED
  BY <1>3, <1>4, <1>5, <1>6, <1>7 DEF ReaderStep

\* The steps of writers and of other readers leave a reader and its record alone.
LEMMA ReaderLeftAlone ==
  ASSUME TypeOK, [Next]_vars, NEW r \in Readers
  PROVE  \/ ReaderStep(r) \/ ReaderFault(r)
         \/ pc'[r] = pc[r] /\ idx'[r] = idx[r] /\ elem'[r] = elem[r] /\ undo'[r] = undo[r]
<1>1. ASSUME NEW w \in Writers, WriterStep(w) \/ WriterFault(w)
      PROVE  undo'[r] = undo[r]
  BY <1>1, WritersAssumption
     DEF WriterStep, WriterFault, OpenWriter, Fill, Update, Probe, Retest, Fallback, Take,
         Claim, Release, Close, CrashWriter, TakeInterrupted, WaitAll, PostAll, SemWait, SemPost,
         SemExit, SemWaitFails, semVars, TypeOK, Readers
<1>2. ASSUME NEW q \in Readers, ReaderStep(q) \/ ReaderFault(q), q # r
      PROVE  undo'[r] = undo[r]
  BY <1>2
     DEF ReaderStep, ReaderFault, OpenReader, Load, Wait, Check, GiveBack, UpdateReader,
         ReleaseRead, Drop, CrashReader, WaitInterrupted, WaitOne, PostOne, SemWait, SemPost,
         SemExit, SemWaitFails, semVars, TypeOK, Readers
<1>3. CASE UNCHANGED vars
  BY <1>3 DEF vars
<1>4. QED
  BY <1>1, <1>2, <1>3, ReaderMoves DEF Next

\* The leaked elements of a step: none are added, or the one of a dropped reader.
LEMMA LeaksOfStep ==
  ASSUME NoInterrupts, IInv, [Next]_vars
  PROVE  \/ Leaked' \subseteq Leaked
         \/ \E r \in Readers : Drop(r) /\ Leaked' \subseteq Leaked \cup {elem[r]}
<1>1. /\ Leaked = {i \in Index : \E r \in Readers : i \in LeakedBy(r)}
      /\ Leaked' = {i \in Index : \E r \in Readers : i \in LeakedBy(r)'}
  BY DEF Leaked, LeakedBy
<1>2. ASSUME NEW r \in Readers
      PROVE  \/ LeakedBy(r)' \subseteq LeakedBy(r)
             \/ Drop(r) /\ LeakedBy(r)' \subseteq LeakedBy(r) \cup {elem[r]}
  <2>1. CASE ReaderStep(r) \/ ReaderFault(r)
    BY <2>1, ReaderLeaks, NeverInterrupted DEF ReaderFault, WaitInterrupted, IInv
  <2>2. CASE elem'[r] = elem[r] /\ undo'[r] = undo[r]
    BY <2>2 DEF LeakedBy
  <2>3. QED
    BY <2>1, <2>2, ReaderLeftAlone DEF IInv
<1>3. ASSUME NEW q \in Readers, NEW r \in Readers, Drop(q), Drop(r), q # r
      PROVE  FALSE
  BY <1>3 DEF Drop, Goto, IInv, TypeOK, Readers
<1>4. CASE \E r \in Readers : Drop(r)
  <2>1. PICK r \in Readers : Drop(r)
    BY <1>4
  <2>2. \A q \in Readers : LeakedBy(q)' \subseteq LeakedBy(q) \cup {elem[r]}
    BY <1>2, <1>3, <2>1
  <2>3. QED
    BY <1>1, <2>1, <2>2
<1>5. CASE ~ \E r \in Readers : Drop(r)
  BY <1>1, <1>2, <1>5
<1>6. QED
  BY <1>4, <1>5

\* The number of dropped readers never goes down.
LEMMA DropsGrow ==
  ASSUME TypeOK, [Next]_vars
  PROVE  /\ faults["drop"] \in Nat /\ faults'["drop"] \in Nat
         /\ faults'["drop"] >= faults["drop"]
         /\ \A r \in Readers : Drop(r) => faults'["drop"] = faults["drop"] + 1
<1>1. "drop" \in FaultKinds /\ faults["drop"] \in Nat
  BY DEF TypeOK, FaultKinds
<1>2. UNCHANGED faults \/ \E k \in FaultKinds : Fault(k)
  BY DEF Next, WriterStep, ReaderStep, WriterFault, ReaderFault, vars, shared, FaultKinds,
         OpenWriter, Fill, Update, Probe, Retest, Fallback, Take, Claim, Release, Close,
         CrashWriter, TakeInterrupted, OpenReader, Load, Wait, Check, GiveBack,
         UpdateReader, Drop, CrashReader, WaitInterrupted
<1>3. \A k \in FaultKinds : Fault(k) => faults'["drop"] \in {faults["drop"], faults["drop"] + 1}
  BY <1>1 DEF Fault, TypeOK
<1>4. \A r \in Readers : Drop(r) => faults'["drop"] = faults["drop"] + 1
  BY <1>1 DEF Drop, Fault, TypeOK
<1>5. QED
  BY <1>1, <1>2, <1>3, <1>4

\* The ring has finitely many elements, all but one of them besides the current one.
LEMMA RingSize ==
  ASSUME current \in Index
  PROVE  /\ IsFiniteSet(Index)
         /\ Cardinality(Index \ {current}) = Elements - 1
<1>1. IsFiniteSet(Index) /\ Cardinality(Index) = Elements
  BY FS_Interval, ElementsAssumption DEF Index
<1>2. QED
  BY <1>1, FS_RemoveElement

\* There are no more leaked elements than dropped readers: no other step leaves a
\* unit behind.
LEMMA LeakInvariant ==
  ASSUME NoInterrupts
  PROVE  Spec => []LeakInv
<1>1. Init => LeakInv
  <2> SUFFICES ASSUME Init
               PROVE  LeakInv
    OBVIOUS
  <2>1. Leaked = {}
    BY DEF Init, SemInit, Leaked, Readers
  <2>2. faults["drop"] = 0
    BY DEF Init, FaultKinds
  <2>3. QED
    BY <2>1, <2>2, FS_EmptySet DEF LeakInv
<1>2. ASSUME IInv, LeakInv, [Next]_vars
      PROVE  LeakInv'
  <2>1. IsFiniteSet(Leaked)
    <3>1. Leaked \subseteq Index /\ current \in Index
      BY <1>2 DEF Leaked, IInv, TypeOK
    <3>2. QED
      BY <3>1, RingSize, FS_Subset
  <2>2. Cardinality(Leaked) \in Nat
    BY <2>1, FS_CardinalityType
  <2>3. /\ faults["drop"] \in Nat /\ faults'["drop"] \in Nat
        /\ faults'["drop"] >= faults["drop"]
        /\ \A r \in Readers : Drop(r) => faults'["drop"] = faults["drop"] + 1
    BY <1>2, DropsGrow DEF IInv
  <2>4. CASE Leaked' \subseteq Leaked
    <3>1. Cardinality(Leaked') <= Cardinality(Leaked) /\ Cardinality(Leaked') \in Nat
      BY <2>1, <2>4, FS_Subset, FS_CardinalityType
    <3>2. QED
      BY <1>2, <2>2, <2>3, <3>1 DEF LeakInv
  <2>5. ASSUME NEW r \in Readers, Drop(r), Leaked' \subseteq Leaked \cup {elem[r]}
        PROVE  LeakInv'
    <3>1. /\ IsFiniteSet(Leaked \cup {elem[r]})
          /\ Cardinality(Leaked \cup {elem[r]}) <= Cardinality(Leaked) + 1
      BY <2>1, <2>2, FS_AddElement
    <3>2. Cardinality(Leaked') <= Cardinality(Leaked \cup {elem[r]})
      BY <2>5, <3>1, FS_Subset
    <3>3. Cardinality(Leaked') \in Nat /\ Cardinality(Leaked \cup {elem[r]}) \in Nat
      BY <2>5, <3>1, FS_Subset, FS_CardinalityType
    <3>4. QED
      BY <1>2, <2>2, <2>3, <2>5, <3>1, <3>2, <3>3 DEF LeakInv
  <2>6. QED
    BY <1>2, <2>4, <2>5, LeaksOfStep
<1>3. QED
  <2>1. Spec => []IInv
    BY Invariance
  <2>2. IInv /\ LeakInv /\ [Next]_vars => LeakInv'
    BY <1>2
  <2>3. QED
    BY <1>1, <2>1, <2>2, PTL DEF Spec

\* The elements that can be found taken are no more than readers and dropped readers.
LEMMA SpotsBound ==
  ASSUME IInv, LeakInv
  PROVE  Cardinality(Spots) <= Cardinality(Readers) + faults["drop"]
<1> DEFINE At == {idx[r] : r \in Readers}
           f  == [r \in Readers |-> idx[r]]
<1>1. IsFiniteSet(Readers)
  BY ProcsAssumption, FS_Subset DEF Readers
<1>2. IsFiniteSet(At) /\ Cardinality(At) <= Cardinality(Readers)
  <2>1. f \in Surjection(Readers, At)
    BY DEF Surjection
  <2>2. QED
    BY <1>1, <2>1, FS_Surjection
<1>3. IsFiniteSet(Leaked)
  <2>1. Leaked \subseteq Index /\ current \in Index
    BY DEF Leaked, IInv, TypeOK
  <2>2. QED
    BY <2>1, RingSize, FS_Subset
<1> HIDE DEF At, f
<1>4. IsFiniteSet(Leaked \cap At) /\ IsFiniteSet(Leaked \cup At)
  BY <1>2, <1>3, FS_Subset, FS_Union
<1>5. /\ Cardinality(Leaked) \in Nat /\ Cardinality(At) \in Nat
      /\ Cardinality(Leaked \cap At) \in Nat /\ Cardinality(Readers) \in Nat
      /\ faults["drop"] \in Nat
  BY <1>1, <1>2, <1>3, <1>4, FS_CardinalityType DEF IInv, TypeOK, FaultKinds
<1>6. Cardinality(Leaked \cup At) = Cardinality(Leaked) + Cardinality(At) - Cardinality(Leaked \cap At)
  BY <1>2, <1>3, FS_Union
<1>7. Spots \subseteq Leaked \cup At
  BY DEF Spots, At
<1>8. Cardinality(Spots) <= Cardinality(Leaked \cup At) /\ Cardinality(Spots) \in Nat
  BY <1>4, <1>7, FS_Subset, FS_CardinalityType
<1>9. QED
  BY <1>2, <1>5, <1>6, <1>8 DEF LeakInv

\* As long as current_index stays, no element is added to those that can be found
\* taken: a reader that moves on is sent to the current one (databuffer.cpp:124).
LEMMA SpotsShrink ==
  ASSUME NoInterrupts, IInv, [Next]_vars, UNCHANGED current
  PROVE  Spots' \subseteq Spots
<1>1. ASSUME NEW r \in Readers
      PROVE  idx'[r] \in {idx[r], current}
  <2>1. CASE ReaderStep(r) \/ ReaderFault(r)
    BY <2>1 DEF ReaderStep, ReaderFault, OpenReader, Load, Wait, Check, GiveBack, UpdateReader,
                Drop, CrashReader, WaitInterrupted, IInv, TypeOK, Readers
  <2>2. QED
    BY <2>1, ReaderMoves DEF IInv
<1>2. Leaked' \subseteq Leaked \cup {idx[r] : r \in Readers}
  <2>1. ASSUME NEW r \in Readers, Drop(r)
        PROVE  elem[r] = idx[r]
    BY <2>1 DEF Drop, Goto, IInv, Places, ReaderOK
  <2>2. QED
    BY <2>1, LeaksOfStep
<1>3. QED
  BY <1>1, <1>2 DEF Spots

\* The elements a search has seen or can find taken are elements of the ring.
LEMMA SeenFinite ==
  ASSUME TypeOK, NEW w \in Writers
  PROVE  IsFiniteSet(Visited(w) \cup Spots)
<1>1. Visited(w) \cup Spots \subseteq Index /\ current \in Index
  BY DEF Visited, Spots, Leaked, TypeOK
<1>2. QED
  BY <1>1, RingSize, FS_Subset

\* What a step adds to the elements seen could be found taken before; a search that
\* begins has seen none.
LEMMA SeenOfStep ==
  ASSUME Alone, NoInterrupts, IInv, Recorded, SearchInv, [Next]_vars,
         NEW w \in Writers, pc'[w] \in Searching
  PROVE  \/ Visited(w)' = {}
         \/ pc[w] \in Searching /\ (Visited(w) \cup Spots)' \subseteq Visited(w) \cup Spots
<1>1. w \in Procs /\ TypeOK /\ current \in Index
  BY WritersAssumption DEF IInv, TypeOK
<1>2. CASE OpenWriter(w) \/ Update(w)
  <2>1. /\ UNCHANGED current /\ idx'[w] = current + 1
        /\ pc'[w] \in {"probe", "fallback"}
    BY <1>1, <1>2 DEF OpenWriter, Update, ScanFrom, shared, TypeOK
  <2>2. QED
    BY <1>1, <2>1, ElementsAssumption DEF Visited, VisitedAt, Index
<1>3. CASE Probe(w)
  <2>1. /\ pc[w] = "probe" /\ UNCHANGED <<current, idx>> /\ pc'[w] = "retest"
        /\ sem[idx[w] % Elements] # Elements
    BY <1>1, <1>3 DEF Probe, Goto, GetVal, shared, Searching, TypeOK
  <2>2. idx[w] \in current + 1 .. current + Elements - 1
    BY <2>1 DEF SearchInv, SearchOK
  <2>3. /\ idx[w] % Elements \in Index \ {current}
        /\ \A i \in Index : VisitedAt(i) = idx[w] <=> i = idx[w] % Elements
    BY <1>1, <2>2, Visits
  <2>4. idx[w] % Elements \in Spots
    BY <2>1, <2>3, TakenBySome
  <2>5. Visited(w)' \subseteq Visited(w) \cup {idx[w] % Elements}
    <3>1. \A i \in Index : VisitedAt(i) \in Int
      BY <1>1, ElementsAssumption DEF VisitedAt, Index
    <3>2. Visited(w)' = {i \in Index \ {current} : VisitedAt(i) < idx[w] + 1}
      BY <2>1 DEF Visited, VisitedAt
    <3>3. Visited(w) = {i \in Index \ {current} : VisitedAt(i) < idx[w]}
      BY <2>1 DEF Visited
    <3>4. \A i \in Index : VisitedAt(i) < idx[w] + 1 => VisitedAt(i) < idx[w] \/ VisitedAt(i) = idx[w]
      <4>1. idx[w] \in Nat
        BY <1>1 DEF TypeOK
      <4>2. \A x \in Int, y \in Nat : x < y + 1 => x < y \/ x = y
        OBVIOUS
      <4>3. QED
        BY <3>1, <4>1, <4>2
    <3>5. ASSUME NEW i \in Visited(w)'
          PROVE  i \in Visited(w) \/ i = idx[w] % Elements
      <4>1. i \in Index \ {current} /\ VisitedAt(i) < idx[w] + 1
        BY <3>2, <3>5
      <4>2. CASE VisitedAt(i) < idx[w]
        BY <3>3, <4>1, <4>2
      <4>3. CASE VisitedAt(i) = idx[w]
        BY <2>3, <4>1, <4>3
      <4>4. QED
        BY <3>4, <4>1, <4>2, <4>3
    <3>6. QED
      BY <3>5
  <2>6. QED
    BY <2>1, <2>4, <2>5, SpotsShrink DEF Searching
<1>4. CASE Retest(w)
  <2>1. /\ pc[w] = "retest" /\ UNCHANGED current /\ idx'[w] = idx[w] + 1
        /\ pc'[w] \in {"probe", "fallback"}
    BY <1>1, <1>4 DEF Retest, ScanFrom, shared, TypeOK
  <2>2. Visited(w)' = Visited(w)
    BY <2>1 DEF Visited, VisitedAt
  <2>3. QED
    BY <2>1, <2>2, SpotsShrink DEF Searching
<1>5. CASE Fill(w) \/ Fallback(w) \/ Take(w) \/ Claim(w) \/ Release(w) \/ WriterFault(w)
  BY <1>1, <1>5 DEF Fill, Fallback, Take, Claim, Release, WriterFault, Close, CrashWriter,
                    TakeInterrupted, Goto, Searching, TypeOK
<1>6. CASE UNCHANGED current /\ pc'[w] = pc[w] /\ idx'[w] = idx[w]
  <2>1. Visited(w)' = Visited(w)
    BY <1>6 DEF Visited, VisitedAt
  <2>2. QED
    BY <1>6, <2>1, SpotsShrink
<1>7. QED
  BY <1>1, <1>2, <1>3, <1>4, <1>5, <1>6, LeftAlone DEF WriterStep

\* The elements a search has seen or can find taken are never more than readers
\* and dropped readers.
LEMMA SeenStep ==
  ASSUME Alone, NoInterrupts, IInv, Recorded, SearchInv, SeenInv, LeakInv', IInv', [Next]_vars
  PROVE  SeenInv'
<1> SUFFICES ASSUME NEW w \in Writers, pc'[w] \in Searching
             PROVE  Cardinality((Visited(w) \cup Spots)') <= Cardinality(Readers) + faults'["drop"]
  BY DEF SeenInv
<1>1. CASE Visited(w)' = {}
  <2>1. (IInv /\ LeakInv => Cardinality(Spots) <= Cardinality(Readers) + faults["drop"])'
    BY SpotsBound, PTL
  <2>2. (Visited(w) \cup Spots)' = Spots'
    BY <1>1
  <2>3. QED
    BY <2>1, <2>2
<1>2. CASE pc[w] \in Searching /\ (Visited(w) \cup Spots)' \subseteq Visited(w) \cup Spots
  <2>1. TypeOK
    BY DEF IInv
  <2>2. IsFiniteSet(Visited(w) \cup Spots)
    BY <2>1, SeenFinite
  <2> DEFINE Before == Visited(w) \cup Spots
             After  == (Visited(w) \cup Spots)'
  <2>3. Cardinality(Before) <= Cardinality(Readers) + faults["drop"]
    BY <1>2 DEF SeenInv
  <2>4. After \subseteq Before
    BY <1>2
  <2> HIDE DEF Before, After
  <2>5. Cardinality(After) <= Cardinality(Before) /\ Cardinality(After) \in Nat /\ Cardinality(Before) \in Nat
    BY <2>2, <2>4, FS_Subset, FS_CardinalityType DEF Before
  <2>6. faults["drop"] \in Nat /\ faults'["drop"] \in Nat /\ faults'["drop"] >= faults["drop"]
    BY <2>1, DropsGrow
  <2>7. Cardinality(Readers) \in Nat
    BY ProcsAssumption, FS_Subset, FS_CardinalityType DEF Readers
  <2>8. Cardinality(After) <= Cardinality(Readers) + faults'["drop"]
    BY <2>3, <2>5, <2>6, <2>7
  <2>9. QED
    BY <2>8 DEF After
<1>3. QED
  BY <1>1, <1>2, SeenOfStep

\* With fewer readers and leaked units than other elements, the search of a single
\* writer finds a free element although readers come, move and go while it runs:
\* line 168 of databuffer.cpp is not reached.
THEOREM SearchFinds ==
  ASSUME Alone, NoInterrupts
  PROVE  Spec => []SearchSucceeds
<1>1. Init => SeenInv
  BY WritersAssumption DEF Init, SeenInv, Searching
<1>2. ASSUME IInv, SearchInv, SeenInv
      PROVE  SearchSucceeds
  <2> SUFFICES ASSUME NEW w \in Writers, pc[w] = "fallback",
                      Cardinality(Readers) + faults["drop"] < Elements - 1
               PROVE  FALSE
    BY DEF SearchSucceeds
  <2>1. current \in Index /\ TypeOK /\ idx[w] = current + Elements
    BY <1>2 DEF IInv, TypeOK, SearchInv, SearchOK
  <2>2. Visited(w) = Index \ {current}
    <3>1. \A i \in Index \ {current} : VisitedAt(i) < current + Elements
      BY <2>1, ElementsAssumption DEF VisitedAt, Index
    <3>2. QED
      BY <2>1, <3>1 DEF Visited
  <2>3. Cardinality(Index \ {current}) <= Cardinality(Visited(w) \cup Spots)
    BY <2>1, <2>2, SeenFinite, FS_Subset
  <2>4. Cardinality(Visited(w) \cup Spots) <= Cardinality(Readers) + faults["drop"]
    BY <1>2 DEF SeenInv, Searching
  <2>5. /\ Cardinality(Visited(w) \cup Spots) \in Nat /\ Cardinality(Readers) \in Nat
        /\ faults["drop"] \in Nat
    BY <2>1, SeenFinite, ProcsAssumption, FS_Subset, FS_CardinalityType DEF Readers, TypeOK, FaultKinds
  <2>6. Cardinality(Index \ {current}) = Elements - 1
    BY <2>1, RingSize
  <2>7. QED
    BY <2>3, <2>4, <2>5, <2>6, ElementsAssumption
<1>3. IInv /\ Recorded /\ SearchInv /\ SeenInv /\ LeakInv' /\ IInv' /\ [Next]_vars => SeenInv'
  BY SeenStep
<1>4. QED
  <2>1. Spec => []IInv /\ []Recorded /\ []SearchInv /\ []LeakInv
    BY Invariance, RecordInvariant, SearchInvariant, LeakInvariant
  <2>2. Spec => []SeenInv
    BY <1>1, <1>3, <2>1, PTL DEF Spec
  <2>3. IInv /\ SearchInv /\ SeenInv => SearchSucceeds
    BY <1>2
  <2>4. QED
    BY <2>1, <2>2, <2>3, PTL

-----------------------------------------------------------------------------
\* Interrupted waits.  The accounts do not balance, but they still cover the units.

\* Whatever a process does, and however it ends, it leaves every semaphore covered.
LEMMA CoveredNext ==
  ASSUME TypeOK, SemCovered, [Next]_vars
  PROVE  SemCovered'
<1>1. CASE UNCHANGED semVars
  BY <1>1, CoveredFrame
<1>2. ASSUME NEW w \in Writers, Take(w)
      PROVE  SemCovered'
  BY <1>2, WritersAssumption, ElementsAssumption, WaitCovered DEF Take, WaitAll, Goto, TypeOK
<1>3. ASSUME NEW w \in Writers, Release(w) \/ Close(w)
      PROVE  SemCovered'
  BY <1>3, WritersAssumption, ElementsAssumption, PostCovered DEF Release, Close, PostAll
<1>4. ASSUME NEW r \in Readers, Wait(r)
      PROVE  SemCovered'
  <2>1. r \in Procs /\ idx[r] \in Index /\ SemWait(r, idx[r], 1) /\ 1 \in Nat
    BY <1>4 DEF Wait, WaitOne, TypeOK, Readers
  <2>2. QED
    BY <2>1, WaitCovered
<1>5. ASSUME NEW r \in Readers, GiveBack(r) \/ UpdateReader(r)
      PROVE  SemCovered'
  <2>1. r \in Procs /\ SemPost(r, elem[r], 1) /\ 1 \in Nat
    BY <1>5 DEF GiveBack, UpdateReader, ReleaseRead, PostOne, Readers
  <2>2. QED
    BY <2>1, PostCovered
<1>6. ASSUME NEW p \in Procs, SemExit(p)
      PROVE  SemCovered'
  BY <1>6, ExitCovered
<1>7. \/ UNCHANGED semVars
      \/ \E w \in Writers : Take(w) \/ Release(w) \/ Close(w)
      \/ \E r \in Readers : Wait(r) \/ GiveBack(r) \/ UpdateReader(r)
      \/ \E p \in Procs : SemExit(p)
  BY WritersAssumption
     DEF Next, WriterStep, ReaderStep, WriterFault, ReaderFault, vars, semVars, SemWaitFails,
         OpenWriter, Fill, Update, Probe, Retest, Fallback, Claim, CrashWriter,
         TakeInterrupted, OpenReader, Load, Check, Drop, CrashReader, WaitInterrupted, Readers
<1>8. QED
  BY <1>1, <1>2, <1>3, <1>4, <1>5, <1>6, <1>7

\* Interrupted waits make units up and exits take some back, but none is ever lost:
\* no element ends up locked by nobody (semaphore_interface.cpp:114-117, 127-130).
THEOREM NothingLost == Spec => []NoUnitLost
<1>1. Init => SemCovered
  BY SemInitCovered DEF Init
<1>2. TypeOK /\ SemCovered /\ [Next]_vars => SemCovered'
  BY CoveredNext
<1>3. QED
  BY <1>1, <1>2, TypeCorrect, CoveredLosesNone, PTL DEF Spec

-----------------------------------------------------------------------------
\* The ring as a channel (Feed), interrupted waits included.

\* The newest frame is in the current element, and each other element holds an older
\* one: a number is given out once.
NumberedOK ==
  /\ newest \in Nat
  /\ number \in [Index -> Nat]
  /\ number[current] = newest
  /\ newest > 0 => \A i \in Index \ {current} : number[i] < newest
  /\ newest = 0 => \A i \in Index : number[i] = 0

\* The element a reader waits for, or has just got, may have been written since, but
\* with frames newer than the one it asked for.
AskedOK ==
  /\ asked \in [Readers -> Nat \cup {None}]
  /\ given \in [Readers -> Nat \cup {None}]
  /\ \A r \in Readers : pc[r] \in {"wait", "check"} =>
       /\ asked[r] \in Nat
       /\ asked[r] <= number[idx[r]]
       /\ newest = 0 => idx[r] = current
       /\ pc[r] = "check" => elem[r] = idx[r]

\* To number the frames adds nothing to what the ring may do.
LEMMA FeedIsRing ==
  ASSUME [FeedNext]_feedVars
  PROVE  [Next]_vars
BY DEF FeedNext, feedVars, Begin, Ask, Hand, Refuse, Rest, Next, WriterStep, ReaderStep

\* Nothing in the library sets the flag of an element (databuffer.cpp:157, 173).
LEMMA FlagsStayClear ==
  ASSUME TypeOK, NeverComplete, [Next]_vars
  PROVE  NeverComplete'
<1>1. ASSUME NEW w \in Writers, Claim(w)
      PROVE  NeverComplete'
  BY <1>1 DEF Claim, NeverComplete, TypeOK
<1>2. CASE UNCHANGED complete
  BY <1>2 DEF NeverComplete
<1>3. UNCHANGED complete \/ \E w \in Writers : Claim(w)
  BY DEF Next, vars, shared, WriterStep, ReaderStep, WriterFault, ReaderFault,
         OpenWriter, Fill, Update, Probe, Retest, Fallback, Take, Release, Close, CrashWriter,
         TakeInterrupted, OpenReader, Load, Wait, Check, GiveBack, UpdateReader, Drop,
         CrashReader, WaitInterrupted
<1>4. QED
  BY <1>1, <1>2, <1>3

\* Only a store of current_index numbers a frame.
LEMMA OnlyBegin ==
  ASSUME [FeedNext]_feedVars
  PROVE  (\E w \in Writers : Begin(w)) \/ UNCHANGED <<newest, number, current>>
BY DEF FeedNext, feedVars, vars, history, shared, Ask, Hand, Refuse, Rest, WriterFault, ReaderFault,
       OpenWriter, Fill, Update, Probe, Retest, Fallback, Take, Release, Close, CrashWriter,
       TakeInterrupted, OpenReader, Load, Wait, Check, GiveBack, UpdateReader, Drop,
       CrashReader, WaitInterrupted

\* What the store of current_index does: the element it goes to gets the next number
\* and becomes the current one, and no reader notices.
LEMMA BeginNumbers ==
  ASSUME TypeOK, NumberedOK, NEW w \in Writers, Begin(w)
  PROVE  /\ idx[w] \in Index /\ current' = idx[w] /\ newest' = newest + 1
         /\ \A i \in Index : number'[i] = IF i = idx[w] THEN newest + 1 ELSE number[i]
         /\ \A r \in Readers : pc'[r] = pc[r] /\ idx'[r] = idx[r] /\ elem'[r] = elem[r]
<1>1. idx[w] \in Index /\ current' = idx[w] /\ newest' = newest + 1
  BY DEF Begin, Claim, Goto, TypeOK
<1>2. \A i \in Index : number'[i] = IF i = idx[w] THEN newest + 1 ELSE number[i]
  BY DEF Begin, NumberedOK
<1>3. \A r \in Readers : pc'[r] = pc[r] /\ idx'[r] = idx[r] /\ elem'[r] = elem[r]
  BY WritersAssumption DEF Begin, Claim, Goto, TypeOK, Readers
<1>4. QED
  BY <1>1, <1>2, <1>3

\* A store of current_index keeps the numbers apart and the newest frame current.
LEMMA NumberedStep ==
  ASSUME TypeOK, NumberedOK, [FeedNext]_feedVars
  PROVE  NumberedOK'
<1>1. ASSUME NEW w \in Writers, Begin(w)
      PROVE  NumberedOK'
  <2>1. newest + 1 \in Nat /\ newest + 1 > 0 /\ newest < newest + 1
    BY DEF NumberedOK
  <2>2. number' \in [Index -> Nat]
    BY <1>1, <2>1 DEF Begin, NumberedOK
  <2>3. \A i \in Index : number[i] <= newest
    BY DEF NumberedOK
  <2>4. \A i \in Index \ {current'} : number'[i] < newest'
    BY <1>1, <2>1, <2>3, BeginNumbers DEF NumberedOK
  <2>5. number'[current'] = newest'
    BY <1>1, BeginNumbers
  <2>6. newest' \in Nat /\ newest' # 0
    BY <1>1, <2>1, BeginNumbers
  <2>7. QED
    BY <2>2, <2>4, <2>5, <2>6 DEF NumberedOK
<1>2. CASE UNCHANGED <<newest, number, current>>
  BY <1>2 DEF NumberedOK
<1>3. QED
  BY <1>1, <1>2, OnlyBegin

\* A reader that waits is overtaken only by newer frames, whoever moves.
LEMMA AskedStep ==
  ASSUME TypeOK, NumberedOK, AskedOK, [FeedNext]_feedVars
  PROVE  AskedOK'
<1>0. \A r \in Readers : r \in Procs
  BY DEF Readers
<1>1. ASSUME NEW w \in Writers, Begin(w)
      PROVE  AskedOK'
  <2>1. UNCHANGED <<asked, given>> /\ newest' = newest + 1 /\ newest \in Nat
    BY <1>1 DEF Begin, NumberedOK
  <2>2. \A i \in Index : number[i] \in Nat /\ number[i] <= newest
    BY DEF NumberedOK
  <2>3. \A i \in Index : number'[i] >= number[i] /\ number'[i] \in Nat
    BY <1>1, <2>1, <2>2, BeginNumbers
  <2>4. ASSUME NEW r \in Readers, pc'[r] \in {"wait", "check"}
        PROVE  /\ asked'[r] \in Nat /\ asked'[r] <= number'[idx'[r]]
               /\ newest' = 0 => idx'[r] = current'
               /\ pc'[r] = "check" => elem'[r] = idx'[r]
    <3>1. pc'[r] = pc[r] /\ idx'[r] = idx[r] /\ elem'[r] = elem[r] /\ asked'[r] = asked[r]
      BY <1>1, <2>1, BeginNumbers
    <3>2. idx[r] \in Index
      BY DEF TypeOK
    <3>3. asked[r] \in Nat /\ asked[r] <= number[idx[r]] /\ (pc[r] = "check" => elem[r] = idx[r])
      BY <2>4, <3>1 DEF AskedOK
    <3>4. QED
      BY <2>1, <2>2, <2>3, <3>1, <3>2, <3>3
  <2>5. QED
    BY <2>1, <2>4 DEF AskedOK
<1>2. ASSUME NEW r \in Readers, Ask(r)
      PROVE  AskedOK'
  <2>1. newest \in Nat /\ current \in Index /\ number[current] = newest
    BY DEF NumberedOK, TypeOK
  <2>2. /\ UNCHANGED <<newest, number, given, current, elem>>
        /\ asked' = [asked EXCEPT ![r] = newest]
        /\ pc' = [pc EXCEPT ![r] = "wait"] /\ idx' = [idx EXCEPT ![r] = current]
    BY <1>2 DEF Ask, Load, Goto, shared
  <2>3. QED
    BY <1>0, <2>1, <2>2 DEF AskedOK, TypeOK
<1>3. ASSUME NEW r \in Readers, Hand(r)
      PROVE  AskedOK'
  <2>1. /\ UNCHANGED <<newest, number, current, elem, idx>>
        /\ asked' = [asked EXCEPT ![r] = None]
        /\ given' = [given EXCEPT ![r] = number[elem[r]]]
        /\ pc[r] = "check" /\ pc' = [pc EXCEPT ![r] = "hold"]
    BY <1>3 DEF Hand, Check, Goto, shared
  <2>2. number[elem[r]] \in Nat
    BY <2>1 DEF AskedOK, NumberedOK, TypeOK
  <2>3. QED
    BY <1>0, <2>1, <2>2 DEF AskedOK, TypeOK
<1>4. ASSUME NEW r \in Readers, Wait(r) \/ WaitInterrupted(r), UNCHANGED history
      PROVE  AskedOK'
  <2>1. /\ UNCHANGED <<newest, number, asked, given, current, idx>>
        /\ pc[r] = "wait" /\ pc' = [pc EXCEPT ![r] = "check"]
        /\ elem' = [elem EXCEPT ![r] = idx[r]]
    BY <1>4 DEF Wait, WaitInterrupted, Goto, shared, history
  <2>2. QED
    BY <1>0, <2>1 DEF AskedOK, TypeOK
<1>5. ASSUME UNCHANGED <<newest, number, asked, given, current>>,
             \A r \in Readers : \/ pc'[r] \notin {"wait", "check"}
                                \/ UNCHANGED <<pc[r], idx[r], elem[r]>>
      PROVE  AskedOK'
  <2>1. ASSUME NEW r \in Readers, pc'[r] \in {"wait", "check"}
        PROVE  /\ asked'[r] \in Nat /\ asked'[r] <= number'[idx'[r]]
               /\ newest' = 0 => idx'[r] = current'
               /\ pc'[r] = "check" => elem'[r] = idx'[r]
    BY <1>5, <2>1 DEF AskedOK
  <2>2. QED
    BY <1>5, <2>1 DEF AskedOK
<1>6. ASSUME NEW r \in Readers,
             \/ Refuse(r)
             \/ /\ \/ OpenReader(r) \/ GiveBack(r) \/ UpdateReader(r) \/ Drop(r) \/ CrashReader(r)
                /\ UNCHANGED history
      PROVE  AskedOK'
  <2>1. UNCHANGED <<newest, number, asked, given, current>>
    BY <1>6 DEF Refuse, history, shared, Check, OpenReader, GiveBack, UpdateReader, Drop, CrashReader
  <2>2. \A s \in Readers : s # r => UNCHANGED <<pc[s], idx[s], elem[s]>>
    BY <1>0, <1>6 DEF Refuse, Check, Goto, OpenReader, GiveBack, UpdateReader, ReleaseRead, Drop,
                      CrashReader, TypeOK
  <2>3. pc'[r] \notin {"wait", "check"}
    BY <1>0, <1>6 DEF Refuse, Check, Goto, OpenReader, GiveBack, UpdateReader, Drop,
                      CrashReader, TypeOK
  <2>4. QED
    BY <1>5, <2>1, <2>2, <2>3
<1>7. ASSUME NEW w \in Writers,
             \/ OpenWriter(w) \/ Fill(w) \/ Update(w) \/ Probe(w) \/ Retest(w)
             \/ Fallback(w) \/ Take(w) \/ Release(w) \/ WriterFault(w),
             UNCHANGED history
      PROVE  AskedOK'
  <2>1. UNCHANGED <<newest, number, asked, given, current>>
    BY <1>7 DEF history, shared, OpenWriter, Fill, Update, Probe, Retest, Fallback, Take, Release,
                WriterFault, Close, CrashWriter, TakeInterrupted
  <2>2. \A r \in Readers : UNCHANGED <<pc[r], idx[r], elem[r]>>
    BY <1>0, <1>7, WritersAssumption
       DEF Readers, Goto, ScanFrom, OpenWriter, Fill, Update, Probe, Retest, Fallback, Take, Release,
           WriterFault, Close, CrashWriter, TakeInterrupted, TypeOK
  <2>3. QED
    BY <1>5, <2>1, <2>2
<1>8. CASE UNCHANGED feedVars
  BY <1>5, <1>8 DEF feedVars, vars, history
<1>9. QED
  BY <1>1, <1>2, <1>3, <1>4, <1>6, <1>7, <1>8 DEF FeedNext, Rest, ReaderFault

\* Each step of the ring is one of the channel, or none that shows.
LEMMA ChannelStep ==
  ASSUME TypeOK, NeverComplete, NumberedOK, AskedOK, [FeedNext]_feedVars
  PROVE  [C!Next]_<<newest, asked, given>>
<1>1. ASSUME NEW w \in Writers, Begin(w)
      PROVE  C!Begin
  BY <1>1 DEF Begin, C!Begin
<1>2. ASSUME NEW r \in Readers, Ask(r)
      PROVE  C!Ask(r)
  BY <1>2 DEF Ask, C!Ask
<1>3. ASSUME NEW r \in Readers, Hand(r)
      PROVE  C!Hand(r)
  <2>1. /\ pc[r] = "check" /\ ~Refused(r) /\ UNCHANGED newest
        /\ given' = [given EXCEPT ![r] = number[elem[r]]]
        /\ asked' = [asked EXCEPT ![r] = None]
    BY <1>3 DEF Hand, Check, Goto
  <2>2. /\ asked[r] \in Nat /\ asked[r] <= number[idx[r]] /\ elem[r] = idx[r]
        /\ newest = 0 => idx[r] = current
    BY <2>1 DEF AskedOK
  <2>3. idx[r] \in Index \ {current}
    BY <2>1 DEF Refused, NeverComplete, TypeOK
  <2>4. newest \in Nat /\ number[idx[r]] \in Nat /\ number[idx[r]] < newest
    BY <2>2, <2>3 DEF NumberedOK
  <2>5. number[elem[r]] \in asked[r] .. newest - 1 /\ asked[r] # C!Nothing
    BY <2>2, <2>4 DEF C!Nothing
  <2>6. QED
    BY <2>1, <2>5 DEF C!Hand, C!Nothing, None
<1>4. ASSUME NEW r \in Readers, Refuse(r)
      PROVE  UNCHANGED <<newest, asked, given>>
  BY <1>4 DEF Refuse, history
<1>5. CASE Rest \/ UNCHANGED feedVars
  BY <1>5 DEF Rest, feedVars, history
<1>6. QED
  BY <1>1, <1>2, <1>3, <1>4, <1>5 DEF FeedNext, C!Next

\* A reader is handed a frame no older than the newest one when it asked, and no
\* longer in the making, whatever the number of writers and the interleaving, with
\* interrupted waits and deaths (databuffer.cpp:124-140).
THEOREM Newer == FeedSpec => HandsOutNewer
<1>1. FeedInit => NeverComplete /\ NumberedOK /\ AskedOK /\ C!Init
  BY ElementsAssumption
     DEF FeedInit, Init, NeverComplete, NumberedOK, AskedOK, C!Init, C!Nothing, None, Index, Readers
<1>2. FeedSpec => []TypeOK
  <2>1. FeedInit => Init
    BY DEF FeedInit
  <2>2. [FeedNext]_feedVars => [Next]_vars
    BY FeedIsRing
  <2>3. QED
    BY <2>1, <2>2, TypeCorrect, PTL DEF FeedSpec, Spec
<1>3. TypeOK /\ NeverComplete /\ NumberedOK /\ AskedOK /\ [FeedNext]_feedVars
        => NeverComplete' /\ NumberedOK' /\ AskedOK'
  BY FeedIsRing, FlagsStayClear, NumberedStep, AskedStep
<1>4. TypeOK /\ NeverComplete /\ NumberedOK /\ AskedOK /\ [FeedNext]_feedVars
        => [C!Next]_<<newest, asked, given>>
  BY ChannelStep
<1>5. QED
  BY <1>1, <1>2, <1>3, <1>4, PTL DEF FeedSpec, HandsOutNewer, C!Spec

=============================================================================
