-------------------------- MODULE Spending_proofs ---------------------------
(***************************************************************************)
(* Proofs about Spending, for any requests, verification ids, amounts,     *)
(* limits and faults.                                                      *)
(***************************************************************************)
EXTENDS Spending, FiniteSetTheorems, TLAPS

\* A request that is shown to verifyId shows an id.
ShowsId == \A r \in Requests : pc[r] \in {"verify", "found"} => shown[r] \in Ids

Typed == TypeOK /\ ShowsId

\* Every step keeps the types.
LEMMA TypeStep == Typed /\ [Next]_vars => Typed'
<1> SUFFICES ASSUME Typed, [Next]_vars PROVE Typed'
  OBVIOUS
<1> USE SpendingAssumption DEF Typed, TypeOK, ShowsId, input, ghosts
<1>1. ASSUME NEW i \in Ids, Issue(i) PROVE Typed'
  BY <1>1 DEF Issue
<1>2. ASSUME NEW r \in Requests, NEW k \in Kinds, NEW x \in Amounts,
             NEW i \in Ids \cup {NoId}, Ask(r, k, x, i)
      PROVE  Typed'
  <2>1. /\ kind' \in [Requests -> Kinds] /\ amount' \in [Requests -> Int]
        /\ shown' \in [Requests -> Ids \cup {NoId}]
    BY <1>2 DEF Ask
  <2>2. pc' \in [Requests -> {"idle", "verify", "found", "limit", "funds", "save",
                              "debit", "bill", "ended", "lost"}]
    BY <1>2 DEF Ask
  <2>3. ShowsId'
    BY <1>2 DEF Ask
  <2> QED
    BY <1>2, <2>1, <2>2, <2>3 DEF Ask
<1>3. ASSUME NEW r \in Requests, ReadId(r) PROVE Typed'
  BY <1>3 DEF ReadId
<1>4. ASSUME NEW r \in Requests, SpendId(r) PROVE Typed'
  BY <1>4 DEF SpendId
<1>5. ASSUME NEW r \in Requests, CheckLimit(r) PROVE Typed'
  BY <1>5 DEF CheckLimit
<1>6. ASSUME NEW r \in Requests, CheckFunds(r) PROVE Typed'
  BY <1>6 DEF CheckFunds, TurnDown
<1>7. ASSUME NEW r \in Requests, Refuse(r) PROVE Typed'
  BY <1>7 DEF Refuse
<1>8. ASSUME NEW r \in Requests, SaveRow(r) PROVE Typed'
  BY <1>8 DEF SaveRow, TurnDown
<1>9. ASSUME NEW r \in Requests, Debit(r) PROVE Typed'
  BY <1>9 DEF Debit, MoveMoney, Between
<1>10. ASSUME NEW r \in Requests, FailToDebit(r) PROVE Typed'
  BY <1>10 DEF FailToDebit, MoveMoney, Between
<1>11. ASSUME NEW r \in Requests, SaveBill(r) PROVE Typed'
  BY <1>11 DEF SaveBill
<1>12. ASSUME NEW x \in Amounts, Receive(x) PROVE Typed'
  BY <1>12 DEF Receive, Between
<1>16. ASSUME NEW x \in Amounts, Collect(x) PROVE Typed'
  BY <1>16 DEF Collect, Between
<1>13. CASE NewDay
  BY <1>13 DEF NewDay
<1>14. CASE Crash
  BY <1>14 DEF Crash, Running
<1>15. CASE UNCHANGED vars
  BY <1>15 DEF vars
<1> QED
  BY <1>1, <1>2, <1>3, <1>4, <1>5, <1>6, <1>7, <1>8, <1>9, <1>10, <1>11, <1>12,
     <1>13, <1>14, <1>15, <1>16 DEF Next, Step

LEMMA InitTyped == Init => Typed
BY SpendingAssumption DEF Init, Typed, TypeOK, ShowsId, Kinds

\* Every variable keeps its type, and the day and the faults their bounds.
THEOREM TypeCorrect == Spec => []TypeOK
<1>1. Typed => TypeOK
  BY DEF Typed
<1> QED
  BY <1>1, InitTyped, TypeStep, PTL DEF Spec

-----------------------------------------------------------------------------
(***************************************************************************)
(* The inductive invariant: an id that no two requests held at once lets   *)
(* nobody through before it is spent and one request when it is; money is  *)
(* debited near the end of a request; and what a check of the balance has  *)
(* seen is still there unless another debit has come between.              *)
(***************************************************************************)
Holds(r, i) == pc[r] = "found" /\ shown[r] = i

IdInv(i) ==
    i \notin shared =>
        /\ used[i] <= 1
        /\ pin[i] # "VERIFIED" => used[i] = 0
        /\ \A r \in Requests : Holds(r, i) => pin[i] = "PENDING"
        /\ \A r, s \in Requests : Holds(r, i) /\ Holds(s, i) => r = s

BillInv(r) ==
    r \in debited =>
        /\ pc[r] \in {"bill", "ended", "lost"}
        /\ kind[r] = "vas" => r \in bill \/ pc[r] \in {"bill", "lost"}

\* HasEnough is still true of a request the balance has admitted.
FundsInv(r) ==
    (pc[r] \in {"save", "debit"} /\ KeepsMinimum(kind[r]) /\ r \notin crossed)
        => HasEnough(r)

IInv ==
    /\ Typed
    /\ \A i \in Ids : IdInv(i)
    /\ \A r \in Requests : BillInv(r) /\ FundsInv(r)

LEMMA InitIInv == Init => IInv
BY InitTyped DEF Init, IInv, IdInv, Holds, BillInv, FundsInv

\* Every step keeps the three parts of the invariant.
LEMMA IdStep ==
    ASSUME IInv, [Next]_vars, NEW i \in Ids PROVE IdInv(i)'
<1>t. IdInv(i) /\ Typed
  BY DEF IInv
<1> USE DEF Typed, TypeOK, ShowsId, input, ghosts
<1>1. ASSUME UNCHANGED <<pin, used, shared, shown>>,
             \A r \in Requests : pc'[r] = "found" => pc[r] = "found"
      PROVE  IdInv(i)'
  BY <1>1, <1>t DEF IdInv, Holds
<1>2. ASSUME NEW j \in Ids, Issue(j) PROVE IdInv(i)'
  BY <1>2, <1>t DEF Issue, IdInv, Holds
<1>3. ASSUME NEW r \in Requests, NEW k \in Kinds, NEW x \in Amounts,
             NEW j \in Ids \cup {NoId}, Ask(r, k, x, j)
      PROVE  IdInv(i)'
  BY <1>3, <1>t DEF Ask, IdInv, Holds
<1>4. ASSUME NEW r \in Requests, ReadId(r) PROVE IdInv(i)'
  BY <1>4, <1>t DEF ReadId, IdInv, Holds
<1>5. ASSUME NEW r \in Requests, SpendId(r) PROVE IdInv(i)'
  BY <1>5, <1>t DEF SpendId, IdInv, Holds
<1>6. ASSUME NEW r \in Requests, CheckLimit(r) \/ Refuse(r) \/ SaveBill(r)
      PROVE  IdInv(i)'
  BY <1>6, <1>t, <1>1 DEF CheckLimit, Refuse, SaveBill
<1>7. ASSUME NEW r \in Requests, CheckFunds(r) \/ SaveRow(r) PROVE IdInv(i)'
  BY <1>7, <1>t, <1>1 DEF CheckFunds, SaveRow, TurnDown
<1>8. ASSUME NEW r \in Requests, Debit(r) \/ FailToDebit(r) PROVE IdInv(i)'
  BY <1>8, <1>t, <1>1 DEF Debit, FailToDebit
<1>9. ASSUME NEW x \in Amounts, Receive(x) \/ Collect(x) PROVE IdInv(i)'
  BY <1>9, <1>t, <1>1 DEF Receive, Collect
<1>10. CASE NewDay
  BY <1>10, <1>t, <1>1 DEF NewDay
<1>11. CASE Crash
  BY <1>11, <1>t, <1>1 DEF Crash, Running
<1>12. CASE UNCHANGED vars
  BY <1>12, <1>t, <1>1 DEF vars
<1> QED
  BY <1>2, <1>3, <1>4, <1>5, <1>6, <1>7, <1>8, <1>9, <1>10, <1>11, <1>12
     DEF Next, Step

LEMMA BillStep ==
    ASSUME IInv, [Next]_vars, NEW r \in Requests PROVE BillInv(r)'
<1>t. BillInv(r) /\ Typed
  BY DEF IInv
<1> USE DEF Typed, TypeOK, input, ghosts
<1>1. ASSUME UNCHANGED <<debited, kind, bill>>, pc'[r] = pc[r] PROVE BillInv(r)'
  BY <1>1, <1>t DEF BillInv
<1>2. ASSUME NEW i \in Ids, Issue(i) PROVE BillInv(r)'
  BY <1>2, <1>1 DEF Issue
<1>3. ASSUME NEW s \in Requests, NEW k \in Kinds, NEW x \in Amounts,
             NEW i \in Ids \cup {NoId}, Ask(s, k, x, i)
      PROVE  BillInv(r)'
  BY <1>3, <1>t DEF Ask, BillInv
<1>4. ASSUME NEW s \in Requests, ReadId(s) \/ SpendId(s) \/ CheckLimit(s)
      PROVE  BillInv(r)'
  BY <1>4, <1>t DEF ReadId, SpendId, CheckLimit, BillInv
<1>5. ASSUME NEW s \in Requests, CheckFunds(s) \/ Refuse(s) \/ SaveRow(s)
      PROVE  BillInv(r)'
  BY <1>5, <1>t DEF CheckFunds, Refuse, SaveRow, TurnDown, BillInv
<1>6. ASSUME NEW s \in Requests, Debit(s) PROVE BillInv(r)'
  BY <1>6, <1>t DEF Debit, MoveMoney, BillInv
<1>7. ASSUME NEW s \in Requests, FailToDebit(s) PROVE BillInv(r)'
  BY <1>7, <1>t DEF FailToDebit, MoveMoney, BillInv
<1>8. ASSUME NEW s \in Requests, SaveBill(s) PROVE BillInv(r)'
  BY <1>8, <1>t DEF SaveBill, BillInv
<1>9. ASSUME NEW x \in Amounts, Receive(x) \/ Collect(x) PROVE BillInv(r)'
  BY <1>9, <1>1 DEF Receive, Collect
<1>10. CASE NewDay
  BY <1>10, <1>1 DEF NewDay
<1>11. CASE Crash
  BY <1>11, <1>t DEF Crash, Running, BillInv
<1>12. CASE UNCHANGED vars
  BY <1>12, <1>1 DEF vars
<1> QED
  BY <1>2, <1>3, <1>4, <1>5, <1>6, <1>7, <1>8, <1>9, <1>10, <1>11, <1>12
     DEF Next, Step

LEMMA FundsStep ==
    ASSUME IInv, [Next]_vars, NEW r \in Requests PROVE FundsInv(r)'
<1>t. FundsInv(r) /\ Typed
  BY DEF IInv
<1> USE SpendingAssumption DEF Typed, TypeOK, input, ghosts, FundsInv, HasEnough
<1>1. ASSUME UNCHANGED <<balance, kind, amount, crossed>>,
             pc'[r] \in {"save", "debit"} => pc[r] \in {"save", "debit"}
      PROVE  FundsInv(r)'
  BY <1>1, <1>t DEF KeepsMinimum
<1>2. ASSUME NEW i \in Ids, Issue(i) PROVE FundsInv(r)'
  BY <1>2, <1>1 DEF Issue
<1>3. ASSUME NEW s \in Requests, NEW k \in Kinds, NEW x \in Amounts,
             NEW i \in Ids \cup {NoId}, Ask(s, k, x, i)
      PROVE  FundsInv(r)'
  BY <1>3, <1>t DEF Ask, KeepsMinimum
<1>4. ASSUME NEW s \in Requests, ReadId(s) \/ SpendId(s) \/ Refuse(s) \/ SaveBill(s)
      PROVE  FundsInv(r)'
  BY <1>4, <1>1, <1>t DEF ReadId, SpendId, Refuse, SaveBill
<1>5. ASSUME NEW s \in Requests, CheckLimit(s) PROVE FundsInv(r)'
  BY <1>5, <1>t DEF CheckLimit, KeepsMinimum
<1>6. ASSUME NEW s \in Requests, CheckFunds(s) PROVE FundsInv(r)'
  BY <1>6, <1>t DEF CheckFunds, TurnDown, KeepsMinimum
<1>7. ASSUME NEW s \in Requests, SaveRow(s) PROVE FundsInv(r)'
  BY <1>7, <1>1, <1>t DEF SaveRow, TurnDown
\* Another debit crosses a request that has been admitted; a negative one adds.
<1>8. ASSUME NEW s \in Requests, MoveMoney(s), UNCHANGED <<kind, amount>>,
             \A q \in Requests \ {s} : pc'[q] = pc[q], pc'[s] \notin {"save", "debit"}
      PROVE  FundsInv(r)'
  <2>1. CASE r = s
    BY <1>8, <2>1
  <2>2. CASE r # s /\ amount[s] > 0
    BY <1>8, <2>2 DEF MoveMoney, Between
  <2>3. CASE r # s /\ ~(amount[s] > 0)
    <3>1. balance' \in Int /\ balance' >= balance /\ UNCHANGED crossed
      BY <1>8, <1>t, <2>3 DEF MoveMoney
    <3> QED
      BY <1>8, <1>t, <2>3, <3>1 DEF KeepsMinimum
  <2> QED
    BY <2>1, <2>2, <2>3
<1>9. ASSUME NEW s \in Requests, Debit(s) PROVE FundsInv(r)'
  BY <1>9, <1>8, <1>t DEF Debit
<1>10. ASSUME NEW s \in Requests, FailToDebit(s) PROVE FundsInv(r)'
  BY <1>10, <1>8, <1>1, <1>t DEF FailToDebit
\* So does money that leaves without any of them.
<1>11. ASSUME NEW x \in Amounts, Receive(x) \/ Collect(x) PROVE FundsInv(r)'
  <2>1. x \in Int /\ balance' \in Int /\ UNCHANGED <<pc, kind, amount>>
    BY <1>11, <1>t DEF Receive, Collect
  <2>2. CASE balance' >= balance /\ UNCHANGED crossed
    BY <1>t, <2>1, <2>2 DEF KeepsMinimum
  <2>3. CASE crossed' = crossed \cup Between
    BY <2>1, <2>3 DEF Between
  <2>4. \/ balance' >= balance /\ UNCHANGED crossed
        \/ crossed' = crossed \cup Between
    BY <1>11, <1>t, <2>1 DEF Receive, Collect
  <2> QED
    BY <2>2, <2>3, <2>4
<1>12. CASE NewDay
  BY <1>12, <1>1 DEF NewDay
<1>13. CASE Crash
  BY <1>13, <1>t, <1>1 DEF Crash, Running
<1>14. CASE UNCHANGED vars
  BY <1>14, <1>1 DEF vars
<1> QED
  BY <1>2, <1>3, <1>4, <1>5, <1>6, <1>7, <1>9, <1>10, <1>11, <1>12, <1>13, <1>14
     DEF Next, Step

\* The inductive invariant holds throughout.
THEOREM Invariant == Spec => []IInv
<1>1. IInv /\ [Next]_vars => IInv'
  BY TypeStep, IdStep, BillStep, FundsStep DEF IInv
<1> QED
  BY <1>1, InitIInv, PTL DEF Spec

\* A verification id lets a second request through only if both read it
\* before either spent it.
THEOREM IdsAreSpentOnce == Spec => []IdSpentOnce
<1>1. IInv => IdSpentOnce
  BY DEF IInv, IdInv, IdSpentOnce, Typed, TypeOK
<1> QED
  BY <1>1, Invariant, PTL

\* A bill the user has paid for has its row, unless the process died first.
THEOREM PaidBillsAreRecorded == Spec => []PaidBillIsRecorded
<1>1. IInv => PaidBillIsRecorded
  BY DEF IInv, BillInv, PaidBillIsRecorded, Typed, TypeOK
<1> QED
  BY <1>1, Invariant, PTL

\* No withdrawal and no bill takes the account below its minimum, unless money
\* left the account between its check and its own debit.
THEOREM MinimumStays == Spec => MinimumKept
<1>1. ASSUME IInv, [Next]_vars, NEW r \in Requests PROVE LeavesMinimum(r)
  <2> SUFFICES ASSUME r \in debited' \ debited, KeepsMinimum(kind[r]), r \notin crossed
               PROVE  balance' >= Minimum
    BY DEF LeavesMinimum
  <2>1. PICK s \in Requests : MoveMoney(s) /\ pc[s] = "debit"
    BY <1>1 DEF Next, Step, Issue, Ask, ReadId, SpendId, CheckLimit, CheckFunds, Refuse,
                SaveRow, Debit, FailToDebit, SaveBill, Receive, Collect, NewDay, Crash, vars,
                ghosts
  <2>2. s = r
    BY <2>1 DEF MoveMoney
  <2>3. balance >= amount[r] + Minimum /\ balance' = balance - amount[r]
    BY <1>1, <2>1, <2>2 DEF IInv, FundsInv, HasEnough, MoveMoney
  <2> QED
    BY <1>1, <2>3, SpendingAssumption DEF IInv, Typed, TypeOK
<1>2. IInv /\ [Next]_vars => [\A r \in Requests : LeavesMinimum(r)]_vars
  BY <1>1
<1> QED
  BY <1>2, Invariant, PTL DEF Spec, MinimumKept

-----------------------------------------------------------------------------
(***************************************************************************)
(* Sums.  Total counts units, so what it adds up to follows from the       *)
(* cardinalities of finite sets: adding a request adds its amount, or      *)
(* nothing when that is negative, and fewer requests add up to no more.    *)
(***************************************************************************)
Units(S, am) == UNION {{r} \X (1 .. am[r]) : r \in S}

\* What a request adds to Total.
Gross(r) == IF amount[r] > 0 THEN amount[r] ELSE 0

LEMMA TotalIsUnits == \A S : Total(S) = Cardinality(Units(S, amount))
BY DEF Total, Units

\* Nothing is given back where no amount is negative.
LEMMA NoRebate ==
    ASSUME TypeOK, NEW S \in SUBSET Requests, \A r \in S : ~(amount[r] < 0)
    PROVE  Rebate(S) = 0
<1>1. \A r \in S : 1 .. -amount[r] = {}
  BY DEF TypeOK
<1>2. UNION {{r} \X (1 .. -amount[r]) : r \in S} = {}
  BY <1>1
<1> QED
  BY <1>2, FS_EmptySet DEF Rebate

LEMMA PesewasCount ==
    ASSUME NEW r, NEW n \in Nat
    PROVE  IsFiniteSet({r} \X (1 .. n)) /\ Cardinality({r} \X (1 .. n)) = n
<1>1. IsFiniteSet({r}) /\ Cardinality({r}) = 1
  BY FS_Singleton
<1>2. IsFiniteSet(1 .. n) /\ Cardinality(1 .. n) = n
  BY FS_Interval
<1>3. /\ IsFiniteSet({r} \X (1 .. n))
      /\ Cardinality({r} \X (1 .. n)) = Cardinality({r}) * Cardinality(1 .. n)
  BY <1>1, <1>2, FS_Product
<1> QED
  BY <1>1, <1>2, <1>3

LEMMA UnitsFinite ==
    ASSUME NEW S, IsFiniteSet(S), NEW am \in [S -> Nat]
    PROVE  IsFiniteSet(Units(S, am)) /\ Cardinality(Units(S, am)) \in Nat
<1> DEFINE T == {{r} \X (1 .. am[r]) : r \in S}
           f == [r \in S |-> {r} \X (1 .. am[r])]
<1>1. f \in Surjection(S, T)
  BY DEF Surjection
<1>2. IsFiniteSet(T)
  <2> HIDE DEF f, T
  <2> QED
    BY <1>1, FS_Surjection
<1>3. \A U \in T : IsFiniteSet(U)
  <2>1. ASSUME NEW r \in S PROVE IsFiniteSet({r} \X (1 .. am[r]))
    BY PesewasCount
  <2> QED
    BY <2>1
<1>4. IsFiniteSet(UNION T)
  <2> HIDE DEF T
  <2> QED
    BY <1>2, <1>3, FS_UNION
<1>5. Units(S, am) = UNION T
  BY DEF Units
<1>6. IsFiniteSet(Units(S, am))
  BY <1>4, <1>5
<1> QED
  BY <1>6, FS_CardinalityType

LEMMA UnitsOfMore ==
    ASSUME NEW S, IsFiniteSet(S), NEW r, r \notin S, NEW am \in [S \cup {r} -> Nat]
    PROVE  Cardinality(Units(S \cup {r}, am)) = Cardinality(Units(S, am)) + am[r]
<1> DEFINE U == Units(S, am)
           P == {r} \X (1 .. am[r])
<1>1. IsFiniteSet(U) /\ Cardinality(U) \in Nat
  <2>1. [s \in S |-> am[s]] \in [S -> Nat]
    OBVIOUS
  <2>2. Units(S, [s \in S |-> am[s]]) = U
    BY DEF Units
  <2> QED
    BY <2>1, <2>2, UnitsFinite
<1>2. IsFiniteSet(P) /\ Cardinality(P) = am[r] /\ am[r] \in Nat
  BY PesewasCount
<1>3. Units(S \cup {r}, am) = U \cup P
  BY DEF Units
<1>4. U \cap P = {}
  BY DEF Units
<1> HIDE DEF U, P
<1>5. Cardinality(U \cup P) = Cardinality(U) + Cardinality(P) - Cardinality(U \cap P)
  BY <1>1, <1>2, FS_Union
<1>6. Cardinality(U \cup P) = Cardinality(U) + am[r]
  BY <1>1, <1>2, <1>4, <1>5, FS_EmptySet
<1> QED
  BY <1>3, <1>6 DEF U

LEMMA UnitsOfFewer ==
    ASSUME NEW S, IsFiniteSet(S), NEW am \in [S -> Nat], NEW T \in SUBSET S
    PROVE  Cardinality(Units(T, am)) <= Cardinality(Units(S, am))
<1>1. Units(T, am) \subseteq Units(S, am)
  BY DEF Units
<1> QED
  BY <1>1, UnitsFinite, FS_Subset

LEMMA UnitsOfSame ==
    ASSUME NEW S, NEW am, NEW an, \A r \in S : am[r] = an[r]
    PROVE  Units(S, am) = Units(S, an)
BY DEF Units

\* What the lemmas above say of Total.
LEMMA TotalFacts ==
    ASSUME TypeOK, NEW S \in SUBSET Requests, IsFiniteSet(S)
    PROVE  /\ Total(S) \in Nat
           /\ \A r \in Requests \ S : Total(S \cup {r}) = Total(S) + Gross(r)
           /\ \A T \in SUBSET S : Total(T) <= Total(S)
<1> DEFINE am(U) == [r \in U |-> Gross(r)]
<1>t. \A r \in Requests : Gross(r) \in Nat /\ 1 .. amount[r] = 1 .. Gross(r)
  <2> SUFFICES ASSUME NEW r \in Requests
               PROVE  Gross(r) \in Nat /\ 1 .. amount[r] = 1 .. Gross(r)
    OBVIOUS
  <2>1. amount[r] \in Int
    BY DEF TypeOK
  <2>2. CASE amount[r] > 0
    BY <2>1, <2>2 DEF Gross
  <2>3. CASE ~(amount[r] > 0)
    BY <2>1, <2>3 DEF Gross
  <2> QED
    BY <2>2, <2>3
<1>1. \A U \in SUBSET Requests : am(U) \in [U -> Nat]
  BY <1>t
<1>2. ASSUME NEW U \in SUBSET Requests, NEW T \in SUBSET U
      PROVE  Total(T) = Cardinality(Units(T, am(U)))
  <2>1. \A r \in T : {r} \X (1 .. amount[r]) = {r} \X (1 .. am(U)[r])
    BY <1>t
  <2>2. Units(T, amount) = Units(T, am(U))
    BY <2>1 DEF Units
  <2> QED
    BY <2>2, TotalIsUnits
<1> HIDE DEF am
<1>3. Total(S) \in Nat
  <2>1. Total(S) = Cardinality(Units(S, am(S)))
    BY <1>2
  <2> QED
    BY <1>1, <2>1, UnitsFinite
<1>4. ASSUME NEW r \in Requests \ S PROVE Total(S \cup {r}) = Total(S) + Gross(r)
  <2>1. am(S \cup {r}) \in [S \cup {r} -> Nat]
    BY <1>1
  <2>2. am(S \cup {r})[r] = Gross(r)
    BY DEF am
  <2> QED
    BY <1>2, <2>1, <2>2, UnitsOfMore
<1>5. ASSUME NEW T \in SUBSET S PROVE Total(T) <= Total(S)
  BY <1>1, <1>2, UnitsOfFewer
<1> QED
  BY <1>3, <1>4, <1>5

LEMMA TotalOfNone == Total({}) = 0
<1>1. Units({}, amount) = {}
  BY DEF Units
<1> QED
  BY <1>1, TotalIsUnits, FS_EmptySet

-----------------------------------------------------------------------------
(***************************************************************************)
(* The daily limit.  A request that asked the limit while no other was     *)
(* between its answer and its row, and no negative row was counted, is     *)
(* the only one of its kind there, and                                     *)
(* what its answer left room for is still free when its row is saved: rows *)
(* are saved by requests that were admitted, and at midnight the day has   *)
(* none.  Only finitely many rows have been saved.                         *)
(***************************************************************************)
Before == {"idle", "verify", "found", "limit", "funds", "save"}

RowInv(r) ==
    /\ row[r] <= today
    /\ pc[r] \in Before => row[r] = 0

Saved == {r \in Requests : row[r] # 0}

Excused == raced \cup eased

RowsOf(k, d) == {r \in Requests \ Excused : kind[r] = k /\ row[r] = d}

Asking(k) == {r \in Requests \ Excused : kind[r] = k /\ pc[r] \in {"funds", "save"}}

LimitInv(k) ==
    /\ \A d \in 1 .. Days + 1 : Total(RowsOf(k, d)) <= Limit[LimitType(k)]
    /\ \A r \in Asking(k) : Total(RowsOf(k, today)) + Gross(r) <= Limit[LimitType(k)]
    /\ \A r, s \in Asking(k) : r = s

RowsInv ==
    /\ Typed
    /\ \A r \in Requests : RowInv(r)
    /\ IsFiniteSet(Saved)

DayInv == RowsInv /\ \A k \in {"withdrawal", "transfer"} : LimitInv(k)

\* A row is saved by a step that takes its request past the gates.
Saves(r) ==
    /\ pc[r] \in {"funds", "save"} /\ pc'[r] \notin Before
    /\ row' = [row EXCEPT ![r] = today]
    /\ \A s \in Requests \ {r} : pc'[s] = pc[s]
    /\ UNCHANGED <<kind, amount, raced, eased, today>>

LEMMA RowChanges ==
    ASSUME Typed, [Next]_vars
    PROVE  UNCHANGED row \/ \E r \in Requests : Saves(r)
<1> USE DEF Typed, TypeOK, input, ghosts, vars, Saves, Before
<1>1. ASSUME NEW r \in Requests, CheckFunds(r) PROVE UNCHANGED row \/ Saves(r)
  BY <1>1 DEF CheckFunds, TurnDown
<1>2. ASSUME NEW r \in Requests, SaveRow(r) PROVE UNCHANGED row \/ Saves(r)
  BY <1>2 DEF SaveRow, TurnDown
<1> QED
  BY <1>1, <1>2 DEF Next, Step, Issue, Ask, ReadId, SpendId, CheckLimit, Refuse,
     Debit, FailToDebit, SaveBill, Receive, Collect, NewDay, Crash

LEMMA InitRowsInv == Init => RowsInv
<1> SUFFICES ASSUME Init PROVE RowsInv
  OBVIOUS
<1>1. \A r \in Requests : RowInv(r)
  BY DEF Init, RowInv
<1>2. Saved = {}
  BY DEF Init, Saved
<1> QED
  BY <1>1, <1>2, InitTyped, FS_EmptySet DEF RowsInv

LEMMA RowsStep == RowsInv /\ [Next]_vars => RowsInv'
<1> SUFFICES ASSUME RowsInv, [Next]_vars PROVE RowsInv'
  OBVIOUS
<1>t. Typed /\ Typed'
  BY TypeStep DEF RowsInv
<1>1. UNCHANGED row \/ \E r \in Requests : Saves(r)
  BY <1>t, RowChanges
<1>2. IsFiniteSet(Saved)'
  <2>1. CASE UNCHANGED row
    BY <2>1 DEF RowsInv, Saved
  <2>2. ASSUME NEW r \in Requests, Saves(r) PROVE IsFiniteSet(Saved')
    <3>1. IsFiniteSet(Saved \cup {r})
      BY FS_AddElement DEF RowsInv
    <3>2. Saved' \in SUBSET (Saved \cup {r})
      BY <1>t, <2>2 DEF Saved, Saves, Typed, TypeOK
    <3> QED
      BY <3>1, <3>2, FS_Subset
  <2> QED
    BY <1>1, <2>1, <2>2
<1>3. today' = today \/ today' = today + 1
  BY DEF Next, Step, Issue, Ask, ReadId, SpendId, CheckLimit, CheckFunds, Refuse,
     SaveRow, Debit, FailToDebit, SaveBill, Receive, Collect, NewDay, Crash, vars
<1>4. ASSUME NEW r \in Requests PROVE RowInv(r)'
  <2>r. RowInv(r)
    BY DEF RowsInv
  <2>1. CASE UNCHANGED row
    <3>1. pc'[r] \in Before => pc[r] \in Before
      BY <1>t DEF Before, Next, Step, Issue, Ask, ReadId, SpendId, CheckLimit,
         CheckFunds, TurnDown, Refuse, SaveRow, Debit, FailToDebit, SaveBill, Receive,
         Collect, NewDay, Crash, vars, Typed, TypeOK
    <3> QED
      BY <1>3, <1>t, <2>r, <2>1, <3>1 DEF RowInv, Typed, TypeOK
  <2>2. ASSUME NEW s \in Requests, Saves(s) PROVE RowInv(r)'
    BY <1>t, <2>r, <2>2 DEF Saves, RowInv, Typed, TypeOK
  <2> QED
    BY <1>1, <2>1, <2>2
<1> QED
  BY <1>t, <1>2, <1>4 DEF RowsInv

\* Rows of one day are finitely many, and adding up is as TotalFacts has it.
LEMMA RowsOfFacts ==
    ASSUME RowsInv, NEW k, NEW d \in 1 .. Days + 1
    PROVE  RowsOf(k, d) \in SUBSET Requests /\ IsFiniteSet(RowsOf(k, d))
<1>1. RowsOf(k, d) \in SUBSET Saved
  BY SpendingAssumption DEF RowsOf, Saved
<1> QED
  BY <1>1, FS_Subset DEF RowsInv, RowsOf

LEMMA TotalPrimed ==
    ASSUME NEW k, NEW d, \A r \in RowsOf(k, d)' : amount'[r] = amount[r]
    PROVE  Total(RowsOf(k, d))' = Total(RowsOf(k, d)')
<1>1. Total(RowsOf(k, d))' = Cardinality(Units(RowsOf(k, d)', amount'))
  BY DEF Total, Units
<1>2. Units(RowsOf(k, d)', amount') = Units(RowsOf(k, d)', amount)
  BY UnitsOfSame
<1> QED
  BY <1>1, <1>2, TotalIsUnits

\* Steps that save no row and admit nobody: rows and askers get no more.
LEMMA QuietStep ==
    ASSUME DayInv, UNCHANGED <<row, today>>, Excused \subseteq Excused',
           NEW k \in {"withdrawal", "transfer"}, Asking(k)' \subseteq Asking(k),
           \A r \in Requests :
               row[r] # 0 \/ r \in Asking(k)' => kind'[r] = kind[r] /\ amount'[r] = amount[r]
    PROVE  LimitInv(k)'
<1>1. RowsInv /\ LimitInv(k) /\ TypeOK
  BY DEF DayInv, RowsInv, Typed
<1>2. ASSUME NEW d \in 1 .. Days + 1
      PROVE  /\ Total(RowsOf(k, d))' \in Nat /\ Total(RowsOf(k, d)) \in Nat
             /\ Total(RowsOf(k, d))' <= Total(RowsOf(k, d))
  <2>1. d # 0
    BY SpendingAssumption
  <2>2. RowsOf(k, d)' \in SUBSET RowsOf(k, d)
    BY <2>1 DEF RowsOf
  <2>3. Total(RowsOf(k, d))' = Total(RowsOf(k, d)')
    <3>1. \A r \in RowsOf(k, d)' : amount'[r] = amount[r]
      BY <2>1 DEF RowsOf
    <3> QED
      BY <3>1, TotalPrimed
  <2>4. RowsOf(k, d) \in SUBSET Requests /\ IsFiniteSet(RowsOf(k, d))
    BY <1>1, RowsOfFacts
  <2>5. RowsOf(k, d)' \in SUBSET Requests /\ IsFiniteSet(RowsOf(k, d)')
    BY <2>2, <2>4, FS_Subset
  <2> QED
    BY <1>1, <2>2, <2>3, <2>4, <2>5, TotalFacts
<1>3. Limit[LimitType(k)] \in Nat
  BY SpendingAssumption DEF LimitType, Types
<1>4. \A r \in Asking(k)' : r \in Asking(k) /\ Gross(r)' = Gross(r) /\ Gross(r) \in Nat
  BY <1>1 DEF Asking, TypeOK, Gross
<1>5. today \in 1 .. Days + 1
  BY <1>1 DEF TypeOK
<1>6. \A d \in 1 .. Days + 1 : Total(RowsOf(k, d))' <= Limit[LimitType(k)]
  BY <1>1, <1>2, <1>3 DEF LimitInv
<1>7. \A r \in Asking(k)' : Total(RowsOf(k, today))' + Gross(r)' <= Limit[LimitType(k)]
  <2>1. Total(RowsOf(k, today))' <= Total(RowsOf(k, today))
    BY <1>2, <1>5
  <2> QED
    BY <1>1, <1>2, <1>3, <1>4, <1>5, <2>1 DEF LimitInv
<1> QED
  BY <1>1, <1>4, <1>6, <1>7 DEF LimitInv

\* A request is admitted: the answer it got counts every row of its kind.
LEMMA AdmitStep ==
    ASSUME DayInv, NEW k \in {"withdrawal", "transfer"},
           NEW r \in Requests, CheckLimit(r), Within(r), kind[r] = k, ~TooSmall(r),
           r \notin Excused'
    PROVE  LimitInv(k)'
<1>1. RowsInv /\ LimitInv(k) /\ TypeOK
  BY DEF DayInv, RowsInv, Typed
<1> USE <1>1
<1>2. Asking(k) = {} /\ UNCHANGED <<raced, eased>> /\ ~Eases(r)
  BY DEF CheckLimit, Admitted, HasLimit, Asking, Excused
<1>3. Asking(k)' \subseteq {r}
  BY <1>2 DEF CheckLimit, Asking, Excused, TypeOK, input
<1>4. \A d : RowsOf(k, d)' = RowsOf(k, d)
  BY <1>2 DEF CheckLimit, RowsOf, Excused, input
<1>5. UNCHANGED <<amount, today>>
  BY DEF CheckLimit, input
<1>6. today \in 1 .. Days + 1 /\ today # 0
  BY SpendingAssumption DEF TypeOK
<1>7. Total(RowsOf(k, today)) + Gross(r) <= Limit[LimitType(k)]
  <2> DEFINE C == Counted(LimitType(k), today)
  <2>1. C \in SUBSET Requests /\ IsFiniteSet(C)
    <3>1. C \in SUBSET Saved
      BY <1>6 DEF Counted, Saved
    <3> QED
      BY <3>1, FS_Subset DEF RowsInv, Saved
  <2>2. RowsOf(k, today) \in SUBSET C
    BY DEF RowsOf, Counted, LimitType, RowType
  <2>3. Total(C) + amount[r] <= Limit[LimitType(k)]
    <3>1. Rebate(C) = 0
      BY <1>2, <2>1, NoRebate DEF Eases
    <3>2. Total(C) \in Nat
      BY <2>1, TotalFacts
    <3>3. Total(C) - Rebate(C) + amount[r] <= Limit[LimitType(k)]
      BY DEF Within, Spent
    <3> QED
      BY <3>1, <3>2, <3>3
  <2>4. RowsOf(k, today) \in SUBSET Requests /\ IsFiniteSet(RowsOf(k, today))
    BY <1>6, RowsOfFacts
  <2>5. /\ Total(C) \in Nat /\ Total(RowsOf(k, today)) \in Nat
        /\ Total(RowsOf(k, today)) <= Total(C)
    BY <2>1, <2>2, <2>4, TotalFacts
  <2>6. amount[r] \in Int /\ Limit[LimitType(k)] \in Nat
    BY SpendingAssumption DEF TypeOK, LimitType, Types
  <2>7. Total(RowsOf(k, today)) <= Limit[LimitType(k)]
    BY <1>6 DEF LimitInv
  <2> HIDE DEF C
  <2> QED
    BY <2>3, <2>5, <2>6, <2>7 DEF Gross
<1>8. \A d : Total(RowsOf(k, d))' = Total(RowsOf(k, d))
  BY <1>4, <1>5, TotalPrimed
<1>9. Gross(r)' = Gross(r)
  BY <1>5 DEF Gross
<1> QED
  BY <1>3, <1>5, <1>7, <1>8, <1>9 DEF LimitInv

\* A row is saved: if it counts, it is the row of the only one admitted.
LEMMA SavesStep ==
    ASSUME DayInv, TypeOK', NEW k \in {"withdrawal", "transfer"},
           NEW r \in Requests, Saves(r)
    PROVE  LimitInv(k)'
<1>1. RowsInv /\ LimitInv(k) /\ TypeOK
  BY DEF DayInv, RowsInv, Typed
<1> USE <1>1
<1>2. row[r] = 0 /\ today \in 1 .. Days + 1 /\ today # 0
  BY SpendingAssumption DEF RowsInv, RowInv, Saves, Before, TypeOK
<1>3. Asking(k)' = Asking(k) \ {r}
  BY DEF Asking, Excused, Saves, Before
<1>4. \A d : Total(RowsOf(k, d))' = Total(RowsOf(k, d)')
  BY TotalPrimed DEF Saves
<1>5. CASE r \in Asking(k)
  <2>1. Asking(k)' = {}
    BY <1>3, <1>5 DEF LimitInv
  <2>2. ASSUME NEW d \in 1 .. Days + 1
        PROVE  Total(RowsOf(k, d)') <= Limit[LimitType(k)]
    <3>1. CASE d = today
      <4>1. RowsOf(k, d)' = RowsOf(k, d) \cup {r}
        BY <1>2, <1>5, <3>1 DEF RowsOf, Asking, Excused, Saves, TypeOK
      <4>2. r \in Requests \ RowsOf(k, d)
        BY <1>2, <3>1 DEF RowsOf
      <4>3. Total(RowsOf(k, d) \cup {r}) = Total(RowsOf(k, d)) + Gross(r)
        BY <4>2, RowsOfFacts, TotalFacts
      <4> QED
        BY <1>5, <3>1, <4>1, <4>3 DEF LimitInv
    <3>2. CASE d # today
      <4>1. RowsOf(k, d)' = RowsOf(k, d)
        BY <1>2, <3>2, SpendingAssumption DEF RowsOf, Excused, Saves, TypeOK
      <4> QED
        BY <4>1 DEF LimitInv
    <3> QED
      BY <3>1, <3>2
  <2> QED
    BY <1>4, <2>1, <2>2 DEF LimitInv
<1>6. CASE r \notin Asking(k)
  <2>1. \A d \in 1 .. Days + 1 : RowsOf(k, d)' = RowsOf(k, d)
    BY <1>2, <1>6 DEF RowsOf, Asking, Excused, Saves, TypeOK
  <2>2. /\ UNCHANGED today /\ Asking(k)' = Asking(k)
        /\ \A s : Gross(s)' = Gross(s)
    BY <1>3, <1>6 DEF Saves, Gross
  <2> QED
    BY <1>2, <1>4, <2>1, <2>2 DEF LimitInv
<1> QED
  BY <1>5, <1>6

\* Midnight: the new day has no rows, and who was admitted still fits in it.
LEMMA MidnightStep ==
    ASSUME DayInv, TypeOK', NEW k \in {"withdrawal", "transfer"}, NewDay
    PROVE  LimitInv(k)'
<1>1. RowsInv /\ LimitInv(k) /\ TypeOK
  BY DEF DayInv, RowsInv, Typed
<1> USE <1>1
<1>2. \A d : RowsOf(k, d)' = RowsOf(k, d)
  BY DEF RowsOf, Excused, NewDay, input, ghosts
<1>3. Asking(k)' = Asking(k) /\ UNCHANGED amount /\ \A r : Gross(r)' = Gross(r)
  BY DEF Asking, Excused, Gross, NewDay, input, ghosts
<1>4. \A d : Total(RowsOf(k, d))' = Total(RowsOf(k, d))
  BY <1>2, <1>3, TotalPrimed
<1>5. Total(RowsOf(k, today')) = 0
  <2>1. RowsOf(k, today') = {}
    BY DEF RowsOf, NewDay, RowsInv, RowInv, TypeOK
  <2> QED
    BY <2>1, TotalOfNone
<1>6. ASSUME NEW r \in Asking(k) PROVE Gross(r) <= Limit[LimitType(k)]
  <2>1. Total(RowsOf(k, today)) \in Nat
    BY RowsOfFacts, TotalFacts DEF TypeOK
  <2>2. Total(RowsOf(k, today)) + Gross(r) <= Limit[LimitType(k)]
    BY <1>6 DEF LimitInv
  <2>3. Gross(r) \in Nat /\ Limit[LimitType(k)] \in Nat
    BY <1>6, SpendingAssumption DEF TypeOK, LimitType, Types, Asking, Gross
  <2> QED
    BY <2>1, <2>2, <2>3
<1>7. ASSUME NEW r \in Asking(k)' PROVE (Total(RowsOf(k, today)) + Gross(r))' <= Limit[LimitType(k)]
  <2>1. Total(RowsOf(k, today))' = 0
    BY <1>2, <1>3, <1>5, TotalPrimed
  <2>2. Gross(r) \in Nat /\ Gross(r)' = Gross(r)
    BY <1>3, <1>7 DEF TypeOK, Asking, Gross
  <2> QED
    BY <1>3, <1>6, <1>7, <2>1, <2>2
<1> QED
  BY <1>3, <1>4, <1>7 DEF LimitInv

LEMMA LimitStep ==
    ASSUME DayInv, [Next]_vars, NEW k \in {"withdrawal", "transfer"}
    PROVE  LimitInv(k)'
<1>1. RowsInv /\ LimitInv(k) /\ TypeOK /\ TypeOK'
  BY RowsStep DEF DayInv, RowsInv, Typed
<1>2. \A r \in Requests : row[r] # 0 => pc[r] \notin Before
  BY <1>1 DEF RowsInv, RowInv
<1> USE DEF TypeOK, input, ghosts, Asking, Excused, Before
<1>3. ASSUME NEW i \in Ids, Issue(i) PROVE LimitInv(k)'
  BY <1>1, <1>3, QuietStep DEF Issue
<1>4. ASSUME NEW r \in Requests, NEW j \in Kinds, NEW x \in Amounts,
             NEW i \in Ids \cup {NoId}, Ask(r, j, x, i)
      PROVE  LimitInv(k)'
  <2>1. Asking(k)' \subseteq Asking(k) /\ \A s \in Asking(k)' : s # r
    BY <1>1, <1>4 DEF Ask
  <2>2. \A s \in Requests : s # r => kind'[s] = kind[s] /\ amount'[s] = amount[s]
    BY <1>1, <1>4 DEF Ask
  <2> QED
    BY <1>1, <1>2, <1>4, <2>1, <2>2, QuietStep DEF Ask
<1>5. ASSUME NEW r \in Requests, ReadId(r) \/ SpendId(r) \/ Refuse(r) \/ SaveBill(r)
      PROVE  LimitInv(k)'
  BY <1>1, <1>5, QuietStep DEF ReadId, SpendId, Refuse, SaveBill
<1>6. ASSUME NEW r \in Requests, CheckLimit(r) PROVE LimitInv(k)'
  <2>1. CASE Within(r) /\ ~TooSmall(r) /\ kind[r] = k /\ r \notin Excused'
    BY <1>6, <2>1, AdmitStep
  <2>2. CASE ~ (Within(r) /\ ~TooSmall(r) /\ kind[r] = k /\ r \notin Excused')
    <3>1. Asking(k)' \subseteq Asking(k) /\ Excused \subseteq Excused'
      BY <1>1, <1>6, <2>2 DEF CheckLimit
    <3> QED
      BY <1>1, <1>6, <3>1, QuietStep DEF CheckLimit
  <2> QED
    BY <2>1, <2>2
<1>7. ASSUME NEW r \in Requests, CheckFunds(r) \/ SaveRow(r) PROVE LimitInv(k)'
  <2>1. CASE UNCHANGED row
    BY <1>1, <1>7, <2>1, QuietStep DEF CheckFunds, SaveRow, TurnDown
  <2>2. CASE ~ UNCHANGED row
    <3>1. PICK s \in Requests : Saves(s)
      BY <1>1, <1>7, <2>2, RowChanges DEF Next, Step, DayInv, RowsInv
    <3> QED
      BY <1>1, <3>1, SavesStep
  <2> QED
    BY <2>1, <2>2
<1>8. ASSUME NEW r \in Requests, Debit(r) \/ FailToDebit(r) PROVE LimitInv(k)'
  BY <1>1, <1>8, QuietStep DEF Debit, FailToDebit
<1>9. ASSUME NEW x \in Amounts, Receive(x) \/ Collect(x) PROVE LimitInv(k)'
  BY <1>1, <1>9, QuietStep DEF Receive, Collect
<1>10. CASE NewDay
  BY <1>1, <1>10, MidnightStep
<1>11. CASE Crash
  BY <1>1, <1>11, QuietStep DEF Crash, Running
<1>12. CASE UNCHANGED vars
  BY <1>1, <1>12, QuietStep DEF vars
<1> QED
  BY <1>3, <1>4, <1>5, <1>6, <1>7, <1>8, <1>9, <1>10, <1>11, <1>12 DEF Next, Step

LEMMA InitDayInv == Init => DayInv
<1> SUFFICES ASSUME Init, NEW k \in {"withdrawal", "transfer"} PROVE LimitInv(k)
  BY InitRowsInv DEF DayInv
<1>1. Limit[LimitType(k)] \in Nat
  BY SpendingAssumption DEF LimitType, Types
<1>2. ASSUME NEW d \in 1 .. Days + 1 PROVE Total(RowsOf(k, d)) = 0
  <2>1. RowsOf(k, d) = {}
    BY SpendingAssumption DEF Init, RowsOf
  <2> QED
    BY <2>1, TotalOfNone
<1>3. Asking(k) = {}
  BY DEF Init, Asking
<1> QED
  BY <1>1, <1>2, <1>3 DEF LimitInv

\* What withdrawals, and transfers, leave rows for on one day is within the
\* limit, for any limits, amounts and number of requests, however many days
\* pass between question and row, but for those whose question was raced or
\* counted a negative row.
THEOREM DailyLimit == Spec => []LimitKept
<1>1. DayInv /\ [Next]_vars => DayInv'
  BY RowsStep, LimitStep DEF DayInv
<1>2. DayInv => LimitKept
  BY DEF DayInv, LimitInv, RowsOf, Excused, LimitKept
<1> QED
  BY <1>1, <1>2, InitDayInv, PTL DEF Spec

=============================================================================
