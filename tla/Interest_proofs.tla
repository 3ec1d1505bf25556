--------------------------- MODULE Interest_proofs ---------------------------
(***************************************************************************)
(* Proofs about Interest, for any accounts, nights, amounts and faults:    *)
(* a row that is COMPLETED was in a sum that was transferred, and was in   *)
(* one such sum only, but for the windows the two properties name.         *)
(***************************************************************************)
EXTENDS Interest, TLAPS

\* A payment has rows of its own account only.
OwnRows == \A a \in Accounts : payment[a].rows \subseteq RowsOf(a)

\* What a payment has yet to transfer is PENDING, and takes in all that was
\* PENDING when it was listed.
Listed(a, r) ==
    payment[a].at \in {"listed", "pay"} =>
        /\ r \in payment[a].rows => status[r] = "PENDING"
        /\ status[r] = "PENDING" => r \in payment[a].rows \cup overtaken

\* A row that the property CompletedIsPaid does not excuse has been paid.
Accounted(r) == r \notin overtaken \cup refused => paid[r] > 0

\* Whatever is COMPLETED, or about to be, is accounted for.
Completing(a, r) ==
    \/ status[r] = "COMPLETED"
    \/ payment[a].at = "find" /\ status[r] = "PENDING"
    \/ payment[a].at = "mark" /\ r \in payment[a].rows

\* A row that is paid and still PENDING is in the hands of the payment that
\* paid it, which is about to mark it, or that payment was interrupted.
Unmarked(a, r) ==
    /\ status[r] = "none" => paid[r] = 0
    /\ (status[r] = "PENDING" /\ r \notin interrupted /\ paid[r] # 0) =>
          \/ payment[a].at = "find"
          \/ payment[a].at = "mark" /\ r \in payment[a].rows

RowInv(a, r) ==
    /\ Listed(a, r)
    /\ Completing(a, r) => Accounted(r)
    /\ Unmarked(a, r)
    /\ r \notin interrupted => paid[r] <= 1

IInv ==
    /\ TypeOK
    /\ OwnRows
    /\ \A a \in Accounts : \A r \in RowsOf(a) : RowInv(a, r)

\* Every row belongs to one account.
LEMMA RowsOfAccounts ==
    /\ \A a \in Accounts : RowsOf(a) \subseteq Rows
    /\ \A r \in Rows : \E a \in Accounts : r \in RowsOf(a)
    /\ \A a, b \in Accounts : \A r \in RowsOf(a) : r \in RowsOf(b) => a = b
BY DEF Rows, RowsOf

\* The inductive invariant holds initially.
LEMMA InitIInv == Init => IInv
<1> SUFFICES ASSUME Init PROVE IInv
  OBVIOUS
<1>1. TypeOK
  BY InterestAssumption DEF Init, TypeOK, NoPayment
<1>2. OwnRows
  BY DEF Init, OwnRows, NoPayment
<1>3. ASSUME NEW a \in Accounts, NEW r \in RowsOf(a) PROVE RowInv(a, r)
  BY RowsOfAccounts
     DEF Init, NoPayment, RowInv, Listed, Accounted, Completing, Unmarked
<1> QED
  BY <1>1, <1>2, <1>3 DEF IInv

\* A step keeps the types, and payments to the rows of their accounts.
LEMMA TypeStep == IInv /\ [Next]_vars => TypeOK' /\ OwnRows'
<1> SUFFICES ASSUME TypeOK, OwnRows, [Next]_vars PROVE TypeOK' /\ OwnRows'
  BY DEF IInv
<1> USE RowsOfAccounts, InterestAssumption DEF TypeOK, OwnRows
<1>1. ASSUME NEW a \in Accounts, NEW n \in 1..Nights, NEW x \in Amounts, Accrue(a, n, x)
      PROVE  TypeOK' /\ OwnRows'
  BY <1>1 DEF Accrue, Rows
<1>2. CASE ListPending
  BY <1>2 DEF ListPending, Pending, NoPayment
<1>3. ASSUME NEW a \in Accounts, Start(a) PROVE TypeOK' /\ OwnRows'
  BY <1>3 DEF Start, NoPayment
<1>4. ASSUME NEW a \in Accounts, Pay(a) PROVE TypeOK' /\ OwnRows'
  BY <1>4 DEF Pay
<1>5. ASSUME NEW a \in Accounts, PayRefused(a) PROVE TypeOK' /\ OwnRows'
  BY <1>5 DEF PayRefused
<1>6. ASSUME NEW a \in Accounts, FindPending(a) PROVE TypeOK' /\ OwnRows'
  BY <1>6 DEF FindPending, Pending
<1>7. ASSUME NEW a \in Accounts, Mark(a) PROVE TypeOK' /\ OwnRows'
  BY <1>7 DEF Mark, NoPayment
<1>8. ASSUME NEW A \in SUBSET Accounts, Abandon(A) PROVE TypeOK' /\ OwnRows'
  <2>1. \A a \in Accounts : Pending(a) \subseteq Rows
    BY DEF Pending
  <2> QED
    BY <1>8, <2>1 DEF Abandon, NoPayment
<1>9. CASE UNCHANGED vars
  BY <1>9 DEF vars
<1>10. ASSUME NEW a \in Accounts, Throw(a) PROVE TypeOK' /\ OwnRows'
  <2>1. PICK waiting \in SUBSET {b \in Accounts : payment[b].at = "listed"} :
            Abandon({a} \cup waiting)
    BY <1>10 DEF Throw
  <2> QED
    BY <1>8, <2>1
<1>11. CASE Crash
  BY <1>8, <1>11 DEF Crash
<1> QED
  BY <1>1, <1>2, <1>3, <1>4, <1>5, <1>6, <1>7, <1>9, <1>10, <1>11 DEF Next

\* A step keeps what the invariant says of any one row.
LEMMA RowStep ==
    ASSUME IInv, [Next]_vars, NEW b \in Accounts, NEW r \in RowsOf(b)
    PROVE  RowInv(b, r)'
<1> USE DEF RowInv, Listed, Accounted, Completing, Unmarked
<1>t. /\ r \in Rows /\ payment[b].rows \subseteq RowsOf(b)
      /\ status[r] \in {"none", "PENDING", "COMPLETED"} /\ paid[r] \in Nat
      /\ payment[b].at \in {"idle", "listed", "pay", "find", "mark"}
      /\ RowInv(b, r)
  BY RowsOfAccounts DEF IInv, TypeOK, OwnRows
<1>o. ASSUME NEW a \in Accounts, a # b PROVE r \notin RowsOf(a) /\ r \notin payment[a].rows
  BY <1>o, RowsOfAccounts DEF IInv, OwnRows
<1>p. \A a \in Accounts : r \in Pending(a) <=> a = b /\ status[r] = "PENDING"
  BY <1>o DEF Pending
<1>1. ASSUME NEW a \in Accounts, NEW n \in 1..Nights, NEW x \in Amounts, Accrue(a, n, x)
      PROVE  RowInv(b, r)'
  <2>1. CASE r = <<a, n>>
    <3>1. a = b
      BY <2>1, <1>o DEF RowsOf
    <3>2. status[r] = "none" /\ status'[r] = "PENDING"
      BY <1>1, <1>t, <2>1 DEF Accrue, IInv, TypeOK
    <3>3. /\ overtaken' = IF payment[b].at = "idle" THEN overtaken ELSE overtaken \cup {r}
          /\ UNCHANGED <<payment, paid, refused, interrupted>>
      BY <1>1, <2>1, <3>1 DEF Accrue
    <3> QED
      BY <1>t, <3>2, <3>3
  <2>2. CASE r # <<a, n>>
    <3>1. /\ status'[r] = status[r]
          /\ r \in overtaken' <=> r \in overtaken
          /\ UNCHANGED <<payment, paid, refused, interrupted>>
      BY <1>1, <1>t, <2>2 DEF Accrue, IInv, TypeOK
    <3> QED
      BY <1>t, <3>1
  <2> QED
    BY <2>1, <2>2
<1>2. CASE ListPending
  <2>1. /\ payment[b].at = "idle"
        /\ payment'[b] = IF Pending(b) = {} THEN NoPayment
                         ELSE [at |-> "listed", rows |-> Pending(b)]
        /\ UNCHANGED <<status, paid, refused, overtaken, interrupted>>
    BY <1>2 DEF ListPending
  <2> QED
    BY <1>t, <1>p, <2>1 DEF NoPayment
<1>3. ASSUME NEW a \in Accounts, Start(a) PROVE RowInv(b, r)'
  BY <1>3, <1>t DEF Start, NoPayment, IInv, TypeOK
<1>4. ASSUME NEW a \in Accounts, Pay(a) PROVE RowInv(b, r)'
  <2>1. /\ paid'[r] = IF r \in payment[a].rows THEN paid[r] + 1 ELSE paid[r]
        /\ UNCHANGED <<status, refused, overtaken, interrupted>>
    BY <1>4, <1>t DEF Pay
  <2>2. CASE a = b
    <3>1. payment[b].at = "pay" /\ payment'[b].at = "find"
      BY <1>4, <2>2 DEF Pay, IInv, TypeOK
    <3> QED
      BY <1>t, <2>1, <2>2, <3>1
  <2>3. CASE a # b
    <3>1. payment'[b] = payment[b] /\ r \notin payment[a].rows
      BY <1>4, <1>o, <2>3 DEF Pay, IInv, TypeOK
    <3> QED
      BY <1>t, <2>1, <3>1
  <2> QED
    BY <2>2, <2>3
<1>5. ASSUME NEW a \in Accounts, PayRefused(a) PROVE RowInv(b, r)'
  <2>1. refused' = refused \cup payment[a].rows
        /\ UNCHANGED <<status, paid, overtaken, interrupted>>
    BY <1>5 DEF PayRefused
  <2>2. CASE a = b
    <3>1. payment[b].at = "pay" /\ payment'[b].at = "find"
      BY <1>5, <2>2 DEF PayRefused, IInv, TypeOK
    <3> QED
      BY <1>t, <2>1, <2>2, <3>1
  <2>3. CASE a # b
    <3>1. payment'[b] = payment[b]
      BY <1>5, <2>3 DEF PayRefused, IInv, TypeOK
    <3> QED
      BY <1>t, <1>o, <2>1, <2>3, <3>1
  <2> QED
    BY <2>2, <2>3
<1>6. ASSUME NEW a \in Accounts, FindPending(a) PROVE RowInv(b, r)'
  <2>1. UNCHANGED <<status, paid, refused, overtaken, interrupted>>
    BY <1>6 DEF FindPending
  <2>2. CASE a = b
    <3>1. payment[b].at = "find" /\ payment'[b].at = "mark" /\ payment'[b].rows = Pending(b)
      BY <1>6, <2>2 DEF FindPending, IInv, TypeOK
    <3> QED
      BY <1>t, <1>p, <2>1, <3>1
  <2>3. CASE a # b
    <3>1. payment'[b] = payment[b]
      BY <1>6, <2>3 DEF FindPending, IInv, TypeOK
    <3> QED
      BY <1>t, <2>1, <3>1
  <2> QED
    BY <2>2, <2>3
<1>7. ASSUME NEW a \in Accounts, Mark(a) PROVE RowInv(b, r)'
  <2>1. PICK m \in payment[a].rows :
            /\ status' = [status EXCEPT ![m] = "COMPLETED"]
            /\ payment' = [payment EXCEPT ![a] =
                   IF @.rows = {m} THEN NoPayment
                   ELSE [at |-> "mark", rows |-> @.rows \ {m}]]
    BY <1>7 DEF Mark
  <2>2. payment[a].at = "mark" /\ UNCHANGED <<paid, refused, overtaken, interrupted>>
    BY <1>7 DEF Mark
  <2>3. CASE a = b
    <3>1. status'[r] = IF r = m THEN "COMPLETED" ELSE status[r]
      BY <1>t, <2>1 DEF IInv, TypeOK
    <3>2. payment'[b] = IF payment[b].rows = {m} THEN NoPayment
                        ELSE [at |-> "mark", rows |-> payment[b].rows \ {m}]
      BY <2>1, <2>3 DEF IInv, TypeOK
    <3>3. CASE payment[b].rows = {m}
      BY <1>t, <2>2, <2>3, <3>1, <3>2, <3>3 DEF NoPayment
    <3>4. CASE payment[b].rows # {m}
      <4>1. payment'[b].at = "mark" /\ payment'[b].rows = payment[b].rows \ {m}
        BY <2>2, <2>3, <3>2, <3>4 DEF IInv, TypeOK
      <4> QED
        BY <1>t, <2>1, <2>2, <2>3, <3>1, <4>1
    <3> QED
      BY <3>3, <3>4
  <2>4. CASE a # b
    <3>1. payment'[b] = payment[b] /\ status'[r] = status[r]
      BY <1>t, <1>o, <2>1, <2>4 DEF IInv, TypeOK
    <3> QED
      BY <1>t, <2>2, <3>1
  <2> QED
    BY <2>3, <2>4
<1>8. ASSUME NEW A \in SUBSET Accounts, Abandon(A) PROVE RowInv(b, r)'
  <2>1. /\ payment'[b] = IF b \in A THEN NoPayment ELSE payment[b]
        /\ UNCHANGED <<status, paid, refused, overtaken>>
    BY <1>8 DEF Abandon
  <2>2. r \in interrupted' <=>
            \/ r \in interrupted
            \/ b \in A /\ payment[b].at \in {"find", "mark"} /\ status[r] = "PENDING"
    BY <1>8, <1>p DEF Abandon
  <2> QED
    BY <1>t, <2>1, <2>2 DEF NoPayment
<1>9. CASE UNCHANGED vars
  BY <1>t, <1>9 DEF vars
<1>10. ASSUME NEW a \in Accounts, Throw(a) PROVE RowInv(b, r)'
  <2>1. PICK waiting \in SUBSET {c \in Accounts : payment[c].at = "listed"} :
            Abandon({a} \cup waiting)
    BY <1>10 DEF Throw
  <2>2. {a} \cup waiting \in SUBSET Accounts
    BY <2>1
  <2> QED
    BY <1>8, <2>1, <2>2
<1>11. CASE Crash
  BY <1>8, <1>11 DEF Crash
<1> QED
  BY <1>1, <1>2, <1>3, <1>4, <1>5, <1>6, <1>7, <1>9, <1>10, <1>11 DEF Next

LEMMA NextIInv == IInv /\ [Next]_vars => IInv'
<1> SUFFICES ASSUME IInv, [Next]_vars PROVE IInv'
  OBVIOUS
<1>1. TypeOK' /\ OwnRows'
  BY TypeStep
<1>2. ASSUME NEW a \in Accounts, NEW r \in RowsOf(a) PROVE RowInv(a, r)'
  BY RowStep
<1> QED
  BY <1>1, <1>2 DEF IInv, RowsOf

THEOREM Invariance == Spec => []IInv
<1> QED
  BY InitIInv, NextIInv, PTL DEF Spec

\* The variables keep their types.
THEOREM TypeCorrect == Spec => []TypeOK
<1>1. IInv => TypeOK
  BY DEF IInv
<1> QED
  BY <1>1, Invariance, PTL

\* Interest marked COMPLETED was in a sum that was transferred, but for rows
\* written while their account was being paid and rows whose transfer failed
\* (payInterestForMonthEnd).
THEOREM CompletedRowsArePaid == Spec => []CompletedIsPaid
<1>1. IInv => CompletedIsPaid
  BY RowsOfAccounts DEF IInv, RowInv, Completing, Accounted, CompletedIsPaid
<1> QED
  BY <1>1, Invariance, PTL

\* Only a row that an interrupted run had paid is ever paid again
\* (payInterestForMonthEnd).
THEOREM RowsArePaidOnce == Spec => []PaidOnce
<1>1. IInv => PaidOnce
  BY RowsOfAccounts DEF IInv, RowInv, PaidOnce
<1> QED
  BY <1>1, Invariance, PTL
=============================================================================
