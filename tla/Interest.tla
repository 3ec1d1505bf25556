------------------------------- MODULE Interest -------------------------------
(***************************************************************************)
(* Interest (InterestPaymentService and its crons): every midnight a row   *)
(* of interest is written for each goal in progress, and on the first of   *)
(* the month the PENDING rows of each account are summed, the sum is       *)
(* transferred, and the account's PENDING rows, read a second time, are    *)
(* marked COMPLETED.  All of these crons fire at the same midnight and run *)
(* side by side; the accounts of a month-end run do too, in chunks, and a  *)
(* chunk in which one throws is the last.                                  *)
(*                                                                         *)
(* A transfer is one step here (TransferCore has its steps).               *)
(***************************************************************************)
EXTENDS Integers

CONSTANTS
    Accounts,  \* accounts of goals in progress
    Nights,    \* bound: nights on which interest is accrued
    Amounts,   \* what a row may amount to
    MaxFaults  \* bound: crashes, exceptions and transfers that fail

ASSUME InterestAssumption ==
    /\ Nights \in Nat /\ MaxFaults \in Nat
    /\ Amounts \subseteq Nat /\ Amounts # {}

Rows == Accounts \X (1..Nights)
RowsOf(a) == {a} \X (1..Nights)

VARIABLES
    status,       \* paymentStatus of each row, "none" before it is written
    amount,       \* its amount
    payment,      \* [at, rows] of each account's part of a month-end run
    paid,         \* how often each row has been in a sum that was transferred
    refused,      \* rows in a sum whose transfer did not succeed
    overtaken,    \* rows written while their account was being paid
    interrupted,  \* rows in a sum transferred by a run that then died
    faults

vars == <<status, amount, payment, paid, refused, overtaken, interrupted, faults>>

NoPayment == [at |-> "idle", rows |-> {}]

TypeOK ==
    /\ status \in [Rows -> {"none", "PENDING", "COMPLETED"}]
    /\ amount \in [Rows -> Nat]
    /\ payment \in [Accounts -> [at : {"idle", "listed", "pay", "find", "mark"},
                                 rows : SUBSET Rows]]
    /\ paid \in [Rows -> Nat]
    /\ refused \subseteq Rows
    /\ overtaken \subseteq Rows
    /\ interrupted \subseteq Rows
    /\ faults \in 0..MaxFaults

Init ==
    /\ status = [r \in Rows |-> "none"]
    /\ amount = [r \in Rows |-> 0]
    /\ payment = [a \in Accounts |-> NoPayment]
    /\ paid = [r \in Rows |-> 0]
    /\ refused = {} /\ overtaken = {} /\ interrupted = {}
    /\ faults = 0

-----------------------------------------------------------------------------
Pending(a) == {r \in RowsOf(a) : status[r] = "PENDING"}


\* The sum of the rows is more than zero.
SumIsPositive(rows) == \E r \in rows : amount[r] > 0

\* writeInterestPayment, in the run of this night.
Accrue(a, night, x) ==
    /\ status[<<a, night>>] = "none"
    /\ \A b \in Accounts, n \in 1..Nights : n < night - 1 => status[<<b, n>>] # "none"
    /\ status' = [status EXCEPT ![<<a, night>>] = "PENDING"]
    /\ amount' = [amount EXCEPT ![<<a, night>>] = x]
    /\ overtaken' = IF payment[a].at = "idle" THEN overtaken
                    ELSE overtaken \cup {<<a, night>>}
    /\ UNCHANGED <<payment, paid, refused, interrupted, faults>>

\* payInterestForMonthEnd: one query sums the PENDING rows of each account.
ListPending ==
    /\ \A a \in Accounts : payment[a].at = "idle"
    /\ payment' = [a \in Accounts |->
           IF Pending(a) = {} THEN NoPayment
           ELSE [at |-> "listed", rows |-> Pending(a)]]
    /\ UNCHANGED <<status, amount, paid, refused, overtaken, interrupted, faults>>

\* The account's chunk starts.  A sum of zero is left for another month.
Start(a) ==
    /\ payment[a].at = "listed"
    /\ payment' = [payment EXCEPT ![a] =
           IF SumIsPositive(@.rows) THEN [at |-> "pay", rows |-> @.rows] ELSE NoPayment]
    /\ UNCHANGED <<status, amount, paid, refused, overtaken, interrupted, faults>>

\* userAccountDepositInterest succeeds, and the payment is recorded.
Pay(a) ==
    /\ payment[a].at = "pay"
    /\ paid' = [r \in Rows |->
                   IF r \in payment[a].rows THEN paid[r] + 1 ELSE paid[r]]
    /\ payment' = [payment EXCEPT ![a].at = "find"]
    /\ UNCHANGED <<status, amount, refused, overtaken, interrupted, faults>>

\* It answers that it failed.  The answer is not looked at.
PayRefused(a) ==
    /\ payment[a].at = "pay"
    /\ faults < MaxFaults /\ faults' = faults + 1
    /\ refused' = refused \cup payment[a].rows
    /\ payment' = [payment EXCEPT ![a].at = "find"]
    /\ UNCHANGED <<status, amount, paid, overtaken, interrupted>>

\* Mutant: the rows are looked up by account only.
FindAny(a) ==
    /\ payment[a].at = "find"
    /\ payment' = [payment EXCEPT ![a] = [at |-> "mark", rows |-> RowsOf(a)]]
    /\ UNCHANGED <<status, amount, paid, refused, overtaken, interrupted, faults>>

\* The account's PENDING rows are read again, all of them.
FindPending(a) ==
    /\ payment[a].at = "find"
    /\ payment' = [payment EXCEPT ![a] = [at |-> "mark", rows |-> Pending(a)]]
    /\ UNCHANGED <<status, amount, paid, refused, overtaken, interrupted, faults>>

\* Mutant: marking ends with the first row.
MarkFirst(a) ==
    /\ payment[a].at = "mark"
    /\ \E r \in payment[a].rows : status' = [status EXCEPT ![r] = "COMPLETED"]
    /\ payment' = [payment EXCEPT ![a] = NoPayment]
    /\ UNCHANGED <<amount, paid, refused, overtaken, interrupted, faults>>

\* Promise.all of the saves: they arrive in any order.
Mark(a) ==
    /\ payment[a].at = "mark"
    /\ \E r \in payment[a].rows :
          /\ status' = [status EXCEPT ![r] = "COMPLETED"]
          /\ payment' = [payment EXCEPT ![a] =
                 IF @.rows = {r} THEN NoPayment
                 ELSE [at |-> "mark", rows |-> @.rows \ {r}]]
    /\ UNCHANGED <<amount, paid, refused, overtaken, interrupted, faults>>

\* What the accounts in A leave behind when they stop.
Abandon(A) ==
    /\ faults < MaxFaults /\ faults' = faults + 1
    /\ payment' = [a \in Accounts |-> IF a \in A THEN NoPayment ELSE payment[a]]
    /\ interrupted' = interrupted \cup
           UNION {Pending(a) : a \in {b \in A : payment[b].at \in {"find", "mark"}}}
    /\ UNCHANGED <<status, amount, paid, refused, overtaken>>

\* An exception in an account's payment.  Chunks not yet started never are.
Throw(a) ==
    /\ payment[a].at \in {"pay", "find", "mark"}
    /\ \E waiting \in SUBSET {b \in Accounts : payment[b].at = "listed"} :
           Abandon({a} \cup waiting)

Crash ==
    /\ \E a \in Accounts : payment[a].at # "idle"
    /\ Abandon(Accounts)

Next ==
    \/ \E a \in Accounts, n \in 1..Nights, x \in Amounts : Accrue(a, n, x)
    \/ ListPending
    \/ \E a \in Accounts :
          \/ Start(a) \/ Pay(a) \/ PayRefused(a) \/ FindPending(a) \/ Mark(a)
          \/ Throw(a)
    \/ Crash

Spec == Init /\ [][Next]_vars

\* The month-end cron keeps coming back, and a run that is under way goes on.
FairSpec ==
    /\ Spec
    /\ WF_vars(ListPending)
    /\ \A a \in Accounts : WF_vars(Start(a) \/ Pay(a) \/ FindPending(a) \/ Mark(a))

-----------------------------------------------------------------------------
\* A row of interest marked COMPLETED was in a sum that was transferred, unless
\* it was written while its account was being paid, or its transfer failed.
CompletedIsPaid ==
    \A r \in Rows :
        (status[r] = "COMPLETED" /\ r \notin overtaken \cup refused) => paid[r] > 0

\* A row is paid twice only if the run that paid it first died before marking
\* it.
PaidOnce == \A r \in Rows : r \notin interrupted => paid[r] <= 1


=============================================================================
