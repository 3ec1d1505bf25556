------------------------------ MODULE Spending ------------------------------
(***************************************************************************)
(* What one user takes out of a primary account in four ways: withdrawal   *)
(* to mobile money, transfer to another user, a bill or airtime (VAS), and *)
(* a transfer between accounts of the same user.  The first three are      *)
(* gated by a verification id, which a checked PIN issues, and by what the *)
(* day's limit leaves; withdrawals and bills also by the balance that must *)
(* stay.  Each gate reads, and what it read for is written later.          *)
(*                                                                         *)
(* Only a withdrawal has a smallest amount: the others may be negative,    *)
(* and then move money the other way and lower the sum the limit is asked  *)
(* about.  A transfer is the row it saves and the SQL block, as in         *)
(* TransferCore; what the payment gateway then says of a withdrawal is in  *)
(* Payments.                                                               *)
(***************************************************************************)
EXTENDS Integers, FiniteSets

CONSTANTS
    Requests,  \* requests made, each once
    Ids,       \* verification ids issued
    NoId,      \* a request that needs none
    Amounts,   \* in cedis, negative ones included
    Limit,     \* the daily limit of a transaction type
    Minimum,   \* what a withdrawal or a bill must leave on the account
    Opening,   \* balance on the first day, and the most considered
    Lowest,    \* the least balance considered when money moves elsewhere
    Days,      \* days considered
    MaxFaults  \* refusals, failed calls and deaths considered

Kinds == {"withdrawal", "transfer", "vas", "intra"}
Types == {"WITHDRAWAL", "TRANSFER"}

ASSUME SpendingAssumption ==
    /\ NoId \notin Ids
    /\ Amounts \subseteq Int
    /\ Limit \in [Types -> Nat]
    /\ Minimum \in Nat
    /\ Opening \in Nat
    /\ Lowest \in Int
    /\ Days \in Nat
    /\ MaxFaults \in Nat

VARIABLES
    pin,     \* pin_verification_entity.status of each id
    kind,    \* what a request is for,
    amount,  \* its amount,
    shown,   \* and the verification id sent with it
    pc,      \* where the request is
    row,     \* day its transaction row was created on, 0 before
    bill,    \* requests with a row in vas_transaction_entity
    balance, \* of the primary account
    today,
    faults,
    used,    \* how many requests each id let through
    shared,  \* ids read PENDING by a request while another held them so
    raced,   \* requests that asked the limit between another's answer and row
    eased,   \* requests whose question counted a negative row
    crossed, \* requests the balance fell under between check and debit
    debited  \* requests whose money has left the account

input == <<kind, amount, shown>>
ghosts == <<used, shared, raced, eased, crossed, debited>>
vars == <<pin, input, pc, row, bill, balance, today, faults, ghosts>>

TypeOK ==
    /\ pin \in [Ids -> {"none", "PENDING", "VERIFIED"}]
    /\ kind \in [Requests -> Kinds]
    /\ amount \in [Requests -> Int]
    /\ shown \in [Requests -> Ids \cup {NoId}]
    /\ pc \in [Requests -> {"idle", "verify", "found", "limit", "funds", "save",
                            "debit", "bill", "ended", "lost"}]
    /\ row \in [Requests -> Nat]
    /\ bill \subseteq Requests
    /\ balance \in Int
    /\ today \in 1 .. Days + 1
    /\ faults \in 0 .. MaxFaults
    /\ used \in [Ids -> Nat]
    /\ shared \subseteq Ids
    /\ raced \subseteq Requests
    /\ eased \subseteq Requests
    /\ crossed \subseteq Requests
    /\ debited \subseteq Requests

Init ==
    /\ pin = [i \in Ids |-> "none"]
    /\ kind = [r \in Requests |-> "intra"]
    /\ amount = [r \in Requests |-> 0]
    /\ shown = [r \in Requests |-> NoId]
    /\ pc = [r \in Requests |-> "idle"]
    /\ row = [r \in Requests |-> 0]
    /\ bill = {}
    /\ balance = Opening
    /\ today = 1
    /\ faults = 0
    /\ used = [i \in Ids |-> 0]
    /\ shared = {} /\ raced = {} /\ eased = {} /\ crossed = {} /\ debited = {}

\* The type a request's limit is asked for, and the type its row is saved
\* with: a bill is held against the limit of withdrawals, and counted against
\* that of transfers.
LimitType(k) == IF k \in {"withdrawal", "vas"} THEN "WITHDRAWAL" ELSE "TRANSFER"
RowType(k) == IF k = "withdrawal" THEN "WITHDRAWAL" ELSE "TRANSFER"

HasLimit(k) == k # "intra"
KeepsMinimum(k) == k \in {"withdrawal", "vas"}

-----------------------------------------------------------------------------
\* The verification id.

\* verifyUserPin finds the PIN and saves a new id.
Issue(i) ==
    /\ pin[i] = "none"
    /\ pin' = [pin EXCEPT ![i] = "PENDING"]
    /\ UNCHANGED <<input, pc, row, bill, balance, today, faults, ghosts>>

\* A request arrives.  Transfers between a user's accounts show no id, and
\* bills paid over USSD, whose PIN was checked by the caller, do not use theirs.
Ask(r, k, x, i) ==
    /\ pc[r] = "idle"
    /\ i \in Ids => pin[i] # "none"
    /\ i = NoId <=> k = "intra"
    /\ kind' = [kind EXCEPT ![r] = k]
    /\ amount' = [amount EXCEPT ![r] = x]
    /\ shown' = [shown EXCEPT ![r] = i]
    /\ \/ k = "intra" /\ pc' = [pc EXCEPT ![r] = "save"]
       \/ k = "vas" /\ pc' = [pc EXCEPT ![r] = "limit"]
       \/ k # "intra" /\ pc' = [pc EXCEPT ![r] = "verify"]
    /\ UNCHANGED <<pin, row, bill, balance, today, faults, ghosts>>

\* verifyId: findOne of the id while PENDING, and 400 without it.
ReadId(r) ==
    LET i == shown[r] IN
    /\ pc[r] = "verify"
    /\ IF pin[i] = "PENDING"
       THEN /\ pc' = [pc EXCEPT ![r] = "found"]
            /\ shared' = IF \E s \in Requests : pc[s] = "found" /\ shown[s] = i
                         THEN shared \cup {i} ELSE shared
       ELSE /\ pc' = [pc EXCEPT ![r] = "ended"]
            /\ UNCHANGED shared
    /\ UNCHANGED <<pin, input, row, bill, balance, today, faults,
                   used, raced, eased, crossed, debited>>

\* Mutant: the id is not spent.
KeepId(r) ==
    LET i == shown[r] IN
    /\ pc[r] = "found"
    /\ used' = [used EXCEPT ![i] = @ + 1]
    /\ pc' = [pc EXCEPT ![r] = "limit"]
    /\ UNCHANGED <<pin, input, row, bill, balance, today, faults,
                   shared, raced, eased, crossed, debited>>

\* save of the id as VERIFIED.
SpendId(r) ==
    LET i == shown[r] IN
    /\ pc[r] = "found"
    /\ pin' = [pin EXCEPT ![i] = "VERIFIED"]
    /\ used' = [used EXCEPT ![i] = @ + 1]
    /\ pc' = [pc EXCEPT ![r] = "limit"]
    /\ UNCHANGED <<input, row, bill, balance, today, faults,
                   shared, raced, eased, crossed, debited>>

-----------------------------------------------------------------------------
\* The gates.

\* What some requests take together, and what the negative ones among them
\* give, counted one by one.
Total(S) == Cardinality(UNION {{r} \X (1 .. amount[r]) : r \in S})
Rebate(S) == Cardinality(UNION {{r} \X (1 .. -amount[r]) : r \in S})

\* Rows of a type saved on a day; whatever became of them, they count.
Counted(t, day) == {r \in Requests : row[r] = day /\ RowType(kind[r]) = t}
Spent(t, day) == Total(Counted(t, day)) - Rebate(Counted(t, day))

\* The rows a request is asked about count a negative one.
Eases(r) == \E s \in Counted(LimitType(kind[r]), today) : amount[s] < 0

\* A request the limit has admitted and whose row is still to be saved.
Admitted(s) == HasLimit(kind[s]) /\ pc[s] \in {"funds", "save"}

\* Mutant: the amount asked for is left out of the sum.
WithinSpent(r) ==
    Spent(LimitType(kind[r]), today) <= Limit[LimitType(kind[r])]

Within(r) ==
    Spent(LimitType(kind[r]), today) + amount[r] <= Limit[LimitType(kind[r])]

\* A withdrawal of less than a cedi is refused before the limit is asked.
TooSmall(r) == kind[r] = "withdrawal" /\ amount[r] < 1

\* dailyWithdrawalLimitAndDailyLimit, one query.
CheckLimit(r) ==
    /\ pc[r] = "limit"
    /\ IF Within(r) /\ ~TooSmall(r)
       THEN /\ pc' = [pc EXCEPT ![r] =
                         IF KeepsMinimum(kind[r]) THEN "funds" ELSE "save"]
            /\ raced' = IF \E s \in Requests :
                               Admitted(s) /\ kind[s] = kind[r]
                        THEN raced \cup {r} ELSE raced
            /\ eased' = IF Eases(r) THEN eased \cup {r} ELSE eased
       ELSE /\ pc' = [pc EXCEPT ![r] = "ended"]
            /\ UNCHANGED <<raced, eased>>
    /\ UNCHANGED <<pin, input, row, bill, balance, today, faults,
                   used, shared, crossed, debited>>

\* A withdrawal that is refused from here on is saved as FAILED; the others
\* leave nothing.
TurnDown(r) ==
    /\ pc' = [pc EXCEPT ![r] = "ended"]
    /\ row' = IF kind[r] = "withdrawal" THEN [row EXCEPT ![r] = today] ELSE row

\* Mutant: the minimum of the account type is not added.
HasEnoughBare(r) == balance >= amount[r]

HasEnough(r) == balance >= amount[r] + Minimum

\* accountHasEnoughBalance, one query.
CheckFunds(r) ==
    /\ pc[r] = "funds"
    /\ IF HasEnough(r)
       THEN /\ pc' = [pc EXCEPT ![r] = "save"]
            /\ UNCHANGED row
       ELSE TurnDown(r)
    /\ UNCHANGED <<pin, input, bill, balance, today, faults, ghosts>>

\* Refused for another reason, after the id was spent: the user is disabled, the
\* recipient or the payment method unknown.
Refuse(r) ==
    /\ faults < MaxFaults
    /\ pc[r] = "limit"
    /\ pc' = [pc EXCEPT ![r] = "ended"]
    /\ faults' = faults + 1
    /\ UNCHANGED <<pin, input, row, bill, balance, today, ghosts>>

-----------------------------------------------------------------------------
\* The transfer.

\* transfer reads the account, and executTransfer saves the row.
SaveRow(r) ==
    /\ pc[r] = "save"
    /\ IF balance >= amount[r]
       THEN /\ row' = [row EXCEPT ![r] = today]
            /\ pc' = [pc EXCEPT ![r] = "debit"]
       ELSE TurnDown(r)
    /\ UNCHANGED <<pin, input, bill, balance, today, faults, ghosts>>

\* Requests past the check of the balance, whose money is still to move.
Between == {r \in Requests : pc[r] \in {"save", "debit"}}

\* The SQL block commits.
MoveMoney(r) ==
    /\ balance' = balance - amount[r]
    /\ debited' = debited \cup {r}
    /\ crossed' = IF amount[r] > 0 THEN crossed \cup (Between \ {r}) ELSE crossed

Debit(r) ==
    /\ pc[r] = "debit"
    /\ MoveMoney(r)
    /\ pc' = [pc EXCEPT ![r] = IF kind[r] = "vas" THEN "bill" ELSE "ended"]
    /\ UNCHANGED <<pin, input, row, bill, today, faults, used, shared, raced, eased>>

\* The call answers an error: the block rolled back, or it committed and its
\* answer was lost.  The row stays.
FailToDebit(r) ==
    /\ faults < MaxFaults
    /\ pc[r] = "debit"
    /\ \/ /\ MoveMoney(r)
          /\ pc' = [pc EXCEPT ![r] = "lost"]
       \/ /\ pc' = [pc EXCEPT ![r] = "ended"]
          /\ UNCHANGED <<balance, debited, crossed>>
    /\ faults' = faults + 1
    /\ UNCHANGED <<pin, input, row, bill, today, used, shared, raced, eased>>

\* Mutant: the row is left to the gateway's answer.
LeaveBill(r) ==
    /\ pc[r] = "bill"
    /\ pc' = [pc EXCEPT ![r] = "ended"]
    /\ UNCHANGED <<pin, input, row, bill, balance, today, faults, ghosts>>

\* The bill's own row is saved, and the gateway called; its refusal is an
\* exception, which neither reverses the debit nor changes the row.
SaveBill(r) ==
    /\ pc[r] = "bill"
    /\ bill' = bill \cup {r}
    /\ pc' = [pc EXCEPT ![r] = "ended"]
    /\ UNCHANGED <<pin, input, row, balance, today, faults, ghosts>>

-----------------------------------------------------------------------------
\* Money moves that none of these requests asked for.  The account is on the
\* receiving side, of a deposit or of somebody's transfer, whose amount may be
\* negative and is then taken whatever the balance.
Receive(x) ==
    /\ balance + x \in Lowest .. Opening
    /\ balance' = balance + x
    /\ crossed' = IF x < 0 THEN crossed \cup Between ELSE crossed
    /\ UNCHANGED <<pin, input, pc, row, bill, today, faults, used, shared, raced,
                   eased, debited>>

\* A cron collects a savings plan's or a mandate's amount: a transfer that asks
\* for no id, for no limit and for no minimum.
Collect(x) ==
    /\ x > 0
    /\ balance >= x
    /\ balance' = balance - x
    /\ crossed' = crossed \cup Between
    /\ UNCHANGED <<pin, input, pc, row, bill, today, faults, used, shared, raced,
                   eased, debited>>

\* Midnight of the database's clock.
NewDay ==
    /\ today <= Days
    /\ today' = today + 1
    /\ UNCHANGED <<pin, input, pc, row, bill, balance, faults, ghosts>>

Running(r) == pc[r] \notin {"idle", "ended", "lost"}

\* The process dies with every request in it.
Crash ==
    /\ faults < MaxFaults
    /\ \E r \in Requests : Running(r)
    /\ pc' = [r \in Requests |-> IF Running(r) THEN "lost" ELSE pc[r]]
    /\ faults' = faults + 1
    /\ UNCHANGED <<pin, input, row, bill, balance, today, ghosts>>

Step(r) ==
    \/ ReadId(r)
    \/ SpendId(r)
    \/ CheckLimit(r)
    \/ CheckFunds(r)
    \/ Refuse(r)
    \/ SaveRow(r)
    \/ Debit(r)
    \/ FailToDebit(r)
    \/ SaveBill(r)

Next ==
    \/ \E i \in Ids : Issue(i)
    \/ \E r \in Requests, k \in Kinds, x \in Amounts, i \in Ids \cup {NoId} :
           Ask(r, k, x, i)
    \/ \E r \in Requests : Step(r)
    \/ \E x \in Amounts : Receive(x) \/ Collect(x)
    \/ NewDay
    \/ Crash

Spec == Init /\ [][Next]_vars

-----------------------------------------------------------------------------
\* A checked PIN is good for one request: an id lets a second one through only
\* if both had read it before either had spent it.
IdSpentOnce == \A i \in Ids : used[i] > 1 => i \in shared

\* What withdrawals, and transfers to others, leave rows for on one day is
\* within the limit of the day the user asked on, counting refusals and bills
\* the midnight between question and row, but leaving out requests that
\* asked while another was between its answer and its row, and requests whose
\* day had a negative row when they asked.
LimitKept ==
    \A k \in {"withdrawal", "transfer"}, d \in 1 .. Days + 1 :
        Total({r \in Requests \ (raced \cup eased) : kind[r] = k /\ row[r] = d})
            <= Limit[LimitType(k)]

\* A withdrawal or a bill, of whatever sign, leaves the minimum on the account,
\* unless money left it between its check and its own debit: by another request,
\* a cron, or a negative transfer somebody sent.
LeavesMinimum(r) ==
    (r \in debited' \ debited /\ KeepsMinimum(kind[r]))
        => (balance' >= Minimum \/ r \in crossed)
MinimumKept == [][\A r \in Requests : LeavesMinimum(r)]_vars

\* A bill that was paid for has the row anybody could settle or refund it by,
\* unless the process died between the two or never heard of the debit.
PaidBillIsRecorded ==
    \A r \in debited :
        kind[r] = "vas" => r \in bill \/ pc[r] \in {"bill", "lost"}

=============================================================================
