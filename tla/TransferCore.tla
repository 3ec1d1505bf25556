---------------------------- MODULE TransferCore ----------------------------
(***************************************************************************)
(* TransferCoreService.transfer, chargeTransfer and executTransfer: read   *)
(* the two accounts, check the flags and the balance that was read, save a *)
(* transaction_entity row, run the DO block (an atomic move, which         *)
(* TransferSql justifies), refresh rim_entity, and for an early withdrawal *)
(* do it all again for the fee.  Every await is a step, so that requests   *)
(* interleave between the balance check and the debit; the process may     *)
(* crash between any two steps.                                            *)
(*                                                                         *)
(* Account flags do not change here (their writers are other components)   *)
(* and rim_entity, which no transfer reads, is left to module Rim: what    *)
(* counts here is that refreshing it may throw after the money has moved.  *)
(***************************************************************************)
EXTENDS Integers, FiniteSets

CONSTANTS
    Accounts,    \* rows of account_entity
    NoAccount,   \* an account id that matches no row
    FeeAccount,  \* the early_withdrawal_fees system account
    Requests,    \* calls of the service
    Calls,       \* arguments a call may have
    Amounts,     \* amounts in pesewas; the DTOs ask for a number, not for a positive one
    Fees,        \* early-withdrawal fees that may be quoted for an amount
    Flags,       \* flags of every account
    Opening      \* balance of every account at the start

FlagSet == [allowDeposit : BOOLEAN, allowWithdrawal : BOOLEAN,
            allowWithdrawalWithFees : BOOLEAN, canOverDraw : BOOLEAN]

\* op: which method; status: transactionStatus of the TransactionEntity the
\* caller passes, "unset" when it passes none or one without a status.
CallSet == [op : {"transfer", "chargeTransfer"},
            from : Accounts \cup {NoAccount}, to : Accounts \cup {NoAccount},
            amount : Amounts, status : {"unset", "PENDING", "SUCCESS"}]

ASSUME CoreAssumption ==
    /\ NoAccount \notin Accounts
    /\ FeeAccount \in Accounts
    /\ Amounts \subseteq Int
    /\ Fees \in [Amounts -> SUBSET Int]
    /\ \A x \in Amounts : x >= 0 => \A f \in Fees[x] : f >= 0
    /\ Flags \in [Accounts -> FlagSet]
    /\ Opening \in [Accounts -> Int]
    /\ Calls \subseteq CallSet

VARIABLES
    pc,        \* next step of each request
    call,      \* its arguments
    seen,      \* fromAccount.balance as it was read
    fee,       \* amount of the fee transfer
    leg,       \* the transfer executTransfer is running
    deduct,    \* deductFees
    response,  \* statusCode returned
    row,       \* transactionStatus of the transaction row saved for each leg
    balance,   \* account_entity.balance
    moved,     \* legs whose DO block has committed
    raced      \* accounts with two debits between their check and their move

control == <<call, seen, fee, leg, deduct>>
vars == <<pc, control, response, row, balance, moved, raced>>

Legs == Requests \X {"principal", "fee"}
Ended == {"answered", "threw", "lost"}
Codes == {"00", "03", "11", "12", "15", "99"}
Refusals == {"03", "11", "12", "15"}

TypeOK ==
    /\ pc \in [Requests -> {"idle", "read", "decide", "save", "exec", "rim"}
                           \cup Ended]
    /\ call \in [Requests -> Calls]
    /\ seen \in [Requests -> Int]
    /\ fee \in [Requests -> Int]
    /\ leg \in [Requests -> {"principal", "fee"}]
    /\ deduct \in [Requests -> BOOLEAN]
    /\ response \in [Requests -> {"none"} \cup Codes]
    /\ row \in [Legs -> {"none", "PENDING", "SUCCESS"}]
    /\ balance \in [Accounts -> Int]
    /\ moved \subseteq Legs
    /\ raced \subseteq Accounts

Init ==
    /\ pc = [r \in Requests |-> "idle"]
    /\ call \in [Requests -> Calls]
    /\ seen = [r \in Requests |-> 0]
    /\ fee = [r \in Requests |-> 0]
    /\ leg = [r \in Requests |-> "principal"]
    /\ deduct = [r \in Requests |-> FALSE]
    /\ response = [r \in Requests |-> "none"]
    /\ row = [l \in Legs |-> "none"]
    /\ balance = Opening
    /\ moved = {}
    /\ raced = {}

-----------------------------------------------------------------------------
\* The checks, on what was read.
Exists(a) == a # NoAccount
AcceptsDeposit(a) == Flags[a].allowDeposit

WithdrawalMode(a) ==
    IF ~Flags[a].allowWithdrawal THEN "not_allowed"
    ELSE IF Flags[a].allowWithdrawalWithFees THEN "with_fees"
    ELSE "without_fees"

\* transfer refuses on the mode; chargeTransfer lets either flag do.
MayWithdraw(c) ==
    IF c.op = "transfer"
    THEN WithdrawalMode(c.from) # "not_allowed"
    ELSE Flags[c.from].allowWithdrawal \/ Flags[c.from].allowWithdrawalWithFees

\* buildFeeTransfer is called by transfer alone, on accounts with fees.
ChargesFee(c) == c.op = "transfer" /\ WithdrawalMode(c.from) = "with_fees"

\* The first failing check, in the code's order; "none" when only the balance
\* is left to check.
Refusal(c) ==
    CASE ~Exists(c.to) \/ ~Exists(c.from) -> "15"
      [] Exists(c.to) /\ Exists(c.from) /\ ~AcceptsDeposit(c.to) -> "12"
      [] Exists(c.to) /\ Exists(c.from) /\ AcceptsDeposit(c.to)
         /\ ~MayWithdraw(c) -> "11"
      [] OTHER -> "none"

\* Answering a call.
Answer(r, code) ==
    /\ pc' = [pc EXCEPT ![r] = "answered"]
    /\ response' = [response EXCEPT ![r] = code]

\* A request that may still debit its account on the strength of a read.
Debiting(r) ==
    \/ pc[r] \in {"decide", "save", "exec"}
    \/ pc[r] = "rim" /\ leg[r] = "principal" /\ deduct[r]

Call(r) ==
    /\ pc[r] = "idle"
    /\ pc' = [pc EXCEPT ![r] = "read"]
    /\ UNCHANGED <<control, response, row, balance, moved, raced>>

\* findOne(fromAccount): the balance every later check uses.
ReadAccounts(r) ==
    LET a == call[r].from IN
    /\ pc[r] = "read"
    /\ pc' = [pc EXCEPT ![r] = "decide"]
    /\ IF Exists(a)
       THEN /\ seen' = [seen EXCEPT ![r] = balance[a]]
            /\ raced' = IF \E s \in Requests : Debiting(s) /\ call[s].from = a
                        THEN raced \cup {a} ELSE raced
       ELSE UNCHANGED <<seen, raced>>
    /\ UNCHANGED <<call, fee, leg, deduct, response, row, balance, moved>>

\* An early return: account not found, deposit or withdrawal not allowed.
Refuse(r) ==
    /\ pc[r] = "decide"
    /\ Refusal(call[r]) # "none"
    /\ Answer(r, Refusal(call[r]))
    /\ UNCHANGED <<control, row, balance, moved, raced>>

\* Mutant: the fee is left out of the balance check.
CheckAmountOnly(r, f) ==
    LET c == call[r]
        sufficient == seen[r] >= c.amount
    IN
    /\ IF sufficient \/ Flags[c.from].canOverDraw
       THEN /\ pc' = [pc EXCEPT ![r] = "save"]
            /\ fee' = [fee EXCEPT ![r] = f]
            /\ deduct' = [deduct EXCEPT ![r] = sufficient /\ ChargesFee(c)]
            /\ UNCHANGED response
       ELSE /\ Answer(r, "03")
            /\ UNCHANGED <<fee, deduct>>
    /\ UNCHANGED <<call, seen, leg, row, balance, moved, raced>>

\* The balance check, against amount plus the fee f quoted for it (0 when no
\* fee is charged).  canOverDraw overrides it, and then deducts no fee.
\* On "03" a passed TransactionEntity is marked FAILED in memory only: its
\* owner decides whether to save it.
CheckBalance(r, f) ==
    LET c == call[r]
        sufficient == seen[r] >= c.amount + f
    IN
    /\ IF sufficient \/ Flags[c.from].canOverDraw
       THEN /\ pc' = [pc EXCEPT ![r] = "save"]
            /\ fee' = [fee EXCEPT ![r] = f]
            /\ deduct' = [deduct EXCEPT ![r] = sufficient /\ ChargesFee(c)]
            /\ UNCHANGED response
       ELSE /\ Answer(r, "03")
            /\ UNCHANGED <<fee, deduct>>
    /\ UNCHANGED <<call, seen, leg, row, balance, moved, raced>>

Decide(r) ==
    /\ pc[r] = "decide"
    /\ Refusal(call[r]) = "none"
    /\ \E f \in (IF ChargesFee(call[r]) THEN Fees[call[r].amount] ELSE {0}) :
           CheckBalance(r, f)

\* em.save(transaction) or writeTransaction, before any money moves.  A
\* status the caller has set is kept; the fee leg never has one.
SaveRow(r) ==
    /\ pc[r] = "save"
    /\ pc' = [pc EXCEPT ![r] = "exec"]
    /\ row' = [row EXCEPT ![<<r, leg[r]>>] =
                  IF leg[r] = "principal" /\ call[r].status = "PENDING"
                  THEN "PENDING" ELSE "SUCCESS"]
    /\ UNCHANGED <<control, response, balance, moved, raced>>

LegAmount(r) == IF leg[r] = "fee" THEN fee[r] ELSE call[r].amount
LegTo(r) == IF leg[r] = "fee" THEN FeeAccount ELSE call[r].to

\* The DO block commits.
MoveMoney(r) ==
    /\ balance' = [a \in Accounts |->
                      balance[a]
                      + (IF a = LegTo(r) THEN LegAmount(r) ELSE 0)
                      - (IF a = call[r].from THEN LegAmount(r) ELSE 0)]
    /\ moved' = moved \cup {<<r, leg[r]>>}

Exec(r) ==
    /\ pc[r] = "exec"
    /\ MoveMoney(r)
    /\ pc' = [pc EXCEPT ![r] = "rim"]
    /\ UNCHANGED <<control, response, row, raced>>

\* Mutant: the -1 is not looked at.
ExecErrorIgnored(r) ==
    /\ pc[r] = "exec"
    /\ MoveMoney(r) \/ UNCHANGED <<balance, moved>>
    /\ Answer(r, "00")
    /\ UNCHANGED <<control, row, raced>>

\* executeTransferTransaction returns -1: the block rolled back, or it
\* committed and its answer was lost.
ExecError(r) ==
    /\ pc[r] = "exec"
    /\ MoveMoney(r) \/ UNCHANGED <<balance, moved>>
    /\ Answer(r, "99")
    /\ UNCHANGED <<control, row, raced>>

\* Mutant: the second executTransfer is given the input instead of the fee.
AfterMovePrincipalAgain(r) ==
    /\ pc[r] = "rim"
    /\ IF leg[r] = "principal" /\ deduct[r]
       THEN /\ pc' = [pc EXCEPT ![r] = "save"]
            /\ deduct' = [deduct EXCEPT ![r] = FALSE]
            /\ UNCHANGED response
       ELSE Answer(r, "00") /\ UNCHANGED deduct
    /\ UNCHANGED <<call, seen, fee, leg, row, balance, moved, raced>>

\* updateRimBalances returns: go on with the fee, or answer.
AfterMove(r) ==
    /\ pc[r] = "rim"
    /\ IF leg[r] = "principal" /\ deduct[r]
       THEN /\ pc' = [pc EXCEPT ![r] = "save"]
            /\ leg' = [leg EXCEPT ![r] = "fee"]
            /\ UNCHANGED response
       ELSE Answer(r, "00") /\ UNCHANGED leg
    /\ UNCHANGED <<call, seen, fee, deduct, row, balance, moved, raced>>

\* A database call outside the DO block rejects: the exception leaves the
\* method with whatever was done so far.
Throw(r) ==
    /\ pc[r] \in {"read", "decide", "save", "rim"}
    /\ pc' = [pc EXCEPT ![r] = "threw"]
    /\ UNCHANGED <<control, response, row, balance, moved, raced>>

\* The Node process dies: every running request is lost.
Crash ==
    /\ \E r \in Requests : pc[r] \notin {"idle"} \cup Ended
    /\ pc' = [r \in Requests |->
                IF pc[r] \in {"idle"} \cup Ended THEN pc[r] ELSE "lost"]
    /\ UNCHANGED <<control, response, row, balance, moved, raced>>

Advance(r) ==
    \/ Call(r)
    \/ ReadAccounts(r)
    \/ Refuse(r)
    \/ Decide(r)
    \/ SaveRow(r)
    \/ Exec(r)
    \/ AfterMove(r)

AllEnded ==
    /\ \A r \in Requests : pc[r] \in Ended
    /\ UNCHANGED vars

Next ==
    \/ \E r \in Requests : Advance(r)
    \/ \E r \in Requests : ExecError(r)
    \/ \E r \in Requests : Throw(r)
    \/ Crash
    \/ AllEnded

Spec == Init /\ [][Next]_vars

-----------------------------------------------------------------------------
\* A negative amount has been moved into the account.
Drained(a) ==
    \E r \in Requests :
        \/ <<r, "principal">> \in moved /\ call[r].to = a /\ call[r].amount < 0
        \/ <<r, "fee">> \in moved /\ a = FeeAccount /\ fee[r] < 0

\* The balance check is made on the sender alone.  So an account that may not
\* overdraw goes below zero in two ways only: through a race, when two debits
\* of it were both between the check and the move, or as the receiver of a
\* negative amount.  The sender of whatever amount, fee included, is safe.
NoOverdraftWithoutRace ==
    \A a \in Accounts :
        (Opening[a] >= 0 /\ ~Flags[a].canOverDraw /\ a \notin raced /\ ~Drained(a))
            => balance[a] >= 0

\* Every movement of money has its transaction row, even if the process died
\* or the database failed right after.
RowBeforeMoney == \A l \in moved : row[l] # "none"

\* "00" is answered only when the principal and, if one is due, the fee have
\* both moved; the fee never moves without the principal.
SuccessMeansMoved ==
    \A r \in Requests :
        /\ response[r] = "00" =>
            /\ <<r, "principal">> \in moved
            /\ deduct[r] => <<r, "fee">> \in moved
        /\ <<r, "fee">> \in moved => <<r, "principal">> \in moved /\ deduct[r]

\* Each leg moves its money at once and at most once.
Book == INSTANCE Ledger WITH
            Moves <- Legs,
            Amounts <- Amounts \cup UNION {Fees[x] : x \in Amounts}
ImplementsLedger == Book!Spec

=============================================================================
