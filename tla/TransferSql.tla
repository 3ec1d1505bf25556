---------------------------- MODULE TransferSql -----------------------------
(***************************************************************************)
(* TransferCoreService.executeTransferTransaction: the DO block that moves *)
(* money.  Each block is one PostgreSQL transaction at READ COMMITTED that *)
(* credits the recipient, writes its account transaction, debits the       *)
(* sender, writes the other account transaction and commits.  Blocks of    *)
(* different requests run side by side: an UPDATE takes the row's lock and *)
(* waits for the block that holds it, a SELECT waits for nobody and sees   *)
(* committed rows and the block's own writes.                              *)
(*                                                                         *)
(* The SELECT after an UPDATE and the INSERT that follows it run under the *)
(* lock the UPDATE took and read nothing another block can write, so they  *)
(* are part of the UPDATE's step.                                          *)
(***************************************************************************)
EXTENDS Integers, Sequences

CONSTANTS
    Accounts,   \* rows of account_entity
    Blocks,     \* executions of the DO block
    Amounts,    \* amounts in pesewas of any sign, exact in a REAL (below 131072 cedis)
    Jobs,       \* arguments the blocks may be run with
    Opening,    \* balance of every account at the start
    Nobody      \* holder of a free row lock

ASSUME SqlAssumption ==
    /\ Opening \in [Accounts -> Int]
    /\ Amounts \subseteq Int
    /\ Jobs \subseteq [from : Accounts, to : Accounts, amount : Amounts]
    /\ Nobody \notin Blocks

VARIABLES
    job,        \* arguments of each block
    pc,         \* next statement of each block
    reg,        \* row versions the block has read: the two initialBalances before
                \* its UPDATEs and the two currentBalances they leave
    lock,       \* block that holds each account's row lock
    balance,    \* committed account_entity.balance
    statement,  \* committed account_transaction_entity rows, in insertion order
    result      \* what executeTransferTransaction returned

vars == <<job, pc, reg, lock, balance, statement, result>>

Steps == {"readCredit", "credit", "readDebit", "debit", "commit",
          "committed", "aborted"}

Registers == [creditInitial : Int, creditCurrent : Int,
              debitInitial : Int, debitCurrent : Int]

Entry == [block : Blocks, account : Accounts, type : {"CREDIT", "DEBIT"},
          amount : Int, initialBalance : Int, currentBalance : Int]

TypeOK ==
    /\ job \in [Blocks -> Jobs]
    /\ pc \in [Blocks -> Steps]
    /\ reg \in [Blocks -> Registers]
    /\ lock \in [Accounts -> Blocks \cup {Nobody}]
    /\ balance \in [Accounts -> Int]
    /\ statement \in Seq(Entry)
    /\ result \in [Blocks -> {"none", "0", "-1"}]

-----------------------------------------------------------------------------
Init ==
    /\ job \in [Blocks -> Jobs]
    /\ pc = [b \in Blocks |-> "readCredit"]
    /\ reg = [b \in Blocks |-> [creditInitial |-> 0, creditCurrent |-> 0,
                                debitInitial |-> 0, debitCurrent |-> 0]]
    /\ lock = [a \in Accounts |-> Nobody]
    /\ balance = Opening
    /\ statement = << >>
    /\ result = [b \in Blocks |-> "none"]

\* The row as block b sees it: the version it has written itself, and
\* otherwise the committed one.
Visible(b, a) ==
    IF pc[b] = "commit" /\ a = job[b].from
    THEN reg[b].debitCurrent
    ELSE IF pc[b] \in {"readDebit", "debit", "commit"} /\ a = job[b].to
    THEN reg[b].creditCurrent
    ELSE balance[a]

\* SELECT balance INTO initialBalance ... WHERE id = toAccountId
ReadCredit(b) ==
    /\ pc[b] = "readCredit"
    /\ reg' = [reg EXCEPT ![b].creditInitial = Visible(b, job[b].to)]
    /\ pc' = [pc EXCEPT ![b] = "credit"]
    /\ UNCHANGED <<job, lock, balance, statement, result>>

\* Mutant: SET balance = initialBalance + amount, the value read before the lock.
CreditFromInitial(b) ==
    LET a == job[b].to IN
    /\ pc[b] = "credit"
    /\ lock[a] = Nobody
    /\ lock' = [lock EXCEPT ![a] = b]
    /\ reg' = [reg EXCEPT ![b].creditCurrent = reg[b].creditInitial + job[b].amount]
    /\ pc' = [pc EXCEPT ![b] = "readDebit"]
    /\ UNCHANGED <<job, balance, statement, result>>

\* UPDATE ... SET balance = balance + amount; SELECT currentBalance; INSERT
Credit(b) ==
    LET a == job[b].to IN
    /\ pc[b] = "credit"
    /\ lock[a] = Nobody
    /\ lock' = [lock EXCEPT ![a] = b]
    /\ reg' = [reg EXCEPT ![b].creditCurrent = Visible(b, a) + job[b].amount]
    /\ pc' = [pc EXCEPT ![b] = "readDebit"]
    /\ UNCHANGED <<job, balance, statement, result>>

\* SELECT balance INTO initialBalance ... WHERE id = fromAccountId
ReadDebit(b) ==
    /\ pc[b] = "readDebit"
    /\ reg' = [reg EXCEPT ![b].debitInitial = Visible(b, job[b].from)]
    /\ pc' = [pc EXCEPT ![b] = "debit"]
    /\ UNCHANGED <<job, lock, balance, statement, result>>

\* UPDATE ... SET balance = balance - amount; SELECT currentBalance; INSERT
Debit(b) ==
    LET a == job[b].from IN
    /\ pc[b] = "debit"
    /\ lock[a] \in {Nobody, b}
    /\ lock' = [lock EXCEPT ![a] = b]
    /\ reg' = [reg EXCEPT ![b].debitCurrent = Visible(b, a) - job[b].amount]
    /\ pc' = [pc EXCEPT ![b] = "commit"]
    /\ UNCHANGED <<job, balance, statement, result>>

\* The registers are REAL and the columns they are inserted into decimal(10,2):
\* PostgreSQL writes a REAL as its six significant digits.  A number of pesewas
\* below 10000 cedis comes through, and above that its nearest multiple of Unit
\* does, of two that are as near either one.
Unit(x) ==
    LET size == IF x < 0 THEN -x ELSE x
    IN  CASE size < 1000000 -> 1
          [] size >= 1000000 /\ size < 10000000 -> 10
          [] size >= 10000000 /\ size < 100000000 -> 100
          [] size >= 100000000 /\ size < 1000000000 -> 1000
          [] OTHER -> 10000

\* How far the column may be from the number.
Slack(x) == Unit(x) \div 2

Recorded(x) == {y \in (x - Slack(x)) .. (x + Slack(x)) : y % Unit(x) = 0}

\* The account transactions a block may insert for its credit and its debit.
CreditEntries(b) ==
    [block : {b}, account : {job[b].to}, type : {"CREDIT"},
     amount : Recorded(job[b].amount),
     initialBalance : Recorded(reg[b].creditInitial),
     currentBalance : Recorded(reg[b].creditCurrent)]

DebitEntries(b) ==
    [block : {b}, account : {job[b].from}, type : {"DEBIT"},
     amount : Recorded(job[b].amount),
     initialBalance : Recorded(reg[b].debitInitial),
     currentBalance : Recorded(reg[b].debitCurrent)]

\* A block that ends, in either way, gives its row locks back.
ReleaseLocks(b) ==
    lock' = [a \in Accounts |-> IF lock[a] = b THEN Nobody ELSE lock[a]]

\* Mutant: the block commits its credit and loses its debit.
CommitCreditOnly(b) ==
    /\ pc[b] = "commit"
    /\ balance' = [balance EXCEPT ![job[b].to] = reg[b].creditCurrent]
    /\ \E c \in CreditEntries(b) : statement' = statement \o <<c>>
    /\ ReleaseLocks(b)
    /\ pc' = [pc EXCEPT ![b] = "committed"]
    /\ result' = [result EXCEPT ![b] = "0"]
    /\ UNCHANGED <<job, reg>>

\* COMMIT.  The answer may still be lost on the way back to the service,
\* whose catch then reports -1 for money that has moved.
Commit(b) ==
    /\ pc[b] = "commit"
    /\ balance' = [a \in Accounts |-> Visible(b, a)]
    /\ \E c \in CreditEntries(b), d \in DebitEntries(b) :
           statement' = statement \o <<c, d>>
    /\ ReleaseLocks(b)
    /\ pc' = [pc EXCEPT ![b] = "committed"]
    /\ \E answer \in {"0", "-1"} : result' = [result EXCEPT ![b] = answer]
    /\ UNCHANGED <<job, reg>>

\* Mutant: the connection goes back to the pool with its transaction open.
AbortOpen(b) ==
    /\ pc' = [pc EXCEPT ![b] = "aborted"]
    /\ result' = [result EXCEPT ![b] = "-1"]
    /\ UNCHANGED <<job, reg, lock, balance, statement>>

\* ROLLBACK, and the catch returns -1.
Abort(b) ==
    /\ ReleaseLocks(b)
    /\ pc' = [pc EXCEPT ![b] = "aborted"]
    /\ result' = [result EXCEPT ![b] = "-1"]
    /\ UNCHANGED <<job, reg, balance, statement>>

\* A statement fails or the connection is lost: the transaction is rolled back.
Fail(b) ==
    /\ pc[b] \notin {"committed", "aborted"}
    /\ Abort(b)

\* The blocks that wait for a row lock, and whom they wait for.
WaitedRow(b) == IF pc[b] = "credit" THEN job[b].to ELSE job[b].from

Waits(b) ==
    /\ pc[b] \in {"credit", "debit"}
    /\ lock[WaitedRow(b)] \notin {Nobody, b}

\* b is in a cycle of waiting blocks: a set where each waits for a member and
\* is waited for by a member.
InDeadlock(b) ==
    \E cycle \in SUBSET Blocks :
        /\ b \in cycle
        /\ \A c \in cycle : Waits(c) /\ lock[WaitedRow(c)] \in cycle
        /\ \A c \in cycle : \E d \in cycle : lock[WaitedRow(d)] = c

\* PostgreSQL's deadlock detector, run by a waiting block, cancels that block.
DeadlockVictim(b) ==
    /\ InDeadlock(b)
    /\ Abort(b)

Advance(b) ==
    \/ ReadCredit(b)
    \/ Credit(b)
    \/ ReadDebit(b)
    \/ Debit(b)
    \/ Commit(b)
    \/ DeadlockVictim(b)

Ended(b) == pc[b] \in {"committed", "aborted"}

\* Every block has ended and there is nothing left to run.
AllEnded ==
    /\ \A b \in Blocks : Ended(b)
    /\ UNCHANGED vars

Next ==
    \/ \E b \in Blocks : Advance(b)
    \/ \E b \in Blocks : Fail(b)
    \/ AllEnded

Spec == Init /\ [][Next]_vars

\* The database keeps executing statements and runs its deadlock detector.
FairSpec == Spec /\ \A b \in Blocks : WF_vars(Advance(b))

-----------------------------------------------------------------------------
\* A row lock is held exactly by the block whose pending update changed the
\* row, so no two blocks ever hold uncommitted changes of one account.
LockInv ==
    /\ \A b \in Blocks :
        /\ pc[b] \in {"readDebit", "debit", "commit"} => lock[job[b].to] = b
        /\ pc[b] = "commit" => lock[job[b].from] = b
    /\ \A a \in Accounts : \A b \in Blocks :
        lock[a] = b =>
            \/ pc[b] \in {"readDebit", "debit", "commit"} /\ a = job[b].to
            \/ pc[b] = "commit" /\ a = job[b].from

\* The row version a block is about to commit is still the committed balance
\* with the block's own movements applied: nothing was committed to the row
\* after the block read it.
PendingInv ==
    \A b \in Blocks :
        /\ pc[b] \in {"readDebit", "debit", "commit"} =>
            reg[b].creditCurrent = balance[job[b].to] + job[b].amount
        /\ pc[b] = "commit" =>
            reg[b].debitCurrent
                = (IF job[b].from = job[b].to THEN reg[b].creditCurrent
                   ELSE balance[job[b].from]) - job[b].amount

\* What the block of an entry added to the entry's account.
Movement(e) == IF e.type = "CREDIT" THEN job[e.block].amount ELSE -job[e.block].amount

Near(x, y, distance) == x - y <= distance /\ y - x <= distance

\* Positions of an account's entries, and what the statement says the account
\* held before a position: the currentBalance of the latest entry above it, as
\* far as six digits tell, or the opening balance.
Entries(a) == {i \in DOMAIN statement : statement[i].account = a}
Above(a, i) == {j \in Entries(a) : j < i}

Held(a, i, x, slack) ==
    \/ Above(a, i) = {} /\ Near(x, Opening[a], slack)
    \/ \E j \in Above(a, i) :
          /\ \A k \in Above(a, i) : k <= j
          /\ Near(x, statement[j].currentBalance,
                  slack + Slack(statement[j].currentBalance))

\* The account statement chains: read in insertion order, the currentBalance
\* of each entry of an account is the previous entry's (the opening balance
\* for the first) plus what the block moved, and the last one is the account's
\* balance: to the pesewa below 10000 cedis, and above that up to what two
\* entries of six digits leave out.  A lost update, a read outside the lock or
\* a digit less in a column breaks it.
StatementChain ==
    \A a \in Accounts :
        /\ \A i \in Entries(a) :
              Held(a, i, statement[i].currentBalance - Movement(statement[i]),
                   Slack(statement[i].currentBalance))
        /\ Held(a, Len(statement) + 1, balance[a], 0)

\* Every block ends: two opposite transfers may wait for one another's rows,
\* and then one of them is cancelled and the other goes on.
EveryBlockEnds == \A b \in Blocks : <>Ended(b)

\* The block implements an atomic move of the ledger.
Book == INSTANCE Ledger WITH
            Moves <- Blocks,
            moved <- {b \in Blocks : pc[b] = "committed"}
ImplementsLedger == Book!Spec

=============================================================================
