--------------------------- MODULE MCTransferSql ----------------------------
(***************************************************************************)
(* TLC instances of TransferSql: a user's primary account, a goal account  *)
(* and a system account.                                                   *)
(***************************************************************************)
EXTENDS TransferSql

CONSTANTS primary, goal, system, b1, b2, b3

\* A wallet of a few pesewas, and two accounts at 10000 cedis, where the entries
\* lose their last digit.
MCOpening == [a \in Accounts |-> CASE a = primary -> 5
                                   [] a = goal -> 999999
                                   [] a = system -> 1000001]

MCAmounts == {-2, 1, 2}

\* Transfers that chase each other round the accounts, so that blocks can
\* wait for one another in cycles of two and of three, two that debit the same
\* account, one of them of a negative amount, and one from an account to itself.
RingJobs ==
    {[from |-> primary, to |-> goal, amount |-> 1],
     [from |-> goal, to |-> system, amount |-> 2],
     [from |-> system, to |-> primary, amount |-> 1],
     [from |-> goal, to |-> primary, amount |-> -2],
     [from |-> goal, to |-> goal, amount |-> 1]}

=============================================================================
