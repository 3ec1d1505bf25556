------------------------------- MODULE Ledger -------------------------------
(***************************************************************************)
(* What the wallet promises about money, with nothing said of how: a move  *)
(* of an amount between two accounts happens at once or not at all, and a  *)
(* move is never applied twice.  TransferSql (the SQL of one transfer) and *)
(* TransferCore (the service that runs it) are both shown to implement it. *)
(***************************************************************************)
EXTENDS Integers

CONSTANTS
    Accounts,   \* rows of account_entity
    Moves,      \* the movements of money the system may ever attempt
    Amounts,    \* amounts in pesewas
    Opening     \* balance of every account at the start

VARIABLES
    balance,    \* account_entity.balance
    moved       \* the moves already applied

vars == <<balance, moved>>

TypeOK ==
    /\ balance \in [Accounts -> Int]
    /\ moved \subseteq Moves

Init ==
    /\ balance = Opening
    /\ moved = {}

\* The balances once `amount` has left account f and reached account t.
Moved(f, t, amount) ==
    [a \in Accounts |-> balance[a]
                        + (IF a = t THEN amount ELSE 0)
                        - (IF a = f THEN amount ELSE 0)]

Move(m, f, t, amount) ==
    /\ m \notin moved
    /\ moved' = moved \cup {m}
    /\ balance' = Moved(f, t, amount)

Next ==
    \E m \in Moves, f \in Accounts, t \in Accounts, amount \in Amounts :
        Move(m, f, t, amount)

Spec == Init /\ [][Next]_vars

=============================================================================
