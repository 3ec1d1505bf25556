------------------------------ MODULE Settlement ------------------------------
(***************************************************************************)
(* What the wallet promises about money that crosses the gateway, with     *)
(* nothing said of requests, callbacks, rows or crons: an order to pay out *)
(* is given once the account has been debited; what the gateway has        *)
(* settled stays settled; an account is credited what the gateway was      *)
(* paid, and once, unless the deposit is disputed.  Payments is shown to   *)
(* implement it.                                                           *)
(***************************************************************************)
EXTENDS Integers

CONSTANTS
    Deposits,     \* transactionIds of deposits
    Withdrawals,  \* and of withdrawals
    ManyCredits   \* bound: credits of one deposit are counted up to this

Txns == Deposits \cup Withdrawals

VARIABLES
    gateway,   \* what the gateway has done of each transaction
    debited,   \* withdrawals whose amount has left the user's account
    credits,   \* how often a deposit has been credited
    disputed   \* transactions whose row two parties have worked on

vars == <<gateway, debited, credits, disputed>>

Init ==
    /\ gateway = [t \in Txns |-> "unasked"]
    /\ debited = {}
    /\ credits = [t \in Txns |-> 0]
    /\ disputed = {}

Turn(t, g) == gateway' = [gateway EXCEPT ![t] = g]

\* The amount of a withdrawal leaves the account, before the gateway is asked.
Debit(t) ==
    /\ t \in Withdrawals \ debited
    /\ gateway[t] = "unasked"
    /\ debited' = debited \cup {t}
    /\ UNCHANGED <<gateway, credits, disputed>>

\* The gateway takes the order or refuses it.
Order(t) ==
    /\ gateway[t] = "unasked"
    /\ t \in Withdrawals => t \in debited
    /\ Turn(t, "pending") \/ Turn(t, "failed")
    /\ UNCHANGED <<debited, credits, disputed>>

\* The money moves at the gateway, or it does not; there is no way back.
Settle(t) ==
    /\ gateway[t] = "pending"
    /\ Turn(t, "paid") \/ Turn(t, "failed")
    /\ UNCHANGED <<debited, credits, disputed>>

Credit(t) ==
    /\ t \in Deposits
    /\ gateway[t] = "paid"
    /\ credits[t] = 0 \/ t \in disputed
    /\ credits[t] < ManyCredits
    /\ credits' = [credits EXCEPT ![t] = @ + 1]
    /\ UNCHANGED <<gateway, debited, disputed>>

\* Two parties come to work on the row at a time, or it is reopened.
Dispute(t) ==
    /\ disputed' = disputed \cup {t}
    /\ UNCHANGED <<gateway, debited, credits>>

Next == \E t \in Txns : Debit(t) \/ Order(t) \/ Settle(t) \/ Credit(t) \/ Dispute(t)

Spec == Init /\ [][Next]_vars

=============================================================================
