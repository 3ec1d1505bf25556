----------------------------- MODULE MCMandates -----------------------------
(* The two ways a mandate is served, for TLC: by the gateway's deductions    *)
(* from a wallet (AutoDeduct) and by the crons that debit primary accounts   *)
(* (AutoDebit).  A mandate is of one category or the other and they share    *)
(* no state, so a behaviour is one of one of them: machine says which.       *)
EXTENDS AutoDeduct, AutoDebit, TLC

CONSTANTS user, m1, m2, m3, w

VARIABLE machine

\* Three daily mandates and a weekly one, all of one primary account.
MCHolder == [m \in Mandates |-> user]
MCFrequency == [m \in Mandates |-> IF m = w THEN "weekly" ELSE "daily"]
MCAmount == [m \in Mandates |-> 1]

MCMinBalance == -1

\* Of the mandates, at most one is not there yet or is over.
FewInactive == Cardinality({m \in Mandates : mandate[m] # "ACTIVE"}) <= 1 \/ machine = "gateway"

mcVars == <<machine, vars, debitVars>>

\* The crons' variables where only the gateway is at work.
NoCrons ==
    /\ mandate = [m \in Mandates |-> "none"]
    /\ primary = [u \in Payers |-> 0]
    /\ run = [f \in Frequencies |-> NoRun]
    /\ debit = [m \in Mandates |-> "idle"]
    /\ outcome = [m \in Mandates |-> "none"]
    /\ spending = [u \in Payers |-> 0] /\ uncovered = {}

MCInit ==
    /\ machine \in {"gateway", "cron"}
    /\ Init
    /\ IF machine = "cron" THEN DebitInit ELSE NoCrons

MCNext ==
    \/ machine = "gateway" /\ Next /\ UNCHANGED <<machine, debitVars>>
    \/ machine = "cron" /\ DebitNext /\ UNCHANGED <<machine, vars>>

MCSpec == MCInit /\ [][MCNext]_mcVars

Symmetry ==
    Permutations({m1, m2, m3}) \cup Permutations(Deductions)
        \cup Permutations(Handlers) \cup Permutations(Cancels)

=============================================================================
