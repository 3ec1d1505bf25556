------------------------------ MODULE AutoDebit ------------------------------
(***************************************************************************)
(* AutoDebitFromPrimaryCronService: a daily, a weekly and a monthly cron   *)
(* each list the mandates of their frequency and move each mandate's       *)
(* amount from its user's primary account to a goal account.  A run works  *)
(* through chunks of two with Promise.all; a debit that throws ends the    *)
(* run, though not the other debit of its chunk.  The three runs share a   *)
(* midnight and the primary accounts.                                      *)
(*                                                                         *)
(* The balance is read once to decide and again by the transfer, before it *)
(* moves the money: the two debits of a chunk may both have seen it cover  *)
(* them.  (TransferSql has the steps of the move.)                         *)
(***************************************************************************)
EXTENDS Integers, FiniteSets, FiniteSetsExt

CONSTANTS
    Payers,       \* users
    Mandates,     \* rows of mandate_entity of category BEZOPRIMARY
    Frequencies,
    Holder,       \* userId of each mandate
    Frequency,    \* its frequency
    Amount,       \* its amount
    Flows,        \* amounts others move in and out of a primary account
    MinBalance,   \* bounds: what they may leave in it
    MaxBalance

ASSUME DebitAssumption ==
    /\ Holder \in [Mandates -> Payers]
    /\ Frequency \in [Mandates -> Frequencies]
    /\ Amount \in [Mandates -> Int]
    /\ Flows \subseteq Nat \ {0}
    /\ MinBalance \in Int /\ MaxBalance \in Nat

VARIABLES
    mandate,    \* "ENDED": DEACTIVATED, or its endDate has come
    primary,    \* balance of each primary account
    run,        \* each cron's run: under way, mandates listed, not yet started
    debit,      \* where each mandate's debit is
    outcome,    \* how it went in the last run that listed the mandate
    spending,   \* what a debit of somebody else's is about to take, or 0
    uncovered   \* users with two debits past the look at the balance together,
                \* or a negative amount paid in

runVars == <<run, debit, outcome>>
debitVars == <<mandate, primary, runVars, spending, uncovered>>

ChunkSize == 2
Of(f) == {m \in Mandates : Frequency[m] = f}
NoRun == [on |-> FALSE, listed |-> {}, waiting |-> {}]

\* The type invariant.
DebitTypeOK ==
    /\ mandate \in [Mandates -> {"none", "ACTIVE", "ENDED"}]
    /\ primary \in [Payers -> Int]
    /\ run \in [Frequencies -> [on : BOOLEAN, listed : SUBSET Mandates,
                                waiting : SUBSET Mandates]]
    /\ debit \in [Mandates -> {"idle", "read", "check", "move"}]
    /\ outcome \in [Mandates -> {"none", "debited", "short", "missing", "threw"}]
    /\ spending \in [Payers -> Nat]
    /\ uncovered \subseteq Payers

DebitInit ==
    /\ mandate \in [Mandates -> {"none", "ACTIVE"}]
    /\ primary \in [Payers -> 0..MaxBalance]
    /\ run = [f \in Frequencies |-> NoRun]
    /\ debit = [m \in Mandates |-> "idle"]
    /\ outcome = [m \in Mandates |-> "none"]
    /\ spending = [u \in Payers |-> 0]
    /\ uncovered = {}

-----------------------------------------------------------------------------
Busy(f) == \E m \in Of(f) : debit[m] # "idle"

EndDebit(m, result) ==
    /\ debit' = [debit EXCEPT ![m] = "idle"]
    /\ outcome' = [outcome EXCEPT ![m] = result]

\* getAutoDebitFromPrimarySubscribers
Subscribers(f) == {m \in Of(f) : mandate[m] = "ACTIVE"}

\* The cron fires.  A day is longer than a run.
List(f) ==
    /\ ~run[f].on /\ ~Busy(f)
    /\ run' = [run EXCEPT ![f] = [on |-> TRUE, listed |-> Subscribers(f),
                                  waiting |-> Subscribers(f)]]
    /\ outcome' = [m \in Mandates |-> IF m \in Of(f) THEN "none" ELSE outcome[m]]
    /\ UNCHANGED <<mandate, primary, debit, spending, uncovered>>

\* Mutant: a chunk takes two but the loop moves on by three.
NextChunkSkipping(f) ==
    /\ run[f].on /\ ~Busy(f)
    /\ \E chunk \in kSubset(Min({ChunkSize, Cardinality(run[f].waiting)}),
                            run[f].waiting),
          skipped \in SUBSET run[f].waiting :
          /\ chunk # {}
          /\ Cardinality(skipped) <= 1
          /\ run' = [run EXCEPT ![f].waiting = (@ \ chunk) \ skipped]
          /\ debit' = [m \in Mandates |-> IF m \in chunk THEN "read" ELSE debit[m]]
    /\ UNCHANGED <<mandate, primary, outcome, spending, uncovered>>

\* The next two of the list, whose order the query leaves open.
NextChunk(f) ==
    /\ run[f].on /\ ~Busy(f)
    /\ \E chunk \in kSubset(Min({ChunkSize, Cardinality(run[f].waiting)}),
                            run[f].waiting) :
          /\ chunk # {}
          /\ run' = [run EXCEPT ![f].waiting = @ \ chunk]
          /\ debit' = [m \in Mandates |-> IF m \in chunk THEN "read" ELSE debit[m]]
    /\ UNCHANGED <<mandate, primary, outcome, spending, uncovered>>

EndRun(f) ==
    /\ run[f].on /\ ~Busy(f) /\ run[f].waiting = {}
    /\ run' = [run EXCEPT ![f].on = FALSE]
    /\ UNCHANGED <<mandate, primary, debit, outcome, spending, uncovered>>

\* Number(userPrimary.balance) - Number(data.amount) > 0
Covers(m) == primary[Holder[m]] - Amount[m] > 0

\* findOne of the primary account, and of the account the mandate names, which
\* may be missing or another user's.  (A user without a primary account is a
\* Fail.)
ReadPrimary(m) ==
    /\ debit[m] = "read"
    /\ \/ EndDebit(m, "missing")
       \/ ~Covers(m) /\ EndDebit(m, "short")
       \/ /\ Covers(m)
          /\ debit' = [debit EXCEPT ![m] = "check"]
          /\ UNCHANGED outcome
    /\ UNCHANGED <<mandate, primary, run, spending, uncovered>>

\* Debits of a user's account that have seen that it covers them.
Moving(u) == {m \in Mandates : Holder[m] = u /\ debit[m] = "move"}

\* One more has: it relies on no other taking its amount first.
Rely(u) ==
    uncovered' = IF Moving(u) = {} /\ spending[u] = 0 THEN uncovered
                 ELSE uncovered \cup {u}

\* Mutant: the transfer trusts the balance the cron has read.
CheckNothing(m) ==
    /\ debit[m] = "check"
    /\ debit' = [debit EXCEPT ![m] = "move"]
    /\ Rely(Holder[m])
    /\ UNCHANGED <<mandate, primary, run, outcome, spending>>

\* The transfer reads the balance once more.
Check(m) ==
    /\ debit[m] = "check"
    /\ primary[Holder[m]] >= Amount[m]
    /\ debit' = [debit EXCEPT ![m] = "move"]
    /\ Rely(Holder[m])
    /\ UNCHANGED <<mandate, primary, run, outcome, spending>>

Taken(m) == [primary EXCEPT ![Holder[m]] = @ - Amount[m]]

Move(m) ==
    /\ debit[m] = "move"
    /\ primary' = Taken(m)
    /\ EndDebit(m, "debited")
    /\ UNCHANGED <<mandate, run, spending, uncovered>>

\* The debit throws: no primary account, a query or a message that fails, a
\* transfer that is refused or fails, at its worst once the money has moved.  No
\* later chunk starts.
Fail(m) ==
    /\ debit[m] # "idle"
    /\ primary' \in {primary} \cup {Taken(n) : n \in {m} \cap Moving(Holder[m])}
    /\ EndDebit(m, "threw")
    /\ run' = [run EXCEPT ![Frequency[m]].on = FALSE, ![Frequency[m]].waiting = {}]
    /\ UNCHANGED <<mandate, spending, uncovered>>

\* The process dies.
CronDies ==
    /\ \E f \in Frequencies : run[f].on \/ Busy(f)
    /\ run' = [f \in Frequencies |-> NoRun]
    /\ debit' = [m \in Mandates |-> "idle"]
    /\ spending' = [u \in Payers |-> 0]
    /\ UNCHANGED <<mandate, primary, outcome, uncovered>>

-----------------------------------------------------------------------------
\* The rest of the system.
Receive(u, x) ==
    /\ primary[u] + x <= MaxBalance
    /\ primary' = [primary EXCEPT ![u] = @ + x]
    /\ UNCHANGED <<mandate, runVars, spending, uncovered>>

\* A transfer of a negative amount into the account: nobody looks at its balance.
ReceiveNegative(u, x) ==
    /\ primary[u] - x >= MinBalance
    /\ primary' = [primary EXCEPT ![u] = @ - x]
    /\ uncovered' = uncovered \cup {u}
    /\ UNCHANGED <<mandate, runVars, spending>>

\* Another debit of the account, one at a time, is found covered and made, or
\* not after all.
StartSpend(u, x) ==
    /\ spending[u] = 0 /\ primary[u] >= x
    /\ spending' = [spending EXCEPT ![u] = x]
    /\ Rely(u)
    /\ UNCHANGED <<mandate, primary, runVars>>

EndSpend(u) ==
    /\ spending[u] > 0
    /\ primary' \in {primary, [primary EXCEPT ![u] = @ - spending[u]]}
    /\ spending' = [spending EXCEPT ![u] = 0]
    /\ UNCHANGED <<mandate, runVars, uncovered>>

CreateMandate(m) ==
    /\ mandate[m] = "none"
    /\ mandate' = [mandate EXCEPT ![m] = "ACTIVE"]
    /\ UNCHANGED <<primary, runVars, spending, uncovered>>

EndMandate(m) ==
    /\ mandate[m] = "ACTIVE"
    /\ mandate' = [mandate EXCEPT ![m] = "ENDED"]
    /\ UNCHANGED <<primary, runVars, spending, uncovered>>

DebitNext ==
    \/ \E f \in Frequencies : List(f) \/ NextChunk(f) \/ EndRun(f)
    \/ \E m \in Mandates :
          \/ ReadPrimary(m) \/ Check(m) \/ Move(m) \/ Fail(m)
          \/ CreateMandate(m) \/ EndMandate(m)
    \/ \E u \in Payers :
          \/ \E x \in Flows :
                Receive(u, x) \/ ReceiveNegative(u, x) \/ StartSpend(u, x)
          \/ EndSpend(u)
    \/ CronDies

DebitSpec == DebitInit /\ [][DebitNext]_debitVars

-----------------------------------------------------------------------------
\* When a run is over, a mandate it listed has been dealt with, or a debit of
\* the same run threw.
ServedUnlessThrown ==
    \A f \in Frequencies, m \in Mandates :
        (/\ m \in run[f].listed /\ ~run[f].on
         /\ debit[m] = "idle" /\ outcome[m] = "none") =>
            \E n \in run[f].listed : outcome[n] = "threw"

\* However many mandates a user has, of whatever frequencies, they take no more
\* than the primary account holds, unless two debits relied on the same balance
\* or a negative amount was paid in.
PrimaryCovered == \A u \in Payers \ uncovered : primary[u] >= 0

=============================================================================
