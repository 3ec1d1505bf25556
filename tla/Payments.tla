------------------------------- MODULE Payments -------------------------------
(***************************************************************************)
(* Deposits and withdrawals through the mobile-money gateway               *)
(* (TransactionService) and the reconciliation crons that settle them      *)
(* (ReconcileAccountCronService): the requests that ask the gateway, the   *)
(* handlers of its callbacks, the cron that polls PENDING rows and the     *)
(* cron that re-reads FAILED ones.  Handlers run side by side: each reads  *)
(* a row as PENDING, and only later writes it and moves the money.         *)
(*                                                                         *)
(* A transfer is one step here (TransferCore has its steps).  The gateway  *)
(* is external: it may repeat, reorder or never send a callback, and its   *)
(* answers may be lost.                                                    *)
(***************************************************************************)
EXTENDS Integers, FiniteSets

CONSTANTS
    Deposits,     \* transactionIds of deposits
    Withdrawals,  \* and of withdrawals
    Handlers,     \* calls of transactionCallback running at a time
    Sweeps,       \* runs of the retry cron going on at a time
    NoTxn,        \* "no transaction", the undefined reference
    Faults,       \* kinds of fault that happen: "crash", "transfer", "gateway"
    MaxFaults,    \* bound: how many faults happen
    MaxCancels,   \* bound: how often clients cancel a transaction
    Listed,       \* rows the retry cron reads at a time, the newest first
    ManyCredits   \* bound: credits of one deposit are counted up to this

ASSUME PaymentsAssumption ==
    /\ Deposits \cap Withdrawals = {}
    /\ NoTxn \notin Deposits \cup Withdrawals
    /\ Faults \subseteq {"crash", "transfer", "gateway"}
    /\ MaxFaults \in Nat
    /\ MaxCancels \in Nat
    /\ Listed \in Nat \ {0}
    /\ ManyCredits \in Nat /\ ManyCredits > 1

Txns == Deposits \cup Withdrawals

VARIABLES
    request,    \* where the client's request for each transaction stands
    status,     \* transactionStatus of its row, "none" before it is saved
    earlier,    \* rows of the day that were there when one's own was created
    age,        \* age of createdAt, as the crons' queries tell it apart
    gateway,    \* what the gateway has done: "paid" when the money has moved
    debited,    \* withdrawals whose amount has left the user's account
    credits,    \* how often a deposit has been credited to the user's account
    handler,    \* [at, txn, answer, memory] of each callback handler
    sweep,      \* the FAILED row each retry run is about to look up
    cancels,    \* how often a client has cancelled a transaction
    contested,  \* rows written or taken while a handler held them, or
                \* reopened after their success
    unsettled,  \* transactions a crash or a failing transfer has hit
    faults      \* faults so far

rows == <<status, earlier>>
vars == <<request, rows, age, gateway, debited, credits, handler, sweep,
          cancels, contested, unsettled, faults>>

Answers == {"SUCCESS", "PENDING", "FAILED", "none"}
Idle == [at |-> "idle", txn |-> NoTxn, answer |-> "none", memory |-> "none"]

EarlierOK == earlier \in [Txns -> SUBSET Txns]

TypeOK ==
    /\ request \in [Txns -> {"start", "debit", "ask", "save", "refused", "ended"}]
    /\ status \in [Txns -> {"none", "PENDING", "SUCCESS", "FAILED"}]
    /\ EarlierOK
    /\ age \in [Txns -> {"today", "recent", "old"}]
    /\ gateway \in [Txns -> {"unasked", "pending", "paid", "failed"}]
    /\ debited \subseteq Withdrawals
    /\ credits \in [Txns -> 0..ManyCredits]
    /\ handler \in [Handlers ->
           [at : {"idle", "find", "resolve", "credit", "finish"},
            txn : Txns \cup {NoTxn}, answer : Answers,
            memory : {"none", "SUCCESS", "FAILED"}]]
    /\ sweep \in [Sweeps -> Txns \cup {NoTxn}]
    /\ cancels \in 0..MaxCancels
    /\ contested \subseteq Txns
    /\ unsettled \subseteq Txns
    /\ faults \in 0..MaxFaults

Init ==
    /\ request = [t \in Txns |-> "start"]
    /\ status = [t \in Txns |-> "none"]
    /\ earlier = [t \in Txns |-> {}]
    /\ age = [t \in Txns |-> "today"]
    /\ gateway = [t \in Txns |-> "unasked"]
    /\ debited = {}
    /\ credits = [t \in Txns |-> 0]
    /\ handler = [h \in Handlers |-> Idle]
    /\ sweep = [s \in Sweeps |-> NoTxn]
    /\ cancels = 0
    /\ contested = {}
    /\ unsettled = {}
    /\ faults = 0

Fault(kind) ==
    /\ kind \in Faults
    /\ faults < MaxFaults
    /\ faults' = faults + 1

GoTo(t, place) == request' = [request EXCEPT ![t] = place]

\* Saving a row, or updating its status; the first save sets createdAt.
SetStatus(t, s) ==
    /\ status' = [status EXCEPT ![t] = s]
    /\ earlier' = IF status[t] = "none"
                  THEN [earlier EXCEPT ![t] =
                           {u \in Txns : status[u] # "none" /\ age[u] = "today"}]
                  ELSE earlier

\* A handler has read t's row as PENDING and has not finished with it.
Holds(h, t) ==
    handler[h].at \in {"resolve", "credit", "finish"} /\ handler[h].txn = t

\* An uncoordinated write of t's row: it may undo what a handler does.
Disturb(t) ==
    contested' = IF status[t] = "SUCCESS" \/ \E h \in Handlers : Holds(h, t)
                 THEN contested \cup {t} ELSE contested

-----------------------------------------------------------------------------
\* The requests.

\* deposit: the gateway is asked to debit the wallet before any row exists.
AskDeposit(t) ==
    /\ t \in Deposits /\ request[t] = "start"
    /\ \/ gateway' = [gateway EXCEPT ![t] = "pending"] /\ GoTo(t, "save")
       \/ gateway' = [gateway EXCEPT ![t] = "failed"] /\ GoTo(t, "refused")
    /\ UNCHANGED <<rows, age, debited, credits, handler, sweep, cancels,
                   contested, unsettled, faults>>

\* withdrawal: the daily limit throws, a short balance is saved as FAILED, or
\* the account is about to be debited.
CheckWithdrawal(t) ==
    /\ t \in Withdrawals /\ request[t] = "start"
    /\ \/ GoTo(t, "ended") /\ UNCHANGED rows
       \/ GoTo(t, "ended") /\ SetStatus(t, "FAILED")
       \/ GoTo(t, "debit") /\ UNCHANGED rows
    /\ UNCHANGED <<age, gateway, debited, credits, handler, sweep, cancels,
                   contested, unsettled, faults>>

\* Mutant: the gateway is asked whatever the debit answers.
DebitUnchecked(t) ==
    /\ request[t] = "debit"
    /\ GoTo(t, "ask")
    /\ SetStatus(t, "PENDING")
    /\ debited' = debited \cup {t} \/ UNCHANGED debited
    /\ UNCHANGED <<age, gateway, credits, handler, sweep, cancels,
                   contested, unsettled, faults>>

\* userAccountWithdrawal answers: it has saved the row, PENDING as the caller
\* set it, and moved the money; or it refuses and the row is saved FAILED.
Debit(t) ==
    /\ request[t] = "debit"
    /\ \/ GoTo(t, "ask") /\ SetStatus(t, "PENDING")
          /\ debited' = debited \cup {t}
       \/ GoTo(t, "ended") /\ SetStatus(t, "FAILED") /\ UNCHANGED debited
    /\ UNCHANGED <<age, gateway, credits, handler, sweep, cancels,
                   contested, unsettled, faults>>

\* It answers "99" (the row is then saved FAILED) or throws, before or after
\* it has saved the row and moved the money.
DebitFault(t) ==
    /\ request[t] = "debit"
    /\ Fault("transfer")
    /\ GoTo(t, "ended")
    /\ \/ /\ \E s \in {"PENDING", "FAILED"} : SetStatus(t, s)
          /\ debited' = debited \cup {t} \/ UNCHANGED debited
       \/ UNCHANGED <<rows, debited>>
    /\ unsettled' = unsettled \cup {t}
    /\ UNCHANGED <<age, gateway, credits, handler, sweep, cancels, contested>>

AskWithdrawal(t) ==
    /\ request[t] = "ask"
    /\ \/ gateway' = [gateway EXCEPT ![t] = "pending"] /\ GoTo(t, "save")
       \/ gateway' = [gateway EXCEPT ![t] = "failed"] /\ GoTo(t, "refused")
    /\ UNCHANGED <<rows, age, debited, credits, handler, sweep, cancels,
                   contested, unsettled, faults>>

\* The POST fails, before or after the gateway has taken the order:
\* HttpRequestService turns the error into a response without a status, and
\* callPaymentGateWayForDepositWithdrawal fills in "PENDING".
AskFault(t) ==
    /\ \/ t \in Deposits /\ request[t] = "start"
       \/ request[t] = "ask"
    /\ Fault("gateway")
    /\ GoTo(t, "save")
    /\ \/ gateway' = [gateway EXCEPT ![t] = "pending"]
       \/ UNCHANGED gateway
    /\ UNCHANGED <<rows, age, debited, credits, handler, sweep, cancels,
                   contested, unsettled>>

\* em.save(transaction) after a "PENDING" answer: a deposit's first save; for a
\* withdrawal it writes PENDING over what a quick callback has made of the row.
SavePending(t) ==
    /\ request[t] = "save"
    /\ SetStatus(t, "PENDING")
    /\ GoTo(t, "ended")
    /\ UNCHANGED <<age, gateway, debited, credits, handler, sweep, cancels,
                   contested, unsettled, faults>>

\* Another answer: a deposit is saved FAILED; a withdrawal's row goes through
\* transactionCallback with FAILED, which no longer reverses the debit.
SaveRefused(t) ==
    /\ request[t] = "refused"
    /\ IF t \in Deposits \/ status[t] = "PENDING"
       THEN SetStatus(t, "FAILED") ELSE UNCHANGED rows
    /\ GoTo(t, "ended")
    /\ UNCHANGED <<age, gateway, debited, credits, handler, sweep, cancels,
                   contested, unsettled, faults>>

\* cancelDepositWithPaystack: FAILED, whatever the row says and whatever it is
\* of.
Cancel(t) ==
    /\ cancels < MaxCancels /\ status[t] # "none"
    /\ cancels' = cancels + 1
    /\ SetStatus(t, "FAILED")
    /\ Disturb(t)
    /\ UNCHANGED <<request, age, gateway, debited, credits, handler, sweep,
                   unsettled, faults>>

-----------------------------------------------------------------------------
\* The gateway, and the calendar the crons' queries go by.
Settle(t) ==
    /\ gateway[t] = "pending"
    /\ \E g \in {"paid", "failed"} : gateway' = [gateway EXCEPT ![t] = g]
    /\ UNCHANGED <<request, rows, age, debited, credits, handler, sweep,
                   cancels, contested, unsettled, faults>>

\* A row ages, and leaves the day before those created after it.
DayPasses(t) ==
    /\ status[t] # "none" /\ age[t] # "old"
    /\ earlier[t] = {}
    /\ age' = [age EXCEPT ![t] = IF age[t] = "today" THEN "recent" ELSE "old"]
    /\ earlier' = [u \in Txns |-> earlier[u] \ {t}]
    /\ UNCHANGED <<request, status, gateway, debited, credits, handler, sweep,
                   cancels, contested, unsettled, faults>>

-----------------------------------------------------------------------------
\* transactionCallback.
StartHandler(h, t, answer) ==
    /\ handler[h].at = "idle"
    /\ handler' = [handler EXCEPT ![h] =
           [at |-> "find", txn |-> t, answer |-> answer, memory |-> "none"]]

\* The gateway calls back, as often as it likes.
Callback(h, t) ==
    /\ \/ gateway[t] = "paid" /\ StartHandler(h, t, "SUCCESS")
       \/ gateway[t] = "failed" /\ StartHandler(h, t, "FAILED")
    /\ UNCHANGED <<request, rows, age, gateway, debited, credits, sweep,
                   cancels, contested, unsettled, faults>>

\* The cron asks the gateway about a row that was listed as PENDING, and calls
\* the handler with whatever status it is given ("NOT_FOUND" is skipped).
Poll(h, t) ==
    /\ status[t] = "PENDING" /\ age[t] # "old"
    /\ \/ gateway[t] = "pending" /\ StartHandler(h, t, "PENDING")
       \/ gateway[t] = "paid" /\ StartHandler(h, t, "SUCCESS")
       \/ gateway[t] = "failed" /\ StartHandler(h, t, "FAILED")
    /\ UNCHANGED <<request, rows, age, gateway, debited, credits, sweep,
                   cancels, contested, unsettled, faults>>

\* The status request fails: the response has no reference and no status, and
\* the handler is called with both undefined.
PollFault(h) ==
    /\ \E t \in Txns : status[t] = "PENDING" /\ age[t] # "old"
    /\ Fault("gateway")
    /\ StartHandler(h, NoTxn, "none")
    /\ UNCHANGED <<request, rows, age, gateway, debited, credits, sweep,
                   cancels, contested, unsettled>>

\* Mutant: the row is taken whatever its status.
FindAny(h) ==
    /\ handler[h].at = "find" /\ handler[h].txn # NoTxn
    /\ LET t == handler[h].txn IN
       /\ handler' = IF status[t] # "none"
                     THEN [handler EXCEPT ![h].at = "resolve"]
                     ELSE [handler EXCEPT ![h] = Idle]
       /\ contested' = IF \E g \in Handlers \ {h} : Holds(g, t)
                       THEN contested \cup {t} ELSE contested
    /\ UNCHANGED <<request, rows, age, gateway, debited, credits, sweep,
                   cancels, unsettled, faults>>

\* findOne({transactionId, transactionStatus: PENDING}).  An undefined id drops
\* out of the WHERE, which then finds some PENDING row or other.
Find(h) ==
    /\ handler[h].at = "find"
    /\ LET ref == handler[h].txn
           found == {t \in Txns : status[t] = "PENDING" /\ ref \in {t, NoTxn}}
       IN
       \/ /\ found = {}
          /\ handler' = [handler EXCEPT ![h] = Idle]
          /\ UNCHANGED contested
       \/ \E t \in found :
          /\ handler' = [handler EXCEPT ![h].at = "resolve", ![h].txn = t]
          /\ contested' = IF \E g \in Handlers \ {h} : Holds(g, t)
                          THEN contested \cup {t} ELSE contested
    /\ UNCHANGED <<request, rows, age, gateway, debited, credits, sweep,
                   cancels, unsettled, faults>>

\* Mutant: PENDING is taken for a success as well.
ResolvePending(h) ==
    LET t == handler[h].txn IN
    /\ handler[h].at = "resolve"
    /\ IF handler[h].answer \in {"SUCCESS", "PENDING"}
       THEN /\ SetStatus(t, "SUCCESS")
            /\ handler' = [handler EXCEPT
                   ![h].at = IF t \in Deposits THEN "credit" ELSE "finish",
                   ![h].memory = "SUCCESS"]
       ELSE /\ SetStatus(t, "FAILED")
            /\ handler' = [handler EXCEPT ![h] = Idle]
    /\ UNCHANGED <<request, age, gateway, debited, credits, sweep, cancels,
                   contested, unsettled, faults>>

\* updateTransaction: SUCCESS is saved before the account is credited; every
\* other answer, "PENDING" included, makes the row FAILED.
Resolve(h) ==
    LET t == handler[h].txn IN
    /\ handler[h].at = "resolve"
    /\ IF handler[h].answer = "SUCCESS"
       THEN /\ SetStatus(t, "SUCCESS")
            /\ handler' = [handler EXCEPT
                   ![h].at = IF t \in Deposits THEN "credit" ELSE "finish",
                   ![h].memory = "SUCCESS"]
       ELSE /\ SetStatus(t, "FAILED")
            /\ handler' = [handler EXCEPT ![h] = Idle]
    /\ UNCHANGED <<request, age, gateway, debited, credits, sweep, cancels,
                   contested, unsettled, faults>>

AddCredit(t) ==
    credits' = [credits EXCEPT ![t] = IF @ < ManyCredits THEN @ + 1 ELSE @]

\* userAccountDeposit with the transaction, whose row it saves again.  What it
\* answers is not looked at.
Credit(h) ==
    LET t == handler[h].txn IN
    /\ handler[h].at = "credit"
    /\ AddCredit(t)
    /\ SetStatus(t, "SUCCESS")
    /\ handler' = [handler EXCEPT ![h].at = "finish"]
    /\ UNCHANGED <<request, age, gateway, debited, sweep, cancels, contested,
                   unsettled, faults>>

\* It refuses, and on a short balance marks the entity in memory FAILED; or it
\* answers "99" or throws, with the row saved and the money moved or not.
CreditFault(h) ==
    LET t == handler[h].txn IN
    /\ handler[h].at = "credit"
    /\ Fault("transfer")
    /\ unsettled' = unsettled \cup {t}
    /\ \/ /\ \E m \in {"SUCCESS", "FAILED"} :
                 handler' = [handler EXCEPT ![h].at = "finish", ![h].memory = m]
          /\ UNCHANGED <<credits, rows>>
       \/ /\ handler' \in {[handler EXCEPT ![h].at = "finish"],
                           [handler EXCEPT ![h] = Idle]}
          /\ SetStatus(t, "SUCCESS")
          /\ AddCredit(t) \/ UNCHANGED credits
    /\ UNCHANGED <<request, age, gateway, debited, sweep, cancels, contested>>

\* The streak, the messages and the last save of the row; an account without a
\* streak row, among others, makes it throw before that save.
Finish(h) ==
    /\ handler[h].at = "finish"
    /\ SetStatus(handler[h].txn, handler[h].memory) \/ UNCHANGED rows
    /\ handler' = [handler EXCEPT ![h] = Idle]
    /\ UNCHANGED <<request, age, gateway, debited, credits, sweep, cancels,
                   contested, unsettled, faults>>

-----------------------------------------------------------------------------
\* The retry cron.

\* The FAILED rows of the day are read newest first and up to a limit: a row
\* with that many newer ones is left out.
Failed == {t \in Txns : status[t] = "FAILED" /\ age[t] = "today"}
Crowded(t) == Cardinality({u \in Failed : t \in earlier[u]}) >= Listed

\* It lists them ...
ListFailed(s, t) ==
    /\ sweep[s] = NoTxn
    /\ t \in Failed /\ ~Crowded(t)
    /\ sweep' = [sweep EXCEPT ![s] = t]
    /\ UNCHANGED <<request, rows, age, gateway, debited, credits, handler,
                   cancels, contested, unsettled, faults>>

\* Mutant: the two kinds of transaction are swapped.
RetrySwapped(s) ==
    LET t == sweep[s] IN
    /\ t # NoTxn
    /\ sweep' = [sweep EXCEPT ![s] = NoTxn]
    /\ IF gateway[t] = "paid"
       THEN /\ SetStatus(t, IF t \in Withdrawals THEN "PENDING" ELSE "SUCCESS")
            /\ Disturb(t)
       ELSE UNCHANGED <<rows, contested>>
    /\ UNCHANGED <<request, age, gateway, debited, credits, handler, cancels,
                   unsettled, faults>>

\* Mutant: the gateway's answer is not looked at.
RetryBlindly(s) ==
    LET t == sweep[s] IN
    /\ t # NoTxn
    /\ sweep' = [sweep EXCEPT ![s] = NoTxn]
    /\ SetStatus(t, IF t \in Deposits THEN "PENDING" ELSE "SUCCESS")
    /\ Disturb(t)
    /\ UNCHANGED <<request, age, gateway, debited, credits, handler, cancels,
                   unsettled, faults>>

\* Mutant: only withdrawals are put right.
RetryWithdrawalsOnly(s) ==
    LET t == sweep[s] IN
    /\ t # NoTxn
    /\ sweep' = [sweep EXCEPT ![s] = NoTxn]
    /\ IF gateway[t] = "paid" /\ t \in Withdrawals
       THEN SetStatus(t, "SUCCESS") /\ Disturb(t)
       ELSE UNCHANGED <<rows, contested>>
    /\ UNCHANGED <<request, age, gateway, debited, credits, handler, cancels,
                   unsettled, faults>>

\* Mutant: only deposits are put right.
RetryDepositsOnly(s) ==
    LET t == sweep[s] IN
    /\ t # NoTxn
    /\ sweep' = [sweep EXCEPT ![s] = NoTxn]
    /\ IF gateway[t] = "paid" /\ t \in Deposits
       THEN SetStatus(t, "PENDING") /\ Disturb(t)
       ELSE UNCHANGED <<rows, contested>>
    /\ UNCHANGED <<request, age, gateway, debited, credits, handler, cancels,
                   unsettled, faults>>

\* ... and asks the gateway about each: a paid deposit is put back to PENDING
\* for the poll to credit, a paid withdrawal is SUCCESS.  The UPDATE does not
\* look at what the row says by then.
Retry(s) ==
    LET t == sweep[s] IN
    /\ t # NoTxn
    /\ sweep' = [sweep EXCEPT ![s] = NoTxn]
    /\ IF gateway[t] = "paid"
       THEN /\ SetStatus(t, IF t \in Deposits THEN "PENDING" ELSE "SUCCESS")
            /\ Disturb(t)
       ELSE UNCHANGED <<rows, contested>>
    /\ UNCHANGED <<request, age, gateway, debited, credits, handler, cancels,
                   unsettled, faults>>

\* Its request to the gateway fails, which it takes for "not a success".
RetryFault(s) ==
    /\ sweep[s] # NoTxn
    /\ Fault("gateway")
    /\ sweep' = [sweep EXCEPT ![s] = NoTxn]
    /\ UNCHANGED <<request, rows, age, gateway, debited, credits, handler,
                   cancels, contested, unsettled>>

-----------------------------------------------------------------------------
\* The process dies: requests, handlers and cron runs are gone.
Crash ==
    LET running == {t \in Txns : request[t] \notin {"start", "ended"}}
        inHand == {t \in Txns : \E h \in Handlers : Holds(h, t)}
    IN
    /\ Fault("crash")
    /\ request' = [t \in Txns |-> IF t \in running THEN "ended" ELSE request[t]]
    /\ handler' = [h \in Handlers |-> Idle]
    /\ sweep' = [s \in Sweeps |-> NoTxn]
    /\ unsettled' = unsettled \cup running \cup inHand
    /\ UNCHANGED <<rows, age, gateway, debited, credits, cancels, contested>>

Request(t) ==
    \/ AskDeposit(t)
    \/ CheckWithdrawal(t)
    \/ Debit(t)
    \/ AskWithdrawal(t)
    \/ SavePending(t)
    \/ SaveRefused(t)

Handle(h) ==
    \/ Find(h)
    \/ Resolve(h)
    \/ Credit(h)
    \/ Finish(h)

Failure ==
    \/ \E t \in Txns : DebitFault(t) \/ AskFault(t)
    \/ \E h \in Handlers : PollFault(h) \/ CreditFault(h)
    \/ \E s \in Sweeps : RetryFault(s)
    \/ Crash

Next ==
    \/ \E t \in Txns : Request(t)
    \/ \E t \in Txns : Cancel(t)
    \/ \E t \in Txns : Settle(t)
    \/ \E t \in Txns : DayPasses(t)
    \/ \E h \in Handlers, t \in Txns : Callback(h, t)
    \/ \E h \in Handlers, t \in Txns : Poll(h, t)
    \/ \E h \in Handlers : Handle(h)
    \/ \E s \in Sweeps, t \in Txns : ListFailed(s, t)
    \/ \E s \in Sweeps : Retry(s)
    \/ Failure

Spec == Init /\ [][Next]_vars

\* What runs goes on, the gateway settles what it has taken, and the crons run:
\* each poll and each retry gets its turn in spite of the callbacks and the
\* other rows that compete with it in the model for a handler or a sweep.
Fairness ==
    /\ \A t \in Txns : WF_vars(Request(t)) /\ WF_vars(Settle(t))
    /\ \A h \in Handlers : WF_vars(Handle(h))
    /\ \A t \in Txns : SF_vars(\E h \in Handlers : Poll(h, t))
    /\ \A t \in Txns : SF_vars(\E s \in Sweeps : ListFailed(s, t))
    /\ \A s \in Sweeps : WF_vars(Retry(s))

FairSpec == Spec /\ Fairness

-----------------------------------------------------------------------------
\* An account is credited only when the gateway has the payer's money, whatever
\* callbacks, polls, retries and cancellations have made of the row before.
CreditNeedsPayment == \A t \in Txns : credits[t] > 0 => gateway[t] = "paid"

\* A row says SUCCESS only of money the gateway has moved, however stale the
\* list, the row or the answer it was written from.
SuccessIsConfirmed ==
    \A t \in Txns : status[t] = "SUCCESS" => gateway[t] = "paid"

\* The gateway never has an order to pay out what the account was not debited.
PayoutNeedsDebit ==
    \A t \in Withdrawals : gateway[t] # "unasked" => t \in debited

\* transactionCallback reads PENDING and writes SUCCESS later, with no lock.
\* A deposit is credited twice only if another write or another handler came
\* between, or a cancellation or a stale retry reopened it after its success.
CreditedOnceUncontested ==
    \A t \in Deposits \ contested : credits[t] <= 1

\* A deposit that says SUCCESS has been credited once its handlers are through,
\* unless the process died or the transfer failed: SUCCESS is saved first, and
\* nothing credits the account later.
SuccessfulDepositIsCredited ==
    \A t \in Deposits \ unsettled :
        (status[t] = "SUCCESS" /\ \A h \in Handlers : ~Holds(h, t))
            => credits[t] > 0

\* While the retry cron still covers its day, a deposit the gateway has been
\* paid does not stay uncredited, though callbacks are lost, come before the row
\* exists or are taken for a failure, and the client cancels.  Only a crash or a
\* failing transfer that hits this very deposit may leave it so, or as many
\* newer rows as the cron lists, if they stay FAILED.
PaidDepositIsCredited ==
    \A t \in Deposits :
        \/ []<>(gateway[t] = "paid"
                   => credits[t] > 0 \/ age[t] # "today" \/ t \in unsettled)
        \/ <>[]Crowded(t)

\* The same of withdrawals: one that was paid out is recorded as SUCCESS.
PaidWithdrawalIsRecorded ==
    \A t \in Withdrawals :
        \/ []<>(gateway[t] = "paid"
                   => status[t] = "SUCCESS" \/ age[t] # "today" \/ t \in unsettled)
        \/ <>[]Crowded(t)

\* Requests, handlers and crons, with all their faults, implement the promise of
\* Settlement about the money that crosses the gateway; a row they have worked
\* on together is one in dispute.
Exchange == INSTANCE Settlement WITH disputed <- contested
ImplementsSettlement == Exchange!Spec

\* withdrawal says of an order the gateway refuses: "REVERSE TRANSACTION IF IT
\* DOES NOT HIT PAYMENT GATEWAY / CALLING REVERSAL FUNCTION": when the request
\* is over the account has its money back.
RefusedWithdrawalIsReversed ==
    \A t \in Withdrawals \ unsettled :
        (request[t] = "ended" /\ gateway[t] = "failed" /\ status[t] = "FAILED")
            => t \notin debited \/ credits[t] > 0

=============================================================================
