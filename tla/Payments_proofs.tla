--------------------------- MODULE Payments_proofs ---------------------------
(***************************************************************************)
(* Proofs about Payments, for any transactions, handlers, retry runs and   *)
(* faults: SUCCESS is only written of money the gateway has moved, credits *)
(* need the payment, payouts need the debit, a deposit is credited twice   *)
(* only through a contested row, and a SUCCESS is a credit unless a crash  *)
(* or a failed transfer came between.                                      *)
(***************************************************************************)
EXTENDS Payments, TLAPS

\* What a step leaves of the rows is seen through their tuple.
USE DEF rows

\* A request is at a step its kind of transaction has; an order that is with
\* the gateway, or about to be, has been debited; nothing has moved before the
\* gateway is asked; a deposit has no row yet while its request runs.
RequestInv ==
    /\ \A t \in Txns : request[t] \in {"start", "debit", "ask"}
                          => gateway[t] = "unasked"
    /\ \A t \in Txns : request[t] \in {"debit", "ask"} => t \in Withdrawals
    /\ \A t \in Withdrawals :
           (request[t] \in {"ask", "save", "refused"} \/ gateway[t] # "unasked")
               => t \in debited
    /\ \A t \in Deposits : request[t] # "ended" => status[t] = "none"

\* A retry run has listed a row that exists.
SweepInv == \A s \in Sweeps : sweep[s] # NoTxn => status[sweep[s]] # "none"

\* A handler that was told SUCCESS was told so of a payment; one that credits
\* or finishes was told SUCCESS; one that holds a row has found one.
HandlerInv ==
    \A h \in Handlers :
        /\ (handler[h].at # "idle" /\ handler[h].answer = "SUCCESS")
               => handler[h].txn \in Txns /\ gateway[handler[h].txn] = "paid"
        /\ handler[h].at \in {"credit", "finish"}
               => handler[h].answer = "SUCCESS"
        /\ handler[h].at \in {"resolve", "credit", "finish"}
               => handler[h].txn \in Txns /\ status[handler[h].txn] # "none"
        /\ handler[h].at = "credit" => handler[h].memory = "SUCCESS"
        /\ handler[h].at = "finish" => handler[h].memory # "none"

\* An uncontested row has one holder, which finds it as it left it; once the
\* deposit is credited, no handler will write anything but SUCCESS.
SoleAt(t) ==
    /\ \A g, h \in Handlers : Holds(g, t) /\ Holds(h, t) => g = h
    /\ \A h \in Handlers : Holds(h, t) =>
          /\ handler[h].at = "resolve" => status[t] = "PENDING"
          /\ handler[h].at \in {"credit", "finish"} => status[t] = "SUCCESS"
    /\ credits[t] <= 1
    /\ credits[t] = 1 =>
          /\ status[t] = "SUCCESS"
          /\ \A h \in Handlers : Holds(h, t) =>
                handler[h].at = "finish" /\ handler[h].memory = "SUCCESS"
SoleInv == \A t \in Deposits \ contested : SoleAt(t)

\* A SUCCESS that no fault has hit is credited or has a handler about to do it;
\* a handler past its credit leaves SUCCESS only of a credited deposit.
PaidAt(t) ==
    /\ status[t] = "SUCCESS" =>
          credits[t] > 0 \/ \E h \in Handlers :
                               Holds(h, t) /\ handler[h].at = "credit"
    /\ \A h \in Handlers :
          Holds(h, t) /\ handler[h].at = "finish" => credits[t] > 0
PaidInv == \A t \in Deposits \ unsettled : PaidAt(t)

IInv ==
    /\ TypeOK
    /\ RequestInv
    /\ SweepInv
    /\ HandlerInv
    /\ SuccessIsConfirmed
    /\ CreditNeedsPayment
    /\ SoleInv
    /\ PaidInv

\* Every step keeps the type of earlier: it changes with a row's first save,
\* and as rows leave the day.
LEMMA EarlierStep ==
    ASSUME TypeOK, [Next]_vars
    PROVE  EarlierOK'
<1> USE DEF TypeOK, EarlierOK
<1>s. ASSUME NEW t, NEW s, SetStatus(t, s) PROVE EarlierOK'
  BY <1>s DEF SetStatus
<1>k. ASSUME UNCHANGED earlier PROVE EarlierOK'
  BY <1>k
<1>1. ASSUME NEW t \in Txns, Request(t) PROVE EarlierOK'
  BY <1>1, <1>s, <1>k DEF Request, AskDeposit, CheckWithdrawal, Debit, AskWithdrawal,
     SavePending, SaveRefused
<1>2. ASSUME NEW t \in Txns, Cancel(t) PROVE EarlierOK'
  BY <1>2, <1>s DEF Cancel
<1>3. ASSUME NEW t \in Txns, DayPasses(t) PROVE EarlierOK'
  BY <1>3 DEF DayPasses
<1>4. ASSUME NEW t \in Txns, NEW h \in Handlers, NEW s \in Sweeps,
             Settle(t) \/ Callback(h, t) \/ Poll(h, t) \/ ListFailed(s, t)
      PROVE  EarlierOK'
  BY <1>4, <1>k DEF Settle, Callback, Poll, ListFailed
<1>5. ASSUME NEW h \in Handlers, Handle(h) PROVE EarlierOK'
  BY <1>5, <1>s, <1>k DEF Handle, Find, Resolve, Credit, Finish
<1>6. ASSUME NEW s \in Sweeps, Retry(s) PROVE EarlierOK'
  BY <1>6, <1>s, <1>k DEF Retry
<1>7. CASE Failure
  BY <1>7, <1>s, <1>k DEF Failure, DebitFault, AskFault, PollFault, CreditFault,
     RetryFault, Crash
<1>8. CASE UNCHANGED vars
  BY <1>8, <1>k DEF vars
<1> QED
  BY <1>1, <1>2, <1>3, <1>4, <1>5, <1>6, <1>7, <1>8, <1>k
     DEF Next, Settle, Callback, Poll, ListFailed

\* Every step keeps the type invariant.  RequestInv rules out an answer of a
\* gateway that was not asked, HandlerInv a credit of anything but a deposit.
LEMMA TypeStep ==
    ASSUME TypeOK, RequestInv, HandlerInv, [Next]_vars
    PROVE  TypeOK'
<1>0. EarlierOK'
  BY EarlierStep
<1> USE <1>0
<1>1. ASSUME NEW t \in Txns, AskDeposit(t) PROVE TypeOK'
  BY <1>1 DEF AskDeposit, GoTo, TypeOK
<1>2. ASSUME NEW t \in Txns, CheckWithdrawal(t) PROVE TypeOK'
  BY <1>2 DEF CheckWithdrawal, GoTo, SetStatus, TypeOK
<1>3. ASSUME NEW t \in Txns, Debit(t) PROVE TypeOK'
  BY <1>3 DEF Debit, GoTo, SetStatus, TypeOK, RequestInv
<1>4. ASSUME NEW t \in Txns, AskWithdrawal(t) PROVE TypeOK'
  BY <1>4 DEF AskWithdrawal, GoTo, TypeOK
<1>5. ASSUME NEW t \in Txns, SavePending(t) PROVE TypeOK'
  BY <1>5 DEF SavePending, GoTo, SetStatus, TypeOK
<1>6. ASSUME NEW t \in Txns, SaveRefused(t) PROVE TypeOK'
  BY <1>6 DEF SaveRefused, GoTo, SetStatus, TypeOK
<1>7. ASSUME NEW t \in Txns, Cancel(t) PROVE TypeOK'
  BY <1>7, PaymentsAssumption DEF Cancel, SetStatus, Disturb, TypeOK
<1>8. ASSUME NEW t \in Txns, Settle(t) PROVE TypeOK'
  BY <1>8 DEF Settle, TypeOK
<1>9. ASSUME NEW t \in Txns, DayPasses(t) PROVE TypeOK'
  BY <1>9 DEF DayPasses, TypeOK
<1>10. ASSUME NEW h \in Handlers, NEW t \in Txns, Callback(h, t) PROVE TypeOK'
  BY <1>10 DEF Callback, StartHandler, TypeOK, Answers
<1>11. ASSUME NEW h \in Handlers, NEW t \in Txns, Poll(h, t) PROVE TypeOK'
  BY <1>11 DEF Poll, StartHandler, TypeOK, Answers
<1>12. ASSUME NEW h \in Handlers, Find(h) PROVE TypeOK'
  BY <1>12 DEF Find, Idle, TypeOK, Answers, HandlerInv
<1>13. ASSUME NEW h \in Handlers, Resolve(h) PROVE TypeOK'
  BY <1>13 DEF Resolve, SetStatus, Idle, TypeOK, Answers
<1>14. ASSUME NEW h \in Handlers, Credit(h) PROVE TypeOK'
  BY <1>14, PaymentsAssumption DEF Credit, SetStatus, AddCredit, TypeOK, HandlerInv
<1>15. ASSUME NEW h \in Handlers, Finish(h) PROVE TypeOK'
  BY <1>15 DEF Finish, SetStatus, Idle, TypeOK, Answers
<1>16. ASSUME NEW s \in Sweeps, NEW t \in Txns, ListFailed(s, t) PROVE TypeOK'
  BY <1>16 DEF ListFailed, TypeOK
<1>17. ASSUME NEW s \in Sweeps, Retry(s) PROVE TypeOK'
  BY <1>17 DEF Retry, SetStatus, Disturb, TypeOK
<1>18. ASSUME NEW t \in Txns, DebitFault(t) PROVE TypeOK'
  BY <1>18, PaymentsAssumption DEF DebitFault, GoTo, SetStatus, Fault, TypeOK, RequestInv
<1>19. ASSUME NEW t \in Txns, AskFault(t) PROVE TypeOK'
  BY <1>19, PaymentsAssumption DEF AskFault, GoTo, Fault, TypeOK
<1>20. ASSUME NEW h \in Handlers, PollFault(h) PROVE TypeOK'
  BY <1>20, PaymentsAssumption DEF PollFault, StartHandler, Fault, TypeOK, Answers
<1>21. ASSUME NEW h \in Handlers, CreditFault(h) PROVE TypeOK'
  BY <1>21, PaymentsAssumption DEF CreditFault, SetStatus, AddCredit, Idle, Fault, TypeOK,
     Answers, HandlerInv
<1>22. ASSUME NEW s \in Sweeps, RetryFault(s) PROVE TypeOK'
  BY <1>22, PaymentsAssumption DEF RetryFault, Fault, TypeOK
<1>23. CASE Crash
  BY <1>23, PaymentsAssumption DEF Crash, Idle, Fault, TypeOK, Answers
<1>24. CASE UNCHANGED vars
  BY <1>24 DEF vars, TypeOK
<1> QED
  BY <1>1, <1>2, <1>3, <1>4, <1>5, <1>6, <1>7, <1>8, <1>9, <1>10, <1>11, <1>12, <1>13,
     <1>14, <1>15, <1>16, <1>17, <1>18, <1>19, <1>20, <1>21, <1>22, <1>23, <1>24
     DEF Next, Request, Handle, Failure

\* Every step keeps RequestInv: each handler of a callback has found a row
\* (HandlerInv), so no status is written before the request has saved one.
LEMMA RequestStep ==
    ASSUME TypeOK, RequestInv, SweepInv, HandlerInv, [Next]_vars
    PROVE  RequestInv'
<1>1. ASSUME NEW t \in Txns, AskDeposit(t) PROVE RequestInv'
  BY <1>1, PaymentsAssumption DEF AskDeposit, GoTo, TypeOK, Txns, RequestInv
<1>2. ASSUME NEW t \in Txns, CheckWithdrawal(t) PROVE RequestInv'
  BY <1>2 DEF CheckWithdrawal, GoTo, SetStatus, TypeOK, Txns, RequestInv
<1>3. ASSUME NEW t \in Txns, Debit(t) PROVE RequestInv'
  BY <1>3, PaymentsAssumption DEF Debit, GoTo, SetStatus, TypeOK, Txns, RequestInv
<1>4. ASSUME NEW t \in Txns, AskWithdrawal(t) PROVE RequestInv'
  BY <1>4 DEF AskWithdrawal, GoTo, TypeOK, Txns, RequestInv
<1>5. ASSUME NEW t \in Txns, SavePending(t) PROVE RequestInv'
  BY <1>5 DEF SavePending, GoTo, SetStatus, TypeOK, RequestInv
<1>6. ASSUME NEW t \in Txns, SaveRefused(t) PROVE RequestInv'
  BY <1>6 DEF SaveRefused, GoTo, SetStatus, TypeOK, Txns, RequestInv
<1>7. ASSUME NEW t \in Txns, Cancel(t) PROVE RequestInv'
  BY <1>7 DEF Cancel, SetStatus, Disturb, RequestInv
<1>8. ASSUME NEW t \in Txns, Settle(t) PROVE RequestInv'
  BY <1>8 DEF Settle, RequestInv
<1>9. ASSUME NEW t \in Txns, DayPasses(t) PROVE RequestInv'
  BY <1>9 DEF DayPasses, RequestInv
<1>10. ASSUME NEW h \in Handlers, NEW t \in Txns, Callback(h, t) PROVE RequestInv'
  BY <1>10 DEF Callback, StartHandler, RequestInv
<1>11. ASSUME NEW h \in Handlers, NEW t \in Txns, Poll(h, t) PROVE RequestInv'
  BY <1>11 DEF Poll, StartHandler, RequestInv
<1>12. ASSUME NEW h \in Handlers, Find(h) PROVE RequestInv'
  BY <1>12 DEF Find, RequestInv
<1>13. ASSUME NEW h \in Handlers, Resolve(h) PROVE RequestInv'
  BY <1>13 DEF Resolve, SetStatus, TypeOK, Txns, RequestInv, HandlerInv
<1>14. ASSUME NEW h \in Handlers, Credit(h) PROVE RequestInv'
  BY <1>14 DEF Credit, SetStatus, AddCredit, RequestInv, HandlerInv
<1>15. ASSUME NEW h \in Handlers, Finish(h) PROVE RequestInv'
  BY <1>15 DEF Finish, SetStatus, TypeOK, Txns, RequestInv, HandlerInv
<1>16. ASSUME NEW s \in Sweeps, NEW t \in Txns, ListFailed(s, t) PROVE RequestInv'
  BY <1>16 DEF ListFailed, RequestInv
<1>17. ASSUME NEW s \in Sweeps, Retry(s) PROVE RequestInv'
  BY <1>17 DEF Retry, SetStatus, Disturb, TypeOK, Txns, RequestInv, SweepInv
<1>18. ASSUME NEW t \in Txns, DebitFault(t) PROVE RequestInv'
  BY <1>18 DEF DebitFault, GoTo, SetStatus, TypeOK, Txns, RequestInv
<1>19. ASSUME NEW t \in Txns, AskFault(t) PROVE RequestInv'
  BY <1>19, PaymentsAssumption DEF AskFault, GoTo, TypeOK, Txns, RequestInv
<1>20. ASSUME NEW h \in Handlers, PollFault(h) PROVE RequestInv'
  BY <1>20 DEF PollFault, StartHandler, RequestInv
<1>21. ASSUME NEW h \in Handlers, CreditFault(h) PROVE RequestInv'
  BY <1>21 DEF CreditFault, SetStatus, AddCredit, TypeOK, Txns, RequestInv, HandlerInv
<1>22. ASSUME NEW s \in Sweeps, RetryFault(s) PROVE RequestInv'
  BY <1>22 DEF RetryFault, RequestInv
<1>23. CASE Crash
  BY <1>23 DEF Crash, Txns, RequestInv
<1>24. CASE UNCHANGED vars
  BY <1>24 DEF vars, RequestInv
<1> QED
  BY <1>1, <1>2, <1>3, <1>4, <1>5, <1>6, <1>7, <1>8, <1>9, <1>10, <1>11, <1>12, <1>13,
     <1>14, <1>15, <1>16, <1>17, <1>18, <1>19, <1>20, <1>21, <1>22, <1>23, <1>24
     DEF Next, Request, Handle, Failure

\* Every step keeps SweepInv: a row a retry run has listed as FAILED may become
\* SUCCESS meanwhile, never anything that was not there.
LEMMA SweepStep ==
    ASSUME TypeOK, SweepInv, HandlerInv, [Next]_vars
    PROVE  SweepInv'
<1>1. ASSUME NEW t \in Txns, AskDeposit(t) PROVE SweepInv'
  BY <1>1 DEF AskDeposit, SweepInv
<1>2. ASSUME NEW t \in Txns, CheckWithdrawal(t) PROVE SweepInv'
  BY <1>2 DEF CheckWithdrawal, SetStatus, TypeOK, SweepInv
<1>3. ASSUME NEW t \in Txns, Debit(t) PROVE SweepInv'
  BY <1>3 DEF Debit, SetStatus, TypeOK, SweepInv
<1>4. ASSUME NEW t \in Txns, AskWithdrawal(t) PROVE SweepInv'
  BY <1>4 DEF AskWithdrawal, SweepInv
<1>5. ASSUME NEW t \in Txns, SavePending(t) PROVE SweepInv'
  BY <1>5 DEF SavePending, SetStatus, SweepInv
<1>6. ASSUME NEW t \in Txns, SaveRefused(t) PROVE SweepInv'
  BY <1>6 DEF SaveRefused, SetStatus, TypeOK, SweepInv
<1>7. ASSUME NEW t \in Txns, Cancel(t) PROVE SweepInv'
  BY <1>7 DEF Cancel, SetStatus, Disturb, SweepInv
<1>8. ASSUME NEW t \in Txns, Settle(t) PROVE SweepInv'
  BY <1>8 DEF Settle, SweepInv
<1>9. ASSUME NEW t \in Txns, DayPasses(t) PROVE SweepInv'
  BY <1>9 DEF DayPasses, SweepInv
<1>10. ASSUME NEW h \in Handlers, NEW t \in Txns, Callback(h, t) PROVE SweepInv'
  BY <1>10 DEF Callback, StartHandler, SweepInv
<1>11. ASSUME NEW h \in Handlers, NEW t \in Txns, Poll(h, t) PROVE SweepInv'
  BY <1>11 DEF Poll, StartHandler, SweepInv
<1>12. ASSUME NEW h \in Handlers, Find(h) PROVE SweepInv'
  BY <1>12 DEF Find, SweepInv
<1>13. ASSUME NEW h \in Handlers, Resolve(h) PROVE SweepInv'
  BY <1>13 DEF Resolve, SetStatus, TypeOK, SweepInv
<1>14. ASSUME NEW h \in Handlers, Credit(h) PROVE SweepInv'
  BY <1>14 DEF Credit, SetStatus, AddCredit, SweepInv
<1>15. ASSUME NEW h \in Handlers, Finish(h) PROVE SweepInv'
  BY <1>15 DEF Finish, SetStatus, TypeOK, SweepInv, HandlerInv
<1>16. ASSUME NEW s \in Sweeps, NEW t \in Txns, ListFailed(s, t) PROVE SweepInv'
  BY <1>16 DEF ListFailed, Failed, SweepInv
<1>17. ASSUME NEW s \in Sweeps, Retry(s) PROVE SweepInv'
  BY <1>17 DEF Retry, SetStatus, Disturb, TypeOK, SweepInv
<1>18. ASSUME NEW t \in Txns, DebitFault(t) PROVE SweepInv'
  BY <1>18 DEF DebitFault, SetStatus, TypeOK, SweepInv
<1>19. ASSUME NEW t \in Txns, AskFault(t) PROVE SweepInv'
  BY <1>19 DEF AskFault, SweepInv
<1>20. ASSUME NEW h \in Handlers, PollFault(h) PROVE SweepInv'
  BY <1>20 DEF PollFault, StartHandler, SweepInv
<1>21. ASSUME NEW h \in Handlers, CreditFault(h) PROVE SweepInv'
  BY <1>21 DEF CreditFault, SetStatus, AddCredit, TypeOK, SweepInv
<1>22. ASSUME NEW s \in Sweeps, RetryFault(s) PROVE SweepInv'
  BY <1>22 DEF RetryFault, SweepInv
<1>23. CASE Crash
  BY <1>23 DEF Crash, SweepInv
<1>24. CASE UNCHANGED vars
  BY <1>24 DEF vars, SweepInv
<1> QED
  BY <1>1, <1>2, <1>3, <1>4, <1>5, <1>6, <1>7, <1>8, <1>9, <1>10, <1>11, <1>12, <1>13,
     <1>14, <1>15, <1>16, <1>17, <1>18, <1>19, <1>20, <1>21, <1>22, <1>23, <1>24
     DEF Next, Request, Handle, Failure

\* Every step keeps HandlerInv: what a callback handler carries is a row that
\* exists, of a payment the gateway was asked for.
LEMMA HandlerStep ==
    ASSUME TypeOK, HandlerInv, RequestInv, [Next]_vars
    PROVE  HandlerInv'
<1>1. ASSUME NEW t \in Txns, AskDeposit(t) PROVE HandlerInv'
  BY <1>1 DEF AskDeposit, TypeOK, RequestInv, HandlerInv
<1>2. ASSUME NEW t \in Txns, CheckWithdrawal(t) PROVE HandlerInv'
  BY <1>2 DEF CheckWithdrawal, SetStatus, TypeOK, HandlerInv
<1>3. ASSUME NEW t \in Txns, Debit(t) PROVE HandlerInv'
  BY <1>3 DEF Debit, SetStatus, TypeOK, HandlerInv
<1>4. ASSUME NEW t \in Txns, AskWithdrawal(t) PROVE HandlerInv'
  BY <1>4 DEF AskWithdrawal, TypeOK, RequestInv, HandlerInv
<1>5. ASSUME NEW t \in Txns, SavePending(t) PROVE HandlerInv'
  BY <1>5 DEF SavePending, SetStatus, HandlerInv
<1>6. ASSUME NEW t \in Txns, SaveRefused(t) PROVE HandlerInv'
  BY <1>6 DEF SaveRefused, SetStatus, TypeOK, HandlerInv
<1>7. ASSUME NEW t \in Txns, Cancel(t) PROVE HandlerInv'
  BY <1>7 DEF Cancel, SetStatus, Disturb, HandlerInv
<1>8. ASSUME NEW t \in Txns, Settle(t) PROVE HandlerInv'
  BY <1>8 DEF Settle, HandlerInv
<1>9. ASSUME NEW t \in Txns, DayPasses(t) PROVE HandlerInv'
  BY <1>9 DEF DayPasses, HandlerInv
<1>10. ASSUME NEW h \in Handlers, NEW t \in Txns, Callback(h, t) PROVE HandlerInv'
  BY <1>10 DEF Callback, StartHandler, TypeOK, HandlerInv
<1>11. ASSUME NEW h \in Handlers, NEW t \in Txns, Poll(h, t) PROVE HandlerInv'
  BY <1>11 DEF Poll, StartHandler, TypeOK, HandlerInv
<1>12. ASSUME NEW h \in Handlers, Find(h) PROVE HandlerInv'
  BY <1>12 DEF Find, Idle, TypeOK, HandlerInv
<1>13. ASSUME NEW h \in Handlers, Resolve(h) PROVE HandlerInv'
  BY <1>13 DEF Resolve, SetStatus, Idle, TypeOK, HandlerInv
<1>14. ASSUME NEW h \in Handlers, Credit(h) PROVE HandlerInv'
  BY <1>14 DEF Credit, SetStatus, AddCredit, HandlerInv
<1>15. ASSUME NEW h \in Handlers, Finish(h) PROVE HandlerInv'
  BY <1>15 DEF Finish, SetStatus, Idle, TypeOK, HandlerInv
<1>16. ASSUME NEW s \in Sweeps, NEW t \in Txns, ListFailed(s, t) PROVE HandlerInv'
  BY <1>16 DEF ListFailed, HandlerInv
<1>17. ASSUME NEW s \in Sweeps, Retry(s) PROVE HandlerInv'
  BY <1>17 DEF Retry, SetStatus, Disturb, TypeOK, HandlerInv
<1>18. ASSUME NEW t \in Txns, DebitFault(t) PROVE HandlerInv'
  BY <1>18 DEF DebitFault, SetStatus, TypeOK, HandlerInv
<1>19. ASSUME NEW t \in Txns, AskFault(t) PROVE HandlerInv'
  BY <1>19 DEF AskFault, TypeOK, RequestInv, HandlerInv
<1>20. ASSUME NEW h \in Handlers, PollFault(h) PROVE HandlerInv'
  BY <1>20 DEF PollFault, StartHandler, HandlerInv
<1>21. ASSUME NEW h \in Handlers, CreditFault(h) PROVE HandlerInv'
  BY <1>21 DEF CreditFault, SetStatus, AddCredit, Idle, TypeOK, HandlerInv
<1>22. ASSUME NEW s \in Sweeps, RetryFault(s) PROVE HandlerInv'
  BY <1>22 DEF RetryFault, HandlerInv
<1>23. CASE Crash
  BY <1>23 DEF Crash, Idle, HandlerInv
<1>24. CASE UNCHANGED vars
  BY <1>24 DEF vars, HandlerInv
<1> QED
  BY <1>1, <1>2, <1>3, <1>4, <1>5, <1>6, <1>7, <1>8, <1>9, <1>10, <1>11, <1>12, <1>13,
     <1>14, <1>15, <1>16, <1>17, <1>18, <1>19, <1>20, <1>21, <1>22, <1>23, <1>24
     DEF Next, Request, Handle, Failure

\* Every step keeps SuccessIsConfirmed.
LEMMA ConfirmedStep ==
    ASSUME TypeOK, HandlerInv, RequestInv, SuccessIsConfirmed, [Next]_vars
    PROVE  SuccessIsConfirmed'
<1>1. ASSUME NEW t \in Txns, AskDeposit(t) PROVE SuccessIsConfirmed'
  BY <1>1 DEF AskDeposit, TypeOK, RequestInv, SuccessIsConfirmed
<1>2. ASSUME NEW t \in Txns, CheckWithdrawal(t) PROVE SuccessIsConfirmed'
  BY <1>2 DEF CheckWithdrawal, SetStatus, TypeOK, SuccessIsConfirmed
<1>3. ASSUME NEW t \in Txns, Debit(t) PROVE SuccessIsConfirmed'
  BY <1>3 DEF Debit, SetStatus, TypeOK, SuccessIsConfirmed
<1>4. ASSUME NEW t \in Txns, AskWithdrawal(t) PROVE SuccessIsConfirmed'
  BY <1>4 DEF AskWithdrawal, TypeOK, RequestInv, SuccessIsConfirmed
<1>5. ASSUME NEW t \in Txns, SavePending(t) PROVE SuccessIsConfirmed'
  BY <1>5 DEF SavePending, SetStatus, SuccessIsConfirmed
<1>6. ASSUME NEW t \in Txns, SaveRefused(t) PROVE SuccessIsConfirmed'
  BY <1>6 DEF SaveRefused, SetStatus, TypeOK, SuccessIsConfirmed
<1>7. ASSUME NEW t \in Txns, Cancel(t) PROVE SuccessIsConfirmed'
  BY <1>7 DEF Cancel, SetStatus, Disturb, SuccessIsConfirmed
<1>8. ASSUME NEW t \in Txns, Settle(t) PROVE SuccessIsConfirmed'
  BY <1>8 DEF Settle, SuccessIsConfirmed
<1>9. ASSUME NEW t \in Txns, DayPasses(t) PROVE SuccessIsConfirmed'
  BY <1>9 DEF DayPasses, SuccessIsConfirmed
<1>10. ASSUME NEW h \in Handlers, NEW t \in Txns, Callback(h, t) PROVE SuccessIsConfirmed'
  BY <1>10 DEF Callback, StartHandler, SuccessIsConfirmed
<1>11. ASSUME NEW h \in Handlers, NEW t \in Txns, Poll(h, t) PROVE SuccessIsConfirmed'
  BY <1>11 DEF Poll, StartHandler, SuccessIsConfirmed
<1>12. ASSUME NEW h \in Handlers, Find(h) PROVE SuccessIsConfirmed'
  BY <1>12 DEF Find, SuccessIsConfirmed
<1>13. ASSUME NEW h \in Handlers, Resolve(h) PROVE SuccessIsConfirmed'
  BY <1>13 DEF Resolve, SetStatus, TypeOK, HandlerInv, SuccessIsConfirmed
<1>14. ASSUME NEW h \in Handlers, Credit(h) PROVE SuccessIsConfirmed'
  BY <1>14 DEF Credit, SetStatus, AddCredit, HandlerInv, SuccessIsConfirmed
<1>15. ASSUME NEW h \in Handlers, Finish(h) PROVE SuccessIsConfirmed'
  BY <1>15 DEF Finish, SetStatus, TypeOK, HandlerInv, SuccessIsConfirmed
<1>16. ASSUME NEW s \in Sweeps, NEW t \in Txns, ListFailed(s, t) PROVE SuccessIsConfirmed'
  BY <1>16 DEF ListFailed, SuccessIsConfirmed
<1>17. ASSUME NEW s \in Sweeps, Retry(s) PROVE SuccessIsConfirmed'
  BY <1>17 DEF Retry, SetStatus, Disturb, TypeOK, SuccessIsConfirmed
<1>18. ASSUME NEW t \in Txns, DebitFault(t) PROVE SuccessIsConfirmed'
  BY <1>18 DEF DebitFault, SetStatus, TypeOK, SuccessIsConfirmed
<1>19. ASSUME NEW t \in Txns, AskFault(t) PROVE SuccessIsConfirmed'
  BY <1>19 DEF AskFault, TypeOK, RequestInv, SuccessIsConfirmed
<1>20. ASSUME NEW h \in Handlers, PollFault(h) PROVE SuccessIsConfirmed'
  BY <1>20 DEF PollFault, StartHandler, SuccessIsConfirmed
<1>21. ASSUME NEW h \in Handlers, CreditFault(h) PROVE SuccessIsConfirmed'
  BY <1>21 DEF CreditFault, SetStatus, AddCredit, TypeOK, HandlerInv, SuccessIsConfirmed
<1>22. ASSUME NEW s \in Sweeps, RetryFault(s) PROVE SuccessIsConfirmed'
  BY <1>22 DEF RetryFault, SuccessIsConfirmed
<1>23. CASE Crash
  BY <1>23 DEF Crash, SuccessIsConfirmed
<1>24. CASE UNCHANGED vars
  BY <1>24 DEF vars, SuccessIsConfirmed
<1> QED
  BY <1>1, <1>2, <1>3, <1>4, <1>5, <1>6, <1>7, <1>8, <1>9, <1>10, <1>11, <1>12, <1>13,
     <1>14, <1>15, <1>16, <1>17, <1>18, <1>19, <1>20, <1>21, <1>22, <1>23, <1>24
     DEF Next, Request, Handle, Failure

\* Every step keeps CreditNeedsPayment.
LEMMA CreditStep ==
    ASSUME TypeOK, HandlerInv, RequestInv, CreditNeedsPayment, [Next]_vars
    PROVE  CreditNeedsPayment'
<1>1. ASSUME NEW t \in Txns, AskDeposit(t) PROVE CreditNeedsPayment'
  BY <1>1 DEF AskDeposit, TypeOK, RequestInv, CreditNeedsPayment
<1>2. ASSUME NEW t \in Txns, CheckWithdrawal(t) PROVE CreditNeedsPayment'
  BY <1>2 DEF CheckWithdrawal, CreditNeedsPayment
<1>3. ASSUME NEW t \in Txns, Debit(t) PROVE CreditNeedsPayment'
  BY <1>3 DEF Debit, CreditNeedsPayment
<1>4. ASSUME NEW t \in Txns, AskWithdrawal(t) PROVE CreditNeedsPayment'
  BY <1>4 DEF AskWithdrawal, TypeOK, RequestInv, CreditNeedsPayment
<1>5. ASSUME NEW t \in Txns, SavePending(t) PROVE CreditNeedsPayment'
  BY <1>5 DEF SavePending, CreditNeedsPayment
<1>6. ASSUME NEW t \in Txns, SaveRefused(t) PROVE CreditNeedsPayment'
  BY <1>6 DEF SaveRefused, CreditNeedsPayment
<1>7. ASSUME NEW t \in Txns, Cancel(t) PROVE CreditNeedsPayment'
  BY <1>7 DEF Cancel, Disturb, CreditNeedsPayment
<1>8. ASSUME NEW t \in Txns, Settle(t) PROVE CreditNeedsPayment'
  BY <1>8 DEF Settle, CreditNeedsPayment
<1>9. ASSUME NEW t \in Txns, DayPasses(t) PROVE CreditNeedsPayment'
  BY <1>9 DEF DayPasses, CreditNeedsPayment
<1>10. ASSUME NEW h \in Handlers, NEW t \in Txns, Callback(h, t) PROVE CreditNeedsPayment'
  BY <1>10 DEF Callback, StartHandler, CreditNeedsPayment
<1>11. ASSUME NEW h \in Handlers, NEW t \in Txns, Poll(h, t) PROVE CreditNeedsPayment'
  BY <1>11 DEF Poll, StartHandler, CreditNeedsPayment
<1>12. ASSUME NEW h \in Handlers, Find(h) PROVE CreditNeedsPayment'
  BY <1>12 DEF Find, CreditNeedsPayment
<1>13. ASSUME NEW h \in Handlers, Resolve(h) PROVE CreditNeedsPayment'
  BY <1>13 DEF Resolve, CreditNeedsPayment
<1>14. ASSUME NEW h \in Handlers, Credit(h) PROVE CreditNeedsPayment'
  BY <1>14 DEF Credit, AddCredit, HandlerInv, CreditNeedsPayment
<1>15. ASSUME NEW h \in Handlers, Finish(h) PROVE CreditNeedsPayment'
  BY <1>15 DEF Finish, CreditNeedsPayment
<1>16. ASSUME NEW s \in Sweeps, NEW t \in Txns, ListFailed(s, t) PROVE CreditNeedsPayment'
  BY <1>16 DEF ListFailed, CreditNeedsPayment
<1>17. ASSUME NEW s \in Sweeps, Retry(s) PROVE CreditNeedsPayment'
  BY <1>17 DEF Retry, Disturb, CreditNeedsPayment
<1>18. ASSUME NEW t \in Txns, DebitFault(t) PROVE CreditNeedsPayment'
  BY <1>18 DEF DebitFault, CreditNeedsPayment
<1>19. ASSUME NEW t \in Txns, AskFault(t) PROVE CreditNeedsPayment'
  BY <1>19 DEF AskFault, TypeOK, RequestInv, CreditNeedsPayment
<1>20. ASSUME NEW h \in Handlers, PollFault(h) PROVE CreditNeedsPayment'
  BY <1>20 DEF PollFault, StartHandler, CreditNeedsPayment
<1>21. ASSUME NEW h \in Handlers, CreditFault(h) PROVE CreditNeedsPayment'
  BY <1>21 DEF CreditFault, AddCredit, TypeOK, HandlerInv, CreditNeedsPayment
<1>22. ASSUME NEW s \in Sweeps, RetryFault(s) PROVE CreditNeedsPayment'
  BY <1>22 DEF RetryFault, CreditNeedsPayment
<1>23. CASE Crash
  BY <1>23 DEF Crash, CreditNeedsPayment
<1>24. CASE UNCHANGED vars
  BY <1>24 DEF vars, CreditNeedsPayment
<1> QED
  BY <1>1, <1>2, <1>3, <1>4, <1>5, <1>6, <1>7, <1>8, <1>9, <1>10, <1>11, <1>12, <1>13,
     <1>14, <1>15, <1>16, <1>17, <1>18, <1>19, <1>20, <1>21, <1>22, <1>23, <1>24
     DEF Next, Request, Handle, Failure

\* Every step keeps SoleInv: a deposit is contested as soon as two handlers may
\* credit it.
LEMMA SoleStep ==
    ASSUME TypeOK, HandlerInv, RequestInv, SweepInv, SoleInv, [Next]_vars
    PROVE  SoleInv'
<1>1. ASSUME NEW t \in Txns, AskDeposit(t) PROVE SoleInv'
  BY <1>1 DEF AskDeposit, SoleInv, SoleAt, Holds
<1>2. ASSUME NEW t \in Txns, CheckWithdrawal(t) PROVE SoleInv'
  BY <1>2 DEF CheckWithdrawal, SetStatus, TypeOK, Txns, RequestInv, SoleInv, SoleAt, Holds
<1>3. ASSUME NEW t \in Txns, Debit(t) PROVE SoleInv'
  BY <1>3 DEF Debit, SetStatus, TypeOK, Txns, RequestInv, SoleInv, SoleAt, Holds
<1>4. ASSUME NEW t \in Txns, AskWithdrawal(t) PROVE SoleInv'
  BY <1>4 DEF AskWithdrawal, SoleInv, SoleAt, Holds
<1>5. ASSUME NEW t \in Txns, SavePending(t) PROVE SoleInv'
  BY <1>5 DEF SavePending, SetStatus, RequestInv, SoleInv, SoleAt, Holds
<1>6. ASSUME NEW t \in Txns, SaveRefused(t) PROVE SoleInv'
  BY <1>6 DEF SaveRefused, SetStatus, TypeOK, Txns, RequestInv, SoleInv, SoleAt, Holds
<1>7. ASSUME NEW t \in Txns, Cancel(t) PROVE SoleInv'
  BY <1>7 DEF Cancel, SetStatus, Disturb, SoleInv, SoleAt, Holds
<1>8. ASSUME NEW t \in Txns, Settle(t) PROVE SoleInv'
  BY <1>8 DEF Settle, SoleInv, SoleAt, Holds
<1>9. ASSUME NEW t \in Txns, DayPasses(t) PROVE SoleInv'
  BY <1>9 DEF DayPasses, SoleInv, SoleAt, Holds
<1>10. ASSUME NEW h \in Handlers, NEW t \in Txns, Callback(h, t) PROVE SoleInv'
  BY <1>10 DEF Callback, StartHandler, TypeOK, Txns, RequestInv, SoleInv, SoleAt, Holds
<1>11. ASSUME NEW h \in Handlers, NEW t \in Txns, Poll(h, t) PROVE SoleInv'
  <2>1. UNCHANGED <<status, credits, contested>>
    BY <1>11 DEF Poll
  <2>2. \A g \in Handlers : g # h => handler'[g] = handler[g]
    BY <1>11 DEF Poll, StartHandler, TypeOK
  <2>3. handler[h].at = "idle" /\ handler'[h].at = "find"
    BY <1>11 DEF Poll, StartHandler, TypeOK
  <2> QED
    BY <2>1, <2>2, <2>3 DEF SoleInv, SoleAt, Holds
<1>12. ASSUME NEW h \in Handlers, Find(h) PROVE SoleInv'
  <2>1. UNCHANGED <<status, credits>> /\ ~Holds(h, handler[h].txn)
    BY <1>12 DEF Find, Holds
  <2>2. \A g \in Handlers : g # h => handler'[g] = handler[g]
    BY <1>12 DEF Find, TypeOK
  <2>3. \A u \in Txns : ~Holds(h, u)
    BY <1>12 DEF Find, Holds
  <2>4. CASE handler'[h].at = "idle" /\ UNCHANGED contested
    BY <2>1, <2>2, <2>3, <2>4 DEF SoleInv, SoleAt, Holds
  <2>5. ASSUME NEW t \in Txns, status[t] = "PENDING",
               handler'[h].at = "resolve", handler'[h].txn = t,
               contested' = IF \E g \in Handlers \ {h} : Holds(g, t)
                            THEN contested \cup {t} ELSE contested
        PROVE  SoleInv'
    BY <2>1, <2>2, <2>3, <2>5 DEF SoleInv, SoleAt, Holds
  <2> QED
    BY <1>12, <2>4, <2>5 DEF Find, Idle, TypeOK
<1>13. ASSUME NEW h \in Handlers, Resolve(h) PROVE SoleInv'
  <2>1. PICK u \in Txns : u = handler[h].txn
    BY <1>13 DEF Resolve, HandlerInv
  <2>2. contested' = contested /\ credits' = credits /\ Holds(h, u)
    BY <1>13, <2>1 DEF Resolve, Holds
  <2>3. \A g \in Handlers \ {h} : handler'[g] = handler[g]
    BY <1>13 DEF Resolve, TypeOK
  <2>4. /\ handler'[h].at \in {"idle", "credit", "finish"}
        /\ handler'[h].at # "idle" => handler'[h].txn = u /\ status'[u] = "SUCCESS"
    BY <1>13, <2>1 DEF Resolve, SetStatus, Idle, TypeOK
  <2>5. ASSUME NEW t \in Deposits \ contested', t # u PROVE SoleAt(t)'
    <3>1. SoleAt(t) /\ status'[t] = status[t]
      BY <1>13, <2>1, <2>2, <2>5 DEF SoleInv, Resolve, SetStatus, TypeOK, Txns
    <3>2. ~Holds(h, t) /\ ~Holds(h, t)'
      BY <2>1, <2>4, <2>5 DEF Holds
    <3> QED
      BY <2>2, <2>3, <3>1, <3>2 DEF SoleAt, Holds
  <2>6. ASSUME NEW t \in Deposits \ contested', t = u PROVE SoleAt(t)'
    <3>1. SoleAt(t) /\ credits[t] <= 1 /\ credits[t] # 1
      BY <1>13, <2>2, <2>6 DEF Resolve, SoleInv, SoleAt
    <3>2. \A g \in Handlers : Holds(g, t)' => g = h
      BY <2>2, <2>3, <2>6, <3>1 DEF SoleAt, Holds
    <3> QED
      BY <2>2, <2>4, <2>6, <3>1, <3>2 DEF SoleAt
  <2> QED
    BY <2>5, <2>6 DEF SoleInv
<1>14. ASSUME NEW h \in Handlers, Credit(h) PROVE SoleInv'
  BY <1>14 DEF Credit, SetStatus, AddCredit, TypeOK, HandlerInv, SoleInv, SoleAt, Holds
<1>15. ASSUME NEW h \in Handlers, Finish(h) PROVE SoleInv'
  BY <1>15 DEF Finish, SetStatus, Idle, TypeOK, Txns, SoleInv, SoleAt, Holds
<1>16. ASSUME NEW s \in Sweeps, NEW t \in Txns, ListFailed(s, t) PROVE SoleInv'
  BY <1>16 DEF ListFailed, SoleInv, SoleAt, Holds
<1>17. ASSUME NEW s \in Sweeps, Retry(s) PROVE SoleInv'
  BY <1>17 DEF Retry, SetStatus, Disturb, TypeOK, Txns, SoleInv, SoleAt, Holds
<1>18. ASSUME NEW t \in Txns, DebitFault(t) PROVE SoleInv'
  BY <1>18 DEF DebitFault, SetStatus, TypeOK, Txns, RequestInv, SoleInv, SoleAt, Holds
<1>19. ASSUME NEW t \in Txns, AskFault(t) PROVE SoleInv'
  BY <1>19 DEF AskFault, SoleInv, SoleAt, Holds
<1>20. ASSUME NEW h \in Handlers, PollFault(h) PROVE SoleInv'
  BY <1>20 DEF PollFault, StartHandler, SoleInv, SoleAt, Holds
<1>21. ASSUME NEW h \in Handlers, CreditFault(h) PROVE SoleInv'
  <2>1. PICK u \in Txns : u = handler[h].txn
    BY <1>21 DEF CreditFault, HandlerInv
  <2>2. contested' = contested /\ Holds(h, u) /\ handler[h].memory = "SUCCESS"
    BY <1>21, <2>1 DEF CreditFault, Holds, HandlerInv
  <2>3. \A g \in Handlers \ {h} : handler'[g] = handler[g]
    BY <1>21 DEF CreditFault, TypeOK
  <2>4. /\ handler'[h].at \in {"idle", "finish"}
        /\ handler'[h].at = "finish" => handler'[h].txn = u
    BY <1>21, <2>1 DEF CreditFault, Idle, TypeOK
  <2>5. ASSUME NEW t \in Deposits \ contested', t # u PROVE SoleAt(t)'
    <3>1. SoleAt(t) /\ status'[t] = status[t] /\ credits'[t] = credits[t]
      BY <1>21, <2>1, <2>2, <2>5
         DEF SoleInv, CreditFault, SetStatus, AddCredit, TypeOK, Txns
    <3>2. ~Holds(h, t) /\ ~Holds(h, t)'
      BY <2>1, <2>4, <2>5 DEF Holds
    <3> QED
      BY <2>2, <2>3, <3>1, <3>2 DEF SoleAt, Holds
  <2>6. ASSUME NEW t \in Deposits \ contested', t = u PROVE SoleAt(t)'
    <3>1. SoleAt(t) /\ credits[t] = 0 /\ status[t] = "SUCCESS"
      BY <1>21, <2>2, <2>6 DEF CreditFault, SoleInv, SoleAt, TypeOK
    <3>2. \A g \in Handlers : Holds(g, t)' => g = h
      BY <2>2, <2>3, <2>6, <3>1 DEF SoleAt, Holds
    <3>3. status'[t] = "SUCCESS"
      BY <1>21, <2>1, <2>6, <3>1 DEF CreditFault, SetStatus, TypeOK
    <3>4. CASE credits' = credits
      BY <2>4, <3>1, <3>2, <3>3, <3>4 DEF SoleAt
    <3>5. CASE credits' # credits
      <4>1. credits'[t] = 1
        BY <1>21, <2>1, <2>6, <3>1, <3>5
           DEF CreditFault, AddCredit, TypeOK
      <4>2. handler'[h].at = "finish" => handler'[h].memory = "SUCCESS"
        BY <1>21, <2>2, <3>5 DEF CreditFault, Idle, TypeOK
      <4> QED
        BY <2>4, <3>2, <3>3, <4>1, <4>2 DEF SoleAt, Holds
    <3> QED
      BY <3>4, <3>5
  <2> QED
    BY <2>5, <2>6 DEF SoleInv
<1>22. ASSUME NEW s \in Sweeps, RetryFault(s) PROVE SoleInv'
  BY <1>22 DEF RetryFault, SoleInv, SoleAt, Holds
<1>23. CASE Crash
  BY <1>23 DEF Crash, Idle, SoleInv, SoleAt, Holds
<1>24. CASE UNCHANGED vars
  BY <1>24 DEF vars, SoleInv, SoleAt, Holds
<1> QED
  BY <1>1, <1>2, <1>3, <1>4, <1>5, <1>6, <1>7, <1>8, <1>9, <1>10, <1>11, <1>12, <1>13,
     <1>14, <1>15, <1>16, <1>17, <1>18, <1>19, <1>20, <1>21, <1>22, <1>23, <1>24
     DEF Next, Request, Handle, Failure

\* Every step keeps PaidInv: for a deposit that is not unsettled, what its
\* handler is about to finish has been credited.
LEMMA PaidStep ==
    ASSUME TypeOK, HandlerInv, RequestInv, SweepInv, PaidInv, [Next]_vars
    PROVE  PaidInv'
<1>1. ASSUME NEW t \in Txns, AskDeposit(t) PROVE PaidInv'
  BY <1>1 DEF AskDeposit, PaidInv, PaidAt, Holds
<1>2. ASSUME NEW t \in Txns, CheckWithdrawal(t) PROVE PaidInv'
  BY <1>2 DEF CheckWithdrawal, SetStatus, TypeOK, Txns, PaidInv, PaidAt, Holds
<1>3. ASSUME NEW t \in Txns, Debit(t) PROVE PaidInv'
  BY <1>3 DEF Debit, SetStatus, TypeOK, Txns, PaidInv, PaidAt, Holds
<1>4. ASSUME NEW t \in Txns, AskWithdrawal(t) PROVE PaidInv'
  BY <1>4 DEF AskWithdrawal, PaidInv, PaidAt, Holds
<1>5. ASSUME NEW t \in Txns, SavePending(t) PROVE PaidInv'
  BY <1>5 DEF SavePending, SetStatus, PaidInv, PaidAt, Holds
<1>6. ASSUME NEW t \in Txns, SaveRefused(t) PROVE PaidInv'
  BY <1>6 DEF SaveRefused, SetStatus, TypeOK, Txns, PaidInv, PaidAt, Holds
<1>7. ASSUME NEW t \in Txns, Cancel(t) PROVE PaidInv'
  BY <1>7 DEF Cancel, SetStatus, Disturb, PaidInv, PaidAt, Holds
<1>8. ASSUME NEW t \in Txns, Settle(t) PROVE PaidInv'
  BY <1>8 DEF Settle, PaidInv, PaidAt, Holds
<1>9. ASSUME NEW t \in Txns, DayPasses(t) PROVE PaidInv'
  BY <1>9 DEF DayPasses, PaidInv, PaidAt, Holds
<1>10. ASSUME NEW h \in Handlers, NEW t \in Txns, Callback(h, t) PROVE PaidInv'
  <2>1. status' = status /\ credits' = credits /\ unsettled' = unsettled
    BY <1>10 DEF Callback
  <2>2. \A g \in Handlers : g # h => handler'[g] = handler[g]
    BY <1>10 DEF Callback, StartHandler, TypeOK
  <2>3. handler[h].at = "idle" /\ handler'[h].at = "find"
    BY <1>10 DEF Callback, StartHandler, TypeOK
  <2> QED
    BY <2>1, <2>2, <2>3 DEF PaidInv, PaidAt, Holds
<1>11. ASSUME NEW h \in Handlers, NEW t \in Txns, Poll(h, t) PROVE PaidInv'
  BY <1>11 DEF Poll, StartHandler, TypeOK, Txns, PaidInv, PaidAt, Holds
<1>12. ASSUME NEW h \in Handlers, Find(h) PROVE PaidInv'
  BY <1>12, PaymentsAssumption DEF Find, Idle, TypeOK, HandlerInv, PaidInv, PaidAt, Holds
<1>13. ASSUME NEW h \in Handlers, Resolve(h) PROVE PaidInv'
  BY <1>13 DEF Resolve, SetStatus, Idle, TypeOK, Txns, PaidInv, PaidAt, Holds
<1>14. ASSUME NEW h \in Handlers, Credit(h) PROVE PaidInv'
  BY <1>14, PaymentsAssumption DEF Credit, SetStatus, AddCredit, TypeOK, PaidInv, PaidAt, Holds
<1>15. ASSUME NEW h \in Handlers, Finish(h) PROVE PaidInv'
  BY <1>15 DEF Finish, SetStatus, Idle, TypeOK, Txns, PaidInv, PaidAt, Holds
<1>16. ASSUME NEW s \in Sweeps, NEW t \in Txns, ListFailed(s, t) PROVE PaidInv'
  BY <1>16 DEF ListFailed, PaidInv, PaidAt, Holds
<1>17. ASSUME NEW s \in Sweeps, Retry(s) PROVE PaidInv'
  BY <1>17 DEF Retry, SetStatus, Disturb, TypeOK, Txns, PaidInv, PaidAt, Holds
<1>18. ASSUME NEW t \in Txns, DebitFault(t) PROVE PaidInv'
  BY <1>18 DEF DebitFault, SetStatus, TypeOK, Txns, PaidInv, PaidAt, Holds
<1>19. ASSUME NEW t \in Txns, AskFault(t) PROVE PaidInv'
  BY <1>19 DEF AskFault, PaidInv, PaidAt, Holds
<1>20. ASSUME NEW h \in Handlers, PollFault(h) PROVE PaidInv'
  BY <1>20 DEF PollFault, StartHandler, PaidInv, PaidAt, Holds
<1>21. ASSUME NEW h \in Handlers, CreditFault(h) PROVE PaidInv'
  <2> DEFINE u == handler[h].txn
  <2>1. unsettled' = unsettled \cup {u} /\ u \in Txns
    BY <1>21 DEF CreditFault, HandlerInv
  <2>2. ASSUME NEW t \in Deposits \ unsettled' PROVE PaidAt(t)'
    <3>1. t # u /\ t \in Txns /\ PaidAt(t)
      BY <2>1, <2>2 DEF PaidInv, Txns
    <3>2. status'[t] = status[t] /\ credits'[t] = credits[t]
      BY <1>21, <2>1, <3>1 DEF CreditFault, SetStatus, AddCredit, TypeOK
    <3>3. \A g \in Handlers : g # h => handler'[g] = handler[g]
      BY <1>21 DEF CreditFault, TypeOK
    <3>4. ~Holds(h, t) /\ ~Holds(h, t)'
      BY <1>21, <3>1 DEF CreditFault, Holds, Idle, TypeOK
    <3> QED
      BY <3>1, <3>2, <3>3, <3>4 DEF PaidAt, Holds
  <2> QED
    BY <2>2 DEF PaidInv
<1>22. ASSUME NEW s \in Sweeps, RetryFault(s) PROVE PaidInv'
  BY <1>22 DEF RetryFault, PaidInv, PaidAt, Holds
<1>23. CASE Crash
  BY <1>23 DEF Crash, Idle, Txns, PaidInv, PaidAt
<1>24. CASE UNCHANGED vars
  BY <1>24 DEF vars, PaidInv, PaidAt, Holds
<1> QED
  BY <1>1, <1>2, <1>3, <1>4, <1>5, <1>6, <1>7, <1>8, <1>9, <1>10, <1>11, <1>12, <1>13,
     <1>14, <1>15, <1>16, <1>17, <1>18, <1>19, <1>20, <1>21, <1>22, <1>23, <1>24
     DEF Next, Request, Handle, Failure

\* The inductive invariant holds initially.
LEMMA InitIInv == Init => IInv
BY PaymentsAssumption
   DEF Init, IInv, TypeOK, EarlierOK, RequestInv, SweepInv, HandlerInv, SuccessIsConfirmed,
       CreditNeedsPayment, SoleInv, SoleAt, PaidInv, PaidAt, Holds, Idle, Answers,
       Txns

\* The invariant is inductive: each part is preserved with the help of others.
LEMMA NextIInv == IInv /\ [Next]_vars => IInv'
BY TypeStep, RequestStep, SweepStep, HandlerStep, ConfirmedStep, CreditStep,
   SoleStep, PaidStep
   DEF IInv

\* Every reachable state satisfies the inductive invariant.
THEOREM Invariance == Spec => []IInv
BY InitIInv, NextIInv, PTL DEF Spec

\* Every variable keeps its type; in particular a row of this flow is never
\* anything but PENDING, SUCCESS or FAILED, the statuses its crons look for.
THEOREM TypeCorrect == Spec => []TypeOK
<1>1. IInv => TypeOK
  BY DEF IInv
<1> QED
  BY <1>1, Invariance, PTL

\* A row says SUCCESS only of money the gateway has moved.
THEOREM SuccessIsPaid == Spec => []SuccessIsConfirmed
<1>1. IInv => SuccessIsConfirmed
  BY DEF IInv
<1> QED
  BY <1>1, Invariance, PTL

\* No account is credited before the gateway has the payer's money.
THEOREM CreditsArePaid == Spec => []CreditNeedsPayment
<1>1. IInv => CreditNeedsPayment
  BY DEF IInv
<1> QED
  BY <1>1, Invariance, PTL

\* The gateway has no order to pay out what the account was not debited.
THEOREM PayoutsAreDebited == Spec => []PayoutNeedsDebit
<1>1. IInv => PayoutNeedsDebit
  BY DEF IInv, RequestInv, PayoutNeedsDebit
<1> QED
  BY <1>1, Invariance, PTL

\* However many handlers and retry runs there are, a deposit is credited a
\* second time only through a row that was contested.
THEOREM SecondCreditIsContested == Spec => []CreditedOnceUncontested
<1>1. IInv => CreditedOnceUncontested
  BY DEF IInv, SoleInv, SoleAt, CreditedOnceUncontested
<1> QED
  BY <1>1, Invariance, PTL

\* A deposit that says SUCCESS when its handlers are through has been credited,
\* unless the process died or the transfer failed.
THEOREM SuccessIsCredited == Spec => []SuccessfulDepositIsCredited
<1>1. IInv => SuccessfulDepositIsCredited
  BY DEF IInv, PaidInv, PaidAt, SuccessfulDepositIsCredited
<1> QED
  BY <1>1, Invariance, PTL

-----------------------------------------------------------------------------
(***************************************************************************)
(* Settlement.  Each step is one of the promise, on one transaction, or    *)
(* changes nothing the promise speaks of.                                  *)
(***************************************************************************)
CreditsDeposits ==
    \A h \in Handlers : handler[h].at = "credit" => handler[h].txn \in Deposits

\* Every step keeps that only deposits are about to be credited.
LEMMA CreditsDepositsStep ==
    TypeOK /\ CreditsDeposits /\ [Next]_vars => CreditsDeposits'
<1> SUFFICES ASSUME TypeOK, CreditsDeposits, [Next]_vars PROVE CreditsDeposits'
  OBVIOUS
<1> USE DEF TypeOK, CreditsDeposits
<1>1. ASSUME NEW t \in Txns, Request(t) \/ Cancel(t) \/ Settle(t) \/ DayPasses(t)
      PROVE  CreditsDeposits'
  BY <1>1 DEF Request, AskDeposit, CheckWithdrawal, Debit, AskWithdrawal, SavePending,
              SaveRefused, Cancel, Settle, DayPasses
<1>2. ASSUME NEW h \in Handlers, NEW t \in Txns, Callback(h, t) \/ Poll(h, t)
      PROVE  CreditsDeposits'
  BY <1>2 DEF Callback, Poll, StartHandler
<1>3. ASSUME NEW h \in Handlers, Find(h) PROVE CreditsDeposits'
  <2>1. \A g \in Handlers : g # h => handler'[g] = handler[g]
    BY <1>3 DEF Find
  <2>2. handler'[h].at # "credit"
    BY <1>3 DEF Find, Idle
  <2> QED
    BY <2>1, <2>2
<1>4. ASSUME NEW h \in Handlers, Resolve(h) PROVE CreditsDeposits'
  BY <1>4 DEF Resolve, Idle
<1>5. ASSUME NEW h \in Handlers, Credit(h) \/ Finish(h) PROVE CreditsDeposits'
  BY <1>5 DEF Credit, Finish, Idle
<1>6. ASSUME NEW s \in Sweeps, Retry(s) \/ RetryFault(s) \/ \E t \in Txns : ListFailed(s, t)
      PROVE  CreditsDeposits'
  BY <1>6 DEF Retry, RetryFault, ListFailed
<1>7. ASSUME NEW t \in Txns, DebitFault(t) \/ AskFault(t) PROVE CreditsDeposits'
  BY <1>7 DEF DebitFault, AskFault
<1>8. ASSUME NEW h \in Handlers, PollFault(h) PROVE CreditsDeposits'
  BY <1>8 DEF PollFault, StartHandler
<1>9. ASSUME NEW h \in Handlers, CreditFault(h) PROVE CreditsDeposits'
  BY <1>9 DEF CreditFault, Idle
<1>10. CASE Crash \/ UNCHANGED vars
  BY <1>10 DEF Crash, Idle, vars
<1> QED
  BY <1>1, <1>2, <1>3, <1>4, <1>5, <1>6, <1>7, <1>8, <1>9, <1>10
     DEF Next, Handle, Failure

\* A handler that credits is within the promise: what it was told was of a
\* payment, and an uncontested deposit has not been credited yet.
LEMMA CreditIsPromised ==
    ASSUME IInv, CreditsDeposits, NEW h \in Handlers, handler[h].at = "credit",
           AddCredit(handler[h].txn), UNCHANGED <<gateway, debited, contested>>
    PROVE  [Exchange!Next]_(Exchange!vars)
<1> DEFINE t == handler[h].txn
<1>1. t \in Deposits /\ t \in Txns /\ gateway[t] = "paid" /\ credits[t] \in 0 .. ManyCredits
  BY DEF IInv, TypeOK, HandlerInv, CreditsDeposits, Txns
<1>2. credits[t] = 0 \/ t \in contested
  <2> SUFFICES ASSUME t \notin contested PROVE credits[t] = 0
    OBVIOUS
  <2>1. SoleAt(t) /\ Holds(h, t)
    BY <1>1 DEF IInv, SoleInv, Holds
  <2>2. credits[t] <= 1 /\ credits[t] # 1
    BY <2>1 DEF SoleAt
  <2> QED
    BY <1>1, <2>2
<1>3. CASE credits[t] < ManyCredits
  <2>1. Exchange!Credit(t)
    BY <1>1, <1>2, <1>3 DEF AddCredit, Exchange!Credit
  <2> QED
    BY <1>1, <2>1 DEF Exchange!Next, Exchange!Txns, Txns
<1>4. CASE ~(credits[t] < ManyCredits)
  <2>1. credits' = credits
    BY <1>4 DEF AddCredit, IInv, TypeOK
  <2> QED
    BY <2>1 DEF Exchange!vars
<1> QED
  BY <1>3, <1>4

LEMMA StepRefines ==
    IInv /\ CreditsDeposits /\ [Next]_vars => [Exchange!Next]_(Exchange!vars)
<1> SUFFICES ASSUME IInv, CreditsDeposits, [Next]_vars
             PROVE  [Exchange!Next]_(Exchange!vars)
  OBVIOUS
<1>t. TypeOK /\ RequestInv /\ HandlerInv
  BY DEF IInv
<1>x. ASSUME UNCHANGED <<gateway, debited, credits, contested>>
      PROVE  [Exchange!Next]_(Exchange!vars)
  BY <1>x DEF Exchange!vars
<1>o. ASSUME NEW t \in Txns, gateway[t] = "unasked", t \in Withdrawals => t \in debited,
             NEW g \in {"pending", "failed"}, gateway' = [gateway EXCEPT ![t] = g],
             UNCHANGED <<debited, credits, contested>>
      PROVE  [Exchange!Next]_(Exchange!vars)
  BY <1>o DEF Exchange!Next, Exchange!Order, Exchange!Turn, Exchange!Txns, Txns
<1>c. ASSUME NEW t \in Txns, contested' = contested \cup {t} \/ UNCHANGED contested,
             UNCHANGED <<gateway, debited, credits>>
      PROVE  [Exchange!Next]_(Exchange!vars)
  BY <1>c DEF Exchange!Next, Exchange!Dispute, Exchange!Txns, Exchange!vars, Txns
<1>d. ASSUME NEW t \in Txns, request[t] = "debit",
             debited' = debited \cup {t} \/ UNCHANGED debited,
             UNCHANGED <<gateway, credits, contested>>
      PROVE  [Exchange!Next]_(Exchange!vars)
  <2>1. t \in Withdrawals /\ gateway[t] = "unasked"
    BY <1>t, <1>d DEF RequestInv
  <2>2. CASE debited' = debited
    BY <1>x, <1>d, <2>2
  <2>3. CASE debited' = debited \cup {t} /\ t \notin debited
    BY <1>d, <2>1, <2>3 DEF Exchange!Next, Exchange!Debit, Exchange!Txns, Txns
  <2>4. debited' = debited \/ (debited' = debited \cup {t} /\ t \notin debited)
    BY <1>d
  <2> QED
    BY <2>2, <2>3, <2>4
<1>1. ASSUME NEW t \in Txns, AskDeposit(t) PROVE [Exchange!Next]_(Exchange!vars)
  BY <1>t, <1>o, <1>1, PaymentsAssumption DEF AskDeposit, RequestInv
<1>2. ASSUME NEW t \in Txns, AskWithdrawal(t) PROVE [Exchange!Next]_(Exchange!vars)
  BY <1>t, <1>o, <1>2 DEF AskWithdrawal, RequestInv
<1>3. ASSUME NEW t \in Txns, AskFault(t) PROVE [Exchange!Next]_(Exchange!vars)
  BY <1>t, <1>o, <1>x, <1>3, PaymentsAssumption DEF AskFault, RequestInv
<1>4. ASSUME NEW t \in Txns, Debit(t) \/ DebitFault(t) PROVE [Exchange!Next]_(Exchange!vars)
  BY <1>d, <1>4 DEF Debit, DebitFault
<1>5. ASSUME NEW t \in Txns,
             CheckWithdrawal(t) \/ SavePending(t) \/ SaveRefused(t) \/ DayPasses(t)
      PROVE  [Exchange!Next]_(Exchange!vars)
  BY <1>x, <1>5 DEF CheckWithdrawal, SavePending, SaveRefused, DayPasses
<1>6. ASSUME NEW t \in Txns, Cancel(t) PROVE [Exchange!Next]_(Exchange!vars)
  BY <1>c, <1>6 DEF Cancel, Disturb
<1>7. ASSUME NEW t \in Txns, Settle(t) PROVE [Exchange!Next]_(Exchange!vars)
  BY <1>7 DEF Settle, Exchange!Next, Exchange!Settle, Exchange!Turn, Exchange!Txns, Txns
<1>8. ASSUME NEW h \in Handlers, NEW t \in Txns, Callback(h, t) \/ Poll(h, t)
      PROVE  [Exchange!Next]_(Exchange!vars)
  BY <1>x, <1>8 DEF Callback, Poll
<1>9. ASSUME NEW h \in Handlers, Find(h) PROVE [Exchange!Next]_(Exchange!vars)
  BY <1>x, <1>c, <1>9 DEF Find
<1>10. ASSUME NEW h \in Handlers, Resolve(h) \/ Finish(h) \/ PollFault(h)
       PROVE  [Exchange!Next]_(Exchange!vars)
  BY <1>x, <1>10 DEF Resolve, Finish, PollFault
<1>11. ASSUME NEW h \in Handlers, Credit(h) PROVE [Exchange!Next]_(Exchange!vars)
  BY <1>11, CreditIsPromised DEF Credit
<1>12. ASSUME NEW h \in Handlers, CreditFault(h) PROVE [Exchange!Next]_(Exchange!vars)
  BY <1>x, <1>12, CreditIsPromised DEF CreditFault
<1>13. ASSUME NEW s \in Sweeps, Retry(s) PROVE [Exchange!Next]_(Exchange!vars)
  <2>1. sweep[s] \in Txns
    BY <1>t, <1>13 DEF Retry, TypeOK
  <2> QED
    BY <1>c, <1>13, <2>1 DEF Retry, Disturb
<1>14. ASSUME NEW s \in Sweeps, RetryFault(s) \/ \E t \in Txns : ListFailed(s, t)
       PROVE  [Exchange!Next]_(Exchange!vars)
  BY <1>x, <1>14 DEF RetryFault, ListFailed
<1>15. CASE Crash \/ UNCHANGED vars
  BY <1>x, <1>15 DEF Crash, vars
<1> QED
  BY <1>1, <1>2, <1>3, <1>4, <1>5, <1>6, <1>7, <1>8, <1>9, <1>10, <1>11, <1>12, <1>13,
     <1>14, <1>15
     DEF Next, Request, Handle, Failure

\* Requests, callbacks, polls, retries, cancellations and crashes together give
\* no order that was not debited, and no credit that was not paid or, but for a
\* contested row, a second one.
THEOREM PaymentsAreSettled == Spec => ImplementsSettlement
<1>1. Init => Exchange!Init /\ CreditsDeposits
  BY DEF Init, Idle, CreditsDeposits, Exchange!Init, Exchange!Txns, Txns
<1>2. IInv => TypeOK
  BY DEF IInv
<1> QED
  BY <1>1, <1>2, Invariance, CreditsDepositsStep, StepRefines, PTL
     DEF Spec, ImplementsSettlement, Exchange!Spec

=============================================================================
