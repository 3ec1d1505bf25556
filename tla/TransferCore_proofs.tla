------------------------- MODULE TransferCore_proofs ------------------------
(***************************************************************************)
(* Proofs about TransferCore: types, that an account can be overdrawn only *)
(* by a race between two debits, that every movement has its transaction   *)
(* row, and that the service implements the ledger, for any accounts,      *)
(* requests, arguments and fees.                                           *)
(***************************************************************************)
EXTENDS TransferCore, TLAPS

\* The arguments of a request.
LEMMA CallType ==
    ASSUME TypeOK, NEW r \in Requests
    PROVE  /\ call[r] \in CallSet
           /\ call[r].from \in Accounts \cup {NoAccount}
           /\ call[r].to \in Accounts \cup {NoAccount}
           /\ call[r].amount \in Amounts
           /\ call[r].amount \in Int
<1>1. call[r] \in CallSet
  BY CoreAssumption DEF TypeOK
<1>2. call[r].amount \in Amounts /\ Amounts \subseteq Int
  BY <1>1, CoreAssumption DEF CallSet
<1>3. call[r].amount \in Int
  BY <1>2
<1> QED
  BY <1>1, <1>2, <1>3 DEF CallSet

\* A quoted fee is a number.
LEMMA FeeType ==
    ASSUME TypeOK, NEW r \in Requests,
           NEW f \in (IF ChargesFee(call[r]) THEN Fees[call[r].amount] ELSE {0})
    PROVE  f \in Int /\ (call[r].amount >= 0 => f >= 0)
<1>1. call[r].amount \in Amounts /\ Fees[call[r].amount] \in SUBSET Int
  BY CallType, CoreAssumption
<1>2. \A x \in Amounts : x >= 0 => \A y \in Fees[x] : y >= 0
  BY CoreAssumption
<1> QED
  BY <1>1, <1>2

\* An answer to a refused call is one of the codes.
LEMMA RefusalType ==
    ASSUME NEW c, Refusal(c) # "none"
    PROVE  Refusal(c) \in Refusals
BY DEF Refusal, Refusals

LEMMA InitType == Init => TypeOK
BY CoreAssumption DEF Init, TypeOK, Legs, Ended, Codes

\* The DO block leaves numbers in the balances and moves a known leg.
LEMMA MoveType ==
    ASSUME TypeOK, NEW r \in Requests, MoveMoney(r)
    PROVE  balance' \in [Accounts -> Int] /\ moved' \subseteq Legs
<1>1. LegAmount(r) \in Int
  BY CallType DEF LegAmount, TypeOK
<1>2. <<r, leg[r]>> \in Legs
  BY DEF TypeOK, Legs
<1> QED
  BY <1>1, <1>2 DEF MoveMoney, TypeOK

LEMMA NextType == TypeOK /\ [Next]_vars => TypeOK'
<1> SUFFICES ASSUME TypeOK, [Next]_vars PROVE TypeOK'
  OBVIOUS
<1> USE CoreAssumption DEF control, Ended, Codes
<1>1. ASSUME NEW r \in Requests, Call(r) PROVE TypeOK'
  BY <1>1 DEF Call, TypeOK
<1>2. ASSUME NEW r \in Requests, ReadAccounts(r) PROVE TypeOK'
  <2>1. CASE Exists(call[r].from)
    <3>1. call[r].from \in Accounts
      BY <2>1, CallType DEF Exists
    <3>2. balance[call[r].from] \in Int
      BY <3>1 DEF TypeOK
    <3>3. seen' \in [Requests -> Int]
      BY <1>2, <2>1, <3>2 DEF ReadAccounts, TypeOK
    <3>4. raced' \subseteq Accounts
      BY <1>2, <2>1, <3>1 DEF ReadAccounts, TypeOK
    <3> QED
      BY <1>2, <3>3, <3>4 DEF ReadAccounts, TypeOK
  <2>2. CASE ~Exists(call[r].from)
    BY <1>2, <2>2 DEF ReadAccounts, TypeOK
  <2> QED
    BY <2>1, <2>2
<1>3. ASSUME NEW r \in Requests, Refuse(r) PROVE TypeOK'
  BY <1>3, RefusalType DEF Refuse, Answer, TypeOK, Refusals
<1>4. ASSUME NEW r \in Requests, Decide(r) PROVE TypeOK'
  <2>1. PICK f \in (IF ChargesFee(call[r]) THEN Fees[call[r].amount] ELSE {0}) :
            CheckBalance(r, f)
    BY <1>4 DEF Decide
  <2>2. f \in Int
    BY FeeType
  <2>3. fee' \in [Requests -> Int]
    BY <2>1, <2>2 DEF CheckBalance, TypeOK
  <2>4. deduct' \in [Requests -> BOOLEAN]
    BY <2>1 DEF CheckBalance, ChargesFee, TypeOK
  <2>5. pc' \in [Requests -> {"idle", "read", "decide", "save", "exec", "rim"}
                             \cup Ended]
        /\ response' \in [Requests -> {"none"} \cup Codes]
    BY <2>1 DEF CheckBalance, Answer, TypeOK
  <2> QED
    BY <2>1, <2>3, <2>4, <2>5 DEF CheckBalance, TypeOK
<1>5. ASSUME NEW r \in Requests, SaveRow(r) PROVE TypeOK'
  <2>1. row' \in [Legs -> {"none", "PENDING", "SUCCESS"}]
    BY <1>5 DEF SaveRow, TypeOK
  <2> QED
    BY <1>5, <2>1 DEF SaveRow, TypeOK
<1>6. ASSUME NEW r \in Requests, Exec(r) PROVE TypeOK'
  <2>1. balance' \in [Accounts -> Int] /\ moved' \subseteq Legs
    BY <1>6, MoveType DEF Exec
  <2> QED
    BY <1>6, <2>1 DEF Exec, TypeOK
<1>7. ASSUME NEW r \in Requests, ExecError(r) PROVE TypeOK'
  <2>1. balance' \in [Accounts -> Int] /\ moved' \subseteq Legs
    BY <1>7, MoveType DEF ExecError, TypeOK
  <2> QED
    BY <1>7, <2>1 DEF ExecError, Answer, TypeOK
<1>8. ASSUME NEW r \in Requests, AfterMove(r) PROVE TypeOK'
  BY <1>8 DEF AfterMove, Answer, TypeOK
<1>9. ASSUME NEW r \in Requests, Throw(r) PROVE TypeOK'
  BY <1>9 DEF Throw, TypeOK
<1>10. CASE Crash
  BY <1>10 DEF Crash, TypeOK
<1>11. CASE UNCHANGED vars
  BY <1>11 DEF vars, TypeOK
<1> QED
  BY <1>1, <1>2, <1>3, <1>4, <1>5, <1>6, <1>7, <1>8, <1>9, <1>10, <1>11
  DEF Next, Advance, AllEnded

\* The transfer service keeps every variable's type.
THEOREM TypeCorrect == Spec => []TypeOK
BY InitType, NextType, PTL DEF Spec

-----------------------------------------------------------------------------
(***************************************************************************)
(* The inductive invariant.                                                *)
(***************************************************************************)

\* Where a request is, which leg it runs, and what it has moved and recorded.
FlowInv ==
    \A r \in Requests :
        /\ pc[r] \in {"idle", "read", "decide"} => leg[r] = "principal" /\ ~deduct[r]
        /\ leg[r] = "fee" => deduct[r] /\ <<r, "principal">> \in moved
        /\ deduct[r] => fee[r] \in Fees[call[r].amount]
        /\ pc[r] \in {"save", "exec", "rim"} =>
              call[r].from \in Accounts /\ call[r].to \in Accounts
        /\ <<r, "principal">> \in moved =>
              leg[r] = "fee" \/ pc[r] \in {"rim"} \cup Ended
        /\ <<r, "fee">> \in moved => leg[r] = "fee" /\ pc[r] \in {"rim"} \cup Ended
        /\ pc[r] = "exec" => row[<<r, leg[r]>>] # "none"
        /\ pc[r] = "rim" => <<r, leg[r]>> \in moved
        /\ response[r] # "none" => pc[r] \in Ended

\* The accounts the overdraft property speaks of.
Guarded(a) == Opening[a] >= 0 /\ ~Flags[a].canOverDraw /\ a \notin raced /\ ~Drained(a)

\* What a debiting request may still take from its account.
Due(r) ==
    IF pc[r] = "decide" THEN seen[r]
    ELSE IF leg[r] = "fee" \/ pc[r] = "rim" THEN fee[r]
    ELSE call[r].amount + (IF deduct[r] THEN fee[r] ELSE 0)

\* Two requests debiting one account have raced, and the account of a request
\* that races nobody holds what the request may still take.
SoleInv ==
    \A r, s \in Requests :
        (r # s /\ Debiting(r) /\ Debiting(s) /\ call[r].from = call[s].from
         /\ call[r].from \in Accounts) => call[r].from \in raced

FundsInv ==
    \A r \in Requests :
        (call[r].from \in Accounts /\ Debiting(r) /\ Guarded(call[r].from))
            => balance[call[r].from] >= Due(r)

IInv ==
    /\ TypeOK
    /\ FlowInv
    /\ SoleInv
    /\ FundsInv
    /\ NoOverdraftWithoutRace
    /\ RowBeforeMoney
    /\ SuccessMeansMoved

LEMMA InitIInv == Init => IInv
<1> SUFFICES ASSUME Init PROVE IInv
  OBVIOUS
<1>1. TypeOK
  BY InitType
<1>2. FlowInv /\ SoleInv /\ FundsInv
  BY DEF Init, FlowInv, SoleInv, FundsInv, Debiting
<1>3. NoOverdraftWithoutRace /\ RowBeforeMoney /\ SuccessMeansMoved
  BY DEF Init, NoOverdraftWithoutRace, RowBeforeMoney, SuccessMeansMoved
<1> QED
  BY <1>1, <1>2, <1>3 DEF IInv

\* Where the requests are stays consistent with what they have moved and
\* recorded.
LEMMA NextFlow ==
    IInv /\ [Next]_vars => FlowInv' /\ RowBeforeMoney' /\ SuccessMeansMoved'
<1> SUFFICES ASSUME IInv, [Next]_vars
             PROVE  FlowInv' /\ RowBeforeMoney' /\ SuccessMeansMoved'
  OBVIOUS
<1> DEFINE Goal == FlowInv /\ RowBeforeMoney /\ SuccessMeansMoved
<1>t. TypeOK /\ Goal
  BY DEF IInv
<1> USE <1>t DEF FlowInv, RowBeforeMoney, SuccessMeansMoved, TypeOK, Legs, control, Ended
<1>1. ASSUME NEW r \in Requests, Call(r) PROVE Goal'
  BY <1>1 DEF Call
<1>2. ASSUME NEW r \in Requests, ReadAccounts(r) PROVE Goal'
  BY <1>2 DEF ReadAccounts
<1>3. ASSUME NEW r \in Requests, Refuse(r) PROVE Goal'
  BY <1>3, RefusalType DEF Refuse, Answer, Refusals
<1>4. ASSUME NEW r \in Requests, Decide(r) PROVE Goal'
  <2>1. PICK f \in (IF ChargesFee(call[r]) THEN Fees[call[r].amount] ELSE {0}) :
            CheckBalance(r, f)
    BY <1>4 DEF Decide
  <2>2. call[r].from \in Accounts /\ call[r].to \in Accounts
    BY <1>4, CallType DEF Decide, Refusal, Exists
  <2>3. ChargesFee(call[r]) => f \in Fees[call[r].amount]
    BY <2>1
  <2>4. pc[r] = "decide" /\ UNCHANGED <<call, leg, row, moved>>
    BY <1>4, <2>1 DEF Decide, CheckBalance
  <2>5. CASE pc' = [pc EXCEPT ![r] = "save"] /\ response' = response
             /\ fee' = [fee EXCEPT ![r] = f]
             /\ \E d \in BOOLEAN : deduct' = [deduct EXCEPT ![r] = d]
                                  /\ (d => ChargesFee(call[r]))
    BY <2>2, <2>3, <2>4, <2>5
  <2>6. CASE Answer(r, "03") /\ UNCHANGED <<fee, deduct>>
    BY <2>4, <2>6 DEF Answer
  <2> QED
    BY <2>1, <2>5, <2>6 DEF CheckBalance, ChargesFee
<1>5. ASSUME NEW r \in Requests, SaveRow(r) PROVE Goal'
  BY <1>5 DEF SaveRow
<1>6. ASSUME NEW r \in Requests, Exec(r) PROVE Goal'
  BY <1>6 DEF Exec, MoveMoney
<1>7. ASSUME NEW r \in Requests, ExecError(r) PROVE Goal'
  BY <1>7 DEF ExecError, MoveMoney, Answer
<1>8. ASSUME NEW r \in Requests, AfterMove(r) PROVE Goal'
  BY <1>8 DEF AfterMove, Answer
<1>9. ASSUME NEW r \in Requests, Throw(r) PROVE Goal'
  BY <1>9 DEF Throw
<1>10. CASE Crash
  BY <1>10 DEF Crash
<1>11. CASE UNCHANGED vars
  BY <1>11 DEF vars
<1> QED
  BY <1>1, <1>2, <1>3, <1>4, <1>5, <1>6, <1>7, <1>8, <1>9, <1>10, <1>11
  DEF Next, Advance, AllEnded

\* Only reading the balance makes a request a debiting one.
LEMMA NextDebiting ==
    ASSUME IInv, [Next]_vars, NEW r \in Requests, Debiting(r)', ~Debiting(r)
    PROVE  ReadAccounts(r)
<1>t. TypeOK /\ FlowInv
  BY DEF IInv
<1> USE <1>t DEF Debiting, TypeOK, FlowInv, control, Ended
<1>1. ASSUME NEW q \in Requests, Advance(q) PROVE ReadAccounts(r)
  BY <1>1 DEF Advance, Call, ReadAccounts, Refuse, Decide, CheckBalance, SaveRow,
       Exec, AfterMove, Answer
<1>2. ASSUME NEW q \in Requests, ExecError(q) \/ Throw(q) PROVE FALSE
  BY <1>2 DEF ExecError, Throw, Answer
<1>3. ~Crash
  BY DEF Crash
<1>4. ~UNCHANGED vars
  BY DEF vars
<1> QED
  BY <1>1, <1>2, <1>3, <1>4 DEF Next, AllEnded

\* The arguments never change and neither races nor moves are forgotten.
LEMMA NextCall ==
    ASSUME [Next]_vars
    PROVE  call' = call /\ raced \subseteq raced' /\ moved \subseteq moved'
BY DEF MoveMoney, Next, Advance, Call, ReadAccounts, Refuse, Decide, CheckBalance, SaveRow,
    Exec, AfterMove, ExecError, Throw, Crash, AllEnded, control, vars

\* The fee of a moved leg is settled, so nothing moved into an account is undone.
LEMMA NextDrained ==
    ASSUME IInv, [Next]_vars, NEW a, ~Drained(a)'
    PROVE  ~Drained(a)
<1>1. ASSUME NEW r \in Requests, <<r, "fee">> \in moved PROVE fee'[r] = fee[r]
  <2>1. pc[r] # "decide"
    BY <1>1 DEF IInv, FlowInv, Ended
  <2>2. ASSUME NEW q \in Requests, Decide(q) PROVE fee'[r] = fee[r]
    BY <2>1, <2>2 DEF Decide, CheckBalance, IInv, TypeOK
  <2> QED
    BY <2>2 DEF Next, Advance, Call, ReadAccounts, Refuse, SaveRow, Exec, AfterMove,
       ExecError, Throw, Crash, AllEnded, control, vars
<1> QED
  BY <1>1, NextCall DEF Drained

\* What the assumptions say of an account in use: it has money.
LEMMA GuardedHasMoney ==
    ASSUME IInv, NEW a \in Accounts, Guarded(a)
    PROVE  balance[a] >= 0
BY DEF IInv, NoOverdraftWithoutRace, Guarded

LEMMA NextSole == IInv /\ [Next]_vars => SoleInv'
<1> SUFFICES ASSUME IInv, [Next]_vars, NEW r \in Requests, NEW s \in Requests,
                    r # s, Debiting(r)', Debiting(s)',
                    call[r].from = call[s].from, call[r].from \in Accounts
             PROVE  call[r].from \in raced'
  BY NextCall DEF SoleInv
<1>1. CASE Debiting(r) /\ Debiting(s)
  BY <1>1, NextCall DEF IInv, SoleInv
<1>2. CASE ~Debiting(r)
  <2>1. ReadAccounts(r)
    BY <1>2, NextDebiting
  <2>2. Debiting(s)
    BY <2>1 DEF ReadAccounts, Debiting, IInv, TypeOK
  <2> QED
    BY <2>1, <2>2, CoreAssumption DEF ReadAccounts, Exists
<1>3. CASE ~Debiting(s)
  <2>1. ReadAccounts(s)
    BY <1>3, NextDebiting
  <2>2. Debiting(r)
    BY <2>1 DEF ReadAccounts, Debiting, IInv, TypeOK
  <2> QED
    BY <2>1, <2>2, CoreAssumption DEF ReadAccounts, Exists
<1> QED
  BY <1>1, <1>2, <1>3

\* The balance of an account nothing negative has been moved into drops only by
\* the leg of a request that reached its move.
LEMMA NextDrop ==
    ASSUME IInv, [Next]_vars, NEW a \in Accounts, ~Drained(a)',
           ~(balance'[a] >= balance[a])
    PROVE  \E q \in Requests : /\ Exec(q) \/ ExecError(q)
                               /\ call[q].from = a
                               /\ balance'[a] >= balance[a] - LegAmount(q)
<1>t. TypeOK /\ FlowInv
  BY DEF IInv
<1>1. balance[a] \in Int
  BY <1>t DEF TypeOK
<1>2. PICK q \in Requests : (Exec(q) \/ ExecError(q)) /\ MoveMoney(q)
  <2>1. balance' # balance
    BY <1>1
  <2> QED
    BY <2>1 DEF Next, Advance, Call, ReadAccounts, Refuse, Decide, CheckBalance,
       SaveRow, Exec, AfterMove, ExecError, Throw, Crash, AllEnded, vars
<1>3. LegAmount(q) \in Int
  BY <1>t, CallType DEF LegAmount, TypeOK
<1>4. balance'[a] = balance[a] + (IF a = LegTo(q) THEN LegAmount(q) ELSE 0)
                               - (IF a = call[q].from THEN LegAmount(q) ELSE 0)
  BY <1>2 DEF MoveMoney
<1>5. a = LegTo(q) => LegAmount(q) >= 0
  <2> SUFFICES ASSUME a = LegTo(q), LegAmount(q) < 0 PROVE FALSE
    BY <1>3
  <2>1. <<q, leg[q]>> \in moved' /\ UNCHANGED <<call, fee>> /\ leg[q] \in {"principal", "fee"}
    BY <1>2, <1>t DEF MoveMoney, Exec, ExecError, control, TypeOK
  <2>2. Drained(a)'
    BY <2>1 DEF Drained, LegTo, LegAmount
  <2> QED
    BY <2>2
<1> QED
  BY <1>1, <1>2, <1>3, <1>4, <1>5

\* A request that has reached its move has the money for it.
LEMMA LegCovered ==
    ASSUME IInv, NEW q \in Requests, pc[q] = "exec", call[q].from \in Accounts,
           Guarded(call[q].from)
    PROVE  /\ balance[call[q].from] >= LegAmount(q)
           /\ (leg[q] = "principal" /\ deduct[q]) =>
                balance[call[q].from] >= LegAmount(q) + fee[q]
<1>1. balance[call[q].from] >= Due(q)
  BY DEF IInv, FundsInv, Debiting
<1>2. /\ leg[q] \in {"principal", "fee"} /\ fee[q] \in Int /\ call[q].amount \in Amounts
      /\ balance[call[q].from] \in Int /\ call[q].amount \in Int
  BY CallType DEF IInv, TypeOK
<1>3. balance[call[q].from] >= 0
  BY GuardedHasMoney
<1>4. deduct[q] /\ call[q].amount >= 0 => fee[q] >= 0
  BY <1>2, CoreAssumption DEF IInv, FlowInv
<1> QED
  BY <1>1, <1>2, <1>3, <1>4 DEF Due, LegAmount

\* Short of moving its principal, a request's claim never grows.
LEMMA NextDue ==
    ASSUME IInv, [Next]_vars, NEW r \in Requests, Debiting(r), Debiting(r)', ~Exec(r),
           call[r].from \in Accounts, ~Flags[call[r].from].canOverDraw
    PROVE  Due(r)' <= Due(r)
<1>t. TypeOK
  BY DEF IInv
<1>f. fee[r] \in Int /\ call[r].amount \in Int /\ seen[r] \in Int
      /\ leg[r] \in {"principal", "fee"} /\ deduct[r] \in BOOLEAN
  BY <1>t, CallType DEF TypeOK
<1>n. Due(r) \in Int
  BY <1>f DEF Due
<1> USE <1>t DEF control, Ended, TypeOK
<1>1. ASSUME NEW q \in Requests, q # r, Advance(q) \/ ExecError(q) \/ Throw(q)
      PROVE  Due(r)' = Due(r)
  BY <1>1 DEF Advance, Call, ReadAccounts, Refuse, Decide, CheckBalance, SaveRow,
       Exec, AfterMove, ExecError, Throw, Answer, Due
<1>2. ASSUME Decide(r) PROVE Due(r)' <= Due(r)
  <2>1. PICK f \in (IF ChargesFee(call[r]) THEN Fees[call[r].amount] ELSE {0}) :
            CheckBalance(r, f)
    BY <1>2 DEF Decide
  <2>2. f \in Int /\ (~ChargesFee(call[r]) => f = 0)
    BY <2>1, FeeType
  <2>3. pc[r] = "decide" /\ leg[r] = "principal" /\ leg' = leg /\ call' = call
    BY <1>2, <2>1 DEF Decide, CheckBalance, IInv, FlowInv
  <2>4. pc'[r] = "save" /\ fee'[r] = f /\ seen[r] >= call[r].amount + f
        /\ deduct'[r] = ChargesFee(call[r])
    BY <2>1, <2>3 DEF CheckBalance, Answer, Debiting, ChargesFee
  <2>5. Due(r)' = call[r].amount + (IF deduct'[r] THEN f ELSE 0)
    BY <2>3, <2>4 DEF Due
  <2> QED
    BY <2>2, <2>3, <2>4, <2>5, <1>f DEF Due
<1>3. ASSUME Call(r) \/ ReadAccounts(r) \/ Refuse(r) PROVE FALSE
  BY <1>3 DEF Call, ReadAccounts, Refuse, Answer, Debiting
<1>4. ASSUME SaveRow(r) PROVE Due(r)' = Due(r)
  BY <1>4 DEF SaveRow, Due
<1>6. ASSUME AfterMove(r) PROVE Due(r)' = Due(r)
  BY <1>6 DEF AfterMove, Answer, Due, Debiting
<1>7. ASSUME ExecError(r) \/ Throw(r) \/ Crash PROVE FALSE
  BY <1>7 DEF ExecError, Throw, Crash, Answer, Debiting
<1>8. ASSUME UNCHANGED vars PROVE Due(r)' = Due(r)
  BY <1>8 DEF vars, Due
<1> QED
  BY <1>1, <1>2, <1>3, <1>4, <1>6, <1>7, <1>8, <1>n DEF Next, Advance, AllEnded

LEMMA NextFunds == IInv /\ [Next]_vars => FundsInv'
<1> SUFFICES ASSUME IInv, [Next]_vars, NEW r \in Requests,
                    call[r].from \in Accounts, Debiting(r)', Guarded(call[r].from)'
             PROVE  balance'[call[r].from] >= Due(r)'
  BY NextCall DEF FundsInv
<1> DEFINE a == call[r].from
<1>g. Guarded(a)
  BY NextCall, NextDrained DEF Guarded
<1>t. TypeOK /\ TypeOK'
  BY NextType DEF IInv
<1>i. balance[a] \in Int /\ balance'[a] \in Int /\ fee[r] \in Int /\ fee'[r] \in Int
      /\ Due(r) \in Int /\ Due(r)' \in Int
  BY <1>t, NextCall, CallType DEF TypeOK, Due
<1>1. CASE ~Debiting(r)
  <2>1. ReadAccounts(r)
    BY <1>1, NextDebiting
  <2>2. Due(r)' = balance[a] /\ balance' = balance
    BY <2>1, CoreAssumption, <1>t DEF ReadAccounts, Exists, Due, TypeOK
  <2> QED
    BY <2>2, <1>i
<1>2. CASE Debiting(r) /\ Exec(r)
  <2>1. leg[r] = "principal" /\ deduct[r] /\ Due(r)' = fee[r] /\ pc[r] = "exec"
    BY <1>2, <1>t DEF Exec, Debiting, Due, TypeOK, control
  <2>2. balance[a] >= LegAmount(r) + fee[r]
    BY <2>1, <1>g, LegCovered
  <2>3. LegAmount(r) \in Int
    BY <1>t, CallType DEF LegAmount, TypeOK
  <2>4. balance'[a] = balance[a] + (IF a = LegTo(r) THEN LegAmount(r) ELSE 0)
                                 - LegAmount(r)
    BY <1>2, <2>3 DEF Exec, MoveMoney
  <2>5. a = LegTo(r) => LegAmount(r) >= 0
    <3> SUFFICES ASSUME a = LegTo(r), LegAmount(r) < 0 PROVE FALSE
      BY <2>3
    <3>1. <<r, "principal">> \in moved' /\ call[r].to = a /\ call[r].amount < 0
      BY <1>2, <2>1 DEF Exec, MoveMoney, LegTo, LegAmount
    <3> QED
      BY <3>1, NextCall DEF Drained, Guarded
  <2> QED
    BY <2>1, <2>2, <2>3, <2>4, <2>5, <1>i
<1>3. CASE Debiting(r) /\ ~Exec(r) /\ balance'[a] >= balance[a]
  <2>1. balance[a] >= Due(r)
    BY <1>3, <1>g DEF IInv, FundsInv
  <2>2. Due(r)' <= Due(r)
    BY <1>3, <1>g, NextDue DEF Guarded
  <2> QED
    BY <1>3, <2>1, <2>2, <1>i
<1>4. CASE Debiting(r) /\ ~Exec(r) /\ ~(balance'[a] >= balance[a])
  <2>x. PICK x \in Accounts : x = a
    OBVIOUS
  <2>0. ~Drained(x)'
    BY <2>x, NextCall DEF Guarded, Drained
  <2>1. PICK q \in Requests : /\ Exec(q) \/ ExecError(q)
                              /\ call[q].from = x
                              /\ balance'[x] >= balance[x] - LegAmount(q)
    BY <2>x, <2>0, <1>4, NextDrop
  <2>2. Debiting(q) /\ pc[q] = "exec"
    BY <2>1 DEF Exec, ExecError, Debiting
  <2>3. q = r
    <3>1. SUFFICES ASSUME q # r PROVE FALSE
      OBVIOUS
    <3>2. call[r].from \in raced
      BY <3>1, <2>x, <2>1, <2>2, <1>4 DEF IInv, SoleInv
    <3> QED
      BY <3>2, <1>g DEF Guarded
  <2> QED
    BY <2>1, <2>3, <1>4, <1>t DEF ExecError, Answer, Debiting, TypeOK
<1> QED
  BY <1>1, <1>2, <1>3, <1>4

LEMMA NextOverdraft == IInv /\ [Next]_vars => NoOverdraftWithoutRace'
<1> SUFFICES ASSUME IInv, [Next]_vars, NEW a \in Accounts, Guarded(a)'
             PROVE  balance'[a] >= 0
  BY DEF NoOverdraftWithoutRace, Guarded
<1>g. Guarded(a)
  BY NextCall, NextDrained DEF Guarded
<1>t. TypeOK /\ TypeOK'
  BY NextType DEF IInv
<1>i. balance[a] \in Int /\ balance'[a] \in Int
  BY <1>t DEF TypeOK
<1>0. balance[a] >= 0
  BY <1>g, GuardedHasMoney
<1>1. CASE balance'[a] >= balance[a]
  BY <1>0, <1>1, <1>i
<1>2. CASE ~(balance'[a] >= balance[a])
  <2>1. PICK q \in Requests : /\ Exec(q) \/ ExecError(q)
                              /\ call[q].from = a
                              /\ balance'[a] >= balance[a] - LegAmount(q)
    BY <1>2, <1>i, NextDrop DEF Guarded
  <2>2. balance[a] >= LegAmount(q)
    BY <2>1, <1>g, LegCovered DEF Exec, ExecError
  <2>3. LegAmount(q) \in Int
    BY <1>t, CallType DEF LegAmount, TypeOK
  <2> QED
    BY <2>1, <2>2, <2>3, <1>i
<1> QED
  BY <1>1, <1>2

LEMMA NextIInv == IInv /\ [Next]_vars => IInv'
BY NextType, NextFlow, NextSole, NextFunds, NextOverdraft DEF IInv

LEMMA Invariance == Spec => []IInv
BY InitIInv, NextIInv, PTL DEF Spec

\* An account that may not overdraw is overdrawn only by a race, or by a negative
\* amount moved into it.
THEOREM OverdraftNeedsRace == Spec => []NoOverdraftWithoutRace
<1>1. IInv => NoOverdraftWithoutRace
  BY DEF IInv
<1> QED
  BY Invariance, <1>1, PTL

\* Every movement of money has its transaction row.
THEOREM MovesAreRecorded == Spec => []RowBeforeMoney
<1>1. IInv => RowBeforeMoney
  BY DEF IInv
<1> QED
  BY Invariance, <1>1, PTL

\* "00" means that every leg that was due has moved.
THEOREM SuccessIsReal == Spec => []SuccessMeansMoved
<1>1. IInv => SuccessMeansMoved
  BY DEF IInv
<1> QED
  BY Invariance, <1>1, PTL

-----------------------------------------------------------------------------
\* A committed leg is an atomic move of the ledger, made once.
LEMMA StepRefines == IInv /\ [Next]_vars => [Book!Next]_(Book!vars)
<1> SUFFICES ASSUME IInv, [Next]_vars PROVE [Book!Next]_(Book!vars)
  OBVIOUS
<1>t. TypeOK /\ FlowInv
  BY DEF IInv
<1>1. ASSUME NEW r \in Requests, pc[r] = "exec", MoveMoney(r) PROVE Book!Next
  <2>1. <<r, leg[r]>> \in Legs /\ <<r, leg[r]>> \notin moved
    BY <1>1, <1>t DEF TypeOK, FlowInv, Legs, Ended
  <2>2. call[r].from \in Accounts /\ LegTo(r) \in Accounts
    BY <1>1, <1>t, CoreAssumption DEF FlowInv, LegTo
  <2>3. LegAmount(r) \in Amounts \cup UNION {Fees[x] : x \in Amounts}
    <3>1. CASE leg[r] = "fee"
      <4>1. call[r].amount \in Amounts /\ fee[r] \in Fees[call[r].amount]
        BY <3>1, <1>t, CallType DEF FlowInv
      <4> QED
        BY <3>1, <4>1 DEF LegAmount
    <3>2. CASE leg[r] # "fee"
      BY <3>2, <1>t, CallType DEF LegAmount
    <3> QED
      BY <3>1, <3>2
  <2>4. balance' = Book!Moved(call[r].from, LegTo(r), LegAmount(r))
    BY <1>1 DEF MoveMoney, Book!Moved
  <2> QED
    BY <1>1, <2>1, <2>2, <2>3, <2>4 DEF MoveMoney, Book!Next, Book!Move
<1>2. ASSUME balance' = balance, moved' = moved PROVE UNCHANGED Book!vars
  BY <1>2 DEF Book!vars
<1> QED
  BY <1>1, <1>2 DEF Next, Advance, Call, ReadAccounts, Refuse, Decide, CheckBalance,
     SaveRow, Exec, AfterMove, ExecError, Throw, Crash, AllEnded, vars

\* The transfer service implements the ledger: every leg moves at once and at
\* most once, whatever requests run side by side, fail or crash.
THEOREM ServiceIsLedger == Spec => ImplementsLedger
<1>1. Init => Book!Init
  BY DEF Init, Book!Init
<1> QED
  BY <1>1, Invariance, StepRefines, PTL DEF Spec, Book!Spec, ImplementsLedger

=============================================================================
