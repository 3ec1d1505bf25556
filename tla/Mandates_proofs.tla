--------------------------- MODULE Mandates_proofs ---------------------------
(***************************************************************************)
(* Proofs about the two ways a mandate is served, for any mandates, users, *)
(* callbacks and cancellations.                                            *)
(*                                                                         *)
(* AutoDeduct: a deduction is credited once but for the window between the *)
(* look-up of its reference and the insert, one that is recorded is        *)
(* credited but for faults, and a mandate the gateway has cancelled reads  *)
(* DEACTIVATED but for the stale saves the property names.                 *)
(*                                                                         *)
(* AutoDebit: a run deals with every mandate it has listed unless one of   *)
(* its debits throws, and primary accounts are overdrawn only where two    *)
(* debits rely on one balance or a negative amount was paid in.            *)
(***************************************************************************)
EXTENDS AutoDeduct, AutoDebit, TLAPS

-----------------------------------------------------------------------------
(* The gateway's deductions (AutoDeduct).                                   *)

\* A callback under way is about a deduction that was made.
BusyOfCharged == \A h \in Handlers : handler[h].at # "idle" => handler[h].ref \in charged

At(h, at, d) == handler[h].at = at /\ handler[h].ref = d

\* Of a deduction that was never found absent by two callbacks at a time, one
\* callback at most is past the look-up, and it has not credited it yet.
Credit(d) ==
    /\ credits[d] <= 1
    /\ credits[d] > 0 => d \in checker
    /\ \A h \in Handlers :
          /\ At(h, "insert", d) =>
                /\ d \notin checker
                /\ \A i \in Handlers : At(i, "insert", d) => i = h
          /\ At(h, "deposit", d) =>
                /\ d \in checker /\ credits[d] = 0
                /\ \A i \in Handlers : At(i, "deposit", d) => i = h

Recorded(d) == credits[d] > 0 \/ \E h \in Handlers : At(h, "deposit", d)

\* Whoever has cancelled the mandate at the gateway has saved that or is about to.
CancelInv ==
    agreement = "off" /\ ~blurred =>
        \/ status = "DEACTIVATED"
        \/ \E c \in Cancels : cancel[c].at = "save" /\ cancel[c].done

IInv ==
    /\ TypeOK
    /\ BusyOfCharged
    /\ \A d \in Deductions :
          /\ d \notin together => Credit(d)
          /\ d \in checker \ lost => Recorded(d)
    /\ CancelInv

\* The inductive invariant holds initially.
LEMMA InitIInv == Init => IInv
<1> SUFFICES ASSUME Init PROVE IInv
  OBVIOUS
<1> USE AutoDeductAssumption DEF Init, IdleHandler
<1>1. TypeOK
  <2>1. cancel \in [Cancels -> [at : {"idle", "ask", "save", "done"},
                               read : Statuses, done : BOOLEAN]]
    BY DEF Statuses
  <2>2. blurred \in BOOLEAN
    OBVIOUS
  <2>3. handler \in [Handlers -> [at : {"idle", "select", "insert", "deposit"},
                                 ref : Deductions \cup {NoDeduction}]]
    OBVIOUS
  <2>4. approval \in [Approvals -> [at : {"idle", "deposit", "save", "done"},
                                   answer : {"none", "SUCCESS", "FAILED"}]]
    OBVIOUS
  <2>5. faults \in 0..MaxFaults /\ credits \in [Deductions -> Nat]
    OBVIOUS
  <2> QED
    BY <2>1, <2>2, <2>3, <2>4, <2>5 DEF TypeOK, Statuses
<1>2. BusyOfCharged /\ CancelInv
  BY DEF BusyOfCharged, CancelInv
<1>3. ASSUME NEW d \in Deductions PROVE Credit(d) /\ d \notin checker
  BY DEF Credit, At
<1> QED
  BY <1>1, <1>2, <1>3 DEF IInv

\* A step keeps the types, and callbacks to deductions that were made.
LEMMA TypeStep == IInv /\ [Next]_vars => TypeOK' /\ BusyOfCharged'
<1> SUFFICES ASSUME TypeOK, BusyOfCharged, [Next]_vars PROVE TypeOK' /\ BusyOfCharged'
  BY DEF IInv
<1> USE AutoDeductAssumption
    DEF TypeOK, BusyOfCharged, IdleHandler, Statuses, Fault, callVars
<1>1. CASE Decide
  BY <1>1 DEF Decide
<1>2. ASSUME NEW d \in Deductions, Deduct(d) PROVE TypeOK' /\ BusyOfCharged'
  BY <1>2 DEF Deduct
<1>3. ASSUME NEW h \in Handlers, NEW d \in Deductions, Report(h, d)
      PROVE  TypeOK' /\ BusyOfCharged'
  BY <1>3 DEF Report
<1>4. ASSUME NEW h \in Handlers, Select(h) PROVE TypeOK' /\ BusyOfCharged'
  <2>1. together' \in {together, together \cup {handler[h].ref}}
    BY <1>4 DEF Select
  <2>2. handler[h].at = "select" /\ handler[h].ref \in Deductions \cap charged
    BY <1>4 DEF Select
  <2>3. handler' \in {[handler EXCEPT ![h].at = "insert"], [handler EXCEPT ![h] = IdleHandler]}
    BY <1>4 DEF Select
  <2>4. UNCHANGED <<status, agreement, charged, checker, credits, lost, approval,
                    cancel, blurred, faults>>
    BY <1>4 DEF Select
  <2> QED
    BY <2>1, <2>2, <2>3, <2>4
<1>5. ASSUME NEW h \in Handlers, Insert(h) PROVE TypeOK' /\ BusyOfCharged'
  BY <1>5 DEF Insert
<1>6. ASSUME NEW h \in Handlers, Deposit(h) PROVE TypeOK' /\ BusyOfCharged'
  <2>1. credits' \in [Deductions -> Nat]
    BY <1>6 DEF Deposit
  <2> QED
    BY <1>6, <2>1 DEF Deposit
<1>7. ASSUME NEW h \in Handlers, HandlerFault(h) PROVE TypeOK' /\ BusyOfCharged'
  <2>1. credits' \in [Deductions -> Nat]
    BY <1>7 DEF HandlerFault
  <2>2. /\ handler[h].ref \in Deductions \cap charged
        /\ lost' \in {lost, lost \cup {handler[h].ref}}
        /\ checker' \in {checker, checker \cup {handler[h].ref}}
    BY <1>7 DEF HandlerFault
  <2>3. handler' = [handler EXCEPT ![h] = IdleHandler]
    BY <1>7 DEF HandlerFault
  <2>4. faults' \in 0..MaxFaults
    BY <1>7 DEF HandlerFault
  <2>5. UNCHANGED <<status, agreement, charged, together, approval, cancel, blurred>>
    BY <1>7 DEF HandlerFault
  <2> QED
    BY <2>1, <2>2, <2>3, <2>4, <2>5
<1>8. ASSUME NEW a \in Approvals, Approve(a) \/ CreditApproval(a) \/ SaveApproval(a)
      PROVE  TypeOK' /\ BusyOfCharged'
  <2>1. CASE Approve(a)
    BY <2>1 DEF Approve
  <2>2. CASE CreditApproval(a)
    BY <2>2 DEF CreditApproval
  <2>3. CASE SaveApproval(a)
    BY <2>3 DEF SaveApproval
  <2> QED
    BY <1>8, <2>1, <2>2, <2>3
<1>9. ASSUME NEW c \in Cancels,
             StartCancel(c) \/ AskCancel(c) \/ SaveCancel(c) \/ CancelFault(c)
      PROVE  TypeOK' /\ BusyOfCharged'
  <2>1. CASE StartCancel(c)
    BY <2>1 DEF StartCancel
  <2>2. CASE AskCancel(c)
    <3>1. cancel' \in {[cancel EXCEPT ![c] = [at |-> "save", read |-> @.read, done |-> b]] :
                         b \in BOOLEAN}
      BY <2>2 DEF AskCancel
    <3>2. /\ agreement' \in {agreement, "off"}
          /\ UNCHANGED <<status, charged, callVars, approval, blurred, faults>>
      BY <2>2 DEF AskCancel
    <3> QED
      BY <3>1, <3>2
  <2>3. CASE SaveCancel(c)
    BY <2>3 DEF SaveCancel, StatusToSave
  <2>4. CASE CancelFault(c)
    BY <2>4 DEF CancelFault
  <2> QED
    BY <1>9, <2>1, <2>2, <2>3, <2>4
<1>10. CASE Crash
  <2>1. /\ approval' \in [Approvals -> [at : {"idle", "deposit", "save", "done"},
                                       answer : {"none", "SUCCESS", "FAILED"}]]
        /\ handler' = [h \in Handlers |-> IdleHandler]
    BY <1>10 DEF Crash
  <2>2. cancel' \in [Cancels -> [at : {"idle", "ask", "save", "done"},
                                read : Statuses, done : BOOLEAN]]
    BY <1>10 DEF Crash
  <2>3. blurred' \in BOOLEAN
    BY <1>10 DEF Crash
  <2>4. lost' \subseteq Deductions /\ faults' \in 0..MaxFaults
    BY <1>10 DEF Crash
  <2>5. UNCHANGED <<status, agreement, charged, checker, credits, together>>
    BY <1>10 DEF Crash
  <2> QED
    BY <2>1, <2>2, <2>3, <2>4, <2>5
<1>11. CASE UNCHANGED vars
  BY <1>11 DEF vars
<1> QED
  BY <1>1, <1>2, <1>3, <1>4, <1>5, <1>6, <1>7, <1>8, <1>9, <1>10, <1>11 DEF Next

\* A step keeps what is known of a deduction.
LEMMA CreditStep ==
    ASSUME IInv, [Next]_vars, NEW d \in Deductions
    PROVE  /\ (d \notin together => Credit(d))'
           /\ (d \in checker \ lost => Recorded(d))'
<1> DEFINE Goal == /\ (d \notin together => Credit(d))'
                   /\ (d \in checker \ lost => Recorded(d))'
<1>t. /\ handler \in [Handlers -> [at : {"idle", "select", "insert", "deposit"},
                                   ref : Deductions \cup {NoDeduction}]]
      /\ credits \in [Deductions -> Nat]
      /\ d \notin together => Credit(d)
      /\ d \in checker \ lost => Recorded(d)
  BY DEF IInv, TypeOK
<1>u. ASSUME UNCHANGED callVars PROVE Goal
  BY <1>t, <1>u DEF callVars, Credit, Recorded, At
<1>1. ASSUME NEW h \in Handlers, NEW e \in Deductions, Report(h, e) PROVE Goal
  BY <1>t, <1>1 DEF Report, Credit, Recorded, At
<1>2. ASSUME NEW h \in Handlers, Select(h) PROVE Goal
  <2>1. handler[h].at = "select" /\ UNCHANGED <<checker, credits, lost>>
    BY <1>2 DEF Select
  <2>2. CASE d \notin checker /\ handler[h].ref = d
    <3>1. handler' = [handler EXCEPT ![h].at = "insert"]
      BY <1>2, <2>2 DEF Select, Unknown
    <3>2. d \notin together' => d \notin together /\ Inserting(d) = {}
      BY <1>2, <2>2 DEF Select, Unknown
    <3>3. Inserting(d) = {} => \A i \in Handlers : ~At(i, "insert", d)
      BY <1>t DEF Inserting, At
    <3> QED
      BY <1>t, <2>1, <2>2, <3>1, <3>2, <3>3 DEF Credit, At
  <2>3. CASE d \in checker \/ handler[h].ref # d
    <3>1. d \in together => d \in together'
      BY <1>2 DEF Select
    <3>2. ASSUME NEW i \in Handlers
          PROVE  /\ At(i, "deposit", d)' <=> At(i, "deposit", d)
                 /\ At(i, "insert", d)' => At(i, "insert", d)
      <4>1. CASE Unknown(handler[h].ref)
        BY <1>t, <1>2, <2>1, <2>3, <4>1 DEF Select, Unknown, At
      <4>2. CASE ~Unknown(handler[h].ref)
        BY <1>t, <1>2, <2>1, <4>2 DEF Select, IdleHandler, At
      <4> QED
        BY <4>1, <4>2
    <3> QED
      BY <1>t, <2>1, <3>1, <3>2 DEF Credit, Recorded
  <2> QED
    BY <2>2, <2>3
<1>3. ASSUME NEW h \in Handlers, Insert(h) PROVE Goal
  BY <1>t, <1>3 DEF Insert, Credit, Recorded, At
<1>4. ASSUME NEW h \in Handlers, Deposit(h) PROVE Goal
  BY <1>t, <1>4 DEF Deposit, IdleHandler, Credit, Recorded, At
<1>5. ASSUME NEW h \in Handlers, HandlerFault(h) PROVE Goal
  <2>1. /\ handler' = [handler EXCEPT ![h] = IdleHandler]
        /\ UNCHANGED together
    BY <1>5 DEF HandlerFault
  <2>2. CASE handler[h].at = "insert" /\ UNCHANGED <<checker, credits, lost>>
    BY <1>t, <2>1, <2>2 DEF IdleHandler, Credit, Recorded, At
  <2>5. CASE /\ handler[h].at = "insert"
             /\ checker' = checker \cup {handler[h].ref}
             /\ lost' = lost \cup {handler[h].ref}
             /\ UNCHANGED credits
    BY <1>t, <2>1, <2>5 DEF IdleHandler, Credit, Recorded, At
  <2>3. CASE /\ handler[h].at = "deposit" /\ checker' = checker
             /\ lost' = lost \cup {handler[h].ref}
             /\ credits' = credits
    BY <1>t, <2>1, <2>3 DEF IdleHandler, Credit, Recorded, At
  <2>4. CASE /\ handler[h].at = "deposit" /\ checker' = checker
             /\ lost' = lost \cup {handler[h].ref}
             /\ credits' = [credits EXCEPT ![handler[h].ref] = @ + 1]
    BY <1>t, <2>1, <2>4 DEF IdleHandler, Credit, Recorded, At
  <2> QED
    BY <1>5, <2>2, <2>3, <2>4, <2>5 DEF HandlerFault
<1>6. CASE Crash
  <2>1. /\ \A i \in Handlers : handler'[i] = IdleHandler
        /\ UNCHANGED <<checker, credits, together>>
    BY <1>6 DEF Crash
  <2>2. d \notin lost' => d \notin lost /\ \A i \in Handlers : ~At(i, "deposit", d)
    BY <1>t, <1>6 DEF Crash, At
  <2> QED
    BY <1>t, <2>1, <2>2 DEF IdleHandler, Credit, Recorded, At
<1>7. CASE \/ Decide \/ \E e \in Deductions : Deduct(e)
           \/ \E a \in Approvals : Approve(a) \/ CreditApproval(a) \/ SaveApproval(a)
           \/ \E c \in Cancels :
                 StartCancel(c) \/ AskCancel(c) \/ SaveCancel(c) \/ CancelFault(c)
           \/ UNCHANGED vars
  BY <1>u, <1>7
     DEF Decide, Deduct, Approve, CreditApproval, SaveApproval, StartCancel, AskCancel,
         SaveCancel, CancelFault, vars
<1> QED
  BY <1>1, <1>2, <1>3, <1>4, <1>5, <1>6, <1>7 DEF Next

\* A step keeps what is known of a mandate that is off at the gateway.
LEMMA CancelStep == IInv /\ [Next]_vars => CancelInv'
<1> SUFFICES ASSUME IInv, [Next]_vars PROVE CancelInv'
  OBVIOUS
<1>t. /\ cancel \in [Cancels -> [at : {"idle", "ask", "save", "done"},
                                 read : Statuses, done : BOOLEAN]]
      /\ blurred \in BOOLEAN
      /\ CancelInv
  BY DEF IInv, TypeOK
<1>u. ASSUME UNCHANGED <<status, agreement, cancel, blurred>> PROVE CancelInv'
  BY <1>t, <1>u DEF CancelInv
<1>1. CASE Decide
  BY <1>t, <1>1 DEF Decide, CancelInv
<1>2. ASSUME NEW a \in Approvals, SaveApproval(a) PROVE CancelInv'
  BY <1>t, <1>2 DEF SaveApproval, CancelInv
<1>3. ASSUME NEW c \in Cancels, StartCancel(c) PROVE CancelInv'
  BY <1>t, <1>3 DEF StartCancel, CancelInv
<1>4. ASSUME NEW c \in Cancels, AskCancel(c) PROVE CancelInv'
  <2>1. cancel[c].at = "ask" /\ UNCHANGED <<status, blurred>>
    BY <1>4 DEF AskCancel
  <2>2. CASE cancel' = [cancel EXCEPT ![c] = [at |-> "save", read |-> @.read, done |-> TRUE]]
    <3>1. cancel'[c].at = "save" /\ cancel'[c].done
      BY <1>t, <2>2
    <3> QED
      BY <3>1 DEF CancelInv
  <2>3. CASE /\ cancel' = [cancel EXCEPT ![c] = [at |-> "save", read |-> @.read, done |-> FALSE]]
             /\ UNCHANGED agreement
    BY <1>t, <2>1, <2>3 DEF CancelInv
  <2> QED
    BY <1>4, <2>2, <2>3 DEF AskCancel
<1>5. ASSUME NEW c \in Cancels, SaveCancel(c) PROVE CancelInv'
  <2>1. CASE cancel[c].done
    BY <1>5, <2>1 DEF SaveCancel, StatusToSave, CancelInv
  <2>2. CASE ~cancel[c].done
    <3>1. /\ status' = cancel[c].read
          /\ blurred' = (blurred \/ cancel[c].read # status)
          /\ cancel' = [cancel EXCEPT ![c].at = "done"]
          /\ UNCHANGED agreement
      BY <1>5, <2>2 DEF SaveCancel, StatusToSave
    <3> QED
      BY <1>t, <2>2, <3>1 DEF CancelInv
  <2> QED
    BY <2>1, <2>2
<1>6. ASSUME NEW c \in Cancels, CancelFault(c) PROVE CancelInv'
  BY <1>t, <1>6 DEF CancelFault, CancelInv
<1>7. CASE Crash
  BY <1>t, <1>7 DEF Crash, CancelInv
<1>8. CASE \/ \E e \in Deductions : Deduct(e)
           \/ \E h \in Handlers :
                 \/ \E e \in Deductions : Report(h, e)
                 \/ Select(h) \/ Insert(h) \/ Deposit(h) \/ HandlerFault(h)
           \/ \E a \in Approvals : Approve(a) \/ CreditApproval(a)
           \/ UNCHANGED vars
  BY <1>u, <1>8
     DEF Deduct, Report, Select, Insert, Deposit, HandlerFault, Approve, CreditApproval, vars
<1> QED
  BY <1>1, <1>2, <1>3, <1>4, <1>5, <1>6, <1>7, <1>8 DEF Next

LEMMA NextIInv == IInv /\ [Next]_vars => IInv'
<1> SUFFICES ASSUME IInv, [Next]_vars PROVE IInv'
  OBVIOUS
<1>1. TypeOK' /\ BusyOfCharged' /\ CancelInv'
  BY TypeStep, CancelStep
<1>2. ASSUME NEW d \in Deductions
      PROVE  (d \notin together => Credit(d))' /\ (d \in checker \ lost => Recorded(d))'
  BY CreditStep
<1> QED
  BY <1>1, <1>2 DEF IInv

THEOREM Invariance == Spec => []IInv
<1> QED
  BY InitIInv, NextIInv, PTL DEF Spec

\* The variables keep their types.
THEOREM TypeCorrect == Spec => []TypeOK
<1>1. IInv => TypeOK
  BY DEF IInv
<1> QED
  BY <1>1, Invariance, PTL

\* transactionAutoDeductCallback credits a deduction twice only if two of its
\* executions have found the reference absent at the same time.
THEOREM CreditedOnce == Spec => []DeductionCreditedOnce
<1>1. IInv => DeductionCreditedOnce
  BY DEF IInv, Credit, DeductionCreditedOnce
<1> QED
  BY <1>1, Invariance, PTL

\* What transactionAutoDeductCallback has recorded, it has credited or is about
\* to, unless it failed there.
THEOREM RecordedDeductionIsCredited == Spec => []RecordedIsCredited
<1>1. ASSUME IInv PROVE RecordedIsCredited
  <2>1. ASSUME NEW h \in Handlers, NEW d, At(h, "deposit", d)
        PROVE  handler[h] = [at |-> "deposit", ref |-> d]
    BY <1>1, <2>1 DEF IInv, TypeOK, At
  <2>2. checker \subseteq Deductions
    BY <1>1 DEF IInv, TypeOK
  <2> QED
    BY <1>1, <2>1, <2>2 DEF IInv, Recorded, RecordedIsCredited
<1> QED
  BY <1>1, Invariance, PTL

\* A mandate that MandateService.deactivate has cancelled at the gateway is saved
\* as DEACTIVATED, but for the stale saves that set blurred.
THEOREM CancelledIsSaved == Spec => []OffIsDeactivated
<1>1. IInv => OffIsDeactivated
  BY DEF IInv, CancelInv, OffIsDeactivated
<1> QED
  BY <1>1, Invariance, PTL

-----------------------------------------------------------------------------
(***************************************************************************)
(* The crons (AutoDebit).  The inductive invariant follows a mandate       *)
(* through a run: it waits untouched in the list, then its debit is under  *)
(* way, and then it has an outcome; or the run has one that threw, which   *)
(* is what empties the list of those that wait.  Of an account that is     *)
(* covered, one debit at most has seen the balance it is about to take.    *)
(***************************************************************************)
ListInv(f) ==
    /\ run[f].waiting \subseteq run[f].listed
    /\ run[f].listed \subseteq Of(f)
    /\ ~run[f].on => run[f].waiting = {}

Threw(f) == \E n \in run[f].listed : outcome[n] = "threw"

ServeInv(f, m) ==
    /\ m \in run[f].waiting => debit[m] = "idle" /\ outcome[m] = "none"
    /\ debit[m] # "idle" =>
          m \in run[f].listed \ run[f].waiting /\ outcome[m] = "none"
    /\ (m \in run[f].listed \ run[f].waiting /\ debit[m] = "idle" /\ outcome[m] = "none")
          => Threw(f)

Cover(u) ==
    /\ primary[u] >= 0
    /\ spending[u] > 0 => Moving(u) = {} /\ primary[u] >= spending[u]
    /\ \A m \in Moving(u) : Moving(u) = {m} /\ primary[u] >= Amount[m]

DebitInv ==
    /\ DebitTypeOK
    /\ \A f \in Frequencies : ListInv(f)
    /\ \A f \in Frequencies : \A m \in Of(f) : ServeInv(f, m)
    /\ \A u \in Payers \ uncovered : Cover(u)

LEMMA DebitInitInv == DebitInit => DebitInv
<1> SUFFICES ASSUME DebitInit PROVE DebitInv
  OBVIOUS
<1>1. DebitTypeOK
  BY DebitAssumption DEF DebitInit, DebitTypeOK, NoRun
<1>2. ASSUME NEW f \in Frequencies PROVE ListInv(f) /\ \A m \in Of(f) : ServeInv(f, m)
  BY DEF DebitInit, NoRun, ListInv, ServeInv, Of
<1>3. ASSUME NEW u \in Payers PROVE Cover(u)
  BY DebitAssumption DEF DebitInit, Cover, Moving
<1> QED
  BY <1>1, <1>2, <1>3 DEF DebitInv

LEMMA DebitTypeStep == DebitTypeOK /\ [DebitNext]_debitVars => DebitTypeOK'
<1> SUFFICES ASSUME DebitTypeOK, [DebitNext]_debitVars PROVE DebitTypeOK'
  OBVIOUS
<1> USE DebitAssumption DEF DebitTypeOK, runVars, EndDebit
<1>1. ASSUME NEW f \in Frequencies, List(f) PROVE DebitTypeOK'
  BY <1>1 DEF List, Subscribers, Of
<1> DEFINE RunRow == [on : BOOLEAN, listed : SUBSET Mandates, waiting : SUBSET Mandates]
<1>2. ASSUME NEW f \in Frequencies, NextChunk(f) PROVE DebitTypeOK'
  <2>1. PICK chunk \in SUBSET run[f].waiting :
             /\ run' = [run EXCEPT ![f].waiting = @ \ chunk]
             /\ debit' = [m \in Mandates |-> IF m \in chunk THEN "read" ELSE debit[m]]
    BY <1>2 DEF NextChunk, kSubset
  <2>2. [run[f] EXCEPT !.waiting = @ \ chunk] \in RunRow
    OBVIOUS
  <2>3. run' \in [Frequencies -> RunRow]
    BY <2>1, <2>2
  <2> QED
    BY <1>2, <2>1, <2>3 DEF NextChunk
<1>3. ASSUME NEW f \in Frequencies, EndRun(f) PROVE DebitTypeOK'
  <2>1. [run[f] EXCEPT !.on = FALSE] \in RunRow
    OBVIOUS
  <2>2. run' \in [Frequencies -> RunRow]
    BY <1>3, <2>1 DEF EndRun
  <2> QED
    BY <1>3, <2>2 DEF EndRun
<1>4. ASSUME NEW m \in Mandates, ReadPrimary(m) PROVE DebitTypeOK'
  <2>1. /\ debit' \in [Mandates -> {"idle", "read", "check", "move"}]
        /\ outcome' \in [Mandates -> {"none", "debited", "short", "missing", "threw"}]
    <3>1. CASE \E result \in {"missing", "short"} : EndDebit(m, result)
      <4>1. PICK result \in {"missing", "short"} : EndDebit(m, result)
        BY <3>1
      <4>2. outcome' \in [Mandates -> {"none", "debited", "short", "missing", "threw"}]
        BY <4>1
      <4> QED
        BY <4>1, <4>2
    <3>2. CASE debit' = [debit EXCEPT ![m] = "check"] /\ UNCHANGED outcome
      BY <3>2
    <3> QED
      BY <1>4, <3>1, <3>2 DEF ReadPrimary
  <2>2. UNCHANGED <<mandate, primary, run, spending, uncovered>>
    BY <1>4 DEF ReadPrimary
  <2> QED
    BY <2>1, <2>2
<1>t. ASSUME NEW m \in Mandates
      PROVE  Taken(m) \in [Payers -> Int] /\ Holder[m] \in Payers /\ Frequency[m] \in Frequencies
  BY DEF Taken
<1>5. ASSUME NEW m \in Mandates, Check(m) PROVE DebitTypeOK'
  BY <1>t, <1>5 DEF Check, Rely
<1>11. ASSUME NEW m \in Mandates, Move(m) PROVE DebitTypeOK'
  <2>1. /\ debit' \in [Mandates -> {"idle", "read", "check", "move"}]
        /\ outcome' \in [Mandates -> {"none", "debited", "short", "missing", "threw"}]
    BY <1>11 DEF Move
  <2> QED
    BY <1>t, <1>11, <2>1 DEF Move
<1>6. ASSUME NEW m \in Mandates, Fail(m) PROVE DebitTypeOK'
  <2> DEFINE f == Frequency[m]
             off == [run EXCEPT ![f].on = FALSE]
  <2>1. f \in Frequencies /\ [run[f] EXCEPT !.on = FALSE] \in RunRow
    <3>1. f \in Frequencies
      BY <1>t
    <3> HIDE DEF f
    <3> QED
      BY <3>1
  <2>2. off \in [Frequencies -> RunRow]
    BY <2>1
  <2>3. [off[f] EXCEPT !.waiting = {}] \in RunRow
    BY <2>1, <2>2
  <2>4. run' \in [Frequencies -> RunRow]
    <3>1. run' = [off EXCEPT ![f].waiting = {}]
      BY <1>6 DEF Fail
    <3> HIDE DEF f, off
    <3> QED
      BY <2>1, <2>2, <2>3, <3>1
  <2>5. primary' \in [Payers -> Int]
    BY <1>t, <1>6 DEF Fail
  <2>6. /\ debit' \in [Mandates -> {"idle", "read", "check", "move"}]
        /\ outcome' \in [Mandates -> {"none", "debited", "short", "missing", "threw"}]
        /\ UNCHANGED <<mandate, spending, uncovered>>
    BY <1>6 DEF Fail
  <2> QED
    BY <2>4, <2>5, <2>6
<1>7. ASSUME NEW m \in Mandates, CreateMandate(m) \/ EndMandate(m) PROVE DebitTypeOK'
  BY <1>7 DEF CreateMandate, EndMandate
<1>8. ASSUME NEW u \in Payers, NEW x \in Flows,
             Receive(u, x) \/ ReceiveNegative(u, x) \/ StartSpend(u, x)
      PROVE  DebitTypeOK'
  <2>1. x \in Nat
    OBVIOUS
  <2>2. CASE Receive(u, x)
    BY <2>1, <2>2 DEF Receive
  <2>3. CASE ReceiveNegative(u, x)
    BY <2>1, <2>3 DEF ReceiveNegative
  <2>4. CASE StartSpend(u, x)
    BY <2>1, <2>4 DEF StartSpend, Rely
  <2> QED
    BY <1>8, <2>2, <2>3, <2>4
<1>12. ASSUME NEW u \in Payers, EndSpend(u) PROVE DebitTypeOK'
  BY <1>12 DEF EndSpend
<1>9. CASE CronDies
  BY <1>9 DEF CronDies, NoRun
<1>10. CASE UNCHANGED debitVars
  BY <1>10 DEF debitVars
<1> QED
  BY <1>1, <1>2, <1>3, <1>4, <1>5, <1>6, <1>7, <1>8, <1>9, <1>10,
     <1>11, <1>12 DEF DebitNext

\* Every step keeps what is known of one cron's run.
LEMMA ServeStep ==
    ASSUME DebitInv, [DebitNext]_debitVars, NEW f \in Frequencies
    PROVE  ListInv(f)' /\ \A m \in Of(f) : ServeInv(f, m)'
<1> DEFINE Goal == ListInv(f)' /\ \A m \in Of(f) : ServeInv(f, m)'
<1>t. /\ run \in [Frequencies -> [on : BOOLEAN, listed : SUBSET Mandates,
                                  waiting : SUBSET Mandates]]
      /\ debit \in [Mandates -> {"idle", "read", "check", "move"}]
      /\ outcome \in [Mandates -> {"none", "debited", "short", "missing", "threw"}]
  BY DEF DebitInv, DebitTypeOK
<1>i. ListInv(f) /\ \A m \in Of(f) : ServeInv(f, m)
  BY DEF DebitInv
<1>o. /\ Of(f) \subseteq Mandates /\ Of(f)' = Of(f)
      /\ \A g \in Frequencies : g # f => Of(g) \cap Of(f) = {}
      /\ \A m \in Mandates : Frequency[m] \in Frequencies /\ m \in Of(Frequency[m])
  BY DebitAssumption DEF Of
<1>u. ASSUME run'[f] = run[f], \A m \in Of(f) : debit'[m] = debit[m] /\ outcome'[m] = outcome[m]
      PROVE  Goal
  BY <1>i, <1>o, <1>u DEF ListInv, ServeInv, Threw
<1>1. ASSUME NEW g \in Frequencies, List(g) PROVE Goal
  <2>1. CASE g = f
    BY <1>t, <1>o, <1>1, <2>1 DEF List, Busy, Subscribers, ListInv, ServeInv
  <2>2. CASE g # f
    BY <1>t, <1>o, <1>1, <1>u, <2>2 DEF List
  <2> QED
    BY <2>1, <2>2
<1>2. ASSUME NEW g \in Frequencies, NextChunk(g) PROVE Goal
  <2>1. PICK chunk \in SUBSET run[g].waiting :
             /\ run' = [run EXCEPT ![g].waiting = @ \ chunk]
             /\ debit' = [m \in Mandates |-> IF m \in chunk THEN "read" ELSE debit[m]]
    BY <1>2 DEF NextChunk, kSubset
  <2>2. chunk \subseteq Of(g) /\ outcome' = outcome
    BY <1>2 DEF NextChunk, DebitInv, ListInv
  <2>3. CASE g = f
    <3>1. /\ run'[f].on = run[f].on /\ run[f].on
          /\ run'[f].listed = run[f].listed
          /\ run'[f].waiting = run[f].waiting \ chunk
      BY <1>t, <1>2, <2>1, <2>3 DEF NextChunk
    <3> QED
      BY <1>t, <1>i, <1>o, <2>1, <2>2, <2>3, <3>1 DEF ListInv, ServeInv, Threw
  <2>4. CASE g # f
    BY <1>t, <1>o, <1>u, <2>1, <2>2, <2>4
  <2> QED
    BY <2>3, <2>4
<1>3. ASSUME NEW g \in Frequencies, EndRun(g) PROVE Goal
  <2>1. /\ run'[f].listed = run[f].listed /\ run'[f].waiting = run[f].waiting
        /\ run'[f].on => run[f].on
        /\ run'[f].on # run[f].on => run[f].waiting = {}
    BY <1>t, <1>3 DEF EndRun
  <2> QED
    BY <1>t, <1>i, <1>o, <1>3, <2>1 DEF EndRun, ListInv, ServeInv, Threw
\* A debit ends with an outcome other than "none", or goes on.
<1>4. ASSUME NEW n \in Mandates, ReadPrimary(n) \/ Check(n) \/ Move(n) PROVE Goal
  <2>1. /\ run' = run /\ debit[n] # "idle"
        /\ \A m \in Mandates \ {n} : debit'[m] = debit[m] /\ outcome'[m] = outcome[m]
        /\ \/ debit'[n] # "idle" /\ outcome'[n] = outcome[n]
           \/ outcome'[n] # "none" /\ debit'[n] = "idle"
    BY <1>t, <1>4 DEF ReadPrimary, Check, Move, EndDebit
  <2>2. n \in Of(f) => outcome[n] = "none"
    BY <1>i, <2>1 DEF ServeInv
  <2> QED
    BY <1>i, <1>o, <2>1, <2>2 DEF ListInv, ServeInv, Threw
<1>5. ASSUME NEW n \in Mandates, Fail(n) PROVE Goal
  <2>1. /\ debit[n] # "idle" /\ debit'[n] = "idle" /\ outcome'[n] = "threw"
        /\ \A m \in Mandates \ {n} : debit'[m] = debit[m] /\ outcome'[m] = outcome[m]
    BY <1>t, <1>5 DEF Fail, EndDebit
  <2>2. CASE n \in Of(f)
    <3>1. Frequency[n] = f
      BY <2>2 DEF Of
    <3>2. /\ run'[f].listed = run[f].listed /\ run'[f].waiting = {}
      BY <1>t, <1>5, <3>1 DEF Fail
    <3>3. n \in run[f].listed
      BY <1>i, <2>1, <2>2 DEF ServeInv
    <3>4. Threw(f)'
      BY <2>1, <3>2, <3>3 DEF Threw
    <3>5. \A m \in Of(f) : debit'[m] # "idle" => m \in run[f].listed /\ outcome'[m] = "none"
      BY <1>i, <1>o, <2>1 DEF ServeInv
    <3> QED
      BY <1>i, <3>2, <3>4, <3>5 DEF ListInv, ServeInv
  <2>3. CASE n \notin Of(f)
    <3>1. Frequency[n] # f
      BY <1>o, <2>3
    <3>2. run'[f] = run[f]
      BY <1>t, <1>5, <3>1 DEF Fail
    <3> QED
      BY <1>o, <1>u, <2>1, <2>3, <3>2
  <2> QED
    BY <2>2, <2>3
<1>6. CASE CronDies
  BY <1>o, <1>6 DEF CronDies, NoRun, ListInv, ServeInv
<1>7. CASE \/ \E m \in Mandates : CreateMandate(m) \/ EndMandate(m)
           \/ \E u \in Payers, x \in Flows :
                 Receive(u, x) \/ ReceiveNegative(u, x) \/ StartSpend(u, x)
           \/ \E u \in Payers : EndSpend(u)
           \/ UNCHANGED debitVars
  BY <1>u, <1>7
     DEF CreateMandate, EndMandate, Receive, ReceiveNegative, StartSpend, EndSpend,
         debitVars, runVars
<1> QED
  BY <1>1, <1>2, <1>3, <1>4, <1>5, <1>6, <1>7 DEF DebitNext

\* Every step keeps an account covered that it leaves among the covered ones.
LEMMA CoverStep ==
    ASSUME DebitInv, [DebitNext]_debitVars, NEW u \in Payers, u \notin uncovered'
    PROVE  Cover(u)'
<1>t. /\ debit \in [Mandates -> {"idle", "read", "check", "move"}]
      /\ primary \in [Payers -> Int] /\ spending \in [Payers -> Nat]
      /\ Amount \in [Mandates -> Int] /\ Holder \in [Mandates -> Payers]
      /\ Flows \subseteq Nat
  BY DebitAssumption DEF DebitInv, DebitTypeOK
<1>c. u \notin uncovered => Cover(u)
  BY DEF DebitInv
<1>m. ASSUME NEW n \in Moving(u) PROVE n \in Mandates
  BY DEF Moving
\* Nothing is taken and no debit more has looked at the balance.
<1>q. ASSUME Moving(u)' \subseteq Moving(u), primary'[u] \in Int, primary'[u] >= primary[u],
             spending'[u] \in {0, spending[u]}, u \notin uncovered
      PROVE  Cover(u)'
  <2>1. primary'[u] >= 0
    BY <1>t, <1>c, <1>q DEF Cover
  <2>2. spending'[u] > 0 => Moving(u)' = {} /\ primary'[u] >= spending'[u]
    BY <1>t, <1>c, <1>q DEF Cover
  <2>3. \A n \in Moving(u)' : Moving(u)' = {n} /\ primary'[u] >= Amount[n]
    BY <1>t, <1>c, <1>m, <1>q DEF Cover
  <2> QED
    BY <2>1, <2>2, <2>3 DEF Cover
<1>1. ASSUME NEW f \in Frequencies, List(f) \/ NextChunk(f) \/ EndRun(f) PROVE Cover(u)'
  <2>1. \A m \in Mandates : debit'[m] = debit[m] \/ debit'[m] = "read"
    BY <1>t, <1>1 DEF List, NextChunk, EndRun
  <2>2. Moving(u)' \subseteq Moving(u)
    BY <2>1 DEF Moving
  <2> QED
    BY <1>t, <1>1, <1>q, <2>2 DEF List, NextChunk, EndRun
<1>2. ASSUME NEW m \in Mandates, ReadPrimary(m) \/ CreateMandate(m) \/ EndMandate(m)
      PROVE  Cover(u)'
  <2>1. Moving(u)' \subseteq Moving(u)
    BY <1>t, <1>2 DEF ReadPrimary, EndDebit, CreateMandate, EndMandate, runVars, Moving
  <2> QED
    BY <1>t, <1>2, <1>q, <2>1 DEF ReadPrimary, CreateMandate, EndMandate
\* A debit looks at the balance while no other has.
<1>3. ASSUME NEW m \in Mandates, Check(m) PROVE Cover(u)'
  <2>1. debit' = [debit EXCEPT ![m] = "move"] /\ UNCHANGED <<primary, spending>>
    BY <1>3 DEF Check
  <2>2. CASE Holder[m] # u
    <3>1. Moving(u)' = Moving(u) /\ u \notin uncovered
      BY <1>t, <1>3, <2>1, <2>2 DEF Moving, Check, Rely
    <3> QED
      BY <1>t, <1>q, <2>1, <3>1
  <2>3. CASE Holder[m] = u
    <3>1. Moving(u) = {} /\ spending[u] = 0 /\ uncovered' = uncovered
      BY <1>3, <2>3 DEF Check, Rely
    <3>2. Moving(u)' = {m}
      BY <1>t, <2>1, <2>3, <3>1 DEF Moving
    <3>3. primary[u] >= Amount[m] /\ primary[u] >= 0
      BY <1>3, <1>c, <2>3, <3>1 DEF Check, Cover
    <3> QED
      BY <2>1, <3>1, <3>2, <3>3 DEF Cover
  <2> QED
    BY <2>2, <2>3
\* The amount is taken that was looked for.
<1>4. ASSUME NEW m \in Mandates, Move(m) \/ Fail(m) PROVE Cover(u)'
  <2>1. /\ debit' = [debit EXCEPT ![m] = "idle"]
        /\ UNCHANGED <<spending, uncovered>>
        /\ primary' = primary \/ (primary' = Taken(m) /\ debit[m] = "move")
    BY <1>4 DEF Move, Fail, EndDebit, Moving
  <2>2. Moving(u)' = Moving(u) \ {m}
    BY <1>t, <2>1 DEF Moving
  <2>3. CASE primary'[u] = primary[u]
    BY <1>t, <1>q, <2>1, <2>2, <2>3
  <2>4. CASE primary'[u] # primary[u]
    <3>1. /\ Holder[m] = u /\ debit[m] = "move"
          /\ primary'[u] = primary[u] - Amount[m]
      BY <1>t, <2>1, <2>4 DEF Taken
    <3>2. m \in Moving(u)
      BY <3>1 DEF Moving
    <3>3. Moving(u) = {m} /\ primary[u] >= Amount[m] /\ ~(spending[u] > 0)
      BY <1>c, <2>1, <3>2 DEF Cover
    <3> QED
      BY <1>t, <2>1, <2>2, <3>1, <3>3 DEF Cover
  <2> QED
    BY <2>3, <2>4
<1>5. CASE CronDies
  <2>1. Moving(u)' = {}
    BY <1>5 DEF CronDies, Moving
  <2> QED
    BY <1>t, <1>5, <1>q, <2>1 DEF CronDies
<1>6. ASSUME NEW v \in Payers, NEW x \in Flows, Receive(v, x) PROVE Cover(u)'
  <2>1. Moving(u)' = Moving(u)
    BY <1>6 DEF Receive, runVars, Moving
  <2>2. primary'[u] \in Int /\ primary'[u] >= primary[u] /\ x \in Nat
    BY <1>t, <1>6 DEF Receive
  <2> QED
    BY <1>t, <1>6, <1>q, <2>1, <2>2 DEF Receive
<1>7. ASSUME NEW v \in Payers, NEW x \in Flows, ReceiveNegative(v, x) PROVE Cover(u)'
  <2>1. Moving(u)' = Moving(u) /\ spending' = spending /\ uncovered' = uncovered \cup {v}
    BY <1>7 DEF ReceiveNegative, runVars, Moving
  <2>2. u # v /\ u \notin uncovered
    BY <2>1
  <2>3. primary'[u] = primary[u]
    BY <1>t, <1>7, <2>2 DEF ReceiveNegative
  <2> QED
    BY <1>c, <2>1, <2>2, <2>3 DEF Cover
<1>8. ASSUME NEW v \in Payers, NEW x \in Flows, StartSpend(v, x) PROVE Cover(u)'
  <2>1. Moving(u)' = Moving(u) /\ primary' = primary /\ spending' = [spending EXCEPT ![v] = x]
    BY <1>8 DEF StartSpend, runVars, Moving
  <2>2. CASE u # v
    BY <1>t, <1>8, <1>q, <2>1, <2>2 DEF StartSpend, Rely
  <2>3. CASE u = v
    <3>1. Moving(u) = {} /\ uncovered' = uncovered /\ primary[u] >= x
      BY <1>8, <2>3 DEF StartSpend, Rely
    <3> QED
      BY <1>t, <1>c, <2>1, <2>3, <3>1 DEF Cover
  <2> QED
    BY <2>2, <2>3
<1>9. ASSUME NEW v \in Payers, EndSpend(v) PROVE Cover(u)'
  <2>1. /\ Moving(u)' = Moving(u) /\ uncovered' = uncovered
        /\ spending' = [spending EXCEPT ![v] = 0]
        /\ spending[v] > 0
    BY <1>9 DEF EndSpend, runVars, Moving
  <2>2. CASE primary'[u] = primary[u]
    BY <1>t, <1>q, <2>1, <2>2
  <2>3. CASE primary'[u] # primary[u]
    <3>1. u = v /\ primary'[u] = primary[u] - spending[u]
      BY <1>t, <1>9, <2>3 DEF EndSpend
    <3>2. Moving(u) = {} /\ primary[u] >= spending[u]
      BY <1>c, <2>1, <3>1 DEF Cover
    <3> QED
      BY <1>t, <2>1, <3>1, <3>2 DEF Cover
  <2> QED
    BY <2>2, <2>3
<1>10. CASE UNCHANGED debitVars
  <2>1. Moving(u)' = Moving(u) /\ UNCHANGED <<primary, spending, uncovered>>
    BY <1>10 DEF debitVars, runVars, Moving
  <2> QED
    BY <1>t, <1>q, <2>1
<1> QED
  BY <1>1, <1>2, <1>3, <1>4, <1>5, <1>6, <1>7, <1>8, <1>9, <1>10 DEF DebitNext

LEMMA DebitNextInv == DebitInv /\ [DebitNext]_debitVars => DebitInv'
<1> SUFFICES ASSUME DebitInv, [DebitNext]_debitVars PROVE DebitInv'
  OBVIOUS
<1>1. DebitTypeOK'
  BY DebitTypeStep DEF DebitInv
<1>2. \A f \in Frequencies : ListInv(f)' /\ \A m \in Of(f) : ServeInv(f, m)'
  BY ServeStep
<1>3. \A f : Of(f)' = Of(f)
  BY DEF Of
<1>4. ASSUME NEW u \in Payers, u \notin uncovered' PROVE Cover(u)'
  BY <1>4, CoverStep
<1> QED
  BY <1>1, <1>2, <1>3, <1>4 DEF DebitInv

\* The variables keep their types.
THEOREM DebitTypeCorrect == DebitSpec => []DebitTypeOK
<1>1. DebitInv => DebitTypeOK
  BY DEF DebitInv
<1> QED
  BY <1>1, DebitInitInv, DebitNextInv, PTL DEF DebitSpec

\* A run that is over has dealt with every mandate it listed, or one of its
\* debits threw, whatever the size of the list.
THEOREM ListedIsServed == DebitSpec => []ServedUnlessThrown
<1>1. ASSUME DebitInv PROVE ServedUnlessThrown
  <2> SUFFICES ASSUME NEW f \in Frequencies, NEW m \in Mandates,
                      m \in run[f].listed, ~run[f].on, debit[m] = "idle", outcome[m] = "none"
               PROVE  Threw(f)
    BY DEF ServedUnlessThrown, Threw
  <2>1. run[f].waiting = {} /\ m \in Of(f)
    BY <1>1 DEF DebitInv, ListInv
  <2> QED
    BY <1>1, <2>1 DEF DebitInv, ServeInv
<1> QED
  BY <1>1, DebitInitInv, DebitNextInv, PTL DEF DebitSpec

\* However many mandates a user has, of whatever frequencies and amounts, the
\* crons of debitSubscriberPrimaryAccount overdraw no primary account, unless two
\* debits relied on one balance or a negative amount was paid in.
THEOREM MandatesAreCovered == DebitSpec => []PrimaryCovered
<1>1. DebitInv => PrimaryCovered
  BY DEF DebitInv, Cover, PrimaryCovered
<1> QED
  BY <1>1, DebitInitInv, DebitNextInv, PTL DEF DebitSpec

=============================================================================
