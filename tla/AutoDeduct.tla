------------------------------ MODULE AutoDeduct ------------------------------
(***************************************************************************)
(* A mobile-money mandate and the gateway that deducts for it:             *)
(* TransactionService.transactionAutoDeductCallback credits a deduction    *)
(* the gateway reports, once its reference is found absent from            *)
(* autodeductchecker_entity and inserted; mandateCreateCallback records    *)
(* the approval; MandateService.deactivate cancels at the gateway and      *)
(* saves the row it had read.  Gateways call back late and repeatedly, and *)
(* each of these handlers awaits between its read and its write.           *)
(*                                                                         *)
(* (MandateService.create makes no such mandates any more; the callbacks   *)
(* and the rows remain.)                                                   *)
(*                                                                         *)
(* One mandate: rows are looked up by reference and do not interact.  A    *)
(* transfer is one step here (TransferCore has its steps).                 *)
(***************************************************************************)
EXTENDS Integers

CONSTANTS
    Deductions,  \* references of the gateway's deductions
    Handlers,    \* executions of the autodeduct callback
    Approvals,   \* executions of the mandate-creation callback
    Cancels,     \* executions of deactivate
    NoDeduction,
    MaxFaults    \* bound: crashes and calls that fail

ASSUME AutoDeductAssumption ==
    /\ NoDeduction \notin Deductions
    /\ MaxFaults \in Nat

VARIABLES
    status,     \* status of the mandate row
    agreement,  \* the mandate at the gateway
    charged,    \* deductions the gateway has taken from the wallet
    checker,    \* references in autodeductchecker_entity
    credits,    \* how often each deduction was credited
    handler,    \* [at, ref] of each autodeduct callback
    approval,   \* [at, answer] of each creation callback
    cancel,     \* [at, read, done] of each deactivate
    together,   \* deductions two handlers found absent at the same time
    lost,       \* deductions whose handler failed once its row was in
    blurred,    \* a row was saved over a change made since it was read
    faults

callVars == <<checker, credits, handler, together, lost>>
vars == <<status, agreement, charged, callVars, approval, cancel, blurred, faults>>

Statuses == {"PENDING", "ACTIVE", "FAILED", "DEACTIVATED"}
IdleHandler == [at |-> "idle", ref |-> NoDeduction]

TypeOK ==
    /\ status \in Statuses
    /\ agreement \in {"asked", "on", "refused", "off"}
    /\ charged \subseteq Deductions
    /\ checker \subseteq charged
    /\ credits \in [Deductions -> Nat]
    /\ handler \in [Handlers -> [at : {"idle", "select", "insert", "deposit"},
                                 ref : Deductions \cup {NoDeduction}]]
    /\ approval \in [Approvals -> [at : {"idle", "deposit", "save", "done"},
                                   answer : {"none", "SUCCESS", "FAILED"}]]
    /\ cancel \in [Cancels -> [at : {"idle", "ask", "save", "done"},
                               read : Statuses, done : BOOLEAN]]
    /\ together \subseteq Deductions
    /\ lost \subseteq Deductions
    /\ blurred \in BOOLEAN
    /\ faults \in 0..MaxFaults

Init ==
    /\ status = "PENDING" /\ agreement = "asked"
    /\ charged = {} /\ checker = {}
    /\ credits = [d \in Deductions |-> 0]
    /\ handler = [h \in Handlers |-> IdleHandler]
    /\ approval = [a \in Approvals |-> [at |-> "idle", answer |-> "none"]]
    /\ cancel = [c \in Cancels |-> [at |-> "idle", read |-> "PENDING", done |-> FALSE]]
    /\ together = {} /\ lost = {}
    /\ blurred = FALSE
    /\ faults = 0

Fault == faults < MaxFaults /\ faults' = faults + 1

-----------------------------------------------------------------------------
\* The gateway: approves or refuses the mandate, and deducts while it is on.
Decide ==
    /\ agreement = "asked"
    /\ agreement' \in {"on", "refused"}
    /\ UNCHANGED <<status, charged, callVars, approval, cancel, blurred, faults>>

Deduct(d) ==
    /\ agreement = "on" /\ d \notin charged
    /\ charged' = charged \cup {d}
    /\ UNCHANGED <<status, agreement, callVars, approval, cancel, blurred, faults>>

-----------------------------------------------------------------------------
\* transactionAutoDeductCallback of a deduction that was made.  Of a mandate
\* that is not ACTIVE, nothing is credited.
Report(h, d) ==
    /\ handler[h].at = "idle" /\ d \in charged
    /\ status = "ACTIVE"
    /\ handler' = [handler EXCEPT ![h] = [at |-> "select", ref |-> d]]
    /\ UNCHANGED <<status, agreement, charged, checker, credits, together, lost,
                   approval, cancel, blurred, faults>>

\* Handlers of d that found it absent and have not inserted it.
Inserting(d) == {h \in Handlers : handler[h] = [at |-> "insert", ref |-> d]}

\* SELECT from autodeductchecker_entity.
Unknown(d) == d \notin checker

Select(h) ==
    LET d == handler[h].ref IN
    /\ handler[h].at = "select"
    /\ IF Unknown(d)
       THEN /\ handler' = [handler EXCEPT ![h].at = "insert"]
            /\ together' = IF Inserting(d) = {} THEN together
                           ELSE together \cup {d}
       ELSE /\ handler' = [handler EXCEPT ![h] = IdleHandler]
            /\ UNCHANGED together
    /\ UNCHANGED <<status, agreement, charged, checker, credits, lost, approval,
                   cancel, blurred, faults>>

\* Mutant: the row is inserted once the deposit is made (the insert the code
\* has commented out).
InsertAfterDeposit(h) ==
    /\ handler[h].at = "insert"
    /\ handler' = [handler EXCEPT ![h].at = "deposit"]
    /\ UNCHANGED <<status, agreement, charged, checker, credits, together, lost,
                   approval, cancel, blurred, faults>>

Insert(h) ==
    /\ handler[h].at = "insert"
    /\ checker' = checker \cup {handler[h].ref}
    /\ handler' = [handler EXCEPT ![h].at = "deposit"]
    /\ UNCHANGED <<status, agreement, charged, credits, together, lost, approval,
                   cancel, blurred, faults>>

\* Mutant: the mandate is looked at again before the deposit.
DepositIfActive(h) ==
    /\ handler[h].at = "deposit"
    /\ credits' = [credits EXCEPT ![handler[h].ref] =
                      IF status = "ACTIVE" THEN @ + 1 ELSE @]
    /\ handler' = [handler EXCEPT ![h] = IdleHandler]
    /\ UNCHANGED <<status, agreement, charged, checker, together, lost, approval,
                   cancel, blurred, faults>>

\* userAccountDeposit
Deposit(h) ==
    /\ handler[h].at = "deposit"
    /\ credits' = [credits EXCEPT ![handler[h].ref] = @ + 1]
    /\ handler' = [handler EXCEPT ![h] = IdleHandler]
    /\ UNCHANGED <<status, agreement, charged, checker, together, lost, approval,
                   cancel, blurred, faults>>

\* The insert throws, with the row or without it; or the deposit is refused or
\* throws, at its worst after the money has moved: caught, and not tried again.
HandlerFault(h) ==
    LET d == handler[h].ref IN
    /\ Fault
    /\ \/ handler[h].at = "insert" /\ UNCHANGED <<checker, credits, lost>>
       \/ /\ handler[h].at = "insert"
          /\ checker' = checker \cup {d} /\ lost' = lost \cup {d}
          /\ UNCHANGED credits
       \/ /\ handler[h].at = "deposit"
          /\ lost' = lost \cup {d}
          /\ credits' \in {credits, [credits EXCEPT ![d] = @ + 1]}
          /\ UNCHANGED checker
    /\ handler' = [handler EXCEPT ![h] = IdleHandler]
    /\ UNCHANGED <<status, agreement, charged, together, approval, cancel, blurred>>

-----------------------------------------------------------------------------
\* mandateCreateCallback: a SUCCESS is credited first, whether or not that
\* works, and the row is saved; what its status is by then is not looked at.
Approve(a) ==
    /\ approval[a].at = "idle"
    /\ agreement # "asked"
    /\ approval' = [approval EXCEPT ![a] =
           IF agreement = "refused" THEN [at |-> "save", answer |-> "FAILED"]
           ELSE [at |-> "deposit", answer |-> "SUCCESS"]]
    /\ UNCHANGED <<status, agreement, charged, callVars, cancel, blurred, faults>>

CreditApproval(a) ==
    /\ approval[a].at = "deposit"
    /\ approval' = [approval EXCEPT ![a].at = "save"]
    /\ UNCHANGED <<status, agreement, charged, callVars, cancel, blurred, faults>>

SaveApproval(a) ==
    /\ approval[a].at = "save"
    /\ status' = IF approval[a].answer = "SUCCESS" THEN "ACTIVE" ELSE "FAILED"
    /\ approval' = [approval EXCEPT ![a].at = "done"]
    /\ blurred' = (blurred \/ agreement = "off")
    /\ UNCHANGED <<agreement, charged, callVars, cancel, faults>>

-----------------------------------------------------------------------------
\* deactivate: nothing to do for a mandate that is DEACTIVATED or FAILED.
StartCancel(c) ==
    /\ cancel[c].at = "idle"
    /\ status \notin {"DEACTIVATED", "FAILED"}
    /\ cancel' = [cancel EXCEPT ![c] = [at |-> "ask", read |-> status, done |-> FALSE]]
    /\ UNCHANGED <<status, agreement, charged, callVars, approval, blurred, faults>>

\* Cancelling at the gateway, which may refuse; it has nothing left to cancel
\* when the mandate is off.
AskCancel(c) ==
    /\ cancel[c].at = "ask"
    /\ \/ /\ agreement # "off" /\ agreement' = "off"
          /\ cancel' = [cancel EXCEPT ![c] = [at |-> "save", read |-> @.read, done |-> TRUE]]
       \/ /\ cancel' = [cancel EXCEPT ![c] = [at |-> "save", read |-> @.read, done |-> FALSE]]
          /\ UNCHANGED agreement
    /\ UNCHANGED <<status, charged, callVars, approval, blurred, faults>>

\* Mutant: the status is not set.
StatusToSaveRead(c) == cancel[c].read

StatusToSave(c) == IF cancel[c].done THEN "DEACTIVATED" ELSE cancel[c].read

\* mandateRepository.save of the row that was read, also after a refusal.
SaveCancel(c) ==
    /\ cancel[c].at = "save"
    /\ status' = StatusToSave(c)
    /\ cancel' = [cancel EXCEPT ![c].at = "done"]
    /\ blurred' = (blurred \/ (~cancel[c].done /\ cancel[c].read # status))
    /\ UNCHANGED <<agreement, charged, callVars, approval, faults>>

\* axios.post throws, before or after the gateway has cancelled.
CancelFault(c) ==
    /\ cancel[c].at = "ask"
    /\ Fault
    /\ agreement' \in {agreement, "off"}
    /\ cancel' = [cancel EXCEPT ![c].at = "done"]
    /\ blurred' = (blurred \/ agreement' = "off")
    /\ UNCHANGED <<status, charged, callVars, approval>>

Crash ==
    /\ Fault
    /\ lost' = lost \cup {d \in Deductions :
                  \E h \in Handlers : handler[h] = [at |-> "deposit", ref |-> d]}
    /\ handler' = [h \in Handlers |-> IdleHandler]
    /\ approval' = [a \in Approvals |->
           IF approval[a].at = "idle" THEN approval[a]
           ELSE [approval[a] EXCEPT !.at = "done"]]
    /\ cancel' = [c \in Cancels |->
           IF cancel[c].at = "idle" THEN cancel[c]
           ELSE [cancel[c] EXCEPT !.at = "done"]]
    /\ blurred' = (blurred \/ \E c \in Cancels : cancel[c].at = "save" /\ cancel[c].done)
    /\ UNCHANGED <<status, agreement, charged, checker, credits, together>>

Next ==
    \/ Decide
    \/ \E d \in Deductions : Deduct(d)
    \/ \E h \in Handlers :
          \/ \E d \in Deductions : Report(h, d)
          \/ Select(h) \/ Insert(h) \/ Deposit(h) \/ HandlerFault(h)
    \/ \E a \in Approvals : Approve(a) \/ CreditApproval(a) \/ SaveApproval(a)
    \/ \E c \in Cancels : StartCancel(c) \/ AskCancel(c) \/ SaveCancel(c) \/ CancelFault(c)
    \/ Crash

Spec == Init /\ [][Next]_vars

-----------------------------------------------------------------------------
\* A deduction is credited twice only if two handlers have found its reference
\* absent at the same time; nothing else, a crash included, lets one through.
DeductionCreditedOnce == \A d \in Deductions \ together : credits[d] <= 1

\* A reference in the checker, which no later callback will credit, has been
\* credited or is about to be, unless the process died or a call of the handler
\* failed: the deposit, or the insert after it had put the row there.
RecordedIsCredited ==
    \A d \in checker \ lost :
        \/ credits[d] > 0
        \/ \E h \in Handlers : handler[h] = [at |-> "deposit", ref |-> d]

\* A mandate that the gateway has cancelled reads DEACTIVATED when the calls are
\* through, unless a late approval, a refused second cancellation or a fault
\* has come between.
OffIsDeactivated ==
    (/\ agreement = "off" /\ ~blurred
     /\ \A c \in Cancels : cancel[c].at \in {"idle", "done"}) =>
        status = "DEACTIVATED"

=============================================================================
