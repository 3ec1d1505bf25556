---------------------------- MODULE SavingsGoals ----------------------------
(***************************************************************************)
(* Savings goals: SavingsGoalService.create, update, updateFavourite and   *)
(* delete, the mandate a goal with automatic saving has, and the two crons *)
(* of SavingGoalCronService that end goals and open locked ones.  A client *)
(* call or a cron run reads the goal's row and its account's row, and      *)
(* writes them back later as it read them:                                 *)
(*   - em.save(goal) of update and updateFavourite writes the whole row,   *)
(*     and, as the relation to the account cascades, the account's too;    *)
(*   - the cron's em.save(account) writes the account's whole row, and its *)
(*     em.update(goal) the goal's.                                         *)
(* TypeORM leaves out columns that have not changed in the database since. *)
(*                                                                         *)
(* A transfer is one step, on the balance and flags it finds (TransferCore *)
(* has its steps); the primary account is not followed.                    *)
(***************************************************************************)
EXTENDS Integers, FiniteSets, SequencesExt

CONSTANTS
    Goals,       \* savings goals, each with its account
    BezoLocks,   \* those of account type bezo-lock: locked in the first month
    NoGoal,      \* "no goal"
    Clients,     \* calls of the service going on at a time
    Runs,        \* cron runs, for one goal each, going on at a time
    Preferences, \* deposit preferences in use: "manual", "automatic"
    Amounts,     \* amounts a client may ask to be moved, negative ones too
    Fee,         \* the early-withdrawal fee
    Target,      \* amountToRaise
    MinBalance,  \* bounds: of an account's balance
    MaxBalance,
    MaxMandates  \* bound: mandates ever created for a goal

ASSUME SavingsGoalsAssumption ==
    /\ NoGoal \notin Goals \cup Clients \cup Runs /\ Clients \cap Runs = {}
    /\ BezoLocks \subseteq Goals
    /\ Preferences \subseteq {"manual", "automatic"} /\ "manual" \in Preferences
    /\ Amounts \subseteq Int
    /\ Fee \in Nat /\ Target \in Nat /\ MaxMandates \in Nat
    /\ MinBalance \in Int /\ MaxBalance \in Nat

VARIABLES
    goal,         \* [status, preference] of each goal's row
    account,      \* [balance, flags] of its account's row
    active,       \* its mandates that are ACTIVE
    ended,        \* its mandates that are DEACTIVATED
    day,          \* 0 in its first month, 1 after it, 2 on its endDate, 3 after
    client,       \* [at, op, goal, copy, seen, wish] of each call
    run,          \* [at, goal, copy, seen] of each cron run
    book,         \* the sum of the movements of each account, until it is raced
    accountRaced, \* goals whose account was written under a copy of it
    goalRaced,    \* goals whose row was written under a copy of it
    late,         \* goals paid into while being deleted or once terminated
    halved,       \* goals of which a call died between mandate and preference
    unsaved       \* goals of which a mandate could not be saved

vars == <<goal, account, active, ended, day, client, run, book, accountRaced,
          goalRaced, late, halved, unsaved>>

\* allowWithdrawal and allowWithdrawalWithFees: neither, both, the first only.
FlagSet == {"locked", "fees", "free"}
Statuses == {"none", "INPROGRESS", "COMPLETED", "FAILED", "TERMINATED"}
GoalRow == [status : Statuses, preference : Preferences]
AccountRow == [balance : Int, flags : FlagSet]

NewGoal == [status |-> "none", preference |-> "manual"]
NewAccount == [balance |-> 0, flags |-> "free"]
NoCall == [at |-> "idle", op |-> "none", goal |-> NoGoal, copy |-> NewGoal,
           seen |-> NewAccount, wish |-> "manual"]
NoRun == [at |-> "idle", goal |-> NoGoal, copy |-> NewGoal, seen |-> NewAccount]

TypeOK ==
    /\ goal \in [Goals -> GoalRow]
    /\ account \in [Goals -> AccountRow]
    /\ active \in [Goals -> Nat] /\ ended \in [Goals -> Nat]
    /\ day \in [Goals -> 0..3]
    /\ client \in [Clients ->
           [at : {"idle", "insert", "mandate", "save", "account", "close",
                  "reread", "rest", "terminate"},
            op : {"none", "create", "update", "delete"},
            goal : Goals \cup {NoGoal}, copy : GoalRow, seen : AccountRow,
            wish : Preferences]]
    /\ run \in [Runs ->
           [at : {"idle", "read", "save", "finish", "open"},
            goal : Goals \cup {NoGoal}, copy : GoalRow, seen : AccountRow]]
    /\ book \in [Goals -> Int]
    /\ accountRaced \subseteq Goals /\ goalRaced \subseteq Goals
    /\ late \subseteq Goals /\ halved \subseteq Goals /\ unsaved \subseteq Goals

Init ==
    /\ goal = [g \in Goals |-> NewGoal]
    /\ account = [g \in Goals |-> NewAccount]
    /\ active = [g \in Goals |-> 0] /\ ended = [g \in Goals |-> 0]
    /\ day = [g \in Goals |-> 0]
    /\ client = [c \in Clients |-> NoCall]
    /\ run = [r \in Runs |-> NoRun]
    /\ book = [g \in Goals |-> 0]
    /\ accountRaced = {} /\ goalRaced = {} /\ late = {}
    /\ halved = {} /\ unsaved = {}

-----------------------------------------------------------------------------
\* A call or a cron run about to write the goal's row, or its account's, from
\* the copy it holds, or on the strength of it.
Edits(p, g) == p \in Clients /\ client[p].goal = g /\ client[p].op = "update"
Deletes(p, g) == p \in Clients /\ client[p].goal = g /\ client[p].op = "delete"
CronHolds(p, g, places) == p \in Runs /\ run[p].goal = g /\ run[p].at \in places

\* p writes the account's row: whoever holds a copy now holds a stale one.
TouchAccount(p, g) ==
    accountRaced' =
        IF \E q \in (Clients \cup Runs) \ {p} :
              \/ account'[g] # account[g] /\ (Edits(q, g) \/ CronHolds(q, g, {"save"}))
              \/ account'[g].flags # account[g].flags /\ CronHolds(q, g, {"open"})
        THEN accountRaced \cup {g} ELSE accountRaced

\* p writes the goal's row.
TouchGoal(p, g) ==
    goalRaced' =
        IF /\ goal'[g] # goal[g]
           /\ \E q \in (Clients \cup Runs) \ {p} :
                 \/ Edits(q, g) \/ Deletes(q, g)
                 \/ CronHolds(q, g, {"read", "save", "finish", "open"})
        THEN goalRaced \cup {g} ELSE goalRaced

\* p moves money out of the account, or into it: late, if it comes in after
\* another call has looked at what there is to be emptied.  The book is not kept
\* any further once the account has been raced.
Movement(p, g, amount) ==
    /\ account[g].balance + amount \in MinBalance..MaxBalance
    /\ account' = [account EXCEPT ![g].balance = @ + amount]
    /\ TouchAccount(p, g)
    /\ book' = [book EXCEPT ![g] = IF g \in accountRaced' THEN 0 ELSE @ + amount]
    /\ late' = IF /\ amount > 0
                  /\ \/ goal[g].status = "TERMINATED"
                     \/ \E c \in Clients \ {p} :
                           Deletes(c, g) /\ client[c].at # "account"
               THEN late \cup {g} ELSE late

\* What was seen of the account is of no more use once it has been emptied.
GoOn(c, place) ==
    client' = [client EXCEPT ![c].at = place,
                   ![c].seen = IF place \in {"reread", "terminate"}
                               THEN NewAccount ELSE @]
Return(c) == client' = [client EXCEPT ![c] = NoCall]
EndRun(r) == run' = [run EXCEPT ![r] = NoRun]

-----------------------------------------------------------------------------
\* create, once the name is found to be new (names are not modelled).
Create(c, g, preference) ==
    /\ client[c].at = "idle"
    /\ goal[g].status = "none"
    /\ \A d \in Clients : client[d].goal # g
    /\ client' = [client EXCEPT ![c] =
           [NoCall EXCEPT !.op = "create", !.goal = g, !.wish = preference,
                          !.at = "insert"]]
    /\ UNCHANGED <<goal, account, active, ended, day, run, book, accountRaced,
                   goalRaced, late, halved, unsaved>>

\* Mutant: a bezo-lock account is opened with the flags of any other.
InsertUnlocked(c) ==
    LET g == client[c].goal IN
    /\ client[c].at = "insert"
    /\ goal' = [goal EXCEPT ![g] =
           [status |-> "INPROGRESS", preference |-> client[c].wish]]
    /\ account' = [account EXCEPT ![g] = [balance |-> 0, flags |-> "fees"]]
    /\ IF client[c].wish = "automatic" THEN GoOn(c, "mandate") ELSE Return(c)
    /\ UNCHANGED <<active, ended, day, run, book, accountRaced, goalRaced, late,
                   halved, unsaved>>

\* The goal is saved with its account, whose flags come from the account type.
Insert(c) ==
    LET g == client[c].goal IN
    /\ client[c].at = "insert"
    /\ goal' = [goal EXCEPT ![g] =
           [status |-> "INPROGRESS", preference |-> client[c].wish]]
    /\ account' = [account EXCEPT ![g] =
           [balance |-> 0, flags |-> IF g \in BezoLocks THEN "locked" ELSE "fees"]]
    /\ IF client[c].wish = "automatic" THEN GoOn(c, "mandate") ELSE Return(c)
    /\ UNCHANGED <<active, ended, day, run, book, accountRaced, goalRaced, late,
                   halved, unsaved>>

\* update reads the goal with its account; updateFavourite is an update that
\* leaves the preference as it is.
StartUpdate(c, g, preference) ==
    /\ client[c].at = "idle"
    /\ goal[g].status # "none"
    /\ client' = [client EXCEPT ![c] =
           [at |-> IF preference # goal[g].preference THEN "mandate" ELSE "save",
            op |-> "update", goal |-> g, seen |-> account[g], wish |-> preference,
            copy |-> [goal[g] EXCEPT !.preference = preference]]]
    /\ UNCHANGED <<goal, account, active, ended, day, run, book, accountRaced,
                   goalRaced, late, halved, unsaved>>

\* MandateService.create, for a new goal or one turned automatic.
CreateMandate(c) ==
    LET g == client[c].goal IN
    /\ client[c].at = "mandate" /\ client[c].wish = "automatic"
    /\ active[g] + ended[g] < MaxMandates
    /\ active' = [active EXCEPT ![g] = @ + 1]
    /\ IF client[c].op = "create" THEN Return(c) ELSE GoOn(c, "save")
    /\ UNCHANGED <<goal, account, ended, day, run, book, accountRaced, goalRaced,
                   late, halved, unsaved>>

\* Its save is rejected: it catches the error and answers FAILED, which no
\* caller looks at.
MandateUnsaved(c) ==
    LET g == client[c].goal IN
    /\ client[c].at = "mandate" /\ client[c].wish = "automatic"
    /\ unsaved' = unsaved \cup {g}
    /\ IF client[c].op = "create" THEN Return(c) ELSE GoOn(c, "save")
    /\ UNCHANGED <<goal, account, active, ended, day, run, book, accountRaced,
                   goalRaced, late, halved>>

\* Mutant: a mandate that is found is not told to stop.
KeepMandate(c) ==
    LET g == client[c].goal IN
    /\ client[c].at = "mandate" /\ client[c].wish = "manual"
    /\ active[g] + ended[g] > 0
    /\ GoOn(c, IF client[c].op = "delete" THEN "close" ELSE "save")
    /\ UNCHANGED <<goal, account, active, ended, day, run, book, accountRaced,
                   goalRaced, late, halved, unsaved>>

\* findOne by accountId alone: any mandate the goal has ever had.  One that
\* has ended is left as it is.  (None at all is a Throw.)
DeactivateMandate(c) ==
    LET g == client[c].goal IN
    /\ client[c].at = "mandate" /\ client[c].wish = "manual"
    /\ \/ /\ active[g] > 0
          /\ active' = [active EXCEPT ![g] = @ - 1]
          /\ ended' = [ended EXCEPT ![g] = @ + 1]
       \/ /\ ended[g] > 0
          /\ UNCHANGED <<active, ended>>
    /\ GoOn(c, IF client[c].op = "delete" THEN "close" ELSE "save")
    /\ UNCHANGED <<goal, account, day, run, book, accountRaced, goalRaced, late,
                   halved, unsaved>>

\* em.save(goal): the row as it was read, with the wish, and by the cascade
\* the account as it was read.
Save(c) ==
    LET g == client[c].goal IN
    /\ client[c].at = "save"
    /\ goal' = [goal EXCEPT ![g] = client[c].copy]
    /\ account' = [account EXCEPT ![g] = client[c].seen]
    /\ TouchGoal(c, g) /\ TouchAccount(c, g)
    /\ Return(c)
    /\ UNCHANGED <<active, ended, day, run, book, late, halved, unsaved>>

-----------------------------------------------------------------------------
\* delete reads the goal, without its account; a terminated one is refused.
StartDelete(c, g) ==
    /\ client[c].at = "idle"
    /\ goal[g].status \notin {"none", "TERMINATED"}
    /\ client' = [client EXCEPT ![c] =
           [NoCall EXCEPT !.op = "delete", !.goal = g, !.at = "account",
                          !.copy = goal[g]]]
    /\ UNCHANGED <<goal, account, active, ended, day, run, book, accountRaced,
                   goalRaced, late, halved, unsaved>>

ReadAccount(c) ==
    LET g == client[c].goal IN
    /\ client[c].at = "account"
    /\ client' = [client EXCEPT
           ![c].seen = account[g],
           ![c].at = IF client[c].copy.preference = "automatic"
                     THEN "mandate" ELSE "close"]
    /\ UNCHANGED <<goal, account, active, ended, day, run, book, accountRaced,
                   goalRaced, late, halved, unsaved>>

\* What a transfer of the amount takes out of the account.  The fee is fixed, or
\* a percentage, and then negative if the amount is.
Costs(g, amount) ==
    IF account[g].flags # "fees" THEN {amount}
    ELSE {amount + f : f \in IF amount < 0 THEN {-Fee, Fee} ELSE {Fee}}

CanTransfer(g, cost) ==
    account[g].flags # "locked" /\ cost <= account[g].balance

\* chargeTransfer takes no fee of its own.
CanCharge(g, amount) ==
    account[g].flags # "locked" /\ amount <= account[g].balance

\* An account seen empty needs no transfer.
CloseEmpty(c) ==
    /\ client[c].at = "close"
    /\ client[c].seen.balance <= 0
    /\ GoOn(c, "terminate")
    /\ UNCHANGED <<goal, account, active, ended, day, run, book, accountRaced,
                   goalRaced, late, halved, unsaved>>

\* One seen with fees: the fee first, then what is left.
ChargeFee(c) ==
    LET g == client[c].goal IN
    /\ client[c].at = "close"
    /\ client[c].seen.balance > 0 /\ client[c].seen.flags = "fees"
    /\ CanCharge(g, Fee)
    /\ Movement(c, g, -Fee)
    /\ GoOn(c, "reread")
    /\ UNCHANGED <<goal, active, ended, day, run, goalRaced, halved, unsaved>>

\* Mutant: the account is taken to be empty once the fee is paid.
RereadEmpty(c) ==
    /\ client[c].at = "reread"
    /\ client' = [client EXCEPT ![c].at = "rest"]
    /\ UNCHANGED <<goal, account, active, ended, day, run, book, accountRaced,
                   goalRaced, late, halved, unsaved>>

Reread(c) ==
    /\ client[c].at = "reread"
    /\ client' = [client EXCEPT ![c].seen = account[client[c].goal],
                                ![c].at = "rest"]
    /\ UNCHANGED <<goal, account, active, ended, day, run, book, accountRaced,
                   goalRaced, late, halved, unsaved>>

TakeRest(c) ==
    LET g == client[c].goal IN
    /\ client[c].at = "rest"
    /\ CanCharge(g, client[c].seen.balance)
    /\ Movement(c, g, -client[c].seen.balance)
    /\ GoOn(c, "terminate")
    /\ UNCHANGED <<goal, active, ended, day, run, goalRaced, halved, unsaved>>

\* One seen free, or locked: all of what was seen, by a transfer.
TakeAll(c) ==
    LET g == client[c].goal
        amount == client[c].seen.balance
    IN
    /\ client[c].at = "close"
    /\ amount > 0 /\ client[c].seen.flags # "fees"
    /\ \E cost \in Costs(g, amount) :
          CanTransfer(g, cost) /\ Movement(c, g, -cost)
    /\ GoOn(c, "terminate")
    /\ UNCHANGED <<goal, active, ended, day, run, goalRaced, halved, unsaved>>

Terminate(c) ==
    LET g == client[c].goal IN
    /\ client[c].at = "terminate"
    /\ goal' = [goal EXCEPT ![g] =
                    [client[c].copy EXCEPT !.status = "TERMINATED"]]
    /\ TouchGoal(c, g)
    /\ Return(c)
    /\ UNCHANGED <<account, active, ended, day, run, book, accountRaced, late,
                   halved, unsaved>>

\* A call that dies here has changed the mandates and not the preference.
MandateOnly(c) ==
    \/ client[c].op = "create"
    \/ /\ client[c].op = "update" /\ client[c].at = "save"
       /\ client[c].copy.preference # goal[client[c].goal].preference
    \/ /\ client[c].op = "delete" /\ client[c].at \notin {"account", "mandate"}
       /\ client[c].copy.preference = "automatic"

\* The call dies: its transfer is refused, it finds no mandate, a database
\* call rejects.  What it did so far stays.
Throw(c) ==
    /\ client[c].at \notin {"idle", "insert"}
    /\ Return(c)
    /\ halved' = IF MandateOnly(c) THEN halved \cup {client[c].goal} ELSE halved
    /\ UNCHANGED <<goal, account, active, ended, day, run, book, accountRaced,
                   goalRaced, late, unsaved>>

-----------------------------------------------------------------------------
\* A transfer to the goal's account.  Neither the goal's status nor the sign of
\* the amount is looked at.
Deposit(g, amount) ==
    /\ goal[g].status # "none"
    /\ Movement(NoGoal, g, amount)
    /\ UNCHANGED <<goal, active, ended, day, client, run, goalRaced, halved, unsaved>>

\* A transfer from it.
Withdraw(g, amount) ==
    /\ goal[g].status # "none"
    /\ \E cost \in Costs(g, amount) :
          CanTransfer(g, cost) /\ Movement(NoGoal, g, -cost)
    /\ UNCHANGED <<goal, active, ended, day, client, run, goalRaced, halved, unsaved>>

DayPasses(g) ==
    /\ goal[g].status # "none" /\ day[g] < 3
    /\ day' = [day EXCEPT ![g] = @ + 1]
    /\ UNCHANGED <<goal, account, active, ended, client, run, book, accountRaced,
                   goalRaced, late, halved, unsaved>>

-----------------------------------------------------------------------------
\* resolveCompletedSavingsGoals finds the goal among those ending today.
ListEnding(r, g) ==
    /\ run[r].at = "idle"
    /\ goal[g].status = "INPROGRESS" /\ day[g] = 2
    /\ run' = [run EXCEPT ![r] = [NoRun EXCEPT !.at = "read", !.goal = g,
                                               !.copy = goal[g]]]
    /\ UNCHANGED <<goal, account, active, ended, day, client, book, accountRaced,
                   goalRaced, late, halved, unsaved>>

\* Mutant: the account that is saved has its columns' defaults, not its balance.
ReadDefaults(r) ==
    /\ run[r].at = "read"
    /\ run' = [run EXCEPT ![r].at = "save"]
    /\ UNCHANGED <<goal, account, active, ended, day, client, book, accountRaced,
                   goalRaced, late, halved, unsaved>>

\* updateSavingGoal: getUserAccount.
ReadForEnd(r) ==
    /\ run[r].at = "read"
    /\ run' = [run EXCEPT ![r].seen = account[run[r].goal], ![r].at = "save"]
    /\ UNCHANGED <<goal, account, active, ended, day, client, book, accountRaced,
                   goalRaced, late, halved, unsaved>>

\* em.save(account): the account as it was read, but free.
SaveAccount(r) ==
    LET g == run[r].goal IN
    /\ run[r].at = "save"
    /\ account' = [account EXCEPT ![g] = [run[r].seen EXCEPT !.flags = "free"]]
    /\ TouchAccount(r, g)
    /\ run' = [run EXCEPT ![r].at = "finish"]
    /\ UNCHANGED <<goal, active, ended, day, client, book, goalRaced, late, halved, unsaved>>

\* Both columns are decimals, which the driver returns as text: "10.00" is
\* less than "9.00".  The full stop sorts before the digits, the minus sign
\* before both.
Digits(n) ==
    LET digits[k \in 0..MaxBalance \cup {Target}] ==
            IF k < 10 THEN <<k>> ELSE Append(digits[k \div 10], k % 10)
    IN  digits[n]

AtLeastAsText(a, b) ==
    a >= 0 /\ \A i \in 1..Len(Digits(b)) :
        IsPrefix(SubSeq(Digits(b), 1, i - 1), Digits(a)) =>
            i <= Len(Digits(a)) /\ Digits(a)[i] >= Digits(b)[i]

\* em.update(goal): its whole row as it was listed, and how it ended.
Finish(r) ==
    LET g == run[r].goal IN
    /\ run[r].at = "finish"
    /\ goal' = [goal EXCEPT ![g] =
           [run[r].copy EXCEPT !.status =
                IF AtLeastAsText(run[r].seen.balance, Target)
                THEN "COMPLETED" ELSE "FAILED"]]
    /\ TouchGoal(r, g)
    /\ EndRun(r)
    /\ UNCHANGED <<account, active, ended, day, client, book, accountRaced, late,
                   halved, unsaved>>

\* unlockBezoLockSavingsGoalsForWithDrawal: those in progress for a month.
ListLocked(r, g) ==
    /\ run[r].at = "idle"
    /\ g \in BezoLocks
    /\ goal[g].status = "INPROGRESS" /\ day[g] > 0
    /\ run' = [run EXCEPT ![r] = [NoRun EXCEPT !.at = "open", !.goal = g]]
    /\ UNCHANGED <<goal, account, active, ended, day, client, book, accountRaced,
                   goalRaced, late, halved, unsaved>>

\* UpdateBezoLockAccounts, one UPDATE of the flags.
Open(r) ==
    LET g == run[r].goal IN
    /\ run[r].at = "open"
    /\ account' = [account EXCEPT ![g].flags = "fees"]
    /\ TouchAccount(r, g)
    /\ EndRun(r)
    /\ UNCHANGED <<goal, active, ended, day, client, book, goalRaced, late, halved, unsaved>>

\* A run stops: the process dies, or another goal of its chunk throws.
StopRun(r) ==
    /\ run[r].at # "idle"
    /\ EndRun(r)
    /\ UNCHANGED <<goal, account, active, ended, day, client, book, accountRaced,
                   goalRaced, late, halved, unsaved>>

-----------------------------------------------------------------------------
ClientStep(c) ==
    \/ \E g \in Goals, p \in Preferences :
          Create(c, g, p) \/ StartUpdate(c, g, p)
    \/ \E g \in Goals : StartDelete(c, g)
    \/ Insert(c) \/ CreateMandate(c) \/ MandateUnsaved(c) \/ DeactivateMandate(c)
    \/ Save(c)
    \/ ReadAccount(c) \/ CloseEmpty(c) \/ ChargeFee(c) \/ Reread(c)
    \/ TakeRest(c) \/ TakeAll(c) \/ Terminate(c) \/ Throw(c)

RunStep(r) ==
    \/ \E g \in Goals : ListEnding(r, g) \/ ListLocked(r, g)
    \/ ReadForEnd(r) \/ SaveAccount(r) \/ Finish(r) \/ Open(r) \/ StopRun(r)

Next ==
    \/ \E c \in Clients : ClientStep(c)
    \/ \E r \in Runs : RunStep(r)
    \/ \E g \in Goals, amount \in Amounts : Deposit(g, amount) \/ Withdraw(g, amount)
    \/ \E g \in Goals : DayPasses(g)

Spec == Init /\ [][Next]_vars

-----------------------------------------------------------------------------
\* The balance is the sum of the account's movements, unless the account moved
\* or was opened while an edit of its goal or the ending run held a copy of it:
\* those write their copy back.
BookKept ==
    \A g \in Goals : g \notin accountRaced => account[g].balance = book[g]

\* A goal that was deleted left no money behind, unless money came in while it
\* was being deleted or afterwards, or a stale row was written back.
TerminatedIsEmpty ==
    \A g \in Goals :
        (goal[g].status = "TERMINATED" /\ g \notin late \cup accountRaced \cup goalRaced)
            => account[g].balance <= 0

\* Money leaves a locked goal in its first month through no withdrawal and no
\* deletion: a balance that falls means that the account was opened, that a
\* stale row was written back, or that a negative amount was paid into it.
LockedKeepsMoney ==
    [][\A g \in BezoLocks :
          (day[g] = 0 /\ goal[g].status # "none" /\ g \notin accountRaced)
              => \/ account'[g].balance >= account[g].balance
                 \/ \E amount \in Amounts : amount < 0 /\ Deposit(g, amount)]_vars

\* A goal nobody is editing has an active mandate only if it saves
\* automatically, and one that saves automatically has its mandate unless that
\* could not be saved; as long as no call died between writing the two, two
\* calls did not overlap, and it has had no second mandate (the wrong one may
\* then be ended).
PreferenceIsMandate ==
    \A g \in Goals :
        /\ goal[g].status \notin {"none", "TERMINATED"}
        /\ \A c \in Clients : client[c].goal # g
        /\ g \notin goalRaced \cup halved
        /\ active[g] + ended[g] <= 1
        => /\ active[g] = 1 => goal[g].preference = "automatic"
           /\ goal[g].preference = "automatic" => active[g] = 1 \/ g \in unsaved

\* GOAL_STATUS: COMPLETED is "finish goal period right".  The run that ends a
\* goal should call it COMPLETED exactly if its balance reached the target.
DecidedByAmount ==
    [][\A r \in Runs :
          (run[r].at = "finish" /\ goal' # goal /\ run' # run) =>
              (goal'[run[r].goal].status = "COMPLETED"
                  <=> run[r].seen.balance >= Target)]_vars

=============================================================================
