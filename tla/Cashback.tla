------------------------------ MODULE Cashback ------------------------------
(***************************************************************************)
(* The referral cashback crons.  Every 30 minutes one lists the cashback   *)
(* rows that are PENDING in both columns, and pays each referee who is     *)
(* verified by now.  Every afternoon the other lists the rows of PENDING   *)
(* status; for each referee who is still a beginner it opens a bonus       *)
(* account, moves the bonus to the primary account, shuts the bonus        *)
(* account and marks the row.                                              *)
(*                                                                         *)
(* A run takes the rows it has listed a chunk at a time.  The rows of a    *)
(* chunk are worked on together (Promise.all), each a job of its own; one  *)
(* that throws ends the run, though not the other jobs of its chunk.  A    *)
(* run outlives the tick of the next one.                                  *)
(*                                                                         *)
(* em.save writes back every column of the copy that was read, as in       *)
(* SavingsGoals, and a transfer is one step, which TransferCore justifies. *)
(***************************************************************************)
EXTENDS Integers, FiniteSets, FiniteSetsExt

CONSTANTS
    Referees,    \* users somebody referred, one cashback row each
    Referrer,    \* the user who referred those no influencer brought
    Runs,        \* runs of the half-hourly cron that may overlap
    PayChunk,    \* rows of a chunk: 10 in the half-hourly cron,
    MoveChunk,   \* 20 in the daily one
    Openings,    \* opening balances of a bonus account
    MaxFaults    \* crashes and failed calls considered

ASSUME CashbackAssumption ==
    /\ Referrer \notin Referees
    /\ PayChunk \in Nat \ {0} /\ MoveChunk \in Nat \ {0}
    /\ Openings \subseteq Nat
    /\ MaxFaults \in Nat

VARIABLES
    row,      \* referral_cashback_entity: status and referreepaidStatus
    brought,  \* referees whose referrer is on the influencer list
    accountless, \* users without a primary account
    level,    \* user_entity.level of each referee
    pay,      \* half-hourly cron: the job of each run and referee
    paySeen,  \* the row that job holds a copy of
    move,     \* daily cron: the job of each referee
    held,     \* the bonus account that job holds a copy of
    moveSeen, \* the row that job holds a copy of
    bonus,    \* 'Referral Bonus' accounts: balance and allowWithdrawal
    faults,
    book,     \* what the transfers have left on each bonus account
    paid,     \* deposits made to each referee
    moved,    \* bonuses moved on account of each referee
    doubt,    \* referees two runs were busy with, or paid and not marked
    changed,  \* referees who were verified while a job had their row
    straddled \* bonus accounts a transfer took from while a job held a copy
              \* that it would write back

jobs == <<pay, paySeen, move, held, moveSeen>>
ghosts == <<book, paid, moved, doubt, changed, straddled>>
vars == <<row, brought, accountless, level, jobs, bonus, faults, ghosts>>

Owners == Referees \cup {Referrer}
Row == [status : {"PENDING", "SUCCESS"}, referee : {"PENDING", "SUCCESS"}]
BonusAccount == [balance : Int, open : BOOLEAN]

\* Amounts are in units of five cedis.
Deposit == 1
Bonus(u) == IF u \in brought THEN 2 ELSE 1

\* The influencer's branch pays the referee from their own bonus account.
Owner(u) == IF u \in brought THEN u ELSE Referrer

TypeOK ==
    /\ row \in [Referees -> Row]
    /\ brought \subseteq Referees
    /\ accountless \subseteq Owners
    /\ level \in [Referees -> {"beginner", "verified"}]
    /\ pay \in [Runs \X Referees -> {"idle", "queued", "listed", "pay",
                                     "paid", "save"}]
    /\ paySeen \in [Runs \X Referees -> Row]
    /\ move \in [Referees -> {"idle", "queued", "listed", "read", "open", "check",
                              "move", "moved", "shut", "find", "save"}]
    /\ held \in [Referees -> BonusAccount]
    /\ moveSeen \in [Referees -> Row]
    /\ bonus \in [Owners -> BonusAccount]
    /\ faults \in 0 .. MaxFaults
    /\ book \in [Owners -> Int]
    /\ paid \in [Referees -> 0 .. 2]
    /\ moved \in [Referees -> 0 .. 2]
    /\ doubt \subseteq Referees
    /\ changed \subseteq Referees
    /\ straddled \subseteq Owners

NewRow == [status |-> "PENDING", referee |-> "PENDING"]
NoCopy == [balance |-> 0, open |-> FALSE]

Init ==
    /\ row = [u \in Referees |-> NewRow]
    /\ brought \in SUBSET Referees
    /\ accountless \in SUBSET Owners
    /\ level = [u \in Referees |-> "beginner"]
    /\ pay = [j \in Runs \X Referees |-> "idle"]
    /\ paySeen = [j \in Runs \X Referees |-> NewRow]
    /\ move = [u \in Referees |-> "idle"]
    /\ held = [u \in Referees |-> NoCopy]
    /\ moveSeen = [u \in Referees |-> NewRow]
    /\ book \in [Owners -> Openings]
    /\ bonus = [o \in Owners |-> [balance |-> book[o], open |-> FALSE]]
    /\ faults = 0
    /\ paid = [u \in Referees |-> 0]
    /\ moved = [u \in Referees |-> 0]
    /\ doubt = {} /\ changed = {} /\ straddled = {}

\* The identity of a referee is approved.
Verify(u) ==
    /\ level[u] = "beginner"
    /\ level' = [level EXCEPT ![u] = "verified"]
    /\ changed' = IF move[u] \notin {"idle", "queued"} \/ \E r \in Runs : pay[<<r, u>>] # "idle"
                  THEN changed \cup {u} ELSE changed
    /\ UNCHANGED <<row, brought, accountless, jobs, bonus, faults,
                   book, paid, moved, doubt, straddled>>

-----------------------------------------------------------------------------
\* The half-hourly cron.

Unpaid == {u \in Referees : row[u] = NewRow}

\* A run lists a referee another run is to pay.
Contested(listed) ==
    {u \in listed : \E s \in Runs : pay[<<s, u>>] # "idle"}

\* Mutant: the referee's own column is not asked for.
ListUnsettled(r) ==
    LET listed == {u \in Referees : row[u].status = "PENDING"} IN
    /\ listed # {}
    /\ \A u \in Referees : pay[<<r, u>>] = "idle"
    /\ pay' = [j \in Runs \X Referees |->
                  IF j[1] = r /\ j[2] \in listed THEN "queued" ELSE pay[j]]
    /\ doubt' = doubt \cup Contested(listed)
    /\ UNCHANGED <<row, brought, accountless, level, paySeen, move, held, moveSeen, bonus,
                   faults, book, paid, moved, changed, straddled>>

ListUnpaid(r) ==
    /\ Unpaid # {}
    /\ \A u \in Referees : pay[<<r, u>>] = "idle"
    /\ pay' = [j \in Runs \X Referees |->
                  IF j[1] = r /\ j[2] \in Unpaid THEN "queued" ELSE pay[j]]
    /\ doubt' = doubt \cup Contested(Unpaid)
    /\ UNCHANGED <<row, brought, accountless, level, paySeen, move, held, moveSeen, bonus,
                   faults, book, paid, moved, changed, straddled>>

\* Chunks of those who are listed, in the order the query happens to give.
Chunks(waiting, size) == kSubset(Min({size, Cardinality(waiting)}), waiting)

Queued(r) == {u \in Referees : pay[<<r, u>>] = "queued"}

NextChunk(r) ==
    /\ Queued(r) # {}
    /\ \A u \in Referees : pay[<<r, u>>] \in {"idle", "queued"}
    /\ \E chunk \in Chunks(Queued(r), PayChunk) :
          pay' = [j \in Runs \X Referees |->
                     IF j[1] = r /\ j[2] \in chunk THEN "listed" ELSE pay[j]]
    /\ UNCHANGED <<row, brought, accountless, level, paySeen, move, held, moveSeen,
                   bonus, faults, ghosts>>

\* Only a referee who is no beginner any more is paid.
CheckVerified(r, u) ==
    /\ pay[<<r, u>>] = "listed"
    /\ pay' = [pay EXCEPT ![<<r, u>>] =
                  IF level[u] = "verified" THEN "pay" ELSE "idle"]
    /\ UNCHANGED <<row, brought, accountless, level, paySeen, move, held, moveSeen, bonus,
                   faults, ghosts>>

More(n) == IF n = 2 THEN 2 ELSE n + 1

\* userAccountDeposit answers 00.
PayReferee(r, u) ==
    /\ pay[<<r, u>>] = "pay" /\ u \notin accountless
    /\ pay' = [pay EXCEPT ![<<r, u>>] = "paid"]
    /\ paid' = [paid EXCEPT ![u] = More(@)]
    /\ UNCHANGED <<row, brought, accountless, level, paySeen, move, held, moveSeen, bonus,
                   faults, book, moved, doubt, changed, straddled>>

\* Mutant: the answer is not looked at before the row is marked.
FailAndMark(r, u) ==
    /\ faults < MaxFaults
    /\ pay[<<r, u>>] = "pay"
    /\ pay' = [pay EXCEPT ![<<r, u>>] = "paid"]
    /\ faults' = faults + 1
    /\ UNCHANGED <<row, brought, accountless, level, paySeen, move, held, moveSeen, bonus,
                   ghosts>>

\* It answers something else, and the row stays as it is: refused, rolled
\* back, or committed with its answer lost.
FailToPay(r, u) ==
    /\ faults < MaxFaults
    /\ pay[<<r, u>>] = "pay"
    /\ pay' = [pay EXCEPT ![<<r, u>>] = "idle"]
    /\ \/ /\ paid' = [paid EXCEPT ![u] = More(@)]
          /\ doubt' = doubt \cup {u}
       \/ UNCHANGED <<paid, doubt>>
    /\ faults' = faults + 1
    /\ UNCHANGED <<row, brought, accountless, level, paySeen, move, held, moveSeen, bonus,
                   book, moved, changed, straddled>>

\* The job throws: the run starts no chunk more.
AbandonRun(r, u) ==
    pay' = [j \in Runs \X Referees |->
               IF j = <<r, u>> \/ (j[1] = r /\ pay[j] = "queued") THEN "idle"
               ELSE pay[j]]

\* primaryAccountofReferrer.id of null.
LackAccount(r, u) ==
    /\ pay[<<r, u>>] = "pay" /\ u \in accountless
    /\ AbandonRun(r, u)
    /\ UNCHANGED <<row, brought, accountless, level, paySeen, move, held, moveSeen,
                   bonus, faults, ghosts>>

FindPaidRow(r, u) ==
    /\ pay[<<r, u>>] = "paid"
    /\ pay' = [pay EXCEPT ![<<r, u>>] = "save"]
    /\ paySeen' = [paySeen EXCEPT ![<<r, u>>] = row[u]]
    /\ UNCHANGED <<row, brought, accountless, level, move, held, moveSeen, bonus, faults,
                   ghosts>>

\* The whole row is saved, its status as it was read.
RefereeMarked(r, u) ==
    [row EXCEPT ![u] = [status |-> paySeen[<<r, u>>].status, referee |-> "SUCCESS"]]

MarkReferee(r, u) ==
    /\ pay[<<r, u>>] = "save"
    /\ row' = RefereeMarked(r, u)
    /\ pay' = [pay EXCEPT ![<<r, u>>] = "idle"]
    /\ paySeen' = [paySeen EXCEPT ![<<r, u>>] = NewRow]
    /\ UNCHANGED <<brought, accountless, level, move, held, moveSeen, bonus, faults, ghosts>>

\* A query of the job is rejected; the last one perhaps after the save.
ThrowInPay(r, u) ==
    /\ faults < MaxFaults
    /\ pay[<<r, u>>] \notin {"idle", "queued"}
    /\ \/ /\ row' = row
          /\ doubt' = IF pay[<<r, u>>] \in {"paid", "save"} THEN doubt \cup {u}
                      ELSE doubt
       \/ /\ pay[<<r, u>>] = "save"
          /\ row' = RefereeMarked(r, u)
          /\ UNCHANGED doubt
    /\ AbandonRun(r, u)
    /\ paySeen' = [paySeen EXCEPT ![<<r, u>>] = NewRow]
    /\ faults' = faults + 1
    /\ UNCHANGED <<brought, accountless, level, move, held, moveSeen, bonus, book,
                   paid, moved, changed, straddled>>

-----------------------------------------------------------------------------
\* The daily cron.

Unsettled == {u \in Referees : row[u].status = "PENDING"}

ListPending ==
    /\ Unsettled # {}
    /\ \A u \in Referees : move[u] = "idle"
    /\ move' = [u \in Referees |-> IF u \in Unsettled THEN "queued" ELSE "idle"]
    /\ UNCHANGED <<row, brought, accountless, level, pay, paySeen, held, moveSeen, bonus,
                   faults, ghosts>>

Waiting == {u \in Referees : move[u] = "queued"}

NextMoveChunk ==
    /\ Waiting # {}
    /\ \A u \in Referees : move[u] \in {"idle", "queued"}
    /\ \E chunk \in Chunks(Waiting, MoveChunk) :
          move' = [u \in Referees |-> IF u \in chunk THEN "listed" ELSE move[u]]
    /\ UNCHANGED <<row, brought, accountless, level, pay, paySeen, held, moveSeen,
                   bonus, faults, ghosts>>

\* The job throws: the run starts no chunk more.
AbandonMove(u) ==
    move' = [v \in Referees |->
                IF v = u \/ move[v] = "queued" THEN "idle" ELSE move[v]]

\* Mutant: the level is not looked at.
CheckNothing(u) ==
    /\ move[u] = "listed"
    /\ move' = [move EXCEPT ![u] = "read"]
    /\ UNCHANGED <<row, brought, accountless, level, pay, paySeen, held, moveSeen, bonus,
                   faults, ghosts>>

CheckBeginner(u) ==
    /\ move[u] = "listed"
    /\ move' = [move EXCEPT ![u] =
                   IF level[u] = "beginner" THEN "read" ELSE "idle"]
    /\ UNCHANGED <<row, brought, accountless, level, pay, paySeen, held, moveSeen, bonus,
                   faults, ghosts>>

\* findOne of the bonus account, before the transfer and after it.
ReadBonus(u) ==
    /\ move[u] \in {"read", "moved"}
    /\ move' = [move EXCEPT ![u] = IF @ = "read" THEN "open" ELSE "shut"]
    /\ held' = [held EXCEPT ![u] = bonus[Owner(u)]]
    /\ UNCHANGED <<row, brought, accountless, level, pay, paySeen, moveSeen, bonus, faults,
                   ghosts>>

\* em.save of the account with its flag set: the balance that was read goes
\* back too.
WriteBack(u, open) ==
    bonus' = [bonus EXCEPT ![Owner(u)] = [balance |-> held[u].balance, open |-> open]]

OpenBonus(u) ==
    /\ move[u] = "open"
    /\ WriteBack(u, TRUE)
    /\ move' = [move EXCEPT ![u] = "check"]
    /\ UNCHANGED <<row, brought, accountless, level, pay, paySeen, held, moveSeen,
                   faults, ghosts>>

\* Too little on the account: the job ends and leaves it open.  It also does
\* where there is no primary account to move to, and throws.
CheckBonus(u) ==
    /\ move[u] = "check"
    /\ \/ /\ held[u].balance >= Bonus(u) /\ Owner(u) \notin accountless
          /\ move' = [move EXCEPT ![u] = "move"]
          /\ UNCHANGED held
       \/ /\ held[u].balance >= Bonus(u) /\ Owner(u) \in accountless
          /\ AbandonMove(u)
          /\ held' = [held EXCEPT ![u] = NoCopy]
       \/ /\ held[u].balance < Bonus(u)
          /\ move' = [move EXCEPT ![u] = "idle"]
          /\ held' = [held EXCEPT ![u] = NoCopy]
    /\ UNCHANGED <<row, brought, accountless, level, pay, paySeen, moveSeen, bonus, faults,
                   ghosts>>

\* Jobs about to write back the copy they hold of o's account.
CopyHolders(o) == {u \in Referees : Owner(u) = o /\ move[u] \in {"open", "shut"}}

Debit(u) ==
    /\ bonus' = [bonus EXCEPT ![Owner(u)] =
                    [balance |-> bonus[Owner(u)].balance - Bonus(u),
                     open |-> bonus[Owner(u)].open]]
    /\ book' = [book EXCEPT ![Owner(u)] = @ - Bonus(u)]
    /\ moved' = [moved EXCEPT ![u] = More(@)]
    /\ straddled' = IF CopyHolders(Owner(u)) = {} THEN straddled
                    ELSE straddled \cup {Owner(u)}

\* intraAccountTransferWithoutAuthorization; a refusal (the account was shut or
\* emptied by another job) throws out of the job.
MoveBonus(u) ==
    LET a == bonus[Owner(u)] IN
    /\ move[u] = "move"
    /\ IF a.open /\ a.balance >= Bonus(u)
       THEN /\ Debit(u)
            /\ move' = [move EXCEPT ![u] = "moved"]
       ELSE /\ AbandonMove(u)
            /\ UNCHANGED <<bonus, book, moved, straddled>>
    /\ held' = [held EXCEPT ![u] = NoCopy]
    /\ UNCHANGED <<row, brought, accountless, level, pay, paySeen, moveSeen, faults,
                   paid, doubt, changed>>

Settling(u) == move[u] \in {"moved", "shut", "find", "save"}

\* Mutant: the balance is taken from the first copy.
ShutBonusStale(u) ==
    /\ move[u] = "shut"
    /\ bonus' = [bonus EXCEPT ![Owner(u)] =
                    [balance |-> held[u].balance + Bonus(u), open |-> FALSE]]
    /\ move' = [move EXCEPT ![u] = "find"]
    /\ held' = [held EXCEPT ![u] = NoCopy]
    /\ UNCHANGED <<row, brought, accountless, level, pay, paySeen, moveSeen, faults, ghosts>>

ShutBonus(u) ==
    /\ move[u] = "shut"
    /\ WriteBack(u, FALSE)
    /\ move' = [move EXCEPT ![u] = "find"]
    /\ held' = [held EXCEPT ![u] = NoCopy]
    /\ UNCHANGED <<row, brought, accountless, level, pay, paySeen, moveSeen, faults,
                   ghosts>>

FindMovedRow(u) ==
    /\ move[u] = "find"
    /\ move' = [move EXCEPT ![u] = "save"]
    /\ moveSeen' = [moveSeen EXCEPT ![u] = row[u]]
    /\ UNCHANGED <<row, brought, accountless, level, pay, paySeen, held, bonus, faults,
                   ghosts>>

\* The whole row is saved, the referee's column as it was read.
ReferrerMarked(u) ==
    [row EXCEPT ![u] = [status |-> "SUCCESS", referee |-> moveSeen[u].referee]]

MarkReferrer(u) ==
    /\ move[u] = "save"
    /\ row' = ReferrerMarked(u)
    /\ move' = [move EXCEPT ![u] = "idle"]
    /\ moveSeen' = [moveSeen EXCEPT ![u] = NewRow]
    /\ UNCHANGED <<brought, accountless, level, pay, paySeen, held, bonus, faults, ghosts>>

\* A query of the job is rejected, or the transfer answers 99; the last query
\* perhaps after the save, the transfer perhaps after it was committed.
FailToMove(u) ==
    /\ faults < MaxFaults
    /\ move[u] \notin {"idle", "queued"}
    /\ \/ /\ move[u] = "move"
          /\ bonus[Owner(u)].open /\ bonus[Owner(u)].balance >= Bonus(u)
          /\ Debit(u)
          /\ doubt' = doubt \cup {u}
          /\ UNCHANGED row
       \/ /\ move[u] = "save"
          /\ row' = ReferrerMarked(u)
          /\ UNCHANGED <<bonus, book, moved, doubt, straddled>>
       \/ /\ doubt' = IF Settling(u) THEN doubt \cup {u} ELSE doubt
          /\ UNCHANGED <<row, bonus, book, moved, straddled>>
    /\ AbandonMove(u)
    /\ held' = [held EXCEPT ![u] = NoCopy]
    /\ moveSeen' = [moveSeen EXCEPT ![u] = NewRow]
    /\ faults' = faults + 1
    /\ UNCHANGED <<brought, accountless, level, pay, paySeen, paid, changed>>

\* The cron process dies with all its jobs.
Crash ==
    /\ faults < MaxFaults
    /\ \/ \E u \in Referees : move[u] # "idle"
       \/ \E j \in Runs \X Referees : pay[j] # "idle"
    /\ doubt' = doubt
           \cup {u \in Referees : Settling(u)}
           \cup {u \in Referees : \E r \in Runs : pay[<<r, u>>] \in {"paid", "save"}}
    /\ pay' = [j \in Runs \X Referees |-> "idle"]
    /\ paySeen' = [j \in Runs \X Referees |-> NewRow]
    /\ move' = [u \in Referees |-> "idle"]
    /\ held' = [u \in Referees |-> NoCopy]
    /\ moveSeen' = [u \in Referees |-> NewRow]
    /\ faults' = faults + 1
    /\ UNCHANGED <<row, brought, accountless, level, bonus, book, paid, moved, changed,
                   straddled>>

PayStep(r, u) ==
    \/ CheckVerified(r, u)
    \/ PayReferee(r, u)
    \/ LackAccount(r, u)
    \/ FindPaidRow(r, u)
    \/ MarkReferee(r, u)

MoveStep(u) ==
    \/ CheckBeginner(u)
    \/ ReadBonus(u)
    \/ OpenBonus(u)
    \/ CheckBonus(u)
    \/ MoveBonus(u)
    \/ ShutBonus(u)
    \/ FindMovedRow(u)
    \/ MarkReferrer(u)

Next ==
    \/ \E u \in Referees : Verify(u)
    \/ \E r \in Runs : ListUnpaid(r) \/ NextChunk(r)
    \/ \E r \in Runs, u \in Referees :
          PayStep(r, u) \/ FailToPay(r, u) \/ ThrowInPay(r, u)
    \/ ListPending \/ NextMoveChunk
    \/ \E u \in Referees : MoveStep(u) \/ FailToMove(u)
    \/ Crash

Spec == Init /\ [][Next]_vars

\* The half-hourly cron ticks for ever, and a run of it goes on.
FairSpec ==
    /\ Spec
    /\ WF_vars(\E r \in Runs : ListUnpaid(r))
    /\ \A r \in Runs : WF_vars(NextChunk(r))
    /\ \A r \in Runs, u \in Referees : WF_vars(PayStep(r, u))

-----------------------------------------------------------------------------
\* Neither half of a cashback is paid twice, although rows are marked after
\* the money has moved and each cron overwrites the column of the other: it
\* takes two runs on one row, a lost answer or a dead process.
PaidOnce ==
    \A u \in Referees : paid[u] > 1 \/ moved[u] > 1 => u \in doubt

\* The referrer's half is for beginners, the referee's for verified users, and
\* one column of the row closes the other half: both are paid only if the
\* referee is verified while a job has the row, or a paid row was not marked.
OneHalfIsPaid ==
    \A u \in Referees : paid[u] > 0 /\ moved[u] > 0 => u \in changed \cup doubt

\* A bonus account holds what transfers have left on it, although every job
\* saves it twice with a balance it has read: the save that shuts the account
\* has to be of a copy read after the job's own transfer.  Another job's
\* transfer may come between such a read and its save.
BonusBookKept ==
    \A o \in Owners : o \in straddled \/ bonus[o].balance = book[o]

\* A verified referee is paid in the end, whatever fails and dies on the way,
\* unless the daily cron settles the row first, or a verified referee has no
\* primary account: every run that comes to them ends there.
Stuck == {u \in accountless \cap Referees : level[u] = "verified"}

VerifiedIsPaid ==
    \A u \in Referees :
        level[u] = "verified" ~>
            paid[u] > 0 \/ row[u].status = "SUCCESS" \/ Stuck # {}

=============================================================================
