-------------------------- MODULE Accounts_proofs --------------------------
(***************************************************************************)
(* Proofs about five machines around a user's account: the cashback for    *)
(* who brought the user (Cashback), the totals of the accounts (Rim),      *)
(* signing up (SignUp), the payment methods (PaymentMethods) and the       *)
(* password (SignIn).  They share no state, so each has a specification    *)
(* and an inductive invariant of its own.                                  *)
(***************************************************************************)
EXTENDS Cashback, Rim, SignUp, PaymentMethods, SignIn, FiniteSetTheorems, TLAPS

-----------------------------------------------------------------------------
(***************************************************************************)
(* The referral cashback, for any referees, overlapping runs, opening      *)
(* balances and faults.                                                    *)
(***************************************************************************)
Jobs == Runs \X Referees

LEMMA JobIs == \A r \in Runs, u \in Referees :
    <<r, u>> \in Jobs /\ <<r, u>>[1] = r /\ <<r, u>>[2] = u
BY DEF Jobs

LEMMA Copies ==
    /\ NewRow \in Row /\ NoCopy \in BonusAccount
    /\ \A o \in Referees : Owner(o) \in Owners /\ Bonus(o) \in {1, 2}
    /\ \A n \in 0 .. 2 : More(n) \in 0 .. 2
BY DEF NewRow, Row, NoCopy, BonusAccount, Owner, Owners, Bonus, More

LEMMA InitTypes == Init => TypeOK
<1> SUFFICES ASSUME Init PROVE TypeOK
  OBVIOUS
<1>1. book \in [Owners -> Int]
  <2>1. book \in [Owners -> Openings] /\ Openings \subseteq Int
    BY CashbackAssumption DEF Init
  <2> QED
    BY <2>1
<1>2. \A o \in Owners : [balance |-> book[o], open |-> FALSE] \in BonusAccount
  BY <1>1 DEF BonusAccount
<1>3. bonus \in [Owners -> BonusAccount]
  BY <1>2 DEF Init
<1> QED
  BY <1>1, <1>3, Copies, CashbackAssumption DEF Init, TypeOK

\* Every step keeps the types.
LEMMA TypeStep == TypeOK /\ [Next]_vars => TypeOK'
<1> SUFFICES ASSUME TypeOK, [Next]_vars PROVE TypeOK'
  OBVIOUS
<1> USE CashbackAssumption, Copies DEF TypeOK, jobs, ghosts
<1>w. ASSUME NEW u \in Referees, NEW open \in BOOLEAN, WriteBack(u, open)
      PROVE  bonus' \in [Owners -> BonusAccount]
  BY <1>w DEF WriteBack, BonusAccount
<1>a. ASSUME NEW r \in Runs, NEW u \in Referees, AbandonRun(r, u)
      PROVE  pay' \in [Runs \X Referees -> {"idle", "queued", "listed", "pay", "paid", "save"}]
  BY <1>a DEF AbandonRun
<1>b. ASSUME NEW u \in Referees, AbandonMove(u)
      PROVE  move' \in [Referees -> {"idle", "queued", "listed", "read", "open", "check",
                                     "move", "moved", "shut", "find", "save"}]
  BY <1>b DEF AbandonMove
<1>r. ASSUME NEW r \in Runs, NEW u \in Referees
      PROVE  RefereeMarked(r, u) \in [Referees -> Row]
  BY JobIs DEF RefereeMarked, Row, Jobs
<1>s. ASSUME NEW u \in Referees PROVE ReferrerMarked(u) \in [Referees -> Row]
  BY DEF ReferrerMarked, Row
<1>d. ASSUME NEW u \in Referees, Debit(u)
      PROVE  /\ bonus' \in [Owners -> BonusAccount] /\ book' \in [Owners -> Int]
             /\ moved' \in [Referees -> 0 .. 2] /\ straddled' \subseteq Owners
  <2>1. Owner(u) \in Owners /\ Bonus(u) \in Int /\ bonus[Owner(u)] \in BonusAccount
    OBVIOUS
  <2>2. [balance |-> bonus[Owner(u)].balance - Bonus(u), open |-> bonus[Owner(u)].open]
            \in BonusAccount
    BY <2>1 DEF BonusAccount
  <2>3. bonus' \in [Owners -> BonusAccount]
    BY <1>d, <2>2 DEF Debit
  <2>4. book' \in [Owners -> Int]
    BY <1>d, <2>1 DEF Debit
  <2>5. moved' \in [Referees -> 0 .. 2] /\ straddled' \subseteq Owners
    BY <1>d, <2>1 DEF Debit
  <2> QED
    BY <2>3, <2>4, <2>5
<1>1. ASSUME NEW u \in Referees, Verify(u) PROVE TypeOK'
  BY <1>1 DEF Verify
<1>2. ASSUME NEW r \in Runs, ListUnpaid(r) PROVE TypeOK'
  BY <1>2 DEF ListUnpaid, Contested, Unpaid
<1>3. ASSUME NEW r \in Runs, NEW u \in Referees, CheckVerified(r, u) PROVE TypeOK'
  BY <1>3, JobIs DEF CheckVerified, Jobs
<1>4. ASSUME NEW r \in Runs, NEW u \in Referees, PayReferee(r, u) PROVE TypeOK'
  BY <1>4, JobIs DEF PayReferee, Jobs
<1>5. ASSUME NEW r \in Runs, NEW u \in Referees, FailToPay(r, u) PROVE TypeOK'
  BY <1>5, JobIs DEF FailToPay, Jobs, More
<1>6. ASSUME NEW r \in Runs, NEW u \in Referees, FindPaidRow(r, u) PROVE TypeOK'
  BY <1>6, JobIs DEF FindPaidRow, Jobs
<1>7. ASSUME NEW r \in Runs, NEW u \in Referees, MarkReferee(r, u) PROVE TypeOK'
  BY <1>7, <1>r, JobIs DEF MarkReferee, Jobs
<1>20. ASSUME NEW r \in Runs, NextChunk(r) PROVE TypeOK'
  BY <1>20 DEF NextChunk
<1>21. ASSUME NEW r \in Runs, NEW u \in Referees, LackAccount(r, u) PROVE TypeOK'
  BY <1>21, <1>a DEF LackAccount
<1>22. ASSUME NEW r \in Runs, NEW u \in Referees, ThrowInPay(r, u) PROVE TypeOK'
  <2>1. row' \in [Referees -> Row] /\ doubt' \subseteq Referees
    BY <1>22, <1>r DEF ThrowInPay
  <2>2. pay' \in [Runs \X Referees -> {"idle", "queued", "listed", "pay", "paid", "save"}]
    BY <1>22, <1>a DEF ThrowInPay
  <2>3. paySeen' \in [Runs \X Referees -> Row] /\ faults' \in 0 .. MaxFaults
    BY <1>22 DEF ThrowInPay
  <2> QED
    BY <1>22, <2>1, <2>2, <2>3 DEF ThrowInPay
<1>23. CASE NextMoveChunk
  BY <1>23 DEF NextMoveChunk
<1>8. CASE ListPending
  BY <1>8 DEF ListPending
<1>9. ASSUME NEW u \in Referees, CheckBeginner(u) PROVE TypeOK'
  BY <1>9 DEF CheckBeginner
<1>10. ASSUME NEW u \in Referees, ReadBonus(u) PROVE TypeOK'
  BY <1>10 DEF ReadBonus
<1>11. ASSUME NEW u \in Referees, OpenBonus(u) PROVE TypeOK'
  BY <1>11, <1>w DEF OpenBonus
<1>12. ASSUME NEW u \in Referees, CheckBonus(u) PROVE TypeOK'
  BY <1>12, <1>b DEF CheckBonus
<1>13. ASSUME NEW u \in Referees, MoveBonus(u) PROVE TypeOK'
  BY <1>13, <1>b, <1>d DEF MoveBonus
<1>14. ASSUME NEW u \in Referees, FailToMove(u) PROVE TypeOK'
  <2>1. /\ bonus' \in [Owners -> BonusAccount] /\ book' \in [Owners -> Int]
        /\ moved' \in [Referees -> 0 .. 2] /\ straddled' \subseteq Owners
        /\ row' \in [Referees -> Row] /\ doubt' \subseteq Referees
    BY <1>14, <1>d, <1>s DEF FailToMove
  <2>2. move' \in [Referees -> {"idle", "queued", "listed", "read", "open", "check",
                                "move", "moved", "shut", "find", "save"}]
    BY <1>14, <1>b DEF FailToMove
  <2>3. /\ held' \in [Referees -> BonusAccount] /\ moveSeen' \in [Referees -> Row]
        /\ faults' \in 0 .. MaxFaults
    BY <1>14 DEF FailToMove
  <2> QED
    BY <1>14, <2>1, <2>2, <2>3 DEF FailToMove
<1>15. ASSUME NEW u \in Referees, ShutBonus(u) PROVE TypeOK'
  BY <1>15, <1>w DEF ShutBonus
<1>16. ASSUME NEW u \in Referees, FindMovedRow(u) PROVE TypeOK'
  BY <1>16 DEF FindMovedRow
<1>17. ASSUME NEW u \in Referees, MarkReferrer(u) PROVE TypeOK'
  BY <1>17, <1>s DEF MarkReferrer
<1>18. CASE Crash
  BY <1>18 DEF Crash
<1>19. CASE UNCHANGED vars
  BY <1>19 DEF vars
<1> QED
  BY <1>1, <1>2, <1>3, <1>4, <1>5, <1>6, <1>7, <1>8, <1>9, <1>10, <1>11, <1>12,
     <1>13, <1>14, <1>15, <1>16, <1>17, <1>18, <1>19, <1>20, <1>21, <1>22, <1>23
     DEF Next, PayStep, MoveStep

\* Every variable keeps its type.
THEOREM TypeCorrect == Spec => []TypeOK
BY InitTypes, TypeStep, PTL DEF Spec

\* A copy about to be written back is the balance itself, on an account no
\* transfer took from while such a copy was held.
Current(o) == \A u \in CopyHolders(o) : held[u].balance = book[o]

\* A bonus account holds what its transfers left, unless one of them came between
\* another job's read of the account and its save.
THEOREM BonusIsBook == Spec => []BonusBookKept
<1> DEFINE Inv == /\ TypeOK /\ BonusBookKept
                  /\ \A o \in Owners : o \in straddled \/ Current(o)
<1>1. Init => Inv
  BY InitTypes DEF Init, BonusBookKept, Current, CopyHolders
<1>2. Inv /\ [Next]_vars => Inv'
  <2> SUFFICES ASSUME Inv, [Next]_vars, NEW o \in Owners, o \notin straddled'
               PROVE  bonus'[o].balance = book'[o] /\ Current(o)'
    BY TypeStep DEF BonusBookKept
  <2> DEFINE Goal == bonus'[o].balance = book'[o] /\ Current(o)'
  <2>t. /\ move \in [Referees -> {"idle", "queued", "listed", "read", "open", "check",
                                  "move", "moved", "shut", "find", "save"}]
        /\ held \in [Referees -> BonusAccount] /\ bonus \in [Owners -> BonusAccount]
        /\ book \in [Owners -> Int] /\ TypeOK
        /\ \A u \in Referees : Owner(u) \in Owners /\ Bonus(u) \in Int
    BY Copies DEF TypeOK
  <2>i. o \notin straddled => bonus[o].balance = book[o] /\ Current(o)
    BY DEF BonusBookKept
  <2>b. brought' = brought
    BY DEF Next, Verify, ListUnpaid, NextChunk, PayStep, CheckVerified, PayReferee,
           LackAccount, FindPaidRow, MarkReferee, FailToPay, ThrowInPay, ListPending,
           NextMoveChunk, MoveStep, CheckBeginner, ReadBonus, OpenBonus, CheckBonus,
           MoveBonus, ShutBonus, FindMovedRow, MarkReferrer, FailToMove, Crash, vars
  <2>o. ASSUME NEW u PROVE Owner(u)' = Owner(u)
    BY <2>b DEF Owner
  \* Nothing moves, and no job holds a copy it did not.
  <2>q. ASSUME UNCHANGED <<bonus, book, straddled>>,
               \A u \in Referees :
                  move'[u] \in {"open", "shut"} => move'[u] = move[u] /\ held'[u] = held[u]
        PROVE  Goal
    BY <2>i, <2>o, <2>q DEF Current, CopyHolders
  <2>1. ASSUME NEW u \in Referees, Verify(u) \/ FindMovedRow(u) \/ MarkReferrer(u)
                                   \/ CheckBeginner(u) \/ CheckBonus(u)
        PROVE  Goal
    <3>1. UNCHANGED <<bonus, book, straddled>>
      BY <2>1 DEF Verify, CheckBeginner, CheckBonus, FindMovedRow, MarkReferrer, ghosts
    <3>2. \A v \in Referees :
             move'[v] \in {"open", "shut"} => move'[v] = move[v] /\ held'[v] = held[v]
      BY <2>1, <2>t DEF Verify, CheckBeginner, CheckBonus, AbandonMove, FindMovedRow,
                        MarkReferrer, jobs
    <3> QED
      BY <3>1, <3>2, <2>q
  <2>2. ASSUME NEW r \in Runs, ListUnpaid(r) \/ NextChunk(r) PROVE Goal
    BY <2>2, <2>q DEF ListUnpaid, NextChunk, ghosts
  <2>3. ASSUME NEW r \in Runs, NEW u \in Referees,
               PayStep(r, u) \/ FailToPay(r, u) \/ ThrowInPay(r, u)
        PROVE  Goal
    BY <2>3, <2>q DEF PayStep, CheckVerified, PayReferee, LackAccount, FindPaidRow,
                      MarkReferee, FailToPay, ThrowInPay, ghosts
  <2>4. CASE ListPending \/ NextMoveChunk \/ Crash \/ UNCHANGED vars
    <3>1. UNCHANGED <<bonus, book, straddled>>
      BY <2>4 DEF ListPending, NextMoveChunk, Crash, vars, ghosts
    <3>2. \A v \in Referees :
             move'[v] \in {"open", "shut"} => move'[v] = move[v] /\ held'[v] = held[v]
      BY <2>4, <2>t DEF ListPending, NextMoveChunk, Crash, vars, jobs
    <3> QED
      BY <3>1, <3>2, <2>q
  <2>5. ASSUME NEW u \in Referees, ReadBonus(u) PROVE Goal
    <3>1. /\ UNCHANGED <<bonus, book, straddled>> /\ held' = [held EXCEPT ![u] = bonus[Owner(u)]]
          /\ \A v \in Referees \ {u} : move'[v] = move[v]
      BY <2>5, <2>t DEF ReadBonus, ghosts
    <3> QED
      BY <3>1, <2>i, <2>o, <2>t DEF Current, CopyHolders
  \* The copy that is written back is the balance.
  <2>6. ASSUME NEW u \in Referees, OpenBonus(u) \/ ShutBonus(u) PROVE Goal
    <3>1. /\ UNCHANGED <<book, straddled>> /\ move[u] \in {"open", "shut"}
          /\ \E open \in BOOLEAN : WriteBack(u, open)
          /\ \A v \in Referees \ {u} : move'[v] = move[v] /\ held'[v] = held[v]
          /\ move'[u] \notin {"open", "shut"}
      BY <2>6, <2>t DEF OpenBonus, ShutBonus, ghosts
    <3>2. Current(o)'
      BY <3>1, <2>i, <2>o DEF Current, CopyHolders
    <3>3. CASE Owner(u) # o
      <4>1. bonus'[o] = bonus[o]
        BY <3>1, <3>3, <2>t DEF WriteBack
      <4> QED
        BY <4>1, <3>1, <3>2, <2>i
    <3>4. CASE Owner(u) = o
      <4>1. bonus'[o].balance = held[u].balance
        BY <3>1, <3>4, <2>t DEF WriteBack
      <4>2. held[u].balance = book[o]
        BY <3>1, <3>4, <2>i DEF Current, CopyHolders
      <4> QED
        BY <4>1, <4>2, <3>1, <3>2
    <3> QED
      BY <3>3, <3>4
  <2>7. ASSUME NEW u \in Referees, MoveBonus(u) \/ FailToMove(u) PROVE Goal
    <3>1. \A v \in Referees :
             move'[v] \in {"open", "shut"} => move'[v] = move[v] /\ held'[v] = held[v]
      BY <2>7, <2>t DEF MoveBonus, FailToMove, AbandonMove
    <3>2. CASE UNCHANGED <<bonus, book, straddled>>
      BY <3>1, <3>2, <2>q
    <3>3. CASE Debit(u)
      <4>1. CASE Owner(u) # o
        <5>1. bonus'[o] = bonus[o] /\ book'[o] = book[o] /\ o \notin straddled
          BY <3>3, <4>1, <2>t DEF Debit
        <5> QED
          BY <5>1, <3>1, <2>i, <2>o DEF Current, CopyHolders
      <4>2. CASE Owner(u) = o
        <5>1. CopyHolders(o) = {} /\ o \notin straddled
          BY <3>3, <4>2 DEF Debit
        <5>2. CopyHolders(o)' = {}
          BY <5>1, <3>1, <2>o DEF CopyHolders
        <5>3. /\ bonus'[o].balance = bonus[o].balance - Bonus(u)
              /\ book'[o] = book[o] - Bonus(u)
          BY <3>3, <4>2, <2>t DEF Debit
        <5> QED
          BY <5>1, <5>2, <5>3, <2>i DEF Current
      <4> QED
        BY <4>1, <4>2
    <3> QED
      BY <2>7, <3>2, <3>3 DEF MoveBonus, FailToMove
  <2> QED
    BY <2>1, <2>2, <2>3, <2>4, <2>5, <2>6, <2>7 DEF Next, MoveStep
<1>3. Inv => BonusBookKept
  OBVIOUS
<1> QED
  BY <1>1, <1>2, <1>3, PTL DEF Spec

-----------------------------------------------------------------------------
(***************************************************************************)
(* The inductive invariant, of a referee no two runs were busy with and    *)
(* whose payments were all marked: who is paid has a row that is closed or *)
(* a job about to close it, and no other job that could pay again.  The    *)
(* crons overwrite each other's column, but a mark always leaves one of    *)
(* the two closed.                                                         *)
(***************************************************************************)
Paying(r, u) == pay[<<r, u>>] \in {"paid", "save"}

\* Whatever happens, only verified referees are paid.
Verified(u) ==
    level[u] = "beginner" =>
        paid[u] = 0 /\ \A r \in Runs : pay[<<r, u>>] \in {"idle", "queued", "listed"}

RefereeHalf(u) ==
    u \notin doubt =>
        /\ paid[u] <= 1
        /\ \A r, s \in Runs :
              pay[<<r, u>>] # "idle" /\ pay[<<s, u>>] # "idle" => r = s
        /\ \A r \in Runs : pay[<<r, u>>] \in {"queued", "listed", "pay"} => paid[u] = 0
        /\ paid[u] > 0 /\ row[u] = NewRow => \E r \in Runs : Paying(r, u)

ReferrerHalf(u) ==
    u \notin doubt =>
        /\ moved[u] <= 1
        /\ move[u] \in {"read", "open", "check", "move"} => moved[u] = 0
        /\ level[u] = "beginner" /\ moved[u] > 0 =>
              /\ move[u] \notin {"queued", "listed"}
              /\ row[u].status = "SUCCESS" \/ Settling(u)

OneHalf(u) ==
    u \notin changed \cup doubt =>
        /\ move[u] \notin {"idle", "queued", "listed"} => level[u] = "beginner"
        /\ level[u] = "verified" /\ moved[u] > 0 =>
              /\ row[u].status = "SUCCESS" /\ paid[u] = 0 /\ move[u] = "idle"
              /\ \A r \in Runs : pay[<<r, u>>] = "idle"

RefereeInv(u) == Verified(u) /\ RefereeHalf(u) /\ ReferrerHalf(u) /\ OneHalf(u)

IInv == TypeOK /\ \A u \in Referees : RefereeInv(u)

LEMMA InitIInv == Init => IInv
<1> SUFFICES ASSUME Init PROVE IInv
  OBVIOUS
<1>1. ASSUME NEW u \in Referees PROVE RefereeInv(u)
  BY JobIs
     DEF Init, RefereeInv, Verified, RefereeHalf, ReferrerHalf, OneHalf, Jobs
<1> QED
  BY <1>1, InitTypes DEF IInv

\* A referee a step leaves alone, or at most drops from the lists of runs.
LEMMA Frame ==
    ASSUME NEW u \in Referees, RefereeInv(u),
           row'[u] = row[u], level'[u] = level[u],
           paid'[u] = paid[u], moved'[u] = moved[u],
           \/ move'[u] = move[u]
           \/ move[u] = "queued" /\ move'[u] = "idle",
           \A r \in Runs : \/ pay'[<<r, u>>] = pay[<<r, u>>]
                           \/ pay[<<r, u>>] = "queued" /\ pay'[<<r, u>>] = "idle",
           u \in doubt => u \in doubt', u \in changed => u \in changed'
    PROVE  RefereeInv(u)'
<1>1. Verified(u)'
  BY DEF RefereeInv, Verified
<1>2. RefereeHalf(u)'
  BY DEF RefereeInv, RefereeHalf, Paying
<1>3. ReferrerHalf(u)'
  BY DEF RefereeInv, ReferrerHalf, Settling
<1>4. OneHalf(u)'
  BY DEF RefereeInv, OneHalf
<1> QED
  BY <1>1, <1>2, <1>3, <1>4 DEF RefereeInv

\* The half-hourly cron keeps the invariant of every referee.
LEMMA PayInvStep ==
    ASSUME IInv, NEW r \in Runs, NEW v \in Referees,
           PayStep(r, v) \/ FailToPay(r, v) \/ ThrowInPay(r, v), NEW u \in Referees
    PROVE  RefereeInv(u)'
<1>t. TypeOK /\ Verified(u) /\ RefereeHalf(u) /\ ReferrerHalf(u) /\ OneHalf(u)
  BY DEF IInv, RefereeInv
<1>p. /\ pay \in [Jobs -> {"idle", "queued", "listed", "pay", "paid", "save"}]
      /\ level[u] \in {"beginner", "verified"}
      /\ row \in [Referees -> Row] /\ paid \in [Referees -> 0 .. 2]
  BY <1>t DEF TypeOK, Jobs
<1>a. ASSUME AbandonRun(r, v), NEW s \in Runs
      PROVE  /\ s # r => pay'[<<s, u>>] = pay[<<s, u>>]
             /\ s = r /\ u = v => pay'[<<s, u>>] = "idle"
             /\ u # v => \/ pay'[<<s, u>>] = pay[<<s, u>>]
                         \/ pay[<<s, u>>] = "queued" /\ pay'[<<s, u>>] = "idle"
  BY <1>a, JobIs DEF AbandonRun, Jobs
<1>w. UNCHANGED <<move, level, moved, changed>> /\ doubt \subseteq doubt'
  BY DEF PayStep, CheckVerified, PayReferee, LackAccount, FindPaidRow, MarkReferee,
         FailToPay, ThrowInPay, ghosts
<1>o. \A s \in Runs : s # r => pay'[<<s, u>>] = pay[<<s, u>>]
  BY <1>a, <1>p, JobIs
     DEF PayStep, CheckVerified, PayReferee, LackAccount, FindPaidRow, MarkReferee,
         FailToPay, ThrowInPay
<1>1. CASE u # v
  <2>1. row'[u] = row[u] /\ paid'[u] = paid[u]
    BY <1>1, <1>p DEF PayStep, CheckVerified, PayReferee, LackAccount, FindPaidRow,
                      MarkReferee, RefereeMarked, FailToPay, ThrowInPay, ghosts
  <2>2. \A s \in Runs : \/ pay'[<<s, u>>] = pay[<<s, u>>]
                        \/ pay[<<s, u>>] = "queued" /\ pay'[<<s, u>>] = "idle"
    BY <1>1, <1>a, <1>p, JobIs
       DEF PayStep, CheckVerified, PayReferee, LackAccount, FindPaidRow, MarkReferee,
           FailToPay, ThrowInPay
  <2>3. u \in doubt => u \in doubt'
    BY <1>w
  <2> QED
    BY <1>w, <1>t, <2>1, <2>2, <2>3, Frame DEF RefereeInv
<1>2. CASE u = v
  <2>o. \A s \in Runs \ {r} : pay'[<<s, u>>] = pay[<<s, u>>]
    BY <1>o
  <2>n. <<r, u>> \in Jobs
    BY JobIs
  <2>1. CASE CheckVerified(r, u)
    <3>1. /\ UNCHANGED <<row, paid, doubt>> /\ pay[<<r, u>>] = "listed"
          /\ pay'[<<r, u>>] = IF level[u] = "verified" THEN "pay" ELSE "idle"
      BY <2>1, <2>n, <1>p DEF CheckVerified, ghosts
    <3>2. Verified(u)'
      BY <3>1, <1>w, <2>o, <1>t DEF Verified
    <3>3. RefereeHalf(u)'
      BY <3>1, <1>w, <2>o, <1>t DEF RefereeHalf, Paying
    <3>4. ReferrerHalf(u)'
      BY <3>1, <1>w, <1>t DEF ReferrerHalf, Settling
    <3>5. OneHalf(u)'
      BY <3>1, <1>w, <2>o, <1>t DEF OneHalf
    <3> QED
      BY <3>2, <3>3, <3>4, <3>5 DEF RefereeInv
  <2>2. CASE PayReferee(r, u)
    <3>1. /\ UNCHANGED <<row, doubt>> /\ pay[<<r, u>>] = "pay"
          /\ pay'[<<r, u>>] = "paid" /\ paid'[u] = More(paid[u])
      BY <2>2, <2>n, <1>p DEF PayReferee
    <3>2. Verified(u)'
      BY <3>1, <1>w, <2>o, <1>t DEF Verified
    <3>3. RefereeHalf(u)'
      BY <3>1, <1>w, <2>o, <1>t DEF RefereeHalf, Paying, More
    <3>4. ReferrerHalf(u)'
      BY <3>1, <1>w, <1>t DEF ReferrerHalf, Settling
    <3>5. OneHalf(u)'
      BY <3>1, <1>w, <2>o, <1>t DEF OneHalf
    <3> QED
      BY <3>2, <3>3, <3>4, <3>5 DEF RefereeInv
  <2>3. CASE FindPaidRow(r, u)
    <3>1. /\ UNCHANGED <<row, paid, doubt>> /\ pay[<<r, u>>] = "paid"
          /\ pay'[<<r, u>>] = "save"
      BY <2>3, <2>n, <1>p DEF FindPaidRow, ghosts
    <3>2. Verified(u)'
      BY <3>1, <1>w, <2>o, <1>t DEF Verified
    <3>3. RefereeHalf(u)'
      BY <3>1, <1>w, <2>o, <1>t DEF RefereeHalf, Paying
    <3>4. ReferrerHalf(u)'
      BY <3>1, <1>w, <1>t DEF ReferrerHalf, Settling
    <3>5. OneHalf(u)'
      BY <3>1, <1>w, <2>o, <1>t DEF OneHalf
    <3> QED
      BY <3>2, <3>3, <3>4, <3>5 DEF RefereeInv
  <2>4. CASE MarkReferee(r, u)
    <3>1. /\ UNCHANGED <<paid, doubt>> /\ pay[<<r, u>>] = "save"
          /\ pay'[<<r, u>>] = "idle" /\ row'[u].referee = "SUCCESS"
      BY <2>4, <2>n, <1>p DEF MarkReferee, RefereeMarked, ghosts
    <3>2. row'[u] # NewRow
      BY <3>1 DEF NewRow
    <3>3. level[u] = "verified"
      BY <3>1, <1>t, <1>p DEF Verified
    <3>4. Verified(u)'
      BY <3>3, <1>w DEF Verified
    <3>5. RefereeHalf(u)'
      BY <3>1, <3>2, <1>w, <2>o, <1>t DEF RefereeHalf
    <3>6. ReferrerHalf(u)'
      BY <3>1, <3>3, <1>w, <1>t DEF ReferrerHalf
    <3>7. OneHalf(u)'
      BY <3>1, <3>3, <1>w, <1>t DEF OneHalf
    <3> QED
      BY <3>4, <3>5, <3>6, <3>7 DEF RefereeInv
  <2>5. CASE FailToPay(r, u)
    <3>1. /\ row' = row /\ pay[<<r, u>>] = "pay" /\ pay'[<<r, u>>] = "idle"
          /\ paid'[u] = paid[u] \/ u \in doubt'
      BY <2>5, <2>n, <1>p DEF FailToPay
    <3>2. Verified(u)'
      BY <3>1, <1>w, <1>t DEF Verified
    <3>3. RefereeHalf(u)'
      BY <3>1, <1>w, <2>o, <1>t DEF RefereeHalf, Paying
    <3>4. ReferrerHalf(u)'
      BY <3>1, <1>w, <1>t DEF ReferrerHalf, Settling
    <3>5. OneHalf(u)'
      BY <3>1, <1>w, <2>o, <1>t DEF OneHalf
    <3> QED
      BY <3>2, <3>3, <3>4, <3>5 DEF RefereeInv
  \* A job that throws: what it has paid is marked, or in doubt.
  <2>6. CASE LackAccount(r, u) \/ ThrowInPay(r, u)
    <3>1. /\ pay[<<r, u>>] \notin {"idle", "queued"} /\ pay'[<<r, u>>] = "idle"
          /\ paid'[u] = paid[u]
          /\ \/ row'[u] = row[u] /\ (u \notin doubt' => ~Paying(r, u))
             \/ row'[u].referee = "SUCCESS" /\ pay[<<r, u>>] = "save"
      <4>1. CASE LackAccount(r, u)
        BY <4>1, <1>2, <1>a DEF LackAccount, ghosts, Paying
      <4>2. CASE ThrowInPay(r, u)
        BY <4>2, <1>2, <1>a, <1>p DEF ThrowInPay, RefereeMarked, Paying
      <4> QED
        BY <2>6, <4>1, <4>2
    <3>2. row'[u] # row[u] => row'[u] # NewRow
      BY <3>1 DEF NewRow
    <3>3. row'[u] # row[u] => level[u] = "verified"
      BY <3>1, <1>t, <1>p DEF Verified
    <3>4. Verified(u)'
      <4>1. \A s \in Runs : pay'[<<s, u>>] \in {pay[<<s, u>>], "idle"}
        BY <3>1, <2>o
      <4> QED
        BY <4>1, <3>1, <1>w, <1>t DEF Verified
    <3>5. RefereeHalf(u)'
      <4> SUFFICES ASSUME u \notin doubt' PROVE RefereeHalf(u)'
        BY DEF RefereeHalf
      <4>1. u \notin doubt /\ RefereeHalf(u)
        BY <1>w, <1>t
      <4>2. \A s \in Runs : s # r => pay'[<<s, u>>] = pay[<<s, u>>]
        BY <2>o
      <4>3. /\ paid'[u] <= 1
            /\ \A s \in Runs : pay'[<<s, u>>] \in {"queued", "listed", "pay"} => paid'[u] = 0
            /\ \A s, q \in Runs :
                  pay'[<<s, u>>] # "idle" /\ pay'[<<q, u>>] # "idle" => s = q
        BY <3>1, <4>1, <4>2 DEF RefereeHalf
      <4>4. paid'[u] > 0 /\ row'[u] = NewRow => \E s \in Runs : Paying(s, u)'
        <5> SUFFICES ASSUME paid'[u] > 0, row'[u] = NewRow PROVE \E s \in Runs : Paying(s, u)'
          OBVIOUS
        <5>1. row'[u] = row[u] /\ ~Paying(r, u)
          BY <3>1 DEF NewRow
        <5>2. PICK s \in Runs : Paying(s, u)
          BY <5>1, <3>1, <4>1 DEF RefereeHalf
        <5> QED
          BY <5>1, <5>2, <4>2 DEF Paying
      <4> QED
        BY <4>3, <4>4 DEF RefereeHalf
    <3>6. ReferrerHalf(u)'
      BY <3>1, <3>3, <1>w, <1>t DEF ReferrerHalf, Settling
    <3>7. OneHalf(u)'
      BY <3>1, <1>w, <2>o, <1>t DEF OneHalf
    <3> QED
      BY <3>4, <3>5, <3>6, <3>7 DEF RefereeInv
  <2> QED
    BY <1>2, <2>1, <2>2, <2>3, <2>4, <2>5, <2>6 DEF PayStep
<1> QED
  BY <1>1, <1>2

\* So does the daily cron.
LEMMA MoveInvStep ==
    ASSUME IInv, NEW v \in Referees, MoveStep(v) \/ FailToMove(v), NEW u \in Referees
    PROVE  RefereeInv(u)'
<1>t. TypeOK /\ Verified(u) /\ RefereeHalf(u) /\ ReferrerHalf(u) /\ OneHalf(u)
  BY DEF IInv, RefereeInv
<1>p. /\ level[u] \in {"beginner", "verified"} /\ moved[u] \in 0 .. 2
      /\ row \in [Referees -> Row] /\ moved \in [Referees -> 0 .. 2]
      /\ move \in [Referees -> {"idle", "queued", "listed", "read", "open", "check",
                                "move", "moved", "shut", "find", "save"}]
  BY <1>t DEF TypeOK
<1>a. ASSUME AbandonMove(v)
      PROVE  /\ u = v => move'[u] = "idle"
             /\ \/ u = v
                \/ move'[u] = move[u]
                \/ move[u] = "queued" /\ move'[u] = "idle"
  BY <1>a DEF AbandonMove
<1>o. UNCHANGED <<pay, level, paid, changed>> /\ doubt \subseteq doubt'
  BY DEF MoveStep, CheckBeginner, ReadBonus, OpenBonus, CheckBonus, MoveBonus,
         ShutBonus, FindMovedRow, MarkReferrer, FailToMove, ghosts
<1>1. CASE u # v
  <2>1. row'[u] = row[u] /\ moved'[u] = moved[u]
    BY <1>1, <1>p DEF MoveStep, CheckBeginner, ReadBonus, OpenBonus, CheckBonus,
                      MoveBonus, Debit, ShutBonus, FindMovedRow, MarkReferrer,
                      ReferrerMarked, FailToMove, ghosts
  <2>2. move'[u] = move[u] \/ (move[u] = "queued" /\ move'[u] = "idle")
    BY <1>1, <1>a, <1>p DEF MoveStep, CheckBeginner, ReadBonus, OpenBonus, CheckBonus,
                            MoveBonus, ShutBonus, FindMovedRow, MarkReferrer, FailToMove
  <2>3. u \in doubt => u \in doubt'
    BY <1>o
  <2> QED
    BY <1>o, <1>t, <2>1, <2>2, <2>3, Frame DEF RefereeInv
<1>2. CASE u = v
  \* The places a job that moves no money and marks no row goes through.
  <2>m. ASSUME UNCHANGED <<row, moved, doubt>>,
               \/ move[u] = "listed" /\ level[u] = "beginner" /\ move'[u] = "read"
               \/ move'[u] = "idle" /\ ~Settling(u)
               \/ /\ move[u] \in {"read", "open", "check"}
                  /\ move'[u] \in {"open", "check", "move"}
               \/ move[u] \in {"moved", "shut", "find"} /\ move'[u] \in {"shut", "find", "save"}
        PROVE  RefereeInv(u)'
    <3>1. Verified(u)'
      BY <2>m, <1>o, <1>t DEF Verified
    <3>2. RefereeHalf(u)'
      BY <2>m, <1>o, <1>t DEF RefereeHalf, Paying
    <3>3. ReferrerHalf(u)'
      BY <2>m, <1>o, <1>t, <1>p DEF ReferrerHalf, Settling
    <3>4. OneHalf(u)'
      BY <2>m, <1>o, <1>t, <1>p DEF OneHalf
    <3> QED
      BY <3>1, <3>2, <3>3, <3>4 DEF RefereeInv
  <2>1. CASE CheckBeginner(u)
    BY <2>1, <2>m, <1>p DEF CheckBeginner, ghosts, Settling
  <2>2. CASE ReadBonus(u)
    BY <2>2, <2>m, <1>p DEF ReadBonus, ghosts
  <2>3. CASE OpenBonus(u)
    BY <2>3, <2>m, <1>p DEF OpenBonus, ghosts
  <2>4. CASE CheckBonus(u)
    BY <2>4, <1>2, <2>m, <1>a, <1>p DEF CheckBonus, ghosts, Settling
  <2>5. CASE ShutBonus(u)
    BY <2>5, <2>m, <1>p DEF ShutBonus, ghosts
  <2>6. CASE FindMovedRow(u)
    BY <2>6, <2>m, <1>p DEF FindMovedRow, ghosts
  <2>d. ASSUME Debit(u), UNCHANGED row, move[u] = "move",
               \/ move'[u] = "moved" /\ doubt' = doubt
               \/ move'[u] = "idle" /\ u \in doubt'
        PROVE  RefereeInv(u)'
    <3>1. moved'[u] = More(moved[u])
      BY <2>d, <1>p DEF Debit
    <3>2. Verified(u)'
      BY <2>d, <1>o, <1>t DEF Verified
    <3>3. RefereeHalf(u)'
      BY <2>d, <1>o, <1>t DEF RefereeHalf, Paying
    <3>4. ReferrerHalf(u)'
      BY <2>d, <3>1, <1>o, <1>t, <1>p DEF ReferrerHalf, Settling, More
    <3>5. OneHalf(u)'
      BY <2>d, <1>o, <1>t, <1>p DEF OneHalf
    <3> QED
      BY <3>2, <3>3, <3>4, <3>5 DEF RefereeInv
  <2>7. CASE MoveBonus(u)
    BY <2>7, <1>2, <2>m, <2>d, <1>a, <1>p DEF MoveBonus, Settling
  <2>s. ASSUME move[u] = "save", move'[u] = "idle", row' = ReferrerMarked(u),
               UNCHANGED <<moved, doubt>>
        PROVE  RefereeInv(u)'
    <3>1. row'[u].status = "SUCCESS"
      BY <2>s, <1>p DEF ReferrerMarked
    <3>2. row'[u] # NewRow
      BY <3>1 DEF NewRow
    <3>3. Verified(u)'
      BY <2>s, <1>o, <1>t DEF Verified
    <3>4. RefereeHalf(u)'
      BY <2>s, <3>2, <1>o, <1>t DEF RefereeHalf
    <3>5. ReferrerHalf(u)'
      BY <2>s, <3>1, <1>o, <1>t DEF ReferrerHalf
    <3>6. OneHalf(u)'
      BY <2>s, <3>1, <1>o, <1>t DEF OneHalf
    <3> QED
      BY <3>3, <3>4, <3>5, <3>6 DEF RefereeInv
  \* A job that throws once the bonus has moved leaves the row in doubt.
  <2>x. ASSUME UNCHANGED <<row, moved>>, move'[u] = "idle", Settling(u), u \in doubt'
        PROVE  RefereeInv(u)'
    <3>1. Verified(u)'
      BY <2>x, <1>o, <1>t DEF Verified
    <3>2. RefereeHalf(u)'
      BY <2>x DEF RefereeHalf
    <3>3. ReferrerHalf(u)' /\ OneHalf(u)'
      BY <2>x DEF ReferrerHalf, OneHalf
    <3> QED
      BY <3>1, <3>2, <3>3 DEF RefereeInv
  <2>8. CASE FailToMove(u)
    <3>1. move'[u] = "idle" /\ move[u] \notin {"idle", "queued"}
      BY <2>8, <1>a, <1>2 DEF FailToMove
    <3>2. \/ move[u] = "move" /\ Debit(u) /\ u \in doubt' /\ UNCHANGED row
          \/ move[u] = "save" /\ row' = ReferrerMarked(u) /\ UNCHANGED <<moved, doubt>>
          \/ Settling(u) /\ u \in doubt' /\ UNCHANGED <<row, moved>>
          \/ ~Settling(u) /\ UNCHANGED <<row, moved, doubt>>
      BY <2>8 DEF FailToMove
    <3> QED
      BY <3>1, <3>2, <2>m, <2>d, <2>s, <2>x
  <2>9. CASE MarkReferrer(u)
    BY <2>9, <2>s, <1>p DEF MarkReferrer, ghosts
  <2> QED
    BY <1>2, <2>1, <2>2, <2>3, <2>4, <2>5, <2>6, <2>7, <2>8, <2>9 DEF MoveStep
<1> QED
  BY <1>1, <1>2

\* Every step keeps the invariant.
LEMMA IInvStep == IInv /\ [Next]_vars => IInv'
<1> SUFFICES ASSUME IInv, [Next]_vars, NEW u \in Referees PROVE RefereeInv(u)'
  BY TypeStep DEF IInv
<1>t. TypeOK /\ Verified(u) /\ RefereeHalf(u) /\ ReferrerHalf(u) /\ OneHalf(u)
  BY DEF IInv, RefereeInv
<1>p. /\ pay \in [Jobs -> {"idle", "queued", "listed", "pay", "paid", "save"}]
      /\ level \in [Referees -> {"beginner", "verified"}]
      /\ row \in [Referees -> Row] /\ paid[u] \in 0 .. 2 /\ moved[u] \in 0 .. 2
      /\ move \in [Referees -> {"idle", "queued", "listed", "read", "open", "check",
                                "move", "moved", "shut", "find", "save"}]
      /\ \A r \in Runs : <<r, u>> \in Jobs
  BY <1>t, JobIs DEF TypeOK, Jobs
<1>1. ASSUME NEW v \in Referees, Verify(v) PROVE RefereeInv(u)'
  <2>u. UNCHANGED <<row, pay, move, paid, moved, doubt>> /\ changed \subseteq changed'
    BY <1>1 DEF Verify, jobs
  <2>1. CASE u # v
    BY <1>1, <2>u, <2>1, <1>p, <1>t, Frame DEF Verify, RefereeInv
  <2>2. CASE u = v
    <3>1. /\ level[u] = "beginner" /\ level'[u] = "verified"
          /\ \/ u \in changed'
             \/ move[u] \in {"idle", "queued"} /\ \A r \in Runs : pay[<<r, u>>] = "idle"
      BY <1>1, <2>2, <1>p DEF Verify
    <3>2. Verified(u)'
      BY <3>1 DEF Verified
    <3>3. RefereeHalf(u)'
      BY <2>u, <1>t DEF RefereeHalf, Paying
    <3>4. ReferrerHalf(u)'
      BY <2>u, <3>1, <1>t DEF ReferrerHalf
    <3>5. OneHalf(u)'
      BY <2>u, <3>1, <1>t, <1>p DEF OneHalf, Verified, ReferrerHalf, Settling
    <3> QED
      BY <3>2, <3>3, <3>4, <3>5 DEF RefereeInv
  <2> QED
    BY <2>1, <2>2
<1>2. ASSUME NEW r \in Runs, ListUnpaid(r) PROVE RefereeInv(u)'
  <2>u. /\ UNCHANGED <<row, level, move, paid, moved, changed>>
        /\ \A s \in Runs : pay'[<<s, u>>] =
              IF s = r /\ row[u] = NewRow THEN "queued" ELSE pay[<<s, u>>]
        /\ pay[<<r, u>>] = "idle" /\ doubt \subseteq doubt'
        /\ row[u] = NewRow /\ (\E s \in Runs : pay[<<s, u>>] # "idle") => u \in doubt'
    BY <1>2, <1>p, JobIs DEF ListUnpaid, Unpaid, Contested, Jobs
  <2>1. Verified(u)'
    BY <2>u, <1>t DEF Verified
  <2>2. RefereeHalf(u)'
    BY <2>u, <1>t, <1>p DEF RefereeHalf, Paying
  <2>3. ReferrerHalf(u)'
    BY <2>u, <1>t DEF ReferrerHalf, Settling
  <2>4. OneHalf(u)'
    BY <2>u, <1>t DEF OneHalf, NewRow
  <2> QED
    BY <2>1, <2>2, <2>3, <2>4 DEF RefereeInv
<1>3. ASSUME NEW r \in Runs, NEW v \in Referees, PayStep(r, v) \/ FailToPay(r, v) \/ ThrowInPay(r, v)
      PROVE  RefereeInv(u)'
  BY <1>3, PayInvStep
<1>4. CASE ListPending
  <2>u. /\ UNCHANGED <<row, level, pay, paid, moved, changed, doubt>>
        /\ move[u] = "idle"
        /\ move'[u] = IF row[u].status = "PENDING" THEN "queued" ELSE "idle"
    BY <1>4, <1>p DEF ListPending, Unsettled, ghosts
  <2>1. Verified(u)'
    BY <2>u, <1>t DEF Verified
  <2>2. RefereeHalf(u)'
    BY <2>u, <1>t DEF RefereeHalf, Paying
  <2>3. ReferrerHalf(u)'
    BY <2>u, <1>t DEF ReferrerHalf, Settling
  <2>4. OneHalf(u)'
    BY <2>u, <1>t DEF OneHalf
  <2> QED
    BY <2>1, <2>2, <2>3, <2>4 DEF RefereeInv
<1>5. ASSUME NEW v \in Referees, MoveStep(v) \/ FailToMove(v) PROVE RefereeInv(u)'
  BY <1>5, MoveInvStep
\* A chunk's jobs start.
<1>8. ASSUME NEW r \in Runs, NextChunk(r) PROVE RefereeInv(u)'
  <2>u. /\ UNCHANGED <<row, level, move, paid, moved, changed, doubt>>
        /\ \A s \in Runs : \/ pay'[<<s, u>>] = pay[<<s, u>>]
                           \/ pay[<<s, u>>] = "queued" /\ pay'[<<s, u>>] = "listed"
    <3>1. PICK chunk \in Chunks(Queued(r), PayChunk) :
             pay' = [j \in Runs \X Referees |->
                        IF j[1] = r /\ j[2] \in chunk THEN "listed" ELSE pay[j]]
      BY <1>8 DEF NextChunk
    <3>2. chunk \subseteq Queued(r)
      BY DEF Chunks, kSubset
    <3> QED
      BY <1>8, <1>p, <3>1, <3>2, JobIs DEF NextChunk, Queued, Jobs, ghosts
  <2>1. Verified(u)'
    BY <2>u, <1>t DEF Verified
  <2>2. RefereeHalf(u)'
    BY <2>u, <1>t, <1>p DEF RefereeHalf, Paying
  <2>3. ReferrerHalf(u)'
    BY <2>u, <1>t DEF ReferrerHalf, Settling
  <2>4. OneHalf(u)'
    BY <2>u, <1>t DEF OneHalf
  <2> QED
    BY <2>1, <2>2, <2>3, <2>4 DEF RefereeInv
<1>9. CASE NextMoveChunk
  <2>u. /\ UNCHANGED <<row, level, pay, paid, moved, changed, doubt>>
        /\ move'[u] = move[u] \/ (move[u] = "queued" /\ move'[u] = "listed")
    <3>1. PICK chunk \in Chunks(Waiting, MoveChunk) :
             move' = [v \in Referees |-> IF v \in chunk THEN "listed" ELSE move[v]]
      BY <1>9 DEF NextMoveChunk
    <3>2. chunk \subseteq Waiting
      BY DEF Chunks, kSubset
    <3> QED
      BY <1>9, <1>p, <3>1, <3>2 DEF NextMoveChunk, Waiting, ghosts
  <2>1. Verified(u)'
    BY <2>u, <1>t DEF Verified
  <2>2. RefereeHalf(u)'
    BY <2>u, <1>t DEF RefereeHalf, Paying
  <2>3. ReferrerHalf(u)'
    BY <2>u, <1>t, <1>p DEF ReferrerHalf, Settling
  <2>4. OneHalf(u)'
    BY <2>u, <1>t, <1>p DEF OneHalf
  <2> QED
    BY <2>1, <2>2, <2>3, <2>4 DEF RefereeInv
<1>6. CASE Crash
  <2>u. /\ UNCHANGED <<row, level, paid, moved, changed>> /\ doubt \subseteq doubt'
        /\ move'[u] = "idle" /\ \A r \in Runs : pay'[<<r, u>>] = "idle"
        /\ u \notin doubt' => ~Settling(u) /\ \A r \in Runs : ~Paying(r, u)
    BY <1>6, <1>p DEF Crash, Jobs, Settling, Paying
  <2>1. Verified(u)'
    BY <2>u, <1>t DEF Verified
  <2>2. RefereeHalf(u)'
    BY <2>u, <1>t DEF RefereeHalf
  <2>3. ReferrerHalf(u)'
    BY <2>u, <1>t DEF ReferrerHalf
  <2>4. OneHalf(u)'
    BY <2>u, <1>t DEF OneHalf
  <2> QED
    BY <2>1, <2>2, <2>3, <2>4 DEF RefereeInv
<1>7. CASE UNCHANGED vars
  BY <1>7, <1>t, Frame DEF vars, jobs, ghosts, RefereeInv
<1> QED
  BY <1>1, <1>2, <1>3, <1>4, <1>5, <1>6, <1>7, <1>8, <1>9 DEF Next

\* The inductive invariant holds throughout.
THEOREM Invariant == Spec => []IInv
BY InitIInv, IInvStep, PTL DEF Spec

\* Neither half of a cashback is paid twice, unless two runs were busy with the
\* row or a payment was not marked.
THEOREM EachHalfOnce == Spec => []PaidOnce
<1>1. IInv => PaidOnce
  BY DEF IInv, RefereeInv, RefereeHalf, ReferrerHalf, PaidOnce, TypeOK
<1> QED
  BY <1>1, Invariant, PTL

\* Not both halves of a cashback are paid, unless the referee was verified while
\* a job had the row, or the row is in doubt.
THEOREM NotBothHalves == Spec => []OneHalfIsPaid
<1>1. IInv => OneHalfIsPaid
  BY DEF IInv, RefereeInv, Verified, OneHalf, OneHalfIsPaid, TypeOK
<1> QED
  BY <1>1, Invariant, PTL

-----------------------------------------------------------------------------
(***************************************************************************)
(* The totals of rim_entity, for any users and transfers side by side.     *)
(* Once no refresh of a user has yet to sum, whoever is alone in carrying  *)
(* totals carries what the accounts add up to now, and if nobody does, the *)
(* row shows it; a save while another carries, and a drop, make the user   *)
(* suspect.  A user has finitely many rows.                                *)
(***************************************************************************)
Refreshing(t) == at[t] \in {"sum", "find", "save"}

ToSum(u) ==
    {t \in Transfers :
        /\ Refreshing(t)
        /\ \/ side[t] = "from" /\ party[t]["to"] = u
           \/ at[t] = "sum" /\ User(t) = u}

TotalInv(u) ==
    (u \notin suspect /\ ToSum(u) = {}) =>
        /\ \A t \in Transfers : Carrying(u) = {t} => summed[t] = TotalOf(u)
        /\ Carrying(u) = {} =>
              \A i \in Ids : Rows(u) = {i} => rim[u][i] = TotalOf(u)

PartyInv(t) ==
    /\ Refreshing(t) => party[t] \in [Sides -> Users]
    /\ at[t] \in {"move", "done"} => side[t] = "from"

RimInv ==
    /\ RimTypeOK
    /\ \A t \in Transfers : PartyInv(t)
    /\ \A u \in Users : IsFiniteSet(Rows(u)) /\ TotalInv(u)

LEMMA RimInitType == RimInit => RimTypeOK
<1> SUFFICES ASSUME RimInit PROVE RimTypeOK
  OBVIOUS
<1>1. balance \in [Users -> [Kinds -> Nat]]
  <2>1. [primary |-> Opening, goals |-> 0] \in [Kinds -> Nat]
    BY RimAssumption DEF Kinds
  <2> QED
    BY <2>1 DEF RimInit
<1>2. summed \in [Transfers -> Totals]
  BY DEF RimInit, Totals, Blank
<1>3. found \in [Transfers -> Ids] /\ side \in [Transfers -> Sides]
  BY DEF RimInit, Ids, Sides
<1>4. party \in [Transfers -> [Sides -> Users \cup {NoUser}]]
  BY DEF RimInit, Nobody
<1>5. rim \in [Users -> [Ids -> Totals \cup {NoRow}]]
  BY DEF RimInit
<1> QED
  BY <1>1, <1>2, <1>3, <1>4, <1>5, RimAssumption DEF RimInit, RimTypeOK

LEMMA RimInitInv == RimInit => RimInv
<1> SUFFICES ASSUME RimInit PROVE RimInv
  OBVIOUS
<1>1. ASSUME NEW t \in Transfers PROVE PartyInv(t)
  BY DEF RimInit, PartyInv, Refreshing
<1>2. ASSUME NEW u \in Users PROVE IsFiniteSet(Rows(u)) /\ TotalInv(u)
  <2>1. Rows(u) = {}
    BY DEF RimInit, Rows
  <2>2. Carrying(u) = {}
    BY DEF RimInit, Carrying
  <2> QED
    BY <2>1, <2>2, FS_EmptySet DEF TotalInv
<1> QED
  BY <1>1, <1>2, RimInitType DEF RimInv

\* What the query sums are totals.
LEMMA TotalOfType ==
    ASSUME RimTypeOK, NEW u \in Users
    PROVE  TotalOf(u) \in Totals
<1>1. balance[u]["primary"] \in Nat /\ balance[u]["goals"] \in Nat
  BY DEF RimTypeOK, Kinds
<1> QED
  BY <1>1 DEF TotalOf, Totals

LEMMA UserType ==
    ASSUME RimInv, NEW t \in Transfers, Refreshing(t)
    PROVE  User(t) \in Users /\ Due(t) \subseteq Users
BY DEF RimInv, RimTypeOK, PartyInv, User, Due, Sides

LEMMA RimTypeStep == RimInv /\ [RimNext]_rimVars => RimTypeOK' /\ \A t \in Transfers : PartyInv(t)'
<1> SUFFICES ASSUME RimInv, [RimNext]_rimVars
             PROVE  RimTypeOK' /\ \A t \in Transfers : PartyInv(t)'
  OBVIOUS
<1> DEFINE Goal == RimTypeOK' /\ \A s \in Transfers : PartyInv(s)'
<1>t. RimTypeOK /\ \A t \in Transfers : PartyInv(t)
  BY DEF RimInv
<1>b. Blank \in Totals /\ Nobody \in [Sides -> Users \cup {NoUser}]
      /\ \A t \in Transfers : <<t, "from">> \in Ids /\ <<t, "to">> \in Ids
  BY DEF Blank, Totals, Nobody, Ids, Sides
<1> USE RimAssumption DEF PartyInv, Refreshing
<1>1. ASSUME NEW t \in Transfers, NEW u \in Users, NEW v \in Users,
             NEW k \in Kinds, NEW l \in Kinds, Move(t, u, v, k, l)
      PROVE  Goal
  <2> DEFINE debited == [balance EXCEPT ![u][k] = @ - 1]
             both == [s \in Sides |-> IF s = "from" THEN u ELSE v]
  <2>1. debited \in [Users -> [Kinds -> Nat]]
    <3>1. balance[u] \in [Kinds -> Nat] /\ balance[u][k] > 0
      BY <1>t, <1>1 DEF Move, RimTypeOK
    <3>2. [balance[u] EXCEPT ![k] = @ - 1] \in [Kinds -> Nat]
      BY <3>1
    <3> QED
      BY <1>t, <3>2 DEF RimTypeOK
  <2>2. balance' \in [Users -> [Kinds -> Nat]]
    <3>1. balance' = [debited EXCEPT ![v][l] = @ + 1]
      BY <1>1 DEF Move
    <3>2. [debited[v] EXCEPT ![l] = @ + 1] \in [Kinds -> Nat]
      <4> HIDE DEF debited
      <4> QED
        BY <2>1
    <3> HIDE DEF debited
    <3> QED
      BY <2>1, <3>1, <3>2
  <2>3. both \in [Sides -> Users]
    BY DEF Sides
  <2>4. /\ party' = [party EXCEPT ![t] = both] /\ at' = [at EXCEPT ![t] = "sum"]
        /\ UNCHANGED <<rim, side, summed, found, suspect, drops>>
    BY <1>1 DEF Move
  <2>5. party' \in [Transfers -> [Sides -> Users \cup {NoUser}]]
    <3> HIDE DEF both
    <3> QED
      BY <1>t, <2>3, <2>4 DEF RimTypeOK
  <2>6. at' \in [Transfers -> {"move", "sum", "find", "save", "done"}]
    BY <1>t, <2>4 DEF RimTypeOK
  <2>7. RimTypeOK'
    BY <1>t, <2>2, <2>4, <2>5, <2>6 DEF RimTypeOK
  <2> QED
    <3> HIDE DEF both
    <3> QED
      BY <1>t, <2>3, <2>4, <2>7 DEF RimTypeOK
<1>2. ASSUME NEW t \in Transfers, Sum(t) PROVE Goal
  <2>1. TotalOf(User(t)) \in Totals
    BY <1>2, UserType, TotalOfType, <1>t DEF Sum
  <2> QED
    BY <1>t, <1>2, <2>1 DEF Sum, RimTypeOK
<1>3. ASSUME NEW t \in Transfers, Find(t) PROVE Goal
  <2>1. PICK i \in Ids : found' = [found EXCEPT ![t] = i]
    <3>1. <<t, side[t]>> \in Ids
      BY <1>t DEF RimTypeOK, Ids
    <3>2. Rows(User(t)) \subseteq Ids
      BY DEF Rows
    <3> QED
      BY <1>3, <3>1, <3>2 DEF Find
  <2> QED
    BY <1>t, <1>3, <2>1 DEF Find, RimTypeOK
<1>4. ASSUME NEW t \in Transfers, SaveTotals(t) PROVE Goal
  <2>1. User(t) \in Users
    BY <1>4, UserType DEF SaveTotals
  <2>2. rim' \in [Users -> [Ids -> Totals \cup {NoRow}]]
    <3>1. [rim[User(t)] EXCEPT ![found[t]] = summed[t]] \in [Ids -> Totals \cup {NoRow}]
      BY <1>t, <2>1 DEF RimTypeOK
    <3> QED
      BY <1>t, <1>4, <2>1, <3>1 DEF SaveTotals, RimTypeOK
  <2>3. suspect' \subseteq Users
    BY <1>t, <1>4, <2>1 DEF SaveTotals, RimTypeOK
  <2>4. summed' \in [Transfers -> Totals] /\ found' \in [Transfers -> Ids]
    BY <1>t, <1>b, <1>4 DEF SaveTotals, Drop, RimTypeOK
  <2>5. CASE side[t] = "from"
    <3>1. side' = [side EXCEPT ![t] = "to"] /\ at' = [at EXCEPT ![t] = "sum"]
          /\ UNCHANGED <<party, balance, drops>> /\ at[t] = "save"
      BY <1>4, <2>5 DEF SaveTotals
    <3> QED
      BY <1>t, <2>2, <2>3, <2>4, <3>1 DEF RimTypeOK, Sides
  <2>6. CASE side[t] # "from"
    <3>1. End(t) /\ UNCHANGED <<balance, drops>>
      BY <1>4, <2>6 DEF SaveTotals
    <3> QED
      BY <1>t, <1>b, <2>2, <2>3, <2>4, <3>1 DEF RimTypeOK, Sides, End
  <2> QED
    BY <2>5, <2>6
<1>5. ASSUME NEW t \in Transfers, Fail(t) PROVE Goal
  <2>1. suspect' \subseteq Users
    BY <1>t, <1>5, UserType DEF Fail, RimTypeOK
  <2>2. summed' \in [Transfers -> Totals] /\ found' \in [Transfers -> Ids]
    BY <1>t, <1>b, <1>5 DEF Fail, Drop, RimTypeOK
  <2>3. drops' \in 0 .. MaxDrops
    BY <1>t, <1>5 DEF Fail, RimTypeOK
  <2> QED
    BY <1>t, <1>b, <1>5, <2>1, <2>2, <2>3 DEF Fail, End, RimTypeOK, Sides
<1>6. CASE UNCHANGED rimVars
  BY <1>t, <1>6 DEF rimVars, RimTypeOK
<1> QED
  BY <1>1, <1>2, <1>3, <1>4, <1>5, <1>6 DEF RimNext

\* A refresh writes one row of one user.
LEMMA RimRowsStep ==
    ASSUME RimInv, [RimNext]_rimVars, NEW u \in Users
    PROVE  IsFiniteSet(Rows(u))'
<1>t. RimTypeOK /\ IsFiniteSet(Rows(u))
  BY DEF RimInv
<1>1. ASSUME UNCHANGED rim PROVE IsFiniteSet(Rows(u))'
  BY <1>1, <1>t DEF Rows
<1>2. ASSUME NEW t \in Transfers, SaveTotals(t) PROVE IsFiniteSet(Rows(u))'
  <2>1. Rows(u)' \in SUBSET (Rows(u) \cup {found[t]})
    BY <1>t, <1>2 DEF SaveTotals, Rows, RimTypeOK
  <2>2. IsFiniteSet(Rows(u) \cup {found[t]})
    BY <1>t, FS_AddElement
  <2> QED
    BY <2>1, <2>2, FS_Subset
<1>3. UNCHANGED rim \/ \E t \in Transfers : SaveTotals(t)
  <2>1. ASSUME NEW t \in Transfers,
               \/ \E v, w \in Users, k, l \in Kinds : Move(t, v, w, k, l)
               \/ Sum(t) \/ Find(t) \/ Fail(t)
        PROVE  UNCHANGED rim
    BY <2>1 DEF Move, Sum, Find, Fail
  <2> QED
    BY <2>1 DEF RimNext, rimVars
<1> QED
  BY <1>1, <1>2, <1>3

\* A step of a transfer keeps what is known of a user's totals.
LEMMA RimTotalStep ==
    ASSUME RimInv, [RimNext]_rimVars, NEW u \in Users
    PROVE  TotalInv(u)'
<1>t. RimTypeOK /\ TotalInv(u) /\ \A t \in Transfers : PartyInv(t)
  BY DEF RimInv
<1> USE DEF Refreshing
<1>1. ASSUME NEW t \in Transfers, NEW v \in Users, NEW w \in Users,
             NEW k \in Kinds, NEW l \in Kinds, Move(t, v, w, k, l)
      PROVE  TotalInv(u)'
  <2>1. /\ at[t] = "move" /\ at' = [at EXCEPT ![t] = "sum"]
        /\ party' = [party EXCEPT ![t] = [s \in Sides |-> IF s = "from" THEN v ELSE w]]
        /\ UNCHANGED <<rim, side, summed, found, suspect, drops>>
    BY <1>1 DEF Move
  <2>2. side[t] = "from"
    BY <1>t, <2>1 DEF PartyInv
  <2>3. party'[t]["from"] = v /\ party'[t]["to"] = w /\ at'[t] = "sum" /\ side'[t] = "from"
    BY <1>t, <2>1, <2>2 DEF RimTypeOK, Sides
  \* A user whose accounts the transfer touches is still to be summed.
  <2>4. CASE u \in {v, w}
    <3>1. t \in ToSum(u)'
      BY <2>3, <2>4 DEF ToSum, User
    <3> QED
      BY <3>1 DEF TotalInv
  <2>5. CASE u \notin {v, w}
    <3>1. \A s \in Transfers \ {t} : at'[s] = at[s] /\ party'[s] = party[s] /\ side'[s] = side[s]
      BY <1>t, <2>1 DEF RimTypeOK
    <3>2. ToSum(u)' = ToSum(u) /\ Carrying(u)' = Carrying(u)
      BY <2>1, <2>3, <2>5, <3>1 DEF ToSum, Carrying, User
    <3>3. balance'[u] = balance[u]
      BY <1>t, <1>1, <2>5 DEF Move, RimTypeOK
    <3> QED
      BY <1>t, <2>1, <3>2, <3>3 DEF TotalInv, TotalOf, Rows
  <2> QED
    BY <2>4, <2>5
<1>2. ASSUME NEW t \in Transfers, Sum(t) PROVE TotalInv(u)'
  <2>1. /\ at[t] = "sum" /\ at' = [at EXCEPT ![t] = "find"]
        /\ UNCHANGED <<balance, rim, side, party, found, drops>>
        /\ suspect' = suspect \ {User(t)}
        /\ summed' = [summed EXCEPT ![t] = TotalOf(User(t))]
    BY <1>2 DEF Sum
  <2>2. at'[t] = "find" /\ \A s \in Transfers \ {t} : at'[s] = at[s] /\ summed'[s] = summed[s]
    BY <1>t, <2>1 DEF RimTypeOK
  <2>3. TotalOf(u)' = TotalOf(u)
    BY <2>1 DEF TotalOf
  <2>4. CASE User(t) = u
    <3>1. t \in Carrying(u)' /\ summed'[t] = TotalOf(u)
      BY <1>t, <2>1, <2>2, <2>4 DEF Carrying, User, RimTypeOK
    <3>2. \A s : Carrying(u)' = {s} => s = t
      BY <3>1
    <3> QED
      BY <2>3, <3>1, <3>2 DEF TotalInv
  <2>5. CASE User(t) # u
    <3>1. ToSum(u)' = ToSum(u) /\ Carrying(u)' = Carrying(u) /\ t \notin Carrying(u)
      BY <2>1, <2>2, <2>5 DEF ToSum, Carrying, User
    <3> QED
      BY <1>t, <2>1, <2>2, <2>3, <2>5, <3>1 DEF TotalInv, Rows
  <2> QED
    BY <2>4, <2>5
<1>3. ASSUME NEW t \in Transfers, Find(t) PROVE TotalInv(u)'
  <2>1. /\ at[t] = "find" /\ at' = [at EXCEPT ![t] = "save"]
        /\ UNCHANGED <<balance, rim, side, party, summed, suspect>>
    BY <1>3 DEF Find
  <2>2. at'[t] = "save" /\ \A s \in Transfers \ {t} : at'[s] = at[s]
    BY <1>t, <2>1 DEF RimTypeOK
  <2>3. ToSum(u)' = ToSum(u) /\ Carrying(u)' = Carrying(u)
    BY <2>1, <2>2 DEF ToSum, Carrying, User
  <2> QED
    BY <1>t, <2>1, <2>3 DEF TotalInv, TotalOf, Rows
<1>4. ASSUME NEW t \in Transfers, SaveTotals(t) PROVE TotalInv(u)'
  <2>1. /\ at[t] = "save" /\ balance' = balance
        /\ rim' = [rim EXCEPT ![User(t)][found[t]] = summed[t]]
        /\ suspect' = IF Carrying(User(t)) # {t} THEN suspect \cup {User(t)} ELSE suspect
        /\ summed' = [summed EXCEPT ![t] = Blank]
    BY <1>4 DEF SaveTotals, Drop
  <2>2. \A s \in Transfers \ {t} :
             at'[s] = at[s] /\ party'[s] = party[s] /\ side'[s] = side[s]
             /\ summed'[s] = summed[s]
    BY <1>t, <1>4 DEF SaveTotals, End, Drop, RimTypeOK
  <2>3. /\ side[t] = "from" => at'[t] = "sum" /\ side'[t] = "to" /\ party'[t] = party[t]
        /\ side[t] # "from" => at'[t] = "done"
    BY <1>t, <1>4 DEF SaveTotals, End, RimTypeOK
  <2>4. side[t] \in {"from", "to"}
    BY <1>t DEF RimTypeOK, Sides
  <2>5. ToSum(u)' = ToSum(u)
    BY <2>1, <2>2, <2>3, <2>4 DEF ToSum, User
  <2>6. Carrying(u)' = Carrying(u) \ {t}
    BY <2>1, <2>2, <2>3 DEF Carrying, User
  <2>7. TotalOf(u)' = TotalOf(u)
    BY <2>1 DEF TotalOf
  \* Of two that carry totals of a user, the first to save makes it suspect.
  <2>8. CASE User(t) = u
    <3> SUFFICES ASSUME u \notin suspect', ToSum(u)' = {} PROVE TotalInv(u)'
      BY DEF TotalInv
    <3>1. Carrying(u) = {t} /\ u \notin suspect
      BY <2>1, <2>8
    <3>2. Carrying(u)' = {} /\ summed[t] = TotalOf(u)
      BY <1>t, <2>5, <2>6, <3>1 DEF TotalInv
    <3>3. rim'[u][found[t]] = TotalOf(u) /\ found[t] \in Rows(u)'
      <4>1. found[t] \in Ids /\ TotalOf(u) \in Totals /\ NoRow \notin Totals
        BY <1>t, TotalOfType, RimAssumption DEF RimTypeOK
      <4>2. rim'[u][found[t]] = TotalOf(u)
        BY <1>t, <2>1, <2>8, <3>2, <4>1 DEF RimTypeOK
      <4> QED
        BY <4>1, <4>2 DEF Rows
    <3> QED
      BY <2>7, <3>2, <3>3 DEF TotalInv
  <2>9. CASE User(t) # u
    <3>1. t \notin Carrying(u) /\ rim'[u] = rim[u] /\ (u \in suspect <=> u \in suspect')
      BY <1>t, <2>1, <2>9 DEF Carrying, RimTypeOK
    <3>2. Carrying(u)' = Carrying(u) /\ Rows(u)' = Rows(u)
      BY <2>6, <3>1 DEF Rows
    <3>3. \A s \in Transfers : Carrying(u) = {s} => summed'[s] = summed[s]
      BY <2>2, <3>1
    <3> QED
      BY <1>t, <2>5, <2>7, <3>1, <3>2, <3>3 DEF TotalInv
  <2> QED
    BY <2>8, <2>9
<1>5. ASSUME NEW t \in Transfers, Fail(t) PROVE TotalInv(u)'
  <2>1. /\ Refreshing(t) /\ suspect' = suspect \cup Due(t) /\ UNCHANGED <<balance, rim>>
        /\ at' = [at EXCEPT ![t] = "done"]
    BY <1>5 DEF Fail, End
  <2>2. at'[t] = "done" /\ \A s \in Transfers \ {t} :
             at'[s] = at[s] /\ party'[s] = party[s] /\ side'[s] = side[s]
             /\ summed'[s] = summed[s]
    BY <1>t, <1>5 DEF Fail, End, Drop, RimTypeOK
  <2>3. CASE u \in Due(t)
    BY <2>1, <2>3 DEF TotalInv
  <2>4. CASE u \notin Due(t)
    <3>1. t \notin ToSum(u) /\ t \notin Carrying(u)
      BY <1>t, <2>1, <2>4 DEF Due, ToSum, Carrying, User, RimTypeOK, Sides
    <3>2. ToSum(u)' = ToSum(u) /\ Carrying(u)' = Carrying(u)
      BY <2>2, <3>1 DEF ToSum, Carrying, User
    <3>3. \A s \in Transfers : Carrying(u) = {s} => summed'[s] = summed[s]
      BY <2>2, <3>1
    <3> QED
      BY <1>t, <2>1, <3>2, <3>3 DEF TotalInv, TotalOf, Rows
  <2> QED
    BY <2>3, <2>4
<1>6. CASE UNCHANGED rimVars
  BY <1>t, <1>6 DEF rimVars, TotalInv, TotalOf, Rows, ToSum, Carrying, User
<1> QED
  BY <1>1, <1>2, <1>3, <1>4, <1>5, <1>6 DEF RimNext

THEOREM RimInvariant == RimSpec => []RimInv
<1>1. RimInv /\ [RimNext]_rimVars => RimInv'
  BY RimTypeStep, RimRowsStep, RimTotalStep DEF RimInv
<1> QED
  BY <1>1, RimInitInv, PTL DEF RimSpec

\* The user's one row shows what the accounts add up to when no transfer of the
\* user is under way, unless refreshes have crossed or one was dropped.
THEOREM RowIsTotal == RimSpec => []RimIsTotal
<1>1. ASSUME RimInv PROVE RimIsTotal
  <2> SUFFICES ASSUME NEW u \in Users \ suspect, Quiet(u), Cardinality(Rows(u)) = 1,
                      NEW i \in Rows(u)
               PROVE  rim[u][i] = TotalOf(u)
    BY DEF RimIsTotal
  <2>1. ToSum(u) = {} /\ Carrying(u) = {}
    <3> SUFFICES ASSUME NEW t \in Transfers, t \in ToSum(u) \cup Carrying(u)
                 PROVE  u \in Due(t)
      BY DEF ToSum, Carrying, Quiet
    <3>1. side[t] \in {"from", "to"}
      BY <1>1 DEF RimInv, RimTypeOK, Sides
    <3> QED
      BY <3>1 DEF ToSum, Carrying, Due, User, Refreshing
  <2>2. Rows(u) = {i}
    <3>1. IsFiniteSet(Rows(u))
      BY <1>1 DEF RimInv
    <3>2. \E x : Rows(u) = {x}
      BY <3>1, FS_Singleton
    <3> QED
      BY <3>2
  <2> QED
    BY <1>1, <2>1, <2>2 DEF RimInv, TotalInv, Rows
<1> QED
  BY <1>1, RimInvariant, PTL

-----------------------------------------------------------------------------
(***************************************************************************)
(* Signing up, for any numbers, codes and sign-ups side by side.  Of a     *)
(* number two sign-ups never worked on at a time, at most one sign-up from *)
(* the app has a user or is about to save one; a code that was marked      *)
(* while no sign-up held a copy and no run of the cron had listed it for   *)
(* another user reads SUCCESS from then on, so that neither a sign-up nor  *)
(* a run takes it again, however the runs overlap.                         *)
(***************************************************************************)
StepInv(s) ==
    /\ s \in users => step[s] \notin {"idle", "look", "save"}
    /\ step[s] \in {"method", "refer", "find", "take", "record", "done"} => s \in users
    /\ step[s] # "idle" => phone[s] \in Phones

FromApp(s, p) == channel[s] = "app" /\ phone[s] = p

PhoneInv(p) ==
    p \notin alongside =>
        /\ \A u, v \in users : FromApp(u, p) /\ FromApp(v, p) => u = v
        /\ \A s \in SignUps :
              (AboutToSave(s) /\ FromApp(s, p)) =>
                  /\ \A u \in users : ~FromApp(u, p)
                  /\ \A t \in SignUps : AboutToSave(t) /\ FromApp(t, p) => s = t

GoesTo(c, u) == (\E k \in Ticks : <<k, c, u>> \in marked) \/ u \in sent[c]

CodeInv(c) ==
    c \notin straddling =>
        \A u \in SignUps : GoesTo(c, u) =>
            /\ code[c].status = "SUCCESS"
            /\ \A v \in SignUps : taken[v].of # c
            /\ \A k \in Ticks, v \in SignUps \ {u} : <<k, c, v>> \notin sending
            /\ \A v \in SignUps : GoesTo(c, v) => u = v

SignUpInv ==
    /\ SignUpTypeOK
    /\ \A s \in SignUps : StepInv(s)
    /\ \A p \in Phones : PhoneInv(p)
    /\ \A c \in Codes : CodeInv(c)

LEMMA SignUpInitInv == SignUpInit => SignUpInv
<1> SUFFICES ASSUME SignUpInit PROVE SignUpInv
  OBVIOUS
<1> USE SignUpAssumption DEF SignUpInit
<1>1. SignUpTypeOK
  BY DEF SignUpTypeOK, NoCode, CodeRow, Referrals, Outcomes
<1>2. \A s \in SignUps : StepInv(s)
  BY DEF StepInv
<1>3. \A p \in Phones : PhoneInv(p)
  BY DEF PhoneInv, AboutToSave
<1>4. \A c \in Codes : CodeInv(c)
  BY DEF CodeInv, GoesTo
<1> QED
  BY <1>1, <1>2, <1>3, <1>4 DEF SignUpInv

\* Every step keeps the types, and users to sign-ups that have saved them.
LEMMA SignUpTypeStep ==
    SignUpInv /\ [SignUpNext]_signUpVars
        => SignUpTypeOK' /\ \A s \in SignUps : StepInv(s)'
<1> SUFFICES ASSUME SignUpInv, [SignUpNext]_signUpVars
             PROVE  SignUpTypeOK' /\ \A s \in SignUps : StepInv(s)'
  OBVIOUS
<1> DEFINE Goal == SignUpTypeOK' /\ \A r \in SignUps : StepInv(r)'
<1>t. SignUpTypeOK /\ \A s \in SignUps : StepInv(s)
  BY DEF SignUpInv
<1> USE <1>t DEF SignUpTypeOK, StepInv, signing, rows, cron, Go, Outcomes, Referrals
<1>1. ASSUME NEW s \in SignUps, NEW p \in Phones, NEW r \in Referrals, Start(s, p, r)
      PROVE  Goal
  BY <1>1 DEF Start, Arrive
<1>2. ASSUME NEW s \in SignUps, NEW p \in Phones, StartUssd(s, p) PROVE Goal
  BY <1>2 DEF StartUssd, Arrive
<1>3. ASSUME NEW s \in SignUps, LookUp(s) PROVE Goal
  <2>1. PICK to \in {"refused", "save"} : Go(s, to)
    BY <1>3 DEF LookUp
  <2>2. alongside' \subseteq Phones /\ step[s] = "look"
    BY <1>3 DEF LookUp
  <2>3. UNCHANGED <<phone, channel, referral, rows, code, taken, cron, straddling>>
    BY <1>3 DEF LookUp
  <2> QED
    BY <2>1, <2>2, <2>3
<1>4. ASSUME NEW s \in SignUps, SaveUser(s) \/ SaveMethod(s) \/ SkipMethod(s) PROVE Goal
  <2>1. CASE SaveUser(s)
    BY <2>1 DEF SaveUser
  <2>2. CASE SaveMethod(s)
    BY <2>2 DEF SaveMethod
  <2>3. CASE SkipMethod(s)
    BY <2>3 DEF SkipMethod
  <2> QED
    BY <1>4, <2>1, <2>2, <2>3
<1>5. ASSUME NEW s \in SignUps, CheckReferral(s) PROVE Goal
  BY <1>5 DEF CheckReferral
<1>6. ASSUME NEW s \in SignUps, FindCode(s) PROVE Goal
  <2>1. CASE Go(s, "record") /\ UNCHANGED taken
    BY <1>6, <2>1 DEF FindCode
  <2>2. CASE \E c \in Takeable :
                /\ taken' = [taken EXCEPT ![s] =
                                [of |-> c, row |-> [code[c] EXCEPT !.user = s]]]
                /\ Go(s, "take")
    <3>1. PICK c \in Codes :
                /\ taken' = [taken EXCEPT ![s] =
                                [of |-> c, row |-> [code[c] EXCEPT !.user = s]]]
                /\ Go(s, "take")
      BY <2>2 DEF Takeable
    <3>2. [code[c] EXCEPT !.user = s] \in CodeRow
      BY DEF CodeRow
    <3>3. taken' \in [SignUps -> [of : Codes \cup {NoOne}, row : CodeRow]]
      <4> HIDE DEF CodeRow
      <4> QED
        BY <3>1, <3>2
    <3> QED
      BY <1>6, <3>1, <3>3 DEF FindCode
  <2> QED
    BY <1>6, <2>1, <2>2 DEF FindCode
<1>n. NoCode \in [of : Codes \cup {NoOne}, row : CodeRow]
  BY DEF NoCode, CodeRow
<1>7. ASSUME NEW s \in SignUps, TakeCode(s) PROVE Goal
  <2>1. code' \in [Codes -> CodeRow]
    BY <1>7 DEF TakeCode
  <2>2. taken' \in [SignUps -> [of : Codes \cup {NoOne}, row : CodeRow]]
    BY <1>n, <1>7 DEF TakeCode
  <2> QED
    BY <1>7, <2>1, <2>2 DEF TakeCode
<1>8. ASSUME NEW s \in SignUps, RecordReferral(s) PROVE Goal
  BY <1>8 DEF RecordReferral
<1>9. ASSUME NEW s \in SignUps, Abandon(s) PROVE Goal
  <2>1. taken' \in [SignUps -> [of : Codes \cup {NoOne}, row : CodeRow]]
    BY <1>n, <1>9 DEF Abandon
  <2> QED
    BY <1>9, <2>1 DEF Abandon
<1>10. ASSUME NEW u \in SignUps, Approve(u) PROVE Goal
  BY <1>10 DEF Approve
<1>11. ASSUME NEW k \in Ticks, ListGiven(k) PROVE Goal
  <2>1. sending' \subseteq Ticks \X Codes \X SignUps
    <3>1. \A cu \in Given : <<k, cu[1], cu[2]>> \in Ticks \X Codes \X SignUps
      BY DEF Given
    <3> QED
      BY <1>11, <3>1 DEF ListGiven
  <2> QED
    BY <1>11, <2>1 DEF ListGiven
<1>12. ASSUME NEW k \in Ticks, NEW c \in Codes, NEW u \in SignUps, Mark(k, c, u) PROVE Goal
  <2>1. code' \in [Codes -> CodeRow]
    BY <1>12 DEF Mark, CodeRow
  <2>2. /\ marked' \subseteq Ticks \X Codes \X SignUps
        /\ sending' \subseteq Ticks \X Codes \X SignUps
    BY <1>12 DEF Mark
  <2>3. straddling' \subseteq Codes
    BY <1>12 DEF Mark
  <2> QED
    BY <1>12, <2>1, <2>2, <2>3 DEF Mark
<1>13. ASSUME NEW k \in Ticks, NEW c \in Codes, NEW u \in SignUps,
              SendCode(k, c, u) \/ DropRow(k, c, u)
       PROVE  Goal
  <2>1. sent' \in [Codes -> SUBSET SignUps]
    BY <1>13 DEF SendCode, DropRow
  <2> QED
    BY <1>13, <2>1 DEF SendCode, DropRow
<1>14. CASE UNCHANGED signUpVars
  BY <1>14 DEF signUpVars
<1> QED
  BY <1>1, <1>2, <1>3, <1>4, <1>5, <1>6, <1>7, <1>8, <1>9, <1>10, <1>11, <1>12,
     <1>13, <1>14 DEF SignUpNext, SignUpStep

\* Every step keeps what is known of a number.
LEMMA PhoneStep ==
    ASSUME SignUpInv, [SignUpNext]_signUpVars, NEW p \in Phones
    PROVE  PhoneInv(p)'
<1>t. SignUpTypeOK /\ PhoneInv(p) /\ \A s \in SignUps : StepInv(s)
  BY DEF SignUpInv
<1> USE DEF SignUpTypeOK, signing, rows, cron, Go, AboutToSave, FromApp
<1>u. ASSUME UNCHANGED <<phone, channel, users, alongside>>,
             \A s \in SignUps : step'[s] = "save" => step[s] = "save"
      PROVE  PhoneInv(p)'
  BY <1>t, <1>u DEF PhoneInv
<1>1. ASSUME NEW s \in SignUps, NEW q \in Phones, NEW r \in Referrals, Start(s, q, r)
      PROVE  PhoneInv(p)'
  BY <1>t, <1>1 DEF Start, Arrive, PhoneInv, StepInv
<1>2. ASSUME NEW s \in SignUps, NEW q \in Phones, StartUssd(s, q) PROVE PhoneInv(p)'
  BY <1>t, <1>2 DEF StartUssd, Arrive, PhoneInv, StepInv
<1>3. ASSUME NEW s \in SignUps, LookUp(s) PROVE PhoneInv(p)'
  BY <1>t, <1>3 DEF LookUp, PhoneInv
<1>4. ASSUME NEW s \in SignUps, SaveUser(s) PROVE PhoneInv(p)'
  BY <1>t, <1>4 DEF SaveUser, PhoneInv
<1>5. ASSUME NEW s \in SignUps,
             \/ SaveMethod(s) \/ SkipMethod(s) \/ RecordReferral(s)
             \/ Abandon(s) \/ TakeCode(s)
      PROVE  PhoneInv(p)'
  BY <1>t, <1>u, <1>5 DEF SaveMethod, SkipMethod, RecordReferral, Abandon, TakeCode
<1>6. ASSUME NEW s \in SignUps, CheckReferral(s) PROVE PhoneInv(p)'
  <2>1. step'[s] # "save"
    BY <1>t, <1>6 DEF CheckReferral, Referrals
  <2>2. \A r \in SignUps : step'[r] = "save" => step[r] = "save"
    BY <1>t, <1>6, <2>1 DEF CheckReferral
  <2> QED
    BY <1>u, <1>6, <2>2 DEF CheckReferral
<1>7. ASSUME NEW s \in SignUps, FindCode(s) PROVE PhoneInv(p)'
  BY <1>t, <1>u, <1>7 DEF FindCode
<1>8. CASE (\E u \in SignUps : Approve(u)) \/ UNCHANGED signUpVars
  BY <1>u, <1>8 DEF Approve, signUpVars
<1>9. ASSUME NEW k \in Ticks, ListGiven(k) PROVE PhoneInv(p)'
  BY <1>u, <1>9 DEF ListGiven
<1>10. ASSUME NEW k \in Ticks, NEW c \in Codes, NEW u \in SignUps,
              Mark(k, c, u) \/ SendCode(k, c, u) \/ DropRow(k, c, u)
       PROVE  PhoneInv(p)'
  <2>1. UNCHANGED <<phone, channel, users, alongside, step>>
    BY <1>10 DEF Mark, SendCode, DropRow
  <2> QED
    BY <1>u, <2>1
<1> QED
  BY <1>1, <1>2, <1>3, <1>4, <1>5, <1>6, <1>7, <1>8, <1>9, <1>10
  DEF SignUpNext, SignUpStep

\* Every step keeps what is known of a code.
LEMMA CodeStep ==
    ASSUME SignUpInv, [SignUpNext]_signUpVars, NEW c \in Codes
    PROVE  CodeInv(c)'
<1>t. SignUpTypeOK /\ CodeInv(c)
  BY DEF SignUpInv
<1>n. c # NoOne
  BY SignUpAssumption
<1> USE DEF SignUpTypeOK, signing, rows, cron, Go, GoesTo
<1>u. ASSUME UNCHANGED <<code, sending, marked, sent, straddling>>,
             \A s \in SignUps : taken'[s].of = c => taken[s].of = c
      PROVE  CodeInv(c)'
  BY <1>t, <1>u DEF CodeInv
<1>1. ASSUME NEW s \in SignUps, NEW q \in Phones,
             (\E r \in Referrals : Start(s, q, r)) \/ StartUssd(s, q)
      PROVE  CodeInv(c)'
  BY <1>u, <1>1 DEF Start, StartUssd, Arrive
<1>2. ASSUME NEW s \in SignUps,
             LookUp(s) \/ SaveUser(s) \/ SaveMethod(s) \/ SkipMethod(s)
      PROVE  CodeInv(c)'
  BY <1>u, <1>2 DEF LookUp, SaveUser, SaveMethod, SkipMethod
<1>3. ASSUME NEW s \in SignUps, CheckReferral(s) \/ RecordReferral(s)
      PROVE  CodeInv(c)'
  BY <1>u, <1>3 DEF CheckReferral, RecordReferral
\* A code that was marked is not PENDING, so it is not found.
<1>4. ASSUME NEW s \in SignUps, FindCode(s) PROVE CodeInv(c)'
  <2>1. UNCHANGED <<code, sending, marked, sent, straddling>>
    BY <1>4 DEF FindCode
  <2>2. CASE UNCHANGED taken
    BY <1>u, <2>1, <2>2
  <2>3. CASE ~ UNCHANGED taken
    <3>1. PICK d \in Takeable : taken' = [taken EXCEPT ![s] =
                                   [of |-> d, row |-> [code[d] EXCEPT !.user = s]]]
      BY <1>4, <2>3 DEF FindCode
    <3>2. code[d].status # "SUCCESS" /\ \A r \in SignUps : taken'[r].of \in {d, taken[r].of}
      BY <1>t, <3>1 DEF Takeable
    <3>3. \A u \in SignUps : GoesTo(c, u)' <=> GoesTo(c, u)
      BY <2>1
    <3> HIDE DEF GoesTo
    <3> SUFFICES ASSUME c \notin straddling', NEW u \in SignUps, GoesTo(c, u)'
                 PROVE  /\ code'[c].status = "SUCCESS"
                        /\ \A v \in SignUps : taken'[v].of # c
                        /\ \A k \in Ticks, v \in SignUps \ {u} : <<k, c, v>> \notin sending'
                        /\ \A v \in SignUps : GoesTo(c, v)' => u = v
      BY DEF CodeInv
    <3>4. c \notin straddling /\ GoesTo(c, u)
      BY <2>1, <3>3
    <3>5. /\ code[c].status = "SUCCESS"
          /\ \A v \in SignUps : taken[v].of # c
          /\ \A k \in Ticks, v \in SignUps \ {u} : <<k, c, v>> \notin sending
          /\ \A v \in SignUps : GoesTo(c, v) => u = v
      BY <1>t, <3>4 DEF CodeInv
    <3> QED
      BY <2>1, <3>2, <3>3, <3>5
  <2> QED
    BY <2>2, <2>3
\* A code that was marked is held by nobody, so it is not written back.
<1>5. ASSUME NEW s \in SignUps, TakeCode(s) PROVE CodeInv(c)'
  <2>1. /\ UNCHANGED <<sending, marked, sent, straddling>>
        /\ taken[s].of # c => code'[c] = code[c]
        /\ \A r \in SignUps : taken'[r].of = c => taken[r].of = c
    BY <1>t, <1>n, <1>5 DEF TakeCode, NoCode
  <2> QED
    BY <1>t, <2>1 DEF CodeInv
<1>6. ASSUME NEW s \in SignUps, Abandon(s) PROVE CodeInv(c)'
  <2>1. \A r \in SignUps : taken'[r].of = c => taken[r].of = c
    BY <1>t, <1>n, <1>6 DEF Abandon, NoCode
  <2> QED
    BY <1>u, <1>6, <2>1 DEF Abandon
\* A code that was marked is not PENDING, so it is not listed.
<1>7. ASSUME NEW k \in Ticks, ListGiven(k) PROVE CodeInv(c)'
  <2>1. /\ UNCHANGED <<code, marked, sent, straddling, taken>>
        /\ \A l, v : <<l, c, v>> \in sending' =>
              <<l, c, v>> \in sending \/ code[c].status = "PENDING"
    BY <1>7 DEF ListGiven, Given
  <2> QED
    BY <1>t, <2>1 DEF CodeInv
<1>8. ASSUME NEW k \in Ticks, NEW d \in Codes, NEW u \in SignUps, Mark(k, d, u)
      PROVE  CodeInv(c)'
  <2>1. /\ <<k, d, u>> \in sending /\ sending' = sending \ {<<k, d, u>>}
        /\ UNCHANGED <<taken, sent>>
    BY <1>8 DEF Mark
  <2>2. CASE UNCHANGED <<code, marked, straddling>>
    BY <1>t, <2>1, <2>2 DEF CodeInv
  <2>3. CASE /\ code' = [code EXCEPT ![d] = [status |-> "SUCCESS", user |-> u]]
             /\ marked' = marked \cup {<<k, d, u>>}
             /\ straddling' = IF InOtherHands(d, u)
                              THEN straddling \cup {d} ELSE straddling
    <3>1. CASE d = c
      <4> SUFFICES ASSUME c \notin straddling'
                   PROVE  CodeInv(c)'
        BY DEF CodeInv
      <4>1. code'[c].status = "SUCCESS"
        BY <1>t, <2>3, <3>1
      <4>2. /\ c \notin straddling
            /\ \A s \in SignUps : taken'[s].of # c
            /\ \A l \in Ticks, v \in SignUps \ {u} : <<l, c, v>> \notin sending'
        BY <2>1, <2>3, <3>1 DEF InOtherHands
      <4>3. \A v \in SignUps : GoesTo(c, v) => v = u
        BY <1>t, <2>1, <3>1, <4>2 DEF CodeInv
      <4>4. \A v \in SignUps : GoesTo(c, v)' => v = u
        BY <2>1, <2>3, <3>1, <4>3
      <4> HIDE DEF GoesTo
      <4> QED
        BY <4>1, <4>2, <4>4 DEF CodeInv
    <3>2. CASE d # c
      <4>1. /\ code'[c] = code[c]
            /\ c \notin straddling' => c \notin straddling
            /\ \A l, v : <<l, c, v>> \in marked' <=> <<l, c, v>> \in marked
        BY <1>t, <2>3, <3>2
      <4> QED
        BY <1>t, <2>1, <4>1 DEF CodeInv
    <3> QED
      BY <3>1, <3>2
  <2> QED
    BY <1>8, <2>2, <2>3 DEF Mark
<1>9. ASSUME NEW k \in Ticks, NEW d \in Codes, NEW u \in SignUps,
             SendCode(k, d, u) \/ DropRow(k, d, u)
      PROVE  CodeInv(c)'
  <2>1. UNCHANGED <<code, taken, straddling>> /\ sending' \subseteq sending
    BY <1>9 DEF SendCode, DropRow
  <2>2. \A v \in SignUps : GoesTo(c, v)' => GoesTo(c, v)
    <3>1. marked' \subseteq marked
      BY <1>9 DEF SendCode, DropRow
    <3>2. ASSUME NEW v \in SignUps, v \in sent'[c] PROVE v \in sent[c] \/ <<k, c, v>> \in marked
      <4>1. CASE SendCode(k, d, u)
        <5>1. <<k, d, u>> \in marked /\ sent' = [sent EXCEPT ![d] = @ \cup {u}]
          BY <4>1 DEF SendCode
        <5> QED
          BY <1>t, <3>2, <5>1
      <4>2. CASE DropRow(k, d, u)
        BY <3>2, <4>2 DEF DropRow
      <4> QED
        BY <1>9, <4>1, <4>2
    <3> QED
      BY <3>1, <3>2
  <2> HIDE DEF GoesTo
  <2> SUFFICES ASSUME c \notin straddling', NEW v \in SignUps, GoesTo(c, v)'
               PROVE  /\ code'[c].status = "SUCCESS"
                      /\ \A w \in SignUps : taken'[w].of # c
                      /\ \A l \in Ticks, w \in SignUps \ {v} : <<l, c, w>> \notin sending'
                      /\ \A w \in SignUps : GoesTo(c, w)' => v = w
    BY DEF CodeInv
  <2>3. /\ code[c].status = "SUCCESS"
        /\ \A w \in SignUps : taken[w].of # c
        /\ \A l \in Ticks, w \in SignUps \ {v} : <<l, c, w>> \notin sending
        /\ \A w \in SignUps : GoesTo(c, w) => v = w
    BY <1>t, <2>1, <2>2 DEF CodeInv
  <2> QED
    BY <2>1, <2>2, <2>3
<1>10. CASE (\E u \in SignUps : Approve(u)) \/ UNCHANGED signUpVars
  BY <1>u, <1>10 DEF Approve, signUpVars
<1> QED
  BY <1>1, <1>2, <1>3, <1>4, <1>5, <1>6, <1>7, <1>8, <1>9, <1>10
  DEF SignUpNext, SignUpStep

THEOREM SignUpInvariant == SignUpSpec => []SignUpInv
<1>1. SignUpInv /\ [SignUpNext]_signUpVars => SignUpInv'
  BY SignUpTypeStep, PhoneStep, CodeStep DEF SignUpInv
<1> QED
  BY <1>1, SignUpInitInv, PTL DEF SignUpSpec

\* However many sign-ups run side by side, the app gives a number to one user,
\* unless two worked on it at a time or one came over USSD.
THEOREM NumberHasOneUser == SignUpSpec => []OneUserPerPhone
<1>1. SignUpInv => OneUserPerPhone
  <2> SUFFICES ASSUME SignUpInv, NEW u \in users, NEW v \in users, u # v,
                      phone[u] = phone[v], "ussd" \notin {channel[u], channel[v]}
               PROVE  phone[u] \in alongside
    BY DEF OneUserPerPhone
  <2>1. phone[u] \in Phones /\ channel[u] = "app" /\ channel[v] = "app"
    BY DEF SignUpInv, SignUpTypeOK, StepInv
  <2> QED
    BY <2>1 DEF SignUpInv, PhoneInv, FromApp
<1> QED
  BY <1>1, SignUpInvariant, PTL

LEMMA AtMostOne ==
    ASSUME NEW S, \A x, y \in S : x = y
    PROVE  Cardinality(S) <= 1
<1>1. CASE S = {}
  BY <1>1, FS_EmptySet
<1>2. CASE S # {}
  <2>1. PICK x \in S : S = {x}
    BY <1>2
  <2> QED
    BY <2>1, FS_Singleton
<1> QED
  BY <1>1, <1>2

\* However often it changes hands before, and however the cron's runs overlap, a
\* promo code is sent to one user, unless while a run marked it a sign-up held it
\* or a run had it listed for another user.
THEOREM CodeGoesToOne == SignUpSpec => []CodeSentOnce
<1>1. SignUpInv => CodeSentOnce
  <2> SUFFICES ASSUME SignUpInv, NEW c \in Codes, c \notin straddling
               PROVE  ~(Cardinality(sent[c]) > 1)
    BY DEF CodeSentOnce
  <2>1. sent[c] \subseteq SignUps
    BY DEF SignUpInv, SignUpTypeOK
  <2>2. \A u, v \in sent[c] : u = v
    BY <2>1 DEF SignUpInv, CodeInv, GoesTo
  <2>3. Cardinality(sent[c]) <= 1
    BY <2>2, AtMostOne
  <2>4. IsFiniteSet(sent[c])
    <3>1. sent[c] = {} \/ \E x : sent[c] = {x}
      BY <2>2
    <3> QED
      BY <3>1, FS_EmptySet, FS_Singleton
  <2> QED
    BY <2>3, <2>4, FS_CardinalityType
<1> QED
  BY <1>1, SignUpInvariant, PTL

-----------------------------------------------------------------------------
(***************************************************************************)
(* The password, for any calls and passwords.  Who is about to change it   *)
(* holds the new one; who is about to save a login holds the one in the    *)
(* row, unless a password was saved meanwhile; the visit whose change was  *)
(* saved last is past its save.                                            *)
(***************************************************************************)
Places == {"idle", "login", "change", "reset", "answer", "ended", "broken"}

VisitInv(v) ==
    /\ visit[v] \in {"change", "reset"} => copy[v].password = Fresh[v]
    /\ visit[v] = "login" => copy[v].password = password \/ stale
    /\ latest = v => visit[v] \in {"answer", "ended", "broken"}

SignInInv ==
    /\ SignInTypeOK
    /\ \A v \in Visits : VisitInv(v)
    /\ PasswordStands

LEMMA SignInInitInv == SignInInit => SignInInv
<1> SUFFICES ASSUME SignInInit PROVE SignInInv
  OBVIOUS
<1>1. SignInTypeOK
  BY DEF SignInInit, SignInTypeOK, AuthRow, FirstRow, Passwords, Never
<1> QED
  BY <1>1, SignInAssumption
  DEF SignInInit, SignInInv, VisitInv, PasswordStands, InDoubt

LEMMA SignInStep == SignInInv /\ [SignInNext]_signInVars => SignInInv'
<1> SUFFICES ASSUME SignInInv, [SignInNext]_signInVars PROVE SignInInv'
  OBVIOUS
<1>t. /\ password \in Passwords /\ login \in Visits \cup {Never}
      /\ visit \in [Visits -> Places]
      /\ copy \in [Visits -> AuthRow] /\ agreed \in Passwords
      /\ latest \in Visits \cup {Never} /\ stale \in BOOLEAN
      /\ \A v \in Visits : VisitInv(v)
      /\ PasswordStands
  BY DEF SignInInv, SignInTypeOK, AuthRow, Places
<1>g. ASSUME /\ password' \in Passwords /\ login' \in Visits \cup {Never}
             /\ visit' \in [Visits -> Places]
             /\ copy' \in [Visits -> AuthRow] /\ agreed' \in Passwords
             /\ latest' \in Visits \cup {Never} /\ stale' \in BOOLEAN
             /\ \A v \in Visits : VisitInv(v)'
             /\ PasswordStands'
      PROVE  SignInInv'
  BY <1>g DEF SignInInv, SignInTypeOK, AuthRow, Places
<1>c. \A v \in Visits : copy[v].password \in Passwords /\ copy[v].login \in Visits \cup {Never}
  BY <1>t DEF AuthRow
<1>f. \A v \in Visits : Fresh[v] \in Passwords
  BY DEF Passwords
\* What stands, stands while the row, what was agreed and the last change do.
<1>s. ASSUME UNCHANGED <<password, agreed, latest, stale>>, InDoubt' <=> InDoubt
      PROVE  PasswordStands'
  BY <1>t, <1>s DEF PasswordStands
\* A call reads the row: what it will write is in its copy.
<1>1. ASSUME NEW v \in Visits, NEW new \in Passwords, NEW date \in Visits \cup {Never},
             NEW where \in {"login", "change", "reset"}, visit[v] = "idle",
             Holds(v, [password |-> new, login |-> date]), Goes(v, where),
             UNCHANGED <<password, login, agreed, latest, stale>>,
             where = "login" => new = password,
             where # "login" => new = Fresh[v]
      PROVE  SignInInv'
  <2>1. [password |-> new, login |-> date] \in AuthRow
    BY DEF AuthRow
  <2>2. copy' \in [Visits -> AuthRow]
    BY <1>t, <1>1, <2>1 DEF Holds
  <2>3. visit' \in [Visits -> Places]
    BY <1>t, <1>1 DEF Goes, Places
  <2>4. ASSUME NEW w \in Visits PROVE VisitInv(w)'
    <3>1. CASE w = v
      <4>1. copy'[v].password = new /\ visit'[v] = where
        BY <1>t, <1>1 DEF Holds, Goes
      <4>2. latest' # v
        BY <1>t, <1>1 DEF VisitInv
      <4> QED
        BY <1>1, <3>1, <4>1, <4>2 DEF VisitInv
    <3>2. CASE w # v
      <4>1. copy'[w] = copy[w] /\ visit'[w] = visit[w]
        BY <1>t, <1>1, <3>2 DEF Holds, Goes
      <4> QED
        BY <1>t, <1>1, <4>1 DEF VisitInv
    <3> QED
      BY <3>1, <3>2
  <2>5. InDoubt' <=> InDoubt
    BY <1>t, <1>1 DEF InDoubt, Goes, VisitInv
  <2> QED
    BY <1>t, <1>g, <1>s, <1>1, <2>2, <2>3, <2>4, <2>5
<1>2. ASSUME NEW v \in Visits, Authenticate(v) PROVE SignInInv'
  BY <1>t, <1>1, <1>2 DEF Authenticate
<1>3. ASSUME NEW v \in Visits, NEW old \in Passwords, ReadToChange(v, old) PROVE SignInInv'
  <2>1. CASE old = password
    BY <1>t, <1>f, <1>1, <1>3, <2>1 DEF ReadToChange
  <2>2. CASE old # password
    <3>1. /\ visit[v] = "idle" /\ visit' = [visit EXCEPT ![v] = "ended"]
          /\ UNCHANGED <<password, login, copy, agreed, latest, stale>>
      BY <1>3, <2>2 DEF ReadToChange, Goes
    <3>2. \A w \in Visits : VisitInv(w)'
      BY <1>t, <3>1 DEF VisitInv
    <3>3. InDoubt' <=> InDoubt
      BY <1>t, <3>1 DEF InDoubt
    <3>4. visit' \in [Visits -> Places]
      BY <1>t, <3>1 DEF Places
    <3> QED
      BY <1>t, <1>g, <1>s, <3>1, <3>2, <3>3, <3>4
  <2> QED
    BY <2>1, <2>2
<1>4. ASSUME NEW v \in Visits, ReadToReset(v) PROVE SignInInv'
  BY <1>t, <1>f, <1>1, <1>4 DEF ReadToReset
\* The login's copy has the password the row has, or a change came between.
<1>5. ASSUME NEW v \in Visits, SaveLogin(v) PROVE SignInInv'
  <2>1. password' = password \/ stale
    BY <1>t, <1>5 DEF SaveLogin, VisitInv
  <2>2. /\ visit[v] = "login" /\ visit' = [visit EXCEPT ![v] = "ended"]
        /\ UNCHANGED <<copy, agreed, latest, stale>>
    BY <1>5 DEF SaveLogin, Goes
  <2>3. \A w \in Visits : VisitInv(w)'
    BY <1>t, <2>1, <2>2 DEF VisitInv
  <2>4. InDoubt' <=> InDoubt
    BY <1>t, <2>2 DEF InDoubt, VisitInv
  <2>5. PasswordStands'
    BY <1>t, <2>1, <2>2, <2>4 DEF PasswordStands
  <2>6. visit' \in [Visits -> Places]
    BY <1>t, <2>2 DEF Places
  <2>7. password' \in Passwords /\ login' \in Visits \cup {Never}
    BY <1>c, <1>5 DEF SaveLogin
  <2> QED
    BY <1>t, <1>g, <2>2, <2>3, <2>5, <2>6, <2>7
\* A change is saved and is in doubt: whoever else holds a copy may put the old
\* password back.
<1>6. ASSUME NEW v \in Visits, SaveChange(v) PROVE SignInInv'
  <2>1. /\ visit[v] \in {"change", "reset"}
        /\ password' = Fresh[v] /\ login' \in Visits \cup {Never}
        /\ visit' = [visit EXCEPT ![v] = "answer"] /\ UNCHANGED <<copy, agreed>>
        /\ latest' = v /\ stale' = (stale \/ Holding # {v})
    BY <1>t, <1>c, <1>6 DEF SaveChange, Goes, VisitInv
  <2>2. ASSUME NEW w \in Visits PROVE VisitInv(w)'
    <3>1. CASE w = v
      BY <1>t, <2>1, <3>1 DEF VisitInv
    <3>2. CASE w # v
      <4>1. visit'[w] = visit[w] /\ latest' # w
        BY <1>t, <2>1, <3>2
      <4>2. visit[w] = "login" => stale'
        BY <2>1, <3>2 DEF Holding
      <4> QED
        BY <1>t, <2>1, <4>1, <4>2 DEF VisitInv
    <3> QED
      BY <3>1, <3>2
  <2>3. PasswordStands'
    <3>1. InDoubt'
      BY <1>t, <2>1 DEF InDoubt
    <3> QED
      BY <2>1, <3>1 DEF PasswordStands
  <2>4. visit' \in [Visits -> Places] /\ stale' \in BOOLEAN /\ password' \in Passwords
    BY <1>t, <1>f, <2>1 DEF Places
  <2> QED
    BY <1>t, <1>g, <2>1, <2>2, <2>3, <2>4
\* The last change is agreed on, an earlier one changes nothing.
<1>7. ASSUME NEW v \in Visits, Confirm(v) PROVE SignInInv'
  <2>1. /\ visit[v] = "answer" /\ visit' = [visit EXCEPT ![v] = "ended"]
        /\ agreed' = IF latest = v THEN Fresh[v] ELSE agreed
        /\ UNCHANGED <<password, login, copy, latest, stale>>
    BY <1>7 DEF Confirm, Goes
  <2>2. \A w \in Visits : VisitInv(w)'
    BY <1>t, <2>1 DEF VisitInv
  <2>3. PasswordStands'
    <3>1. CASE latest = v
      <4>1. InDoubt /\ ~InDoubt' /\ agreed' = Fresh[latest]
        BY <1>t, <2>1, <3>1 DEF InDoubt
      <4> QED
        BY <1>t, <2>1, <4>1 DEF PasswordStands
    <3>2. CASE latest # v
      <4>1. (InDoubt' <=> InDoubt) /\ agreed' = agreed
        BY <1>t, <2>1, <3>2 DEF InDoubt
      <4> QED
        BY <1>s, <2>1, <4>1
    <3> QED
      BY <3>1, <3>2
  <2>4. visit' \in [Visits -> Places] /\ agreed' \in Passwords
    BY <1>t, <1>f, <2>1 DEF Places
  <2> QED
    BY <1>t, <1>g, <2>1, <2>2, <2>3, <2>4
\* A call that breaks before its save leaves the row, one that breaks after leaves
\* its change in doubt.
<1>8. ASSUME NEW v \in Visits, Break(v) PROVE SignInInv'
  <2>1. /\ visit[v] \in {"login", "change", "reset", "answer"}
        /\ visit' = [visit EXCEPT ![v] = "broken"]
        /\ UNCHANGED <<password, login, copy, agreed, latest, stale>>
    BY <1>8 DEF Break, Goes, Holding
  <2>2. \A w \in Visits : VisitInv(w)'
    BY <1>t, <2>1 DEF VisitInv
  <2>3. InDoubt' <=> InDoubt
    <3>1. latest = v => visit[v] = "answer"
      BY <1>t, <2>1 DEF VisitInv
    <3> QED
      BY <1>t, <2>1, <3>1 DEF InDoubt
  <2>4. visit' \in [Visits -> Places]
    BY <1>t, <2>1 DEF Places
  <2> QED
    BY <1>t, <1>g, <1>s, <2>1, <2>2, <2>3, <2>4
<1>9. CASE UNCHANGED signInVars
  BY <1>t, <1>g, <1>s, <1>9 DEF signInVars, VisitInv, InDoubt
<1> QED
  BY <1>2, <1>3, <1>4, <1>5, <1>6, <1>7, <1>8, <1>9 DEF SignInNext, VisitStep

\* Whatever calls run side by side, the password in the row is the one last
\* confirmed to the user or, while the last change saved is unanswered, that
\* change's, unless another call held a copy while a change was saved.
THEOREM PasswordIsKept == SignInSpec => []PasswordStands
<1>1. SignInInv => PasswordStands
  BY DEF SignInInv
<1> QED
  BY <1>1, SignInInitInv, SignInStep, PTL DEF SignInSpec

-----------------------------------------------------------------------------
(***************************************************************************)
(* The payment methods, for any calls, users and OTPs.  An OTP that two    *)
(* calls never held together has at most one call about to use it, and     *)
(* none once it is used.  A user whose defaults nothing disturbed has      *)
(* exactly one while no call of the user's is to set one; while some are,  *)
(* what is set is what they are to set; and a call that has found that a   *)
(* method may go is not overtaken by one that made it the default.         *)
(***************************************************************************)
Shows(c, t) == place[c] = "use" /\ otpOf[c] = t

OtpInv(t) ==
    t \notin otpShared =>
        /\ \A c, d \in Calls : Shows(c, t) /\ Shows(d, t) => c = d
        /\ \A c \in Calls : Shows(c, t) => otp[t] = "not_verified"
        /\ otp[t] = "not_verified" => passed[t] = {}
        /\ \A c, d \in passed[t] : c = d

Over(c) == place[c] \in {"ended", "died"}
Writing(c) == place[c] \in {"clear", "check", "save", "delete"}

\* Which call is where.
CallInv(c) ==
    /\ place[c] \in {"otp", "use"} => otpOf[c] \in Otps
    /\ place[c] \in {"otp", "use", "count"} => op[c] = "create"
    /\ place[c] \in {"clear", "check"} => op[c] \in {"create", "update"}
    /\ place[c] = "read" => op[c] \in {"update", "delete"}
    /\ place[c] = "delete" => op[c] = "delete"
    /\ place[c] = "save" => op[c] # "delete"
    /\ place[c] # "idle" => by[c] \in Clients /\ of[c] \in Methods
    /\ op[c] \in {"create", "assign"} /\ place[c] # "idle" => of[c] = c
    /\ place[c] = "clear" => flag[c] = "true"
    /\ place[c] = "check" => flag[c] = "false"
    /\ op[c] = "assign" => flag[c] = "unset"

\* A row is there only once its creator is done, and only then do others write it.
RowInv(c) ==
    /\ method[c] # Absent => Over(c)
    /\ Writing(c) /\ op[c] \in {"update", "delete"} /\ of[c] \in Calls => Over(of[c])

\* A call of the user's that has cleared the flags and is to set one, and a call
\* that has found that its method is none of the user's defaults, or may be so.
Chooses(c, p) == Choosing(c) /\ by[c] = p
MayGo(c, p) ==
    place[c] = "delete" \/ (place[c] = "save" /\ flag[c] = "false" /\ by[c] = p)

DefaultInv(p) ==
    p \notin disturbed =>
        /\ (\A c \in Calls : ~Chooses(c, p)) => \E m \in Methods : Defaults(p) = {m}
        /\ \A c \in Calls : Chooses(c, p) => Defaults(p) \subseteq {of[c]}
        /\ \A c \in Calls : MayGo(c, p) => of[c] \notin Defaults(p)

CallsInv == \A c \in Calls : CallInv(c)
RowsInv == \A c \in Calls : RowInv(c)
OtpsInv == \A t \in Otps : OtpInv(t)
DefaultsInv == \A p \in Clients : DefaultInv(p)

MethodsInv ==
    /\ MethodsTypeOK
    /\ CallsInv
    /\ RowsInv
    /\ OtpsInv
    /\ DefaultsInv

LEMMA MethodsInitInv == MethodsInit => MethodsInv
<1> SUFFICES ASSUME MethodsInit PROVE MethodsInv
  OBVIOUS
<1> USE MethodsAssumption DEF MethodsInit
<1>1. MethodsTypeOK
  BY DEF MethodsTypeOK, Methods, Flags, Absent
<1>2. CallsInv /\ RowsInv /\ OtpsInv
  BY DEF CallsInv, CallInv, RowsInv, RowInv, OtpsInv, OtpInv, Shows, Writing, Methods,
         Absent
<1>3. ASSUME NEW p \in Clients PROVE DefaultInv(p)
  <2>1. Defaults(p) = {p}
    BY DEF Defaults, OfUser, OwnerOf, Live, Methods, Absent
  <2> QED
    BY <2>1 DEF DefaultInv, Chooses, Choosing, MayGo, Methods
<1> QED
  BY <1>1, <1>2, <1>3 DEF MethodsInv, DefaultsInv

\* Every step keeps the types.
LEMMA MethodsTypeStep ==
    MethodsTypeOK /\ CallsInv /\ RowsInv /\ [MethodsNext]_methodVars => MethodsTypeOK'
<1> SUFFICES ASSUME MethodsTypeOK, CallsInv, RowsInv, [MethodsNext]_methodVars
             PROVE  MethodsTypeOK'
  OBVIOUS
<1> USE DEF MethodsTypeOK, methodGhosts, To, Flags
<1>1. ASSUME NEW c \in Calls, NEW o \in {"create", "update", "delete", "assign"},
             NEW p \in Clients, NEW m \in Methods, NEW f \in Flags,
             NEW t \in Otps \cup {NoOtp}, Begin(c, o, p, m, f, t)
      PROVE  MethodsTypeOK'
  BY <1>1 DEF Begin
<1>2. ASSUME NEW c \in Calls, ReadOtp(c) PROVE MethodsTypeOK'
  BY <1>2 DEF ReadOtp, CallsInv, CallInv
<1>3. ASSUME NEW c \in Calls, UseOtp(c) PROVE MethodsTypeOK'
  BY <1>3 DEF UseOtp
<1>f. \A c \in Calls : ByFlag(c) \in {"clear", "check", "save"}
  BY DEF ByFlag
<1>4. ASSUME NEW c \in Calls, Count(c) PROVE MethodsTypeOK'
  BY <1>f, <1>4 DEF Count
<1>r. ASSUME NEW c \in Calls, Read(c) PROVE MethodsTypeOK'
  <2>1. place' \in [Calls -> {"idle", "otp", "use", "count", "clear", "check", "save",
                         "read", "delete", "ended", "died"}]
    <3>1. of[c] \in Methods /\ op[c] \in {"update", "delete"} /\ place[c] = "read"
      BY <1>r DEF Read, CallsInv, CallInv
    <3>2. place'[c] \in {"clear", "check", "save", "delete", "ended"}
      BY <1>f, <1>r, <3>1 DEF Read, Live, Absent
    <3> QED
      BY <1>r, <3>2 DEF Read
  <2> QED
    BY <1>r, <2>1 DEF Read
<1>5. ASSUME NEW c \in Calls, Clear(c) \/ Check(c) PROVE MethodsTypeOK'
  BY <1>5 DEF Clear, Check, Absent
<1>6. ASSUME NEW c \in Calls, Save(c) PROVE MethodsTypeOK'
  <2>1. place[c] = "save" /\ by[c] \in Clients /\ of[c] \in Methods
    BY <1>6 DEF Save, CallsInv, CallInv
  <2>2. Written(c) \in {"true", "false", "null"}
    BY <2>1 DEF Written, Live, Absent
  <2>3. OwnerOf(of[c]) \in Clients
    <3>1. CASE of[c] \in Clients
      BY <3>1 DEF OwnerOf
    <3>2. CASE of[c] \notin Clients
      <4>1. of[c] \in Calls /\ place[of[c]] # "idle"
        BY <2>1, <3>2 DEF Methods, CallsInv, CallInv, RowsInv, RowInv, Writing, Over
      <4> QED
        BY <3>2, <4>1 DEF OwnerOf, CallsInv, CallInv
    <3> QED
      BY <3>1, <3>2
  <2>4. disturbed' \subseteq Clients
    BY <1>6, <2>1, <2>3 DEF Save, Disturb
  <2> QED
    BY <1>6, <2>1, <2>2, <2>4 DEF Save
<1>7. ASSUME NEW c \in Calls, Delete(c) PROVE MethodsTypeOK'
  BY <1>7 DEF Delete, Absent
<1>8. ASSUME NEW c \in Calls, Die(c) PROVE MethodsTypeOK'
  <2>1. disturbed' \subseteq Clients
    BY <1>8 DEF Die, Choosing, CallsInv, CallInv
  <2> QED
    BY <1>8, <2>1 DEF Die
<1>9. CASE UNCHANGED methodVars
  BY <1>9 DEF methodVars, call
<1> QED
  BY <1>1, <1>2, <1>3, <1>4, <1>r, <1>5, <1>6, <1>7, <1>8, <1>9 DEF MethodsNext, CallStep

\* A step of a call is of one under way, and leaves the others where they are.
LEMMA StepOfOne ==
    ASSUME MethodsTypeOK, NEW c \in Calls, CallStep(c)
    PROVE  /\ Active(c)
           /\ UNCHANGED <<op, by, of, flag, otpOf>>
           /\ disturbed \subseteq disturbed'
           /\ \A d \in Calls \ {c} : place'[d] = place[d]
  BY DEF MethodsTypeOK, CallStep, ReadOtp, UseOtp, Count, Clear, Check, Read, Save,
         Delete, Die, Active, To, methodGhosts

\* Every step keeps which call is where.
LEMMA CallInvStep ==
    MethodsTypeOK /\ CallsInv /\ [MethodsNext]_methodVars => CallsInv'
<1> SUFFICES ASSUME MethodsTypeOK, CallsInv, [MethodsNext]_methodVars PROVE CallsInv'
  OBVIOUS
<1> USE DEF MethodsTypeOK, CallsInv, CallInv
<1>1. ASSUME NEW c \in Calls, NEW o \in {"create", "update", "delete", "assign"},
             NEW p \in Clients, NEW m \in Methods, NEW f \in Flags,
             NEW t \in Otps \cup {NoOtp}, Begin(c, o, p, m, f, t)
      PROVE  CallsInv'
  BY <1>1 DEF Begin, To
<1>2. ASSUME NEW c \in Calls, CallStep(c) PROVE CallsInv'
  <2>1. ASSUME NEW d \in Calls \ {c} PROVE CallInv(d)'
    BY <1>2, <2>1, StepOfOne
  <2>2. UNCHANGED <<op, by, of, flag, otpOf>>
    BY <1>2, StepOfOne
  <2>3. CASE ReadOtp(c) \/ UseOtp(c) \/ Die(c) \/ Delete(c) \/ Save(c)
    BY <2>1, <2>2, <2>3 DEF ReadOtp, UseOtp, Die, Delete, Save, To, Active
  <2>4. CASE Count(c) \/ Clear(c) \/ Check(c)
    BY <2>1, <2>2, <2>4 DEF Count, Clear, Check, To, ByFlag
  <2>5. CASE Read(c)
    <3>1. /\ place[c] = "read" /\ op[c] \in {"update", "delete"}
          /\ by[c] \in Clients /\ of[c] \in Methods
      BY <2>5 DEF Read
    <3>2. \/ place'[c] = "ended"
          \/ op[c] = "update" /\ place'[c] = ByFlag(c)
          \/ op[c] = "delete" /\ place'[c] = "delete"
      BY <2>5, <3>1 DEF Read, To, Live, Absent
    <3> QED
      BY <2>1, <2>2, <3>1, <3>2 DEF ByFlag
  <2> QED
    BY <1>2, <2>3, <2>4, <2>5 DEF CallStep
<1>3. CASE UNCHANGED methodVars
  BY <1>3 DEF methodVars, call
<1> QED
  BY <1>1, <1>2, <1>3 DEF MethodsNext

\* Every step keeps who may have made a row.
LEMMA RowInvStep ==
    MethodsTypeOK /\ CallsInv /\ RowsInv /\ [MethodsNext]_methodVars => RowsInv'
<1> SUFFICES ASSUME MethodsTypeOK, CallsInv, RowsInv, [MethodsNext]_methodVars
             PROVE  RowsInv'
  OBVIOUS
<1> USE DEF MethodsTypeOK, RowsInv, RowInv, Over, Writing, To
<1>1. ASSUME NEW c \in Calls, NEW o \in {"create", "update", "delete", "assign"},
             NEW p \in Clients, NEW m \in Methods, NEW f \in Flags,
             NEW t \in Otps \cup {NoOtp}, Begin(c, o, p, m, f, t)
      PROVE  RowsInv'
  BY <1>1 DEF Begin
<1>2. ASSUME NEW c \in Calls, CallStep(c) PROVE RowsInv'
  <2>1. /\ Active(c) /\ UNCHANGED <<op, by, of, flag, otpOf>>
        /\ \A d \in Calls \ {c} : place'[d] = place[d]
    BY <1>2, StepOfOne
  <2>2. \A d \in Calls : Over(d) => Over(d)'
    BY <2>1 DEF Active
  <2>3. ASSUME \A d \in Calls : method'[d] # Absent => method[d] # Absent,
               Writing(c)' /\ op[c] \in {"update", "delete"} /\ of[c] \in Calls
                   => Over(of[c])
        PROVE  RowsInv'
    BY <2>1, <2>2, <2>3
  <2>4. CASE ReadOtp(c) \/ UseOtp(c) \/ Count(c) \/ Die(c)
    <3>1. UNCHANGED method /\ (op[c] # "create" => ~Writing(c)')
      BY <2>4 DEF ReadOtp, UseOtp, Count, Die, CallsInv, CallInv
    <3> QED
      BY <2>3, <3>1
  <2>5. CASE Clear(c) \/ Check(c)
    <3>1. Writing(c) /\ \A d \in Calls : method'[d] # Absent => method[d] # Absent
      BY <2>5 DEF Clear, Check, OfUser, Live, Methods
    <3> QED
      BY <2>3, <3>1
  \* A row that is found is its creator's no more.
  <2>6. CASE Read(c)
    <3>1. of[c] \in Methods /\ UNCHANGED method
      BY <2>6 DEF Read, CallsInv, CallInv
    <3>2. of[c] \notin Live => place'[c] = "ended"
      BY <2>6, <3>1 DEF Read, Live, Absent
    <3> QED
      BY <2>3, <3>1, <3>2 DEF Live
  <2>7. CASE Save(c)
    <3>1. place[c] = "save" /\ Over(c)' /\ op[c] # "delete" /\ of[c] \in Methods
      BY <2>7 DEF Save, CallsInv, CallInv
    <3>2. \A d \in Calls : method'[d] # Absent => method[d] # Absent \/ d = of[c]
      BY <2>7 DEF Save
    <3>3. of[c] \in Calls => Over(of[c])'
      <4>1. CASE op[c] = "update"
        BY <2>1, <2>2, <3>1, <4>1
      <4>2. CASE op[c] # "update"
        <5>1. of[c] = c
          BY <3>1, <4>2 DEF CallsInv, CallInv
        <5> QED
          BY <2>1, <3>1, <5>1
      <4> QED
        BY <4>1, <4>2
    <3> QED
      BY <2>1, <2>2, <3>1, <3>2, <3>3
  <2>8. CASE Delete(c)
    <3>1. ~Writing(c)' /\ \A d \in Calls : method'[d] # Absent => method[d] # Absent
      BY <2>8 DEF Delete
    <3> QED
      BY <2>3, <3>1
  <2> QED
    BY <1>2, <2>4, <2>5, <2>6, <2>7, <2>8 DEF CallStep
<1>3. CASE UNCHANGED methodVars
  BY <1>3 DEF methodVars, call
<1> QED
  BY <1>1, <1>2, <1>3 DEF MethodsNext

\* Every step keeps what is known of an OTP.
LEMMA OtpInvStep ==
    ASSUME MethodsTypeOK, CallsInv, OtpsInv, [MethodsNext]_methodVars, NEW t \in Otps
    PROVE  OtpInv(t)'
<1>o. OtpInv(t)
  BY DEF OtpsInv
<1> USE DEF MethodsTypeOK, Shows, To
<1>u. ASSUME UNCHANGED <<otp, passed, otpShared>>,
             \A c \in Calls : Shows(c, t)' => Shows(c, t)
      PROVE  OtpInv(t)'
  BY <1>o, <1>u DEF OtpInv
<1>1. ASSUME NEW c \in Calls, NEW o \in {"create", "update", "delete", "assign"},
             NEW p \in Clients, NEW m \in Methods, NEW f \in Flags,
             NEW i \in Otps \cup {NoOtp}, Begin(c, o, p, m, f, i)
      PROVE  OtpInv(t)'
  <2>1. place'[c] \in {"otp", "save", "read"}
    BY <1>1 DEF Begin
  <2>2. /\ UNCHANGED <<otp, passed, otpShared>>
        /\ \A d \in Calls \ {c} : place'[d] = place[d] /\ otpOf'[d] = otpOf[d]
    BY <1>1 DEF Begin, methodGhosts
  <2> QED
    BY <1>u, <2>1, <2>2
<1>2. ASSUME NEW c \in Calls, ReadOtp(c) PROVE OtpInv(t)'
  <2>1. CASE otp[otpOf[c]] = "verified" \/ otpOf[c] # t
    <3>1. UNCHANGED <<otp, passed>> /\ (t \in otpShared' <=> t \in otpShared)
      BY <1>2, <2>1 DEF ReadOtp
    <3>2. \A d \in Calls : Shows(d, t)' => Shows(d, t)
      BY <1>2, <2>1 DEF ReadOtp
    <3> QED
      BY <1>o, <3>1, <3>2 DEF OtpInv
  <2>2. CASE otp[otpOf[c]] # "verified" /\ otpOf[c] = t
    <3>1. /\ UNCHANGED <<otp, passed>>
          /\ otp[t] = "not_verified"
          /\ t \notin otpShared' =>
                t \notin otpShared /\ \A d \in Calls : ~Shows(d, t)
          /\ \A d \in Calls : Shows(d, t)' => Shows(d, t) \/ d = c
      BY <1>2, <2>2 DEF ReadOtp
    <3> QED
      BY <1>o, <3>1 DEF OtpInv
  <2> QED
    BY <2>1, <2>2
<1>3. ASSUME NEW c \in Calls, UseOtp(c) PROVE OtpInv(t)'
  <2>1. CASE otpOf[c] # t
    <3>1. /\ UNCHANGED otpShared /\ otp'[t] = otp[t] /\ passed'[t] = passed[t]
          /\ \A d \in Calls : Shows(d, t)' => Shows(d, t)
      BY <1>3, <2>1 DEF UseOtp
    <3> QED
      BY <1>o, <3>1 DEF OtpInv
  <2>2. CASE otpOf[c] = t
    <3>1. /\ UNCHANGED otpShared /\ otp'[t] = "verified" /\ Shows(c, t)
          /\ passed'[t] = passed[t] \cup {c}
          /\ \A d \in Calls : Shows(d, t)' => Shows(d, t) /\ d # c
      BY <1>3, <2>2 DEF UseOtp
    <3> QED
      BY <1>o, <3>1 DEF OtpInv
  <2> QED
    BY <2>1, <2>2
<1>4. ASSUME NEW c \in Calls, Count(c) \/ Clear(c) \/ Check(c) \/ Save(c) \/ Delete(c)
      PROVE  OtpInv(t)'
  BY <1>u, <1>4 DEF Count, Clear, Check, Save, Delete, ByFlag, methodGhosts
<1>5. ASSUME NEW c \in Calls, Read(c) PROVE OtpInv(t)'
  <2>1. /\ place[c] = "read" /\ op[c] \in {"update", "delete"} /\ of[c] \in Methods
        /\ UNCHANGED <<otp, passed, otpShared, otpOf>>
    BY <1>5 DEF Read, methodGhosts, CallsInv, CallInv
  <2>2. place'[c] # "use" /\ \A d \in Calls \ {c} : place'[d] = place[d]
    BY <1>5, <2>1 DEF Read, ByFlag, Live, Absent
  <2> QED
    BY <1>u, <2>1, <2>2
<1>6. ASSUME NEW c \in Calls, Die(c) PROVE OtpInv(t)'
  BY <1>u, <1>6 DEF Die
<1>7. CASE UNCHANGED methodVars
  BY <1>u, <1>7 DEF methodVars, call, methodGhosts
<1> QED
  BY <1>1, <1>2, <1>3, <1>4, <1>5, <1>6, <1>7 DEF MethodsNext, CallStep

\* A user's defaults, row by row.
LEMMA DefaultsAre ==
    ASSUME NEW p \in Clients
    PROVE  /\ Defaults(p) = {m \in Methods : method[m] = "true" /\ OwnerOf(m) = p}
           /\ Defaults(p)' = {m \in Methods : method'[m] = "true" /\ OwnerOf(m)' = p}
  BY DEF Defaults, OfUser, Live, Absent

LEMMA SameDefaults ==
    ASSUME NEW p \in Clients,
           \A m \in Methods : (method'[m] = "true" /\ OwnerOf(m)' = p)
                                  <=> (method[m] = "true" /\ OwnerOf(m) = p)
    PROVE  Defaults(p)' = Defaults(p)
  BY DefaultsAre

\* A step that leaves a user's defaults, and who is to set or may unset them, keeps
\* what is known of them.
LEMMA DefaultsStay ==
    ASSUME NEW p \in Clients, DefaultInv(p),
           disturbed \subseteq disturbed', Defaults(p)' = Defaults(p),
           \A c \in Calls : Chooses(c, p) => Chooses(c, p)',
           \A c \in Calls : Chooses(c, p)' => Chooses(c, p) /\ of'[c] = of[c],
           \A c \in Calls : MayGo(c, p)' => of'[c] \notin Defaults(p)
    PROVE  DefaultInv(p)'
  BY DEF DefaultInv

LEMMA DefaultStep ==
    ASSUME MethodsInv, [MethodsNext]_methodVars, NEW p \in Clients, p \notin disturbed'
    PROVE  DefaultInv(p)'
<1>t. MethodsTypeOK /\ CallsInv /\ RowsInv /\ DefaultInv(p)
  BY DEF MethodsInv, DefaultsInv
<1> USE DEF MethodsTypeOK, Chooses, Choosing, MayGo, To
<1>1. ASSUME NEW c \in Calls, NEW o \in {"create", "update", "delete", "assign"},
             NEW q \in Clients, NEW m \in Methods, NEW f \in Flags,
             NEW t \in Otps \cup {NoOtp}, Begin(c, o, q, m, f, t)
      PROVE  DefaultInv(p)'
  <2>1. /\ place[c] = "idle" /\ UNCHANGED <<method, disturbed>>
        /\ place'[c] \in {"otp", "save", "read"}
        /\ place'[c] = "save" => flag'[c] = "unset"
        /\ \A d \in Calls \ {c} : /\ place'[d] = place[d] /\ by'[d] = by[d]
                                  /\ of'[d] = of[d] /\ flag'[d] = flag[d]
    BY <1>t, <1>1 DEF Begin, methodGhosts
  <2>2. method[c] = Absent
    BY <1>t, <2>1 DEF RowsInv, RowInv, Over
  <2>3. Defaults(p)' = Defaults(p)
    <3>1. \A n \in Methods : method[n] = "true" => OwnerOf(n)' = OwnerOf(n)
      BY <2>1, <2>2 DEF OwnerOf, Methods, Absent
    <3>2. \A n \in Methods : (method'[n] = "true" /\ OwnerOf(n)' = p)
                                 <=> (method[n] = "true" /\ OwnerOf(n) = p)
      BY <2>1, <3>1
    <3> QED
      BY <3>2, SameDefaults
  <2>4. \A d \in Calls : /\ Chooses(d, p) => Chooses(d, p)'
                         /\ Chooses(d, p)' => Chooses(d, p) /\ of'[d] = of[d]
                         /\ MayGo(d, p)' => MayGo(d, p) /\ of'[d] = of[d]
    BY <2>1
  <2>5. \A d \in Calls : MayGo(d, p)' => of'[d] \notin Defaults(p)
    BY <1>t, <1>1, <2>1, <2>4 DEF DefaultInv
  <2> QED
    BY <1>t, <2>1, <2>3, <2>4, <2>5, DefaultsStay
<1>2. ASSUME NEW c \in Calls, CallStep(c) PROVE DefaultInv(p)'
  <2>1. /\ Active(c) /\ UNCHANGED <<op, by, of, flag>>
        /\ disturbed \subseteq disturbed' /\ p \notin disturbed
        /\ \A d \in Calls \ {c} : place'[d] = place[d]
    BY <1>t, <1>2, StepOfOne
  <2>d. /\ (\A d \in Calls : ~Chooses(d, p)) => \E m \in Methods : Defaults(p) = {m}
        /\ \A d \in Calls : Chooses(d, p) => Defaults(p) \subseteq {of[d]}
        /\ \A d \in Calls : MayGo(d, p) => of[d] \notin Defaults(p)
    BY <1>t, <2>1 DEF DefaultInv
  <2>o. \A m \in Methods : OwnerOf(m)' = OwnerOf(m)
    BY <2>1 DEF OwnerOf
  <2>m. ASSUME UNCHANGED method PROVE Defaults(p)' = Defaults(p)
    BY <2>o, <2>m, DefaultsAre
  \* The call itself neither is nor was to set the default.
  <2>s. ASSUME Defaults(p)' = Defaults(p), ~Chooses(c, p), ~Chooses(c, p)',
               MayGo(c, p)' => of[c] \notin Defaults(p)
        PROVE  DefaultInv(p)'
    <3>1. \A d \in Calls : /\ Chooses(d, p) => Chooses(d, p)'
                           /\ Chooses(d, p)' => Chooses(d, p) /\ of'[d] = of[d]
                           /\ MayGo(d, p)' => of'[d] \notin Defaults(p)
      BY <2>1, <2>d, <2>s
    <3> QED
      BY <1>t, <2>1, <2>s, <3>1, DefaultsStay
  <2>2. CASE ReadOtp(c) \/ UseOtp(c) \/ Count(c)
    <3>1. UNCHANGED method /\ place[c] # "save" /\ place'[c] # "delete"
      BY <1>t, <2>2 DEF ReadOtp, UseOtp, Count, ByFlag
    <3>2. place'[c] = "save" => flag[c] \notin {"true", "false"}
      BY <1>t, <2>2 DEF ReadOtp, UseOtp, Count, ByFlag
    <3> QED
      BY <2>1, <2>m, <2>s, <3>1, <3>2
  \* The user's flags are cleared: the call is to set one.
  <2>3. CASE Clear(c)
    <3>1. /\ place[c] = "clear" /\ place'[c] = "save" /\ flag[c] = "true"
          /\ UNCHANGED disturbed
      BY <1>t, <2>3 DEF Clear, CallsInv, CallInv, methodGhosts
    <3>2. CASE by[c] = p
      <4>1. Defaults(p)' = {}
        BY <2>3, <2>o, <3>2, DefaultsAre DEF Clear, OfUser, Live, Absent
      <4>2. Chooses(c, p)'
        BY <2>1, <3>1, <3>2
      <4> HIDE DEF Chooses, MayGo
      <4> QED
        BY <4>1, <4>2 DEF DefaultInv
    <3>3. CASE by[c] # p
      <4>1. Defaults(p)' = Defaults(p)
        <5>1. \A m \in Methods : OwnerOf(m) = p => method'[m] = method[m]
          BY <2>3, <3>3 DEF Clear, OfUser
        <5> QED
          BY <2>o, <5>1, SameDefaults
      <4> QED
        BY <2>1, <2>s, <3>1, <3>3, <4>1
    <3> QED
      BY <3>2, <3>3
  \* One that may be unset is none of the user's, or there is a call to set one.
  <2>4. CASE Check(c)
    <3>1. /\ place[c] = "check" /\ flag[c] = "false" /\ op[c] \in {"create", "update"}
          /\ UNCHANGED method /\ place'[c] \in {"save", "ended"}
      BY <1>t, <2>4 DEF Check, CallsInv, CallInv
    <3>2. ASSUME MayGo(c, p)' PROVE of[c] \notin Defaults(p)
      <4>1. place'[c] = "save" /\ by[c] = p
        BY <2>1, <3>1, <3>2
      <4>2. CASE op[c] = "create"
        <5>1. of[c] = c /\ method[c] = Absent
          BY <1>t, <3>1, <4>2 DEF CallsInv, CallInv, RowsInv, RowInv, Over
        <5> QED
          BY <5>1 DEF Defaults, Absent
      <4>3. CASE op[c] = "update"
        <5>1. Cardinality(Defaults(p)) # 1
          BY <1>t, <2>4, <4>1, <4>3 DEF Check
        <5>2. \A m : Defaults(p) # {m}
          BY <5>1, FS_Singleton
        <5>3. PICK d \in Calls : Chooses(d, p)
          BY <2>d, <5>2
        <5>4. Defaults(p) = {} \/ Defaults(p) = {of[d]}
          BY <2>d, <5>3
        <5> QED
          BY <5>2, <5>4
      <4> QED
        BY <3>1, <4>2, <4>3
    <3> QED
      BY <2>1, <2>m, <2>s, <3>1, <3>2
  <2>5. CASE Read(c)
    <3>1. /\ place[c] = "read" /\ op[c] \in {"update", "delete"} /\ of[c] \in Methods
          /\ UNCHANGED method
      BY <1>t, <2>5 DEF Read, CallsInv, CallInv
    <3>2. \/ place'[c] = "ended"
          \/ op[c] = "update" /\ place'[c] = ByFlag(c)
          \/ op[c] = "delete" /\ place'[c] = "delete" /\ method[of[c]] # "true"
      BY <1>t, <2>5, <3>1 DEF Read, Live, Absent
    <3>3. ~Chooses(c, p)' /\ (MayGo(c, p)' => of[c] \notin Defaults(p))
      BY <2>1, <3>2 DEF ByFlag, Defaults
    <3> QED
      BY <2>m, <2>s, <3>1, <3>3
  <2>6. CASE Save(c)
    <3>1. /\ place[c] = "save" /\ place'[c] = "ended" /\ op[c] # "delete"
          /\ by[c] \in Clients /\ of[c] \in Methods
          /\ method' = [method EXCEPT ![of[c]] = Written(c)]
          /\ p \notin Disturb(c)
      BY <1>t, <2>6 DEF Save, CallsInv, CallInv
    <3>2. CASE OwnerOf(of[c]) # p
      <4>1. by[c] # p
        BY <3>1, <3>2 DEF Disturb
      <4>2. \A m \in Methods : OwnerOf(m) = p => method'[m] = method[m]
        BY <1>t, <3>1, <3>2
      <4>3. Defaults(p)' = Defaults(p)
        BY <2>o, <4>2, SameDefaults
      <4> QED
        BY <2>1, <2>s, <3>1, <4>1, <4>3
    <3>3. CASE OwnerOf(of[c]) = p /\ flag[c] = "true"
      <4>1. by[c] = p /\ op[c] \in {"create", "update"} /\ Written(c) = "true"
        BY <1>t, <3>1, <3>3 DEF Disturb, Written, CallsInv, CallInv
      <4>2. Defaults(p)' = {of[c]}
        <5>1. Defaults(p) \subseteq {of[c]}
          BY <2>d, <3>1, <3>3, <4>1
        <5>2. \A m \in Methods : method'[m] = IF m = of[c] THEN "true" ELSE method[m]
          BY <1>t, <3>1, <4>1
        <5>3. \A m \in Methods : (method[m] = "true" /\ OwnerOf(m) = p) => m = of[c]
          BY <5>1, DefaultsAre
        <5>4. \A m \in Methods : (method'[m] = "true" /\ OwnerOf(m)' = p) <=> m = of[c]
          BY <2>o, <3>3, <5>2, <5>3
        <5> QED
          BY <3>1, <5>4, DefaultsAre
      <4>3. \A d \in Calls : Chooses(d, p)' => of'[d] = of[c]
        BY <2>1, <3>1, <3>3 DEF Disturb
      <4>4. \A d \in Calls : MayGo(d, p)' => of'[d] # of[c]
        BY <2>1, <3>1, <3>3 DEF Disturb, Demoting
      <4> HIDE DEF Chooses, MayGo
      <4> QED
        BY <3>1, <4>2, <4>3, <4>4 DEF DefaultInv
    <3>4. CASE OwnerOf(of[c]) = p /\ flag[c] # "true"
      <4>1. /\ by[c] = p
            /\ \/ op[c] = "create"
               \/ op[c] = "update" /\ flag[c] \in {"false", "unset"}
        BY <1>t, <3>1, <3>4 DEF Disturb, Flags
      <4>2. Written(c) = "true" <=> of[c] \in Defaults(p)
        <5>1. of[c] \in Defaults(p) <=> method[of[c]] = "true"
          BY <3>1, <3>4, DefaultsAre
        <5>2. CASE op[c] = "create"
          <6>1. of[c] = c /\ method[c] = Absent
            BY <1>t, <3>1, <5>2 DEF CallsInv, CallInv, RowsInv, RowInv, Over
          <6> QED
            BY <3>4, <5>1, <5>2, <6>1 DEF Written, Absent
        <5>3. CASE op[c] = "update" /\ flag[c] = "false"
          <6>1. MayGo(c, p)
            BY <3>1, <4>1, <5>3
          <6> QED
            BY <2>d, <5>3, <6>1 DEF Written
        <5>4. CASE op[c] = "update" /\ flag[c] = "unset"
          BY <3>1, <5>1, <5>4 DEF Written, Live, Absent
        <5> QED
          BY <4>1, <5>2, <5>3, <5>4
      <4>3. Defaults(p)' = Defaults(p)
        <5>1. \A m \in Methods : method'[m] = IF m = of[c] THEN Written(c) ELSE method[m]
          BY <1>t, <3>1
        <5> QED
          BY <2>o, <3>4, <4>2, <5>1, DefaultsAre
      <4> QED
        BY <2>1, <2>s, <3>1, <3>4, <4>3
    <3> QED
      BY <3>2, <3>3, <3>4
  \* What is deleted is no default.
  <2>7. CASE Delete(c)
    <3>1. /\ place[c] = "delete" /\ place'[c] = "ended" /\ of[c] \in Methods
          /\ method' = [method EXCEPT ![of[c]] = Absent]
      BY <1>t, <2>7 DEF Delete, CallsInv, CallInv
    <3>2. of[c] \notin Defaults(p)
      BY <2>d, <3>1
    <3>3. Defaults(p)' = Defaults(p)
      <4>1. \A m \in Methods : method'[m] = IF m = of[c] THEN Absent ELSE method[m]
        BY <1>t, <3>1
      <4> QED
        BY <2>o, <3>2, <4>1, DefaultsAre DEF Absent
    <3> QED
      BY <2>s, <3>1, <3>3
  <2>8. CASE Die(c)
    <3>1. UNCHANGED method /\ place'[c] = "died" /\ ~Chooses(c, p)
      BY <1>t, <2>8 DEF Die
    <3> QED
      BY <2>m, <2>s, <3>1
  <2> QED
    BY <1>2, <2>2, <2>3, <2>4, <2>5, <2>6, <2>7, <2>8 DEF CallStep
<1>3. CASE UNCHANGED methodVars
  <2>1. UNCHANGED <<place, by, of, flag, method, disturbed>>
    BY <1>3 DEF methodVars, call, methodGhosts
  <2>2. Defaults(p)' = Defaults(p)
    BY <2>1, DefaultsAre DEF OwnerOf
  <2> QED
    BY <1>t, <2>1, <2>2 DEF DefaultInv
<1> QED
  BY <1>1, <1>2, <1>3 DEF MethodsNext

THEOREM MethodsInvariant == MethodsSpec => []MethodsInv
<1>1. MethodsInv /\ [MethodsNext]_methodVars => MethodsInv'
  <2> SUFFICES ASSUME MethodsInv, [MethodsNext]_methodVars PROVE MethodsInv'
    OBVIOUS
  <2>1. MethodsTypeOK /\ CallsInv /\ RowsInv /\ OtpsInv
    BY DEF MethodsInv
  <2>2. MethodsTypeOK' /\ CallsInv' /\ RowsInv'
    BY <2>1, MethodsTypeStep, CallInvStep, RowInvStep
  <2>3. OtpsInv'
    BY <2>1, OtpInvStep DEF OtpsInv
  <2>4. ASSUME NEW p \in Clients PROVE DefaultInv(p)'
    <3>1. CASE p \in disturbed'
      BY <3>1 DEF DefaultInv
    <3>2. CASE p \notin disturbed'
      BY <3>2, DefaultStep
    <3> QED
      BY <3>1, <3>2
  <2> QED
    BY <2>2, <2>3, <2>4 DEF MethodsInv, DefaultsInv
<1> QED
  BY <1>1, MethodsInitInv, PTL DEF MethodsSpec

\* However many calls show it, an OTP lets one through, unless two had read it
\* before either was saved.
THEOREM OtpLetsOneThrough == MethodsSpec => []OtpUsedOnce
<1>1. MethodsInv => OtpUsedOnce
  <2> SUFFICES ASSUME MethodsInv, NEW t \in Otps, t \notin otpShared
               PROVE  ~(Cardinality(passed[t]) > 1)
    BY DEF OtpUsedOnce
  <2>1. \A c, d \in passed[t] : c = d
    BY DEF MethodsInv, OtpsInv, OtpInv
  <2>2. Cardinality(passed[t]) <= 1
    BY <2>1, AtMostOne
  <2>3. IsFiniteSet(passed[t])
    <3>1. passed[t] = {} \/ \E c : passed[t] = {c}
      BY <2>1
    <3> QED
      BY <3>1, FS_EmptySet, FS_Singleton
  <2> QED
    BY <2>2, <2>3, FS_CardinalityType
<1> QED
  BY <1>1, MethodsInvariant, PTL

\* However the calls about a user's methods interleave, exactly one is the default,
\* but while a call that cleared the flags is to set one, and unless one of the
\* events of Disturb came.
THEOREM DefaultIsOne == MethodsSpec => []OneDefault
<1>1. MethodsInv => OneDefault
  <2> SUFFICES ASSUME MethodsInv, NEW p \in Clients, p \notin disturbed,
                      \A c \in Calls : ~Chooses(c, p)
               PROVE  Cardinality(Defaults(p)) = 1
    BY DEF OneDefault, Chooses
  <2>1. \E m \in Methods : Defaults(p) = {m}
    BY DEF MethodsInv, DefaultsInv, DefaultInv
  <2> QED
    BY <2>1, FS_Singleton
<1> QED
  BY <1>1, MethodsInvariant, PTL

=============================================================================
