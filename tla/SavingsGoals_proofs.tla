------------------------ MODULE SavingsGoals_proofs ------------------------
(***************************************************************************)
(* Proofs about SavingsGoals, for any goals, calls, cron runs and amounts. *)
(***************************************************************************)
EXTENDS SavingsGoals, TLAPS

\* A call or a run under way is about a goal, and one that is not holds nothing.
CallOk(c) ==
    /\ client[c].at = "idle" => client[c] = NoCall
    /\ client[c].at # "idle" => client[c].goal \in Goals
RunOk(r) ==
    /\ run[r].at = "idle" => run[r] = NoRun
    /\ run[r].at # "idle" => run[r].goal \in Goals

Formed ==
    /\ \A c \in Clients : CallOk(c)
    /\ \A r \in Runs : RunOk(r)

\* What TypeOK says of one call and of one run.
CallType == [at : {"idle", "insert", "mandate", "save", "account", "close",
                   "reread", "rest", "terminate"},
             op : {"none", "create", "update", "delete"},
             goal : Goals \cup {NoGoal}, copy : GoalRow, seen : AccountRow,
             wish : Preferences]
RunType == [at : {"idle", "read", "save", "finish", "open"},
            goal : Goals \cup {NoGoal}, copy : GoalRow, seen : AccountRow]

LEMMA Empties ==
    /\ NewGoal \in GoalRow /\ NewAccount \in AccountRow
    /\ NoCall \in CallType /\ NoRun \in RunType
BY SavingsGoalsAssumption
   DEF NewGoal, NewAccount, NoCall, NoRun, GoalRow, AccountRow, Statuses, FlagSet,
       CallType, RunType

LEMMA InitTypes == Init => TypeOK /\ Formed
BY Empties DEF Init, TypeOK, Formed, CallOk, RunOk, NoCall, NoRun, CallType, RunType

\* What TypeOK says, by variable.
RowTypes ==
    /\ goal \in [Goals -> GoalRow] /\ account \in [Goals -> AccountRow]
    /\ active \in [Goals -> Nat] /\ ended \in [Goals -> Nat]
    /\ day \in [Goals -> 0..3] /\ book \in [Goals -> Int]
    /\ accountRaced \subseteq Goals /\ goalRaced \subseteq Goals
    /\ late \subseteq Goals /\ halved \subseteq Goals /\ unsaved \subseteq Goals
CallTypes == client \in [Clients -> CallType] /\ \A c \in Clients : CallOk(c)
RunTypes == run \in [Runs -> RunType] /\ \A r \in Runs : RunOk(r)

LEMMA TypesApart == TypeOK /\ Formed <=> RowTypes /\ CallTypes /\ RunTypes
BY DEF TypeOK, Formed, RowTypes, CallTypes, RunTypes, CallType, RunType

\* The fields of a call, of a run and of the rows.
LEMMA CallFields ==
    ASSUME NEW x \in CallType
    PROVE  /\ x.at \in {"idle", "insert", "mandate", "save", "account", "close",
                        "reread", "rest", "terminate"}
           /\ x.op \in {"none", "create", "update", "delete"}
           /\ x.goal \in Goals \cup {NoGoal} /\ x.copy \in GoalRow
           /\ x.seen \in AccountRow /\ x.wish \in Preferences
BY DEF CallType

LEMMA RunFields ==
    ASSUME NEW x \in RunType
    PROVE  /\ x.at \in {"idle", "read", "save", "finish", "open"}
           /\ x.goal \in Goals \cup {NoGoal} /\ x.copy \in GoalRow
           /\ x.seen \in AccountRow
BY DEF RunType

\* Putting a well-formed call in the place of one.
LEMMA SetCall ==
    ASSUME CallTypes, NEW c \in Clients, NEW x \in CallType,
           client' = [client EXCEPT ![c] = x],
           x.at = "idle" => x = NoCall, x.at # "idle" => x.goal \in Goals
    PROVE  CallTypes'
BY DEF CallTypes, CallOk

LEMMA ReturnTypes ==
    ASSUME CallTypes, NEW c \in Clients, Return(c) PROVE CallTypes'
BY SetCall, Empties DEF Return, NoCall

LEMMA GoOnTypes ==
    ASSUME CallTypes, NEW c \in Clients, client[c].at # "idle",
           NEW place \in {"mandate", "save", "close", "reread", "rest", "terminate"},
           GoOn(c, place)
    PROVE  CallTypes'
<1> DEFINE x == [client[c] EXCEPT !.at = place,
                     !.seen = IF place \in {"reread", "terminate"}
                              THEN NewAccount ELSE @]
<1>1. client[c] \in CallType
  BY DEF CallTypes
<1>2. x \in CallType /\ x.at = place /\ x.goal = client[c].goal
  BY <1>1, Empties DEF CallType
<1>3. client' = [client EXCEPT ![c] = x]
  BY DEF GoOn, CallTypes
<1>4. client[c].goal \in Goals
  BY DEF CallTypes, CallOk
<1> HIDE DEF x
<1> QED
  BY <1>2, <1>3, <1>4, SetCall

LEMMA SetRun ==
    ASSUME RunTypes, NEW r \in Runs, NEW x \in RunType,
           run' = [run EXCEPT ![r] = x],
           x.at = "idle" => x = NoRun, x.at # "idle" => x.goal \in Goals
    PROVE  RunTypes'
BY DEF RunTypes, RunOk

LEMMA EndRunTypes ==
    ASSUME RunTypes, NEW r \in Runs, EndRun(r) PROVE RunTypes'
BY SetRun, Empties DEF EndRun, NoRun

\* A movement keeps the rows' types.
LEMMA MovementTypes ==
    ASSUME RowTypes, NEW p, NEW g \in Goals, NEW x \in Int, Movement(p, g, x)
    PROVE  /\ account' \in [Goals -> AccountRow]
           /\ book' \in [Goals -> Int]
           /\ accountRaced' \subseteq Goals /\ late' \subseteq Goals
<1>1. account[g] \in AccountRow
  BY DEF RowTypes
<1>2. [account[g] EXCEPT !.balance = @ + x] \in AccountRow
  BY <1>1 DEF AccountRow
<1>3. account' = [account EXCEPT ![g] = [account[g] EXCEPT !.balance = @ + x]]
  BY DEF Movement, RowTypes
<1>4. account' \in [Goals -> AccountRow]
  BY <1>2, <1>3 DEF RowTypes
<1>5. accountRaced' \subseteq Goals /\ late' \subseteq Goals
  BY DEF Movement, TouchAccount, RowTypes
<1>6. book' \in [Goals -> Int]
  BY DEF Movement, RowTypes
<1> QED
  BY <1>4, <1>5, <1>6

LEMMA CostsAreAmounts ==
    ASSUME NEW g, NEW x \in Int, NEW cost \in Costs(g, x) PROVE -cost \in Int
<1>1. -Fee \in Int /\ Fee \in Int
  BY SavingsGoalsAssumption
<1>2. cost \in Int
  BY <1>1 DEF Costs
<1> QED
  BY <1>2

LEMMA TypeStep ==
    ASSUME RowTypes, CallTypes, RunTypes, [Next]_vars
    PROVE  RowTypes' /\ CallTypes' /\ RunTypes'
<1> USE SavingsGoalsAssumption, Empties
<1>t. /\ goal \in [Goals -> GoalRow] /\ account \in [Goals -> AccountRow]
      /\ active \in [Goals -> Nat] /\ ended \in [Goals -> Nat]
      /\ client \in [Clients -> CallType] /\ run \in [Runs -> RunType]
  BY DEF RowTypes, CallTypes, RunTypes
<1>0. ASSUME UNCHANGED client PROVE CallTypes'
  BY <1>0 DEF CallTypes, CallOk
<1>00. ASSUME UNCHANGED run PROVE RunTypes'
  BY <1>00 DEF RunTypes, RunOk
<1>000. ASSUME UNCHANGED <<goal, account, active, ended, day, book, accountRaced,
                           goalRaced, late, halved, unsaved>>
        PROVE  RowTypes'
  BY <1>000 DEF RowTypes
<1>1. ASSUME NEW c \in Clients, ClientStep(c) PROVE RowTypes' /\ CallTypes' /\ RunTypes'
  <2> DEFINE g == client[c].goal
  <2>t. /\ client[c] \in CallType
        /\ client[c].at # "idle" => g \in Goals
        /\ client[c].at \in {"idle", "insert", "mandate", "save", "account", "close",
                             "reread", "rest", "terminate"}
        /\ client[c].copy \in GoalRow /\ client[c].seen \in AccountRow
        /\ client[c].wish \in Preferences
        /\ client[c].seen.balance \in Int
    BY <1>t, CallFields DEF CallTypes, CallOk, AccountRow
  <2>1. ASSUME NEW h \in Goals, NEW p \in Preferences, Create(c, h, p)
        PROVE  RowTypes' /\ CallTypes' /\ RunTypes'
    <3>1. [NoCall EXCEPT !.op = "create", !.goal = h, !.wish = p, !.at = "insert"]
              \in CallType
      BY DEF CallType, NoCall
    <3>2. CallTypes'
      BY <2>1, <3>1, SetCall DEF Create, NoCall
    <3> QED
      BY <2>1, <3>2, <1>00, <1>000 DEF Create
  <2>2. ASSUME NEW h \in Goals, NEW p \in Preferences, StartUpdate(c, h, p)
        PROVE  RowTypes' /\ CallTypes' /\ RunTypes'
    <3> DEFINE x == [at |-> IF p # goal[h].preference THEN "mandate" ELSE "save",
                     op |-> "update", goal |-> h, seen |-> account[h], wish |-> p,
                     copy |-> [goal[h] EXCEPT !.preference = p]]
    <3>1. [goal[h] EXCEPT !.preference = p] \in GoalRow
      BY <1>t DEF GoalRow
    <3>2. x \in CallType /\ x.at # "idle" /\ x.goal = h
      BY <1>t, <3>1 DEF CallType
    <3>3. client' = [client EXCEPT ![c] = x]
      BY <2>2 DEF StartUpdate
    <3> HIDE DEF x
    <3>4. CallTypes'
      BY <3>2, <3>3, SetCall
    <3> QED
      BY <2>2, <3>4, <1>00, <1>000 DEF StartUpdate
  <2>3. ASSUME NEW h \in Goals, StartDelete(c, h) PROVE RowTypes' /\ CallTypes' /\ RunTypes'
    <3>1. [NoCall EXCEPT !.op = "delete", !.goal = h, !.at = "account",
                         !.copy = goal[h]] \in CallType
      BY <1>t DEF CallType, NoCall
    <3>2. CallTypes'
      BY <2>3, <3>1, SetCall DEF StartDelete, NoCall
    <3> QED
      BY <2>3, <3>2, <1>00, <1>000 DEF StartDelete
  <2>4. CASE Insert(c)
    <3>1. CallTypes'
      BY <2>4, GoOnTypes, ReturnTypes DEF Insert
    <3>2. /\ [status |-> "INPROGRESS", preference |-> client[c].wish] \in GoalRow
          /\ [balance |-> 0, flags |-> IF g \in BezoLocks THEN "locked" ELSE "fees"]
                \in AccountRow
      BY <2>t DEF GoalRow, AccountRow, Statuses, FlagSet
    <3>3. RowTypes'
      BY <2>4, <3>2 DEF Insert, RowTypes
    <3> QED
      BY <2>4, <3>1, <3>3, <1>00 DEF Insert
  <2>5. CASE CreateMandate(c)
    <3>1. CallTypes'
      BY <2>5, GoOnTypes, ReturnTypes DEF CreateMandate
    <3>2. RowTypes'
      <4>1. active' \in [Goals -> Nat] /\ active' = [active EXCEPT ![g] = @ + 1]
        BY <2>5, <1>t, <2>t DEF CreateMandate
      <4>2. UNCHANGED <<goal, account, ended, day, book, accountRaced, goalRaced, late,
                        halved, unsaved>>
        BY <2>5 DEF CreateMandate
      <4> QED
        BY <4>1, <4>2 DEF RowTypes
    <3> QED
      BY <2>5, <3>1, <3>2, <1>00 DEF CreateMandate
  <2>6. CASE DeactivateMandate(c)
    <3>1. CallTypes'
      BY <2>6, GoOnTypes DEF DeactivateMandate
    <3>2. RowTypes'
      BY <2>6 DEF DeactivateMandate, RowTypes
    <3> QED
      BY <2>6, <3>1, <3>2, <1>00 DEF DeactivateMandate
  <2>7. CASE Save(c)
    <3>1. CallTypes'
      BY <2>7, ReturnTypes DEF Save
    <3>2. RowTypes'
      BY <2>7, <2>t DEF Save, RowTypes, TouchGoal, TouchAccount
    <3> QED
      BY <2>7, <3>1, <3>2, <1>00 DEF Save
  <2>8. CASE ReadAccount(c)
    <3> DEFINE x == [client[c] EXCEPT !.seen = account[g],
                         !.at = IF client[c].copy.preference = "automatic"
                                THEN "mandate" ELSE "close"]
    <3>1. x \in CallType /\ x.at # "idle" /\ x.goal = g /\ g \in Goals
      BY <2>8, <2>t, <1>t DEF CallType, ReadAccount
    <3>2. client' = [client EXCEPT ![c] = x]
      BY <2>8, <1>t DEF ReadAccount
    <3> HIDE DEF x
    <3>3. CallTypes'
      BY <3>1, <3>2, SetCall
    <3> QED
      BY <2>8, <3>3, <1>00, <1>000 DEF ReadAccount
  <2>9. CASE CloseEmpty(c)
    BY <2>9, GoOnTypes, <1>00, <1>000 DEF CloseEmpty
  <2>10. CASE ChargeFee(c)
    <3>1. CallTypes'
      BY <2>10, GoOnTypes DEF ChargeFee
    <3>2. g \in Goals /\ -Fee \in Int
      BY <2>10, <2>t DEF ChargeFee
    <3>3. /\ Movement(c, g, -Fee)
          /\ UNCHANGED <<goal, active, ended, day, run, goalRaced, halved, unsaved>>
      BY <2>10 DEF ChargeFee
    <3>4. RowTypes'
      BY <3>2, <3>3, MovementTypes DEF RowTypes
    <3> QED
      BY <3>1, <3>3, <3>4, <1>00
  <2>11. CASE Reread(c)
    <3> DEFINE x == [client[c] EXCEPT !.seen = account[client[c].goal], !.at = "rest"]
    <3>1. x \in CallType /\ x.at # "idle" /\ x.goal = g /\ g \in Goals
      BY <2>11, <2>t, <1>t DEF CallType, Reread
    <3>2. client' = [client EXCEPT ![c] = x]
      BY <2>11, <1>t DEF Reread
    <3> HIDE DEF x
    <3>3. CallTypes'
      BY <3>1, <3>2, SetCall
    <3> QED
      BY <2>11, <3>3, <1>00, <1>000 DEF Reread
  <2>12. CASE TakeRest(c)
    <3>1. CallTypes'
      BY <2>12, GoOnTypes DEF TakeRest
    <3>2. g \in Goals /\ -client[c].seen.balance \in Int
      BY <2>12, <2>t DEF TakeRest
    <3>3. /\ Movement(c, g, -client[c].seen.balance)
          /\ UNCHANGED <<goal, active, ended, day, run, goalRaced, halved, unsaved>>
      BY <2>12 DEF TakeRest
    <3>4. RowTypes'
      BY <3>2, <3>3, MovementTypes DEF RowTypes
    <3> QED
      BY <3>1, <3>3, <3>4, <1>00
  <2>13. CASE TakeAll(c)
    <3>1. CallTypes'
      BY <2>13, GoOnTypes DEF TakeAll
    <3>2. PICK cost \in Costs(g, client[c].seen.balance) : Movement(c, g, -cost)
      BY <2>13 DEF TakeAll
    <3>3. g \in Goals /\ -cost \in Int
      BY <2>13, <2>t DEF TakeAll, Costs
    <3>4. UNCHANGED <<goal, active, ended, day, run, goalRaced, halved, unsaved>>
      BY <2>13 DEF TakeAll
    <3>5. RowTypes'
      BY <3>2, <3>3, <3>4, MovementTypes DEF RowTypes
    <3> QED
      BY <3>1, <3>4, <3>5, <1>00
  <2>14. CASE Terminate(c)
    <3>1. CallTypes'
      BY <2>14, ReturnTypes DEF Terminate
    <3>2. [client[c].copy EXCEPT !.status = "TERMINATED"] \in GoalRow
      BY <2>t DEF GoalRow, Statuses
    <3>3. RowTypes'
      <4>1. goal' \in [Goals -> GoalRow]
        BY <2>14, <1>t, <3>2 DEF Terminate
      <4>2. goalRaced' \subseteq Goals
        BY <2>14, <2>t DEF Terminate, TouchGoal, RowTypes
      <4> QED
        BY <2>14, <4>1, <4>2 DEF Terminate, RowTypes
    <3> QED
      BY <2>14, <3>1, <3>3, <1>00 DEF Terminate
  <2>15. CASE Throw(c)
    <3>1. CallTypes'
      BY <2>15, ReturnTypes DEF Throw
    <3>2. RowTypes'
      BY <2>15, <2>t DEF Throw, RowTypes
    <3> QED
      BY <2>15, <3>1, <3>2, <1>00 DEF Throw
  <2>16. CASE MandateUnsaved(c)
    <3>1. CallTypes'
      BY <2>16, GoOnTypes, ReturnTypes DEF MandateUnsaved
    <3>2. RowTypes'
      BY <2>16, <2>t DEF MandateUnsaved, RowTypes
    <3> QED
      BY <2>16, <3>1, <3>2, <1>00 DEF MandateUnsaved
  <2> QED
    BY <1>1, <2>1, <2>2, <2>3, <2>4, <2>5, <2>6, <2>7, <2>8, <2>9, <2>10, <2>11,
       <2>12, <2>13, <2>14, <2>15, <2>16 DEF ClientStep
<1>2. ASSUME NEW r \in Runs, RunStep(r) PROVE RowTypes' /\ CallTypes' /\ RunTypes'
  <2> DEFINE g == run[r].goal
  <2>t. /\ run[r] \in RunType
        /\ run[r].at # "idle" => g \in Goals
        /\ run[r].copy \in GoalRow /\ run[r].seen \in AccountRow
    BY <1>t, RunFields DEF RunTypes, RunOk
  <2>1. ASSUME NEW h \in Goals, ListEnding(r, h) PROVE RowTypes' /\ CallTypes' /\ RunTypes'
    <3>1. [NoRun EXCEPT !.at = "read", !.goal = h, !.copy = goal[h]] \in RunType
      BY <1>t DEF RunType, NoRun
    <3>2. RunTypes'
      BY <2>1, <3>1, SetRun DEF ListEnding, NoRun
    <3> QED
      BY <2>1, <3>2, <1>0, <1>000 DEF ListEnding
  <2>2. ASSUME NEW h \in Goals, ListLocked(r, h) PROVE RowTypes' /\ CallTypes' /\ RunTypes'
    <3>1. [NoRun EXCEPT !.at = "open", !.goal = h] \in RunType
      BY DEF RunType, NoRun
    <3>2. RunTypes'
      BY <2>2, <3>1, SetRun DEF ListLocked, NoRun
    <3> QED
      BY <2>2, <3>2, <1>0, <1>000 DEF ListLocked
  <2>3. CASE ReadForEnd(r)
    <3> DEFINE x == [run[r] EXCEPT !.seen = account[g], !.at = "save"]
    <3>1. x \in RunType /\ x.at # "idle" /\ x.goal = g /\ g \in Goals
      BY <2>3, <2>t, <1>t DEF RunType, ReadForEnd
    <3>2. run' = [run EXCEPT ![r] = x]
      BY <2>3, <1>t DEF ReadForEnd
    <3> HIDE DEF x
    <3>3. RunTypes'
      BY <3>1, <3>2, SetRun
    <3> QED
      BY <2>3, <3>3, <1>0, <1>000 DEF ReadForEnd
  <2>4. CASE SaveAccount(r)
    <3> DEFINE x == [run[r] EXCEPT !.at = "finish"]
    <3>1. x \in RunType /\ x.at # "idle" /\ x.goal = g /\ g \in Goals
      BY <2>4, <2>t DEF RunType, SaveAccount
    <3>2. run' = [run EXCEPT ![r] = x]
      BY <2>4, <1>t DEF SaveAccount
    <3> HIDE DEF x
    <3>3. RunTypes'
      BY <3>1, <3>2, SetRun
    <3>4. [run[r].seen EXCEPT !.flags = "free"] \in AccountRow
      BY <2>t DEF AccountRow, FlagSet
    <3>5. RowTypes'
      <4>1. account' \in [Goals -> AccountRow]
        BY <2>4, <1>t, <3>4 DEF SaveAccount
      <4>2. accountRaced' \subseteq Goals
        BY <2>4, <2>t DEF SaveAccount, TouchAccount, RowTypes
      <4> QED
        BY <2>4, <4>1, <4>2 DEF SaveAccount, RowTypes
    <3> QED
      BY <2>4, <3>3, <3>5, <1>0 DEF SaveAccount
  <2>5. CASE Finish(r)
    <3>1. RunTypes'
      BY <2>5, EndRunTypes DEF Finish
    <3>2. \A s \in {"COMPLETED", "FAILED"} : [run[r].copy EXCEPT !.status = s] \in GoalRow
      BY <2>t DEF GoalRow, Statuses
    <3>3. RowTypes'
      <4>1. goal' \in [Goals -> GoalRow]
        BY <2>5, <1>t, <3>2 DEF Finish
      <4>2. goalRaced' \subseteq Goals
        BY <2>5, <2>t DEF Finish, TouchGoal, RowTypes
      <4> QED
        BY <2>5, <4>1, <4>2 DEF Finish, RowTypes
    <3> QED
      BY <2>5, <3>1, <3>3, <1>0 DEF Finish
  <2>6. CASE Open(r)
    <3>1. RunTypes'
      BY <2>6, EndRunTypes DEF Open
    <3>2. g \in Goals /\ [account[g] EXCEPT !.flags = "fees"] \in AccountRow
      BY <2>6, <2>t, <1>t DEF AccountRow, FlagSet, Open
    <3>3. account' = [account EXCEPT ![g] = [account[g] EXCEPT !.flags = "fees"]]
      BY <2>6, <1>t DEF Open
    <3>4. RowTypes'
      BY <2>6, <3>2, <3>3 DEF Open, RowTypes, TouchAccount
    <3> QED
      BY <2>6, <3>1, <3>4, <1>0 DEF Open
  <2>7. CASE StopRun(r)
    BY <2>7, EndRunTypes, <1>0, <1>000 DEF StopRun
  <2> QED
    BY <1>2, <2>1, <2>2, <2>3, <2>4, <2>5, <2>6, <2>7 DEF RunStep
<1>3. ASSUME NEW g \in Goals, NEW x \in Amounts, Deposit(g, x)
      PROVE  RowTypes' /\ CallTypes' /\ RunTypes'
  <2>1. x \in Int
    OBVIOUS
  <2>2. RowTypes'
    BY <1>3, <2>1, MovementTypes DEF Deposit, RowTypes
  <2> QED
    BY <1>3, <2>2, <1>0, <1>00 DEF Deposit
<1>4. ASSUME NEW g \in Goals, NEW x \in Amounts, Withdraw(g, x)
      PROVE  RowTypes' /\ CallTypes' /\ RunTypes'
  <2>1. PICK cost \in Costs(g, x) : Movement(NoGoal, g, -cost)
    BY <1>4 DEF Withdraw
  <2>2. -cost \in Int
    BY CostsAreAmounts
  <2>3. UNCHANGED <<goal, active, ended, day, client, run, goalRaced, halved, unsaved>>
    BY <1>4 DEF Withdraw
  <2>4. RowTypes'
    BY <2>1, <2>2, <2>3, MovementTypes DEF RowTypes
  <2> QED
    BY <2>3, <2>4, <1>0, <1>00
<1>5. ASSUME NEW g \in Goals, DayPasses(g) PROVE RowTypes' /\ CallTypes' /\ RunTypes'
  <2>1. RowTypes'
    BY <1>5 DEF DayPasses, RowTypes
  <2> QED
    BY <1>5, <2>1, <1>0, <1>00 DEF DayPasses
<1>6. CASE UNCHANGED vars
  BY <1>6, <1>0, <1>00, <1>000 DEF vars
<1> QED
  BY <1>1, <1>2, <1>3, <1>4, <1>5, <1>6 DEF Next

\* Every variable keeps its type, whatever copy of a row is written back: the
\* crons and the calls leave no goal in a state or with flags the code has no
\* name for, and no mandate is ended that was not there.
THEOREM TypeCorrect == Spec => []TypeOK
<1>1. Init => RowTypes /\ CallTypes /\ RunTypes
  BY InitTypes, TypesApart
<1>2. RowTypes /\ CallTypes /\ RunTypes /\ [Next]_vars
          => (RowTypes /\ CallTypes /\ RunTypes)'
  BY TypeStep
<1>3. RowTypes /\ CallTypes /\ RunTypes => TypeOK
  BY TypesApart
<1> QED
  BY <1>1, <1>2, <1>3, PTL DEF Spec

-----------------------------------------------------------------------------
(***************************************************************************)
(* The inductive invariant.  Shapes says what a call and a run look like   *)
(* at each of their steps; the others speak of one goal, and say what a    *)
(* copy that is held is worth as long as nothing has been raced.           *)
(***************************************************************************)
CallShape(c) ==
    /\ client[c].op = "none" <=> client[c].at = "idle"
    /\ client[c].op = "create" =>
          /\ client[c].at \in {"insert", "mandate"}
          /\ client[c].at = "mandate" => client[c].wish = "automatic"
    /\ client[c].op \in {"update", "delete"} => client[c].copy.status # "none"
    /\ client[c].op = "update" => client[c].at \in {"mandate", "save"}
    /\ client[c].op = "delete" =>
          /\ client[c].at \in {"account", "mandate", "close", "reread", "rest",
                               "terminate"}
          /\ client[c].wish = "manual"
          /\ client[c].at = "mandate" => client[c].copy.preference = "automatic"
RunShape(r) ==
    /\ run[r].at \in {"read", "save", "finish"} => run[r].copy.status = "INPROGRESS"
    /\ run[r].at # "idle" =>
          goal[run[r].goal].status # "none" /\ day[run[r].goal] > 0
Shapes == (\A c \in Clients : CallShape(c)) /\ (\A r \in Runs : RunShape(r))

\* A goal that is not created yet is in nobody's hands but its creator's.
Created(g) ==
    /\ goal[g].status = "none" =>
          /\ account[g].balance = 0 /\ book[g] = 0
          /\ active[g] = 0 /\ ended[g] = 0
          /\ \A c \in Clients : client[c].goal = g => client[c].at = "insert"
    /\ \A c, d \in Clients :
          client[c].goal = g /\ client[c].at = "insert" =>
              goal[g].status = "none" /\ (client[d].goal = g => c = d)
    /\ \A c, d \in Clients :
          (client[c].goal = g /\ client[d].goal = g
              /\ client[c].op = "create" /\ client[d].op = "create") => c = d

\* The copies of the account that will be written back are true.
AccountCopies(g) ==
    g \notin accountRaced =>
        /\ account[g].balance = book[g]
        /\ \A c \in Clients : Edits(c, g) => client[c].seen = account[g]
        /\ \A r \in Runs : CronHolds(r, g, {"save"}) => run[r].seen = account[g]

\* A locked goal stays so in its first month.
FirstMonth(g) ==
    (g \in BezoLocks /\ day[g] = 0 /\ goal[g].status # "none" /\ g \notin accountRaced)
        => account[g].flags = "locked"

\* The copies of the goal's row are true.
RowCopies(g) ==
    g \notin goalRaced =>
        /\ \A c \in Clients :
              /\ Edits(c, g) =>
                    /\ client[c].copy.status = goal[g].status
                    /\ client[c].copy.preference = client[c].wish
                    /\ client[c].at = "mandate" =>
                          client[c].wish # goal[g].preference
              /\ Deletes(c, g) => client[c].copy = goal[g]
        /\ \A r \in Runs :
              CronHolds(r, g, {"read", "save", "finish"}) => run[r].copy = goal[g]

\* What a call that empties the account has seen of it is enough.
Emptying(g) ==
    g \notin late \cup accountRaced \cup goalRaced =>
        /\ goal[g].status = "TERMINATED" => account[g].balance <= 0
        /\ \A c \in Clients : Deletes(c, g) =>
              /\ client[c].at \in {"mandate", "close", "rest"} =>
                    account[g].balance <= client[c].seen.balance
              /\ client[c].at = "terminate" => account[g].balance <= 0

\* A call that has changed the mandate and not the preference yet.
TurningOff(c, g) ==
    client[c].goal = g /\
        \/ /\ client[c].op = "update" /\ client[c].at = "save"
           /\ client[c].copy.preference = "manual"
        \/ /\ client[c].op = "delete" /\ client[c].copy.preference = "automatic"
           /\ client[c].at \notin {"account", "mandate"}
TurningOn(c, g) ==
    /\ client[c].goal = g /\ client[c].op = "update" /\ client[c].at = "save"
    /\ client[c].copy.preference = "automatic"
Creating(c, g) ==
    client[c].goal = g /\ client[c].op = "create" /\ client[c].at = "mandate"

Mandated(g) ==
    (g \notin goalRaced \cup halved /\ goal[g].status \notin {"none", "TERMINATED"}
        /\ active[g] + ended[g] <= 1) =>
      /\ goal[g].preference = "automatic" =>
            /\ \/ active[g] = 1 \/ g \in unsaved
               \/ \E c \in Clients : TurningOff(c, g) \/ Creating(c, g)
            /\ \A c \in Clients : TurningOff(c, g) => ended[g] > 0
            /\ \A c \in Clients : Creating(c, g) => active[g] + ended[g] = 0
      /\ goal[g].preference = "manual" =>
            /\ active[g] = 0 \/ \E c \in Clients : TurningOn(c, g)
            /\ \A c \in Clients : TurningOn(c, g) => active[g] > 0 \/ g \in unsaved
            /\ \A c \in Clients : ~Creating(c, g)

GoalInv(g) ==
    /\ Created(g) /\ AccountCopies(g) /\ FirstMonth(g) /\ RowCopies(g)
    /\ Emptying(g) /\ Mandated(g)

IInv ==
    /\ RowTypes /\ CallTypes /\ RunTypes /\ Shapes
    /\ \A g \in Goals : GoalInv(g)

\* The invariant holds initially.
LEMMA InitIInv == Init => IInv
<1> SUFFICES ASSUME Init PROVE IInv
  OBVIOUS
<1>1. RowTypes /\ CallTypes /\ RunTypes
  BY InitTypes, TypesApart
<1>2. Shapes
  BY DEF Init, Shapes, CallShape, RunShape, NoCall, NoRun
<1>3. ASSUME NEW g \in Goals PROVE GoalInv(g)
  BY SavingsGoalsAssumption
     DEF Init, GoalInv, Created, AccountCopies, FirstMonth, RowCopies, Emptying, Mandated,
         Edits, Deletes, CronHolds, NoCall, NoRun, NewGoal, NewAccount
<1> QED
  BY <1>1, <1>2, <1>3 DEF IInv

\* What the helpers do to calls and runs, place by place.
LEMMA ReturnFacts ==
    ASSUME CallTypes, NEW c \in Clients, Return(c)
    PROVE  client'[c] = NoCall /\ \A d \in Clients \ {c} : client'[d] = client[d]
BY DEF CallTypes, Return

LEMMA GoOnFacts ==
    ASSUME CallTypes, NEW c \in Clients, NEW place, GoOn(c, place)
    PROVE  /\ client'[c].at = place /\ client'[c].op = client[c].op
           /\ client'[c].goal = client[c].goal /\ client'[c].copy = client[c].copy
           /\ client'[c].wish = client[c].wish
           /\ client'[c].seen = IF place \in {"reread", "terminate"}
                                THEN NewAccount ELSE client[c].seen
           /\ \A d \in Clients \ {c} : client'[d] = client[d]
<1>1. client[c] \in CallType
  BY DEF CallTypes
<1> QED
  BY <1>1 DEF CallTypes, GoOn, CallType

LEMMA EndRunFacts ==
    ASSUME RunTypes, NEW r \in Runs, EndRun(r)
    PROVE  run'[r] = NoRun /\ \A s \in Runs \ {r} : run'[s] = run[s]
BY DEF RunTypes, EndRun

\* A goal that a step leaves alone, with all that is under way on it.
LEMMA Frame ==
    ASSUME NEW g \in Goals, GoalInv(g),
           goal'[g] = goal[g], account'[g] = account[g], active'[g] = active[g],
           ended'[g] = ended[g], book'[g] = book[g], day'[g] = day[g],
           g \in accountRaced' <=> g \in accountRaced,
           g \in goalRaced' <=> g \in goalRaced,
           g \in late' <=> g \in late, g \in halved' <=> g \in halved,
           g \in unsaved' <=> g \in unsaved,
           \A c \in Clients : client'[c].goal = g \/ client[c].goal = g
                                  => client'[c] = client[c],
           \A r \in Runs : run'[r].goal = g \/ run[r].goal = g => run'[r] = run[r]
    PROVE  GoalInv(g)'
<1>1. Created(g)'
  BY DEF GoalInv, Created
<1>2. AccountCopies(g)'
  BY DEF GoalInv, AccountCopies, Edits, CronHolds
<1>3. FirstMonth(g)'
  BY DEF GoalInv, FirstMonth
<1>4. RowCopies(g)'
  BY DEF GoalInv, RowCopies, Edits, Deletes, CronHolds
<1>5. Emptying(g)'
  BY DEF GoalInv, Emptying, Deletes
<1>6. Mandated(g)'
  BY DEF GoalInv, Mandated, TurningOff, TurningOn, Creating
<1> QED
  BY <1>1, <1>2, <1>3, <1>4, <1>5, <1>6 DEF GoalInv

\* A goal that has been created is never without a status again, and days pass.
LEMMA Onwards ==
    ASSUME RowTypes, CallTypes, RunTypes, Shapes, [Next]_vars, NEW g \in Goals
    PROVE  /\ goal[g].status # "none" => goal'[g].status # "none"
           /\ day[g] > 0 => day'[g] > 0
<1> USE DEF RowTypes
<1>1. ASSUME NEW c \in Clients, ClientStep(c)
      PROVE  goal[g].status # "none" => goal'[g].status # "none"
  <2>1. ASSUME NEW h \in Goals, NEW p \in Preferences, Create(c, h, p) \/ StartUpdate(c, h, p)
        PROVE  UNCHANGED goal
    BY <2>1 DEF Create, StartUpdate
  <2>2. ASSUME NEW h \in Goals, StartDelete(c, h) PROVE UNCHANGED goal
    BY <2>2 DEF StartDelete
  <2>3. CASE Insert(c)
    BY <2>3 DEF Insert
  <2>4. CASE Save(c)
    <3>1. client[c].copy.status # "none"
      BY <2>4, CallFields DEF Save, Shapes, CallShape, CallTypes
    <3> QED
      BY <2>4, <3>1 DEF Save
  <2>5. CASE Terminate(c)
    <3>1. [client[c].copy EXCEPT !.status = "TERMINATED"].status # "none"
      BY CallFields DEF CallTypes, GoalRow
    <3> QED
      BY <2>5, <3>1 DEF Terminate
  <2>6. CASE \/ CreateMandate(c) \/ MandateUnsaved(c) \/ DeactivateMandate(c)
             \/ ReadAccount(c) \/ CloseEmpty(c)
    BY <2>6 DEF CreateMandate, MandateUnsaved, DeactivateMandate, ReadAccount, CloseEmpty
  <2>7. CASE ChargeFee(c) \/ Reread(c) \/ TakeRest(c) \/ TakeAll(c) \/ Throw(c)
    BY <2>7 DEF ChargeFee, Reread, TakeRest, TakeAll, Throw
  <2> QED
    BY <1>1, <2>1, <2>2, <2>3, <2>4, <2>5, <2>6, <2>7 DEF ClientStep
<1>2. ASSUME NEW r \in Runs, RunStep(r)
      PROVE  goal[g].status # "none" => goal'[g].status # "none"
  <2>1. ASSUME NEW h \in Goals, ListEnding(r, h) \/ ListLocked(r, h) PROVE UNCHANGED goal
    BY <2>1 DEF ListEnding, ListLocked
  <2>2. CASE ReadForEnd(r) \/ SaveAccount(r) \/ Open(r) \/ StopRun(r)
    BY <2>2 DEF ReadForEnd, SaveAccount, Open, StopRun
  <2>3. CASE Finish(r)
    <3>1. \A s \in {"COMPLETED", "FAILED"} :
              [run[r].copy EXCEPT !.status = s].status # "none"
      BY RunFields DEF RunTypes, GoalRow
    <3> QED
      BY <2>3, <3>1 DEF Finish
  <2> QED
    BY <1>2, <2>1, <2>2, <2>3 DEF RunStep
<1>3. ASSUME NEW h \in Goals, NEW x \in Amounts, Deposit(h, x) \/ Withdraw(h, x)
      PROVE  UNCHANGED goal
  BY <1>3 DEF Deposit, Withdraw
<1>4. ASSUME NEW h \in Goals, DayPasses(h) PROVE UNCHANGED goal
  BY <1>4 DEF DayPasses
<1>5. day[g] > 0 => day'[g] > 0
  <2>1. ASSUME NEW c \in Clients, ClientStep(c) PROVE UNCHANGED day
    BY <2>1 DEF ClientStep, Create, StartUpdate, StartDelete, Insert, CreateMandate,
                MandateUnsaved,
                DeactivateMandate, Save, ReadAccount, CloseEmpty, ChargeFee, Reread,
                TakeRest, TakeAll, Terminate, Throw
  <2>2. ASSUME NEW r \in Runs, RunStep(r) PROVE UNCHANGED day
    BY <2>2 DEF RunStep, ListEnding, ListLocked, ReadForEnd, SaveAccount, Finish, Open,
                StopRun
  <2>3. ASSUME NEW h \in Goals, NEW x \in Amounts, Deposit(h, x) \/ Withdraw(h, x)
        PROVE  UNCHANGED day
    BY <2>3 DEF Deposit, Withdraw
  <2>4. ASSUME NEW h \in Goals, DayPasses(h) PROVE day[g] > 0 => day'[g] > 0
    BY <2>4 DEF DayPasses
  <2>5. UNCHANGED vars => UNCHANGED day
    BY DEF vars
  <2> QED
    BY <2>1, <2>2, <2>3, <2>4, <2>5 DEF Next
<1>6. UNCHANGED vars => UNCHANGED goal
  BY DEF vars
<1> QED
  BY <1>1, <1>2, <1>3, <1>4, <1>5, <1>6 DEF Next

LEMMA ShapesStep ==
    ASSUME RowTypes, CallTypes, RunTypes, Shapes, [Next]_vars PROVE Shapes'
<1>t. /\ client \in [Clients -> CallType] /\ run \in [Runs -> RunType]
      /\ \A c \in Clients : CallShape(c)
      /\ \A r \in Runs : RunShape(r) /\ RunOk(r)
      /\ goal \in [Goals -> GoalRow]
  BY DEF RowTypes, CallTypes, RunTypes, Shapes
<1>0. ASSUME UNCHANGED client PROVE \A c \in Clients : CallShape(c)'
  BY <1>0, <1>t DEF CallShape
<1>o. ASSUME NEW r \in Runs, run'[r] = run[r] PROVE RunShape(r)'
  BY <1>o, <1>t, Onwards DEF RunShape, RunOk
<1>00. ASSUME UNCHANGED run PROVE \A r \in Runs : RunShape(r)'
  BY <1>00, <1>o
<1>r. ASSUME NEW c \in Clients, Return(c) PROVE \A d \in Clients : CallShape(d)'
  BY <1>r, <1>t, ReturnFacts DEF CallShape, NoCall
<1>1. ASSUME NEW c \in Clients, ClientStep(c) PROVE Shapes'
  <2>0. UNCHANGED run
    BY <1>1 DEF ClientStep, Create, StartUpdate, StartDelete, Insert, CreateMandate,
                MandateUnsaved,
                DeactivateMandate, Save, ReadAccount, CloseEmpty, ChargeFee, Reread,
                TakeRest, TakeAll, Terminate, Throw
  <2>g. ASSUME NEW place \in {"mandate", "save", "close", "reread", "rest", "terminate"},
               GoOn(c, place),
               /\ place = "mandate" => client[c].op = "create" /\ client[c].wish = "automatic"
               /\ place = "save" => client[c].op = "update"
               /\ place \in {"close", "reread", "rest", "terminate"} => client[c].op = "delete"
        PROVE  \A d \in Clients : CallShape(d)'
    BY <2>g, <1>t, GoOnFacts DEF CallShape, CallTypes
  <2>t. /\ client[c] \in CallType /\ CallShape(c)
        /\ client[c].wish \in Preferences /\ client[c].op \in {"none", "create", "update", "delete"}
    BY <1>t, CallFields
  <2>1. ASSUME NEW h \in Goals, NEW p \in Preferences, Create(c, h, p)
        PROVE  \A d \in Clients : CallShape(d)'
    BY <2>1, <1>t DEF Create, CallShape, NoCall
  <2>2. ASSUME NEW h \in Goals, NEW p \in Preferences, StartUpdate(c, h, p)
        PROVE  \A d \in Clients : CallShape(d)'
    <3>1. [goal[h] EXCEPT !.preference = p].status # "none"
      BY <2>2, <1>t DEF StartUpdate, GoalRow
    <3> QED
      BY <2>2, <3>1, <1>t DEF StartUpdate, CallShape
  <2>3. ASSUME NEW h \in Goals, StartDelete(c, h) PROVE \A d \in Clients : CallShape(d)'
    BY <2>3, <1>t DEF StartDelete, CallShape, NoCall
  <2>4. ASSUME Insert(c) PROVE \A d \in Clients : CallShape(d)'
    BY <2>4, <2>t, <2>g, <1>r DEF Insert, CallShape
  <2>5. ASSUME CreateMandate(c) \/ MandateUnsaved(c) PROVE \A d \in Clients : CallShape(d)'
    BY <2>5, <2>t, <2>g, <1>r DEF CreateMandate, MandateUnsaved, CallShape
  <2>6. ASSUME DeactivateMandate(c) PROVE \A d \in Clients : CallShape(d)'
    BY <2>6, <2>t, <2>g DEF DeactivateMandate, CallShape
  <2>7. ASSUME Save(c) \/ Terminate(c) \/ Throw(c) PROVE \A d \in Clients : CallShape(d)'
    BY <2>7, <1>r DEF Save, Terminate, Throw
  <2>8. ASSUME ReadAccount(c) PROVE \A d \in Clients : CallShape(d)'
    <3>1. /\ client'[c].at = IF client[c].copy.preference = "automatic"
                             THEN "mandate" ELSE "close"
          /\ client'[c].op = client[c].op /\ client'[c].copy = client[c].copy
          /\ client'[c].wish = client[c].wish
          /\ \A d \in Clients \ {c} : client'[d] = client[d]
      BY <2>8, <2>t, <1>t DEF ReadAccount, CallType
    <3> QED
      BY <2>8, <3>1, <2>t, <1>t DEF ReadAccount, CallShape
  <2>9. ASSUME CloseEmpty(c) \/ ChargeFee(c) \/ TakeRest(c) \/ TakeAll(c) PROVE \A d \in Clients : CallShape(d)'
    BY <2>9, <2>t, <2>g DEF CloseEmpty, ChargeFee, TakeRest, TakeAll, CallShape
  <2>10. ASSUME Reread(c) PROVE \A d \in Clients : CallShape(d)'
    <3>1. /\ client'[c].at = "rest"
          /\ client'[c].op = client[c].op /\ client'[c].copy = client[c].copy
          /\ client'[c].wish = client[c].wish
          /\ \A d \in Clients \ {c} : client'[d] = client[d]
      BY <2>10, <2>t, <1>t DEF Reread, CallType
    <3> QED
      BY <2>10, <3>1, <2>t, <1>t DEF Reread, CallShape
  <2>11. \A d \in Clients : CallShape(d)'
    BY <1>1, <2>1, <2>2, <2>3, <2>4, <2>5, <2>6, <2>7, <2>8, <2>9, <2>10 DEF ClientStep
  <2> QED
    BY <2>0, <2>11, <1>00 DEF Shapes
<1>2. ASSUME NEW r \in Runs, RunStep(r) PROVE Shapes'
  <2>0. UNCHANGED client
    BY <1>2 DEF RunStep, ListEnding, ListLocked, ReadForEnd, SaveAccount, Finish, Open,
                StopRun
  <2>1. ASSUME NEW h \in Goals, ListEnding(r, h) \/ ListLocked(r, h)
        PROVE  \A s \in Runs : RunShape(s)'
    <3>1. /\ run'[r].goal = h /\ run'[r].at \in {"read", "open"}
          /\ run'[r].at = "read" => run'[r].copy = goal[h]
          /\ \A s \in Runs \ {r} : run'[s] = run[s]
          /\ goal'[h] = goal[h] /\ day'[h] = day[h] /\ goal[h].status = "INPROGRESS"
          /\ day[h] > 0
      <4>1. CASE ListEnding(r, h)
        BY <4>1, <1>t DEF ListEnding, NoRun, RowTypes
      <4>2. CASE ListLocked(r, h)
        BY <4>2, <1>t DEF ListLocked, NoRun, RowTypes
      <4> QED
        BY <2>1, <4>1, <4>2
    <3> QED
      BY <3>1, <1>o DEF RunShape
  <2>2. ASSUME ReadForEnd(r) \/ SaveAccount(r) PROVE \A s \in Runs : RunShape(s)'
    <3>1. /\ run'[r].goal = run[r].goal /\ run'[r].copy = run[r].copy
          /\ run[r].at \in {"read", "save"}
          /\ \A s \in Runs \ {r} : run'[s] = run[s]
      BY <2>2, <1>t DEF ReadForEnd, SaveAccount, RunType
    <3> QED
      BY <3>1, <1>o, <1>t, Onwards DEF RunShape, RunOk
  <2>3. ASSUME Finish(r) \/ Open(r) \/ StopRun(r) PROVE \A s \in Runs : RunShape(s)'
    <3>1. EndRun(r)
      BY <2>3 DEF Finish, Open, StopRun
    <3> QED
      BY <3>1, <1>o, EndRunFacts DEF RunShape, NoRun
  <2>4. \A s \in Runs : RunShape(s)'
    BY <1>2, <2>1, <2>2, <2>3 DEF RunStep
  <2> QED
    BY <2>0, <2>4, <1>0 DEF Shapes
<1>3. ASSUME NEW g \in Goals, NEW x \in Amounts, Deposit(g, x) \/ Withdraw(g, x) PROVE Shapes'
  BY <1>3, <1>0, <1>00 DEF Deposit, Withdraw, Shapes
<1>4. ASSUME NEW g \in Goals, DayPasses(g) PROVE Shapes'
  BY <1>4, <1>0, <1>00 DEF DayPasses, Shapes
<1>5. CASE UNCHANGED vars
  BY <1>5, <1>0, <1>00 DEF vars, Shapes
<1> QED
  BY <1>1, <1>2, <1>3, <1>4, <1>5 DEF Next

\* What is known of the other copies after a write.
LEMMA TouchAccountFacts ==
    ASSUME NEW p, NEW g, TouchAccount(p, g)
    PROVE  /\ \A h : h # g => (h \in accountRaced' <=> h \in accountRaced)
           /\ g \in accountRaced => g \in accountRaced'
           /\ g \notin accountRaced' =>
                 \/ account'[g] = account[g]
                 \/ /\ \A d \in Clients \ {p} : ~Edits(d, g)
                    /\ \A r \in Runs \ {p} : ~CronHolds(r, g, {"save"})
BY DEF TouchAccount

LEMMA TouchGoalFacts ==
    ASSUME NEW p, NEW g, TouchGoal(p, g)
    PROVE  /\ \A h : h # g => (h \in goalRaced' <=> h \in goalRaced)
           /\ g \in goalRaced => g \in goalRaced'
           /\ g \notin goalRaced' =>
                 \/ goal'[g] = goal[g]
                 \/ /\ \A d \in Clients \ {p} : ~Edits(d, g) /\ ~Deletes(d, g)
                    /\ \A r \in Runs \ {p} :
                          ~CronHolds(r, g, {"read", "save", "finish", "open"})
BY DEF TouchGoal

LEMMA MovementFacts ==
    ASSUME RowTypes, NEW p, NEW g \in Goals, NEW x \in Int, Movement(p, g, x)
    PROVE  /\ account'[g].balance = account[g].balance + x
           /\ account'[g].flags = account[g].flags
           /\ \A h \in Goals \ {g} :
                 /\ account'[h] = account[h] /\ book'[h] = book[h]
                 /\ h \in accountRaced' <=> h \in accountRaced
           /\ book'[g] = IF g \in accountRaced' THEN 0 ELSE book[g] + x
           /\ g \in accountRaced => g \in accountRaced'
           /\ g \notin accountRaced' =>
                 \/ account'[g] = account[g]
                 \/ /\ \A d \in Clients \ {p} : ~Edits(d, g)
                    /\ \A r \in Runs \ {p} : ~CronHolds(r, g, {"save"})
           /\ \A h \in Goals \ {g} : h \in late' <=> h \in late
           /\ g \in late => g \in late'
           /\ x > 0 /\ g \notin late' =>
                 /\ goal[g].status # "TERMINATED"
                 /\ \A d \in Clients \ {p} : Deletes(d, g) => client[d].at = "account"
<1>1. account[g] \in AccountRow
  BY DEF RowTypes
<1>2. TouchAccount(p, g)
  BY DEF Movement
<1>3. /\ account'[g].balance = account[g].balance + x
      /\ account'[g].flags = account[g].flags
      /\ \A h \in Goals \ {g} : account'[h] = account[h] /\ book'[h] = book[h]
      /\ book'[g] = IF g \in accountRaced' THEN 0 ELSE book[g] + x
  BY <1>1 DEF Movement, RowTypes, AccountRow
<1>4. /\ \A h \in Goals \ {g} : h \in late' <=> h \in late
      /\ g \in late => g \in late'
      /\ x > 0 /\ g \notin late' =>
            /\ goal[g].status # "TERMINATED"
            /\ \A d \in Clients \ {p} : Deletes(d, g) => client[d].at = "account"
  BY DEF Movement
<1> QED
  BY <1>2, <1>3, <1>4, TouchAccountFacts

\* What others have seen of an account that is emptied stays enough when money
\* is moved, unless it comes in late.
LEMMA EmptyingOthers ==
    ASSUME IInv, NEW p, NEW g \in Goals, NEW x \in Int, Movement(p, g, x),
           UNCHANGED <<goal, goalRaced>>,
           \A d \in Clients \ {p} : client'[d] = client[d],
           g \notin late' \cup accountRaced' \cup goalRaced'
    PROVE  /\ goal'[g].status = "TERMINATED" => account'[g].balance <= 0
           /\ \A d \in Clients \ {p} : Deletes(d, g)' =>
                 /\ client'[d].at \in {"mandate", "close", "rest"} =>
                       account'[g].balance <= client'[d].seen.balance
                 /\ client'[d].at = "terminate" => account'[g].balance <= 0
<1>1. RowTypes /\ Emptying(g)
  BY DEF IInv, GoalInv
<1>2. /\ account'[g].balance = account[g].balance + x
      /\ g \notin late \cup accountRaced \cup goalRaced
      /\ x > 0 =>
            /\ goal[g].status # "TERMINATED"
            /\ \A d \in Clients \ {p} : Deletes(d, g) => client[d].at = "account"
  BY <1>1, MovementFacts
<1>3. account[g].balance \in Int
  BY <1>1 DEF RowTypes, AccountRow
<1>4. \A d \in Clients : client[d].seen.balance \in Int
  BY CallFields DEF IInv, CallTypes, AccountRow
<1>5. goal'[g].status = "TERMINATED" => account'[g].balance <= 0
  BY <1>1, <1>2, <1>3 DEF Emptying
<1>6. ASSUME NEW d \in Clients \ {p}, Deletes(d, g)'
      PROVE  /\ client'[d].at \in {"mandate", "close", "rest"} =>
                   account'[g].balance <= client'[d].seen.balance
             /\ client'[d].at = "terminate" => account'[g].balance <= 0
  <2>1. client'[d] = client[d] /\ Deletes(d, g)
    BY <1>6 DEF Deletes
  <2>2. /\ client[d].at \in {"mandate", "close", "rest"} =>
              account[g].balance <= client[d].seen.balance
        /\ client[d].at = "terminate" => account[g].balance <= 0
    BY <1>1, <1>2, <2>1 DEF Emptying
  <2>3. CASE x > 0
    BY <2>1, <2>3, <1>2
  <2>4. CASE ~(x > 0)
    BY <2>1, <2>2, <2>4, <1>2, <1>3, <1>4
  <2> QED
    BY <2>3, <2>4
<1> QED
  BY <1>5, <1>6

\* A call that deletes a goal keeps the invariant of every goal when it moves
\* money: what it goes on to terminate is empty.
LEMMA MovingCallStep ==
    ASSUME IInv, NEW c \in Clients, NEW g \in Goals, NEW x \in Int,
           NEW place \in {"reread", "terminate"},
           client[c].op = "delete", client[c].at \in {"close", "rest"},
           account[client[c].goal].flags # "locked",
           Movement(c, client[c].goal, x), GoOn(c, place),
           UNCHANGED <<goal, active, ended, day, run, goalRaced, halved, unsaved>>,
           place = "terminate" =>
               (account[client[c].goal].balance <= client[c].seen.balance =>
                   account[client[c].goal].balance + x <= 0)
    PROVE  GoalInv(g)'
<1> DEFINE h == client[c].goal
<1>t. /\ RowTypes /\ CallTypes /\ h \in Goals
      /\ \A d \in Clients : CallShape(d)
  BY DEF IInv, CallTypes, CallOk, Shapes
<1>n. NoGoal \notin Goals /\ Runs \ {c} = Runs
  BY SavingsGoalsAssumption
<1>i. /\ Created(g) /\ AccountCopies(g) /\ FirstMonth(g) /\ RowCopies(g)
      /\ Emptying(g) /\ Mandated(g)
  BY DEF IInv, GoalInv
<1>g. /\ account[g].balance \in Int /\ book[g] \in Int
      /\ goal[g].preference \in {"manual", "automatic"}
      /\ active[g] \in Nat /\ ended[g] \in Nat
  BY <1>t, SavingsGoalsAssumption DEF RowTypes, GoalRow, AccountRow
<1>c. /\ client'[c].at = place /\ client'[c].op = client[c].op
      /\ client'[c].goal = client[c].goal /\ client'[c].copy = client[c].copy
      /\ client'[c].wish = client[c].wish
      /\ \A d \in Clients \ {c} : client'[d] = client[d]
  BY <1>t, GoOnFacts
<1>m. /\ account'[h].balance = account[h].balance + x
      /\ account'[h].flags = account[h].flags
      /\ \A k \in Goals \ {h} :
            /\ account'[k] = account[k] /\ book'[k] = book[k]
            /\ k \in accountRaced' <=> k \in accountRaced
            /\ k \in late' <=> k \in late
      /\ book'[h] = IF h \in accountRaced' THEN 0 ELSE book[h] + x
      /\ h \in accountRaced => h \in accountRaced'
      /\ h \notin accountRaced' =>
            \/ account'[h] = account[h]
            \/ /\ \A d \in Clients \ {c} : ~Edits(d, h)
               /\ \A r \in Runs \ {c} : ~CronHolds(r, h, {"save"})
      /\ h \in late => h \in late'
  BY <1>t, MovementFacts
<1>1. CASE h # g
  BY <1>1, <1>m, <1>c, <1>i, <1>n, Frame DEF GoalInv
<1>2. CASE h = g
  <2>1. Created(g)'
    BY <1>2, <1>c, <1>m, <1>i DEF Created
  <2>2. AccountCopies(g)'
    BY <1>2, <1>c, <1>m, <1>i, <1>n, <1>g DEF AccountCopies, Edits, CronHolds
  <2>3. FirstMonth(g)'
    BY <1>2, <1>m, <1>i DEF FirstMonth
  <2>4. RowCopies(g)'
    BY <1>2, <1>c, <1>i, <1>n DEF RowCopies, Edits, Deletes, CronHolds
  <2>5. Emptying(g)'
    <3> SUFFICES ASSUME g \notin late' \cup accountRaced' \cup goalRaced'
                 PROVE  /\ goal'[g].status = "TERMINATED" => account'[g].balance <= 0
                        /\ \A d \in Clients : Deletes(d, g)' =>
                              /\ client'[d].at \in {"mandate", "close", "rest"} =>
                                    account'[g].balance <= client'[d].seen.balance
                              /\ client'[d].at = "terminate" =>
                                    account'[g].balance <= 0
      BY DEF Emptying
    <3>1. /\ goal'[g].status = "TERMINATED" => account'[g].balance <= 0
          /\ \A d \in Clients \ {c} : Deletes(d, g)' =>
                /\ client'[d].at \in {"mandate", "close", "rest"} =>
                      account'[g].balance <= client'[d].seen.balance
                /\ client'[d].at = "terminate" => account'[g].balance <= 0
      BY <1>2, <1>c, EmptyingOthers
    <3>2. account[g].balance <= client[c].seen.balance
      BY <1>2, <1>m, <1>i DEF Emptying, Deletes
    <3>3. place = "terminate" => account'[g].balance <= 0
      BY <1>2, <1>m, <3>2
    <3> QED
      BY <3>1, <3>3, <1>c
  <2>6. Mandated(g)'
    BY <1>2, <1>c, <1>i, <1>g, <1>t
       DEF Mandated, TurningOff, TurningOn, Creating, CallShape
  <2> QED
    BY <2>1, <2>2, <2>3, <2>4, <2>5, <2>6 DEF GoalInv
<1> QED
  BY <1>1, <1>2

\* A call keeps the invariant of every goal.
LEMMA ClientGoalStep ==
    ASSUME IInv, NEW c \in Clients, ClientStep(c), NEW g \in Goals
    PROVE  GoalInv(g)'
<1>t. /\ goal \in [Goals -> GoalRow] /\ account \in [Goals -> AccountRow]
      /\ active \in [Goals -> Nat] /\ ended \in [Goals -> Nat] /\ book \in [Goals -> Int]
      /\ client \in [Clients -> CallType] /\ run \in [Runs -> RunType]
      /\ accountRaced \subseteq Goals /\ goalRaced \subseteq Goals
  BY DEF IInv, RowTypes, CallTypes, RunTypes
<1>c. /\ client[c] \in CallType /\ CallShape(c) /\ CallOk(c)
      /\ client[c].copy \in GoalRow /\ client[c].seen \in AccountRow
      /\ client[c].wish \in Preferences /\ client[c].seen.balance \in Int
      /\ client[c].op \in {"none", "create", "update", "delete"}
      /\ client[c].at = "idle" => client[c].goal = NoGoal
      /\ CallTypes
  BY CallFields DEF IInv, CallTypes, CallOk, Shapes, NoCall, AccountRow
<1>s. \A d \in Clients :
         CallShape(d) /\ client[d].op \in {"none", "create", "update", "delete"}
  BY CallFields DEF IInv, CallTypes, Shapes
<1>n. NoGoal \notin Goals /\ Runs \ {c} = Runs
  BY SavingsGoalsAssumption
<1>i. /\ Created(g) /\ AccountCopies(g) /\ FirstMonth(g) /\ RowCopies(g)
      /\ Emptying(g) /\ Mandated(g)
  BY DEF IInv, GoalInv
<1>g. /\ account[g].balance \in Int /\ active[g] \in Nat /\ ended[g] \in Nat /\ book[g] \in Int
      /\ goal[g].preference \in {"manual", "automatic"}
      /\ goal[g] = [status |-> goal[g].status, preference |-> goal[g].preference]
      /\ account[g] = [balance |-> account[g].balance, flags |-> account[g].flags]
  BY <1>t, SavingsGoalsAssumption DEF GoalRow, AccountRow
<1>r. \A r \in Runs : run[r].goal = g => goal[g].status # "none"
  BY <1>n DEF IInv, Shapes, RunShape, RunTypes, RunOk, NoRun
<1>1. ASSUME NEW h \in Goals, NEW p \in Preferences, Create(c, h, p) PROVE GoalInv(g)'
  <2>f. /\ UNCHANGED <<goal, account, active, ended, day, run, book, accountRaced,
                       goalRaced, late, halved, unsaved>>
        /\ \A d \in Clients \ {c} : client'[d] = client[d]
        /\ client'[c].at = "insert" /\ client'[c].op = "create" /\ client'[c].goal = h
        /\ client[c].at = "idle" /\ client[c].goal = NoGoal
        /\ goal[h].status = "none" /\ \A d \in Clients : client[d].goal # h
    BY <1>1, <1>t, <1>c DEF Create, NoCall
  <2>1. CASE h # g
    BY <2>1, <2>f, <1>i, <1>n, Frame DEF GoalInv
  <2>2. CASE h = g
    <3>p1. Created(g)'
      BY <2>2, <2>f, <1>i, <1>n, <1>g DEF Created
    <3>p2. AccountCopies(g)'
      BY <2>2, <2>f, <1>i, <1>n, <1>g DEF AccountCopies, Edits, CronHolds
    <3>p3. FirstMonth(g)'
      BY <2>2, <2>f, <1>i, <1>n, <1>g DEF FirstMonth
    <3>p4. RowCopies(g)'
      BY <2>2, <2>f, <1>i, <1>n, <1>g DEF RowCopies, Edits, Deletes, CronHolds
    <3>p5. Emptying(g)'
      BY <2>2, <2>f, <1>i, <1>n, <1>g DEF Emptying, Deletes, Edits
    <3>p6. Mandated(g)'
      BY <2>2, <2>f, <1>i, <1>n, <1>g DEF Mandated, TurningOff, TurningOn, Creating
    <3> QED
      BY <3>p1, <3>p2, <3>p3, <3>p4, <3>p5, <3>p6 DEF GoalInv
  <2> QED
    BY <2>1, <2>2
<1>2. ASSUME NEW h \in Goals, NEW p \in Preferences, StartUpdate(c, h, p) PROVE GoalInv(g)'
  <2>f. /\ UNCHANGED <<goal, account, active, ended, day, run, book, accountRaced,
                       goalRaced, late, halved, unsaved>>
        /\ \A d \in Clients \ {c} : client'[d] = client[d]
        /\ client'[c].at = IF p # goal[h].preference THEN "mandate" ELSE "save"
        /\ client'[c].op = "update" /\ client'[c].goal = h
        /\ client'[c].seen = account[h] /\ client'[c].wish = p
        /\ client'[c].copy.status = goal[h].status
        /\ client'[c].copy.preference = p
        /\ client[c].at = "idle" /\ client[c].goal = NoGoal
        /\ goal[h].status # "none"
    BY <1>2, <1>t, <1>c DEF StartUpdate, NoCall, GoalRow
  <2>1. CASE h # g
    BY <2>1, <2>f, <1>i, <1>n, Frame DEF GoalInv
  <2>2. CASE h = g
    <3>p1. Created(g)'
      BY <2>2, <2>f, <1>i, <1>n, <1>g DEF Created
    <3>p2. AccountCopies(g)'
      BY <2>2, <2>f, <1>i, <1>n, <1>g DEF AccountCopies, Edits, CronHolds
    <3>p3. FirstMonth(g)'
      BY <2>2, <2>f, <1>i, <1>n, <1>g DEF FirstMonth
    <3>p4. RowCopies(g)'
      BY <2>2, <2>f, <1>i, <1>n, <1>g DEF RowCopies, Edits, Deletes, CronHolds
    <3>p5. Emptying(g)'
      BY <2>2, <2>f, <1>i, <1>n, <1>g DEF Emptying, Deletes, Edits
    <3>p6. Mandated(g)'
      BY <2>2, <2>f, <1>i, <1>n, <1>g DEF Mandated, TurningOff, TurningOn, Creating
    <3> QED
      BY <3>p1, <3>p2, <3>p3, <3>p4, <3>p5, <3>p6 DEF GoalInv
  <2> QED
    BY <2>1, <2>2
<1>3. ASSUME NEW h \in Goals, StartDelete(c, h) PROVE GoalInv(g)'
  <2>f. /\ UNCHANGED <<goal, account, active, ended, day, run, book, accountRaced,
                       goalRaced, late, halved, unsaved>>
        /\ \A d \in Clients \ {c} : client'[d] = client[d]
        /\ client'[c].at = "account" /\ client'[c].op = "delete" /\ client'[c].goal = h
        /\ client'[c].copy = goal[h]
        /\ client[c].at = "idle" /\ client[c].goal = NoGoal
        /\ goal[h].status \notin {"none", "TERMINATED"}
    BY <1>3, <1>t, <1>c DEF StartDelete, NoCall
  <2>1. CASE h # g
    BY <2>1, <2>f, <1>i, <1>n, Frame DEF GoalInv
  <2>2. CASE h = g
    <3>p1. Created(g)'
      BY <2>2, <2>f, <1>i, <1>n, <1>g DEF Created
    <3>p2. AccountCopies(g)'
      BY <2>2, <2>f, <1>i, <1>n, <1>g DEF AccountCopies, Edits, CronHolds
    <3>p3. FirstMonth(g)'
      BY <2>2, <2>f, <1>i, <1>n, <1>g DEF FirstMonth
    <3>p4. RowCopies(g)'
      BY <2>2, <2>f, <1>i, <1>n, <1>g DEF RowCopies, Edits, Deletes, CronHolds
    <3>p5. Emptying(g)'
      BY <2>2, <2>f, <1>i, <1>n, <1>g DEF Emptying, Deletes, Edits
    <3>p6. Mandated(g)'
      BY <2>2, <2>f, <1>i, <1>n, <1>g DEF Mandated, TurningOff, TurningOn, Creating
    <3> QED
      BY <3>p1, <3>p2, <3>p3, <3>p4, <3>p5, <3>p6 DEF GoalInv
  <2> QED
    BY <2>1, <2>2
<1>4. ASSUME Insert(c) PROVE GoalInv(g)'
  <2>u. UNCHANGED <<active, ended, day, run, book, accountRaced, goalRaced, late, halved, unsaved>>
    BY <1>4 DEF Insert
  <2>c. \/ /\ client[c].wish = "automatic"
           /\ client'[c].at = "mandate" /\ client'[c].op = client[c].op
           /\ client'[c].goal = client[c].goal /\ client'[c].copy = client[c].copy
           /\ client'[c].wish = client[c].wish
           /\ client'[c].seen = client[c].seen
           /\ \A d \in Clients \ {c} : client'[d] = client[d]
        \/ /\ client[c].wish # "automatic"
           /\ client'[c].at = "idle" /\ client'[c].op = "none" /\ client'[c].goal = NoGoal
           /\ \A d \in Clients \ {c} : client'[d] = client[d]
    BY <1>4, <1>c, GoOnFacts, ReturnFacts DEF Insert, NoCall
  <2>1. CASE client[c].goal # g
    <3>1. goal'[g] = goal[g] /\ account'[g] = account[g] /\ client'[c].goal # g
      BY <1>4, <1>t, <2>1, <2>c, <1>n DEF Insert, NoCall
    <3> QED
      BY <3>1, <2>1, <2>u, <2>c, <1>i, <1>n, Frame DEF GoalInv
  <2>2. CASE client[c].goal = g
    <3>f. /\ goal'[g].status = "INPROGRESS" /\ goal'[g].preference = client[c].wish
          /\ account'[g].balance = 0
          /\ account'[g].flags = IF g \in BezoLocks THEN "locked" ELSE "fees"
          /\ goal[g].status = "none" /\ client[c].at = "insert" /\ client[c].op = "create"
          /\ \A d \in Clients : client[d].goal = g => c = d
          /\ active[g] = 0 /\ ended[g] = 0 /\ book[g] = 0
          /\ \A r \in Runs : run[r].goal # g
      BY <1>4, <1>t, <2>2, <1>i, <1>c, <1>r DEF Insert, Created, CallShape
    <3>p1. Created(g)'
      BY <2>2, <2>u, <2>c, <3>f, <1>i, <1>n, <1>g, <1>c DEF Created
    <3>p2. AccountCopies(g)'
      BY <2>2, <2>u, <2>c, <3>f, <1>i, <1>n, <1>g, <1>c DEF AccountCopies, Edits, CronHolds
    <3>p3. FirstMonth(g)'
      BY <2>2, <2>u, <2>c, <3>f, <1>i, <1>n, <1>g, <1>c DEF FirstMonth
    <3>p4. RowCopies(g)'
      BY <2>2, <2>u, <2>c, <3>f, <1>i, <1>n, <1>g, <1>c DEF RowCopies, Edits, Deletes, CronHolds
    <3>p5. Emptying(g)'
      BY <2>2, <2>u, <2>c, <3>f, <1>i, <1>n, <1>g, <1>c DEF Emptying, Deletes, Edits
    <3>p6. Mandated(g)'
      BY <2>2, <2>u, <2>c, <3>f, <1>i, <1>n, <1>g, <1>c DEF Mandated, TurningOff, TurningOn, Creating
    <3> QED
      BY <3>p1, <3>p2, <3>p3, <3>p4, <3>p5, <3>p6 DEF GoalInv
  <2> QED
    BY <2>1, <2>2
<1>5. ASSUME CreateMandate(c) PROVE GoalInv(g)'
  <2>u. UNCHANGED <<goal, account, ended, day, run, book, accountRaced, goalRaced, late, halved, unsaved>>
    BY <1>5 DEF CreateMandate
  <2>c. \/ /\ client[c].op = "create"
           /\ client'[c].at = "idle" /\ client'[c].op = "none" /\ client'[c].goal = NoGoal
           /\ \A d \in Clients \ {c} : client'[d] = client[d]
        \/ /\ client[c].op # "create"
           /\ client'[c].at = "save" /\ client'[c].op = client[c].op
           /\ client'[c].goal = client[c].goal /\ client'[c].copy = client[c].copy
           /\ client'[c].wish = client[c].wish
           /\ client'[c].seen = client[c].seen
           /\ \A d \in Clients \ {c} : client'[d] = client[d]
    BY <1>5, <1>c, GoOnFacts, ReturnFacts DEF CreateMandate, NoCall
  <2>1. CASE client[c].goal # g
    <3>1. active'[g] = active[g] /\ client'[c].goal # g
      BY <1>5, <1>t, <2>1, <2>c, <1>n DEF CreateMandate
    <3> QED
      BY <3>1, <2>1, <2>u, <2>c, <1>i, <1>n, Frame DEF GoalInv
  <2>2. CASE client[c].goal = g
    <3>f. active'[g] = active[g] + 1 /\ client[c].at = "mandate" /\ client[c].wish = "automatic"
      BY <1>5, <1>t, <2>2 DEF CreateMandate
    <3>p1. Created(g)'
      BY <2>2, <2>u, <2>c, <3>f, <1>i, <1>n, <1>g, <1>c DEF Created
    <3>p2. AccountCopies(g)'
      BY <2>2, <2>u, <2>c, <3>f, <1>i, <1>n, <1>g, <1>c DEF AccountCopies, Edits, CronHolds
    <3>p3. FirstMonth(g)'
      BY <2>2, <2>u, <2>c, <3>f, <1>i, <1>n, <1>g, <1>c DEF FirstMonth
    <3>p4. RowCopies(g)'
      BY <2>2, <2>u, <2>c, <3>f, <1>i, <1>n, <1>g, <1>c DEF RowCopies, Edits, Deletes, CronHolds
    <3>p5. Emptying(g)'
      BY <2>2, <2>u, <2>c, <3>f, <1>i, <1>n, <1>g, <1>c DEF Emptying, Deletes, Edits
    <3>p6. Mandated(g)'
      <4> USE <2>2, <2>u, <2>c, <3>f, <1>n, <1>g, <1>s
      <4>1. CASE client[c].op = "create"
        <5>1. \A d \in Clients \ {c} : ~Creating(d, g)
          BY <4>1, <1>i DEF Creating, Created
        <5>2. Creating(c, g)
          BY <4>1 DEF Creating
        <5>3. \A d \in Clients \ {c} :
                  /\ TurningOff(d, g)' <=> TurningOff(d, g)
                  /\ TurningOn(d, g)' <=> TurningOn(d, g)
                  /\ Creating(d, g)' <=> Creating(d, g)
          BY <4>1 DEF TurningOff, TurningOn, Creating
        <5>4. ~TurningOff(c, g)' /\ ~TurningOn(c, g)' /\ ~Creating(c, g)'
          BY <4>1 DEF TurningOff, TurningOn, Creating
        <5>5. ~TurningOff(c, g) /\ ~TurningOn(c, g)
          BY <4>1 DEF TurningOff, TurningOn
        <5> QED
          BY <5>1, <5>2, <5>3, <5>4, <5>5, <1>i DEF Mandated
      <4>2. CASE client[c].op = "update"
        BY <4>2, <1>i DEF Mandated, RowCopies, Edits, Creating, TurningOff, TurningOn
      <4> QED
        BY <4>1, <4>2 DEF CallShape
    <3> QED
      BY <3>p1, <3>p2, <3>p3, <3>p4, <3>p5, <3>p6 DEF GoalInv
  <2> QED
    BY <2>1, <2>2
<1>6. ASSUME DeactivateMandate(c) PROVE GoalInv(g)'
  <2>u. UNCHANGED <<goal, account, day, run, book, accountRaced, goalRaced, late, halved, unsaved>>
    BY <1>6 DEF DeactivateMandate
  <2>c. /\ client'[c].at = (IF client[c].op = "delete" THEN "close" ELSE "save") /\ client'[c].op = client[c].op
        /\ client'[c].goal = client[c].goal /\ client'[c].copy = client[c].copy
        /\ client'[c].wish = client[c].wish
        /\ client'[c].seen = client[c].seen
        /\ \A d \in Clients \ {c} : client'[d] = client[d]
    BY <1>6, <1>c, GoOnFacts DEF DeactivateMandate
  <2>1. CASE client[c].goal # g
    <3>1. active'[g] = active[g] /\ ended'[g] = ended[g]
      BY <1>6, <1>t, <2>1 DEF DeactivateMandate
    <3> QED
      BY <3>1, <2>1, <2>u, <2>c, <1>i, <1>n, Frame DEF GoalInv
  <2>2. CASE client[c].goal = g
    <3>f. /\ client[c].at = "mandate" /\ client[c].wish = "manual"
          /\ \/ active[g] > 0 /\ active'[g] = active[g] - 1 /\ ended'[g] = ended[g] + 1
             \/ ended[g] > 0 /\ active'[g] = active[g] /\ ended'[g] = ended[g]
      BY <1>6, <1>t, <2>2 DEF DeactivateMandate
    <3>p1. Created(g)'
      BY <2>2, <2>u, <2>c, <3>f, <1>i, <1>n, <1>g, <1>c DEF Created
    <3>p2. AccountCopies(g)'
      BY <2>2, <2>u, <2>c, <3>f, <1>i, <1>n, <1>g, <1>c DEF AccountCopies, Edits, CronHolds
    <3>p3. FirstMonth(g)'
      BY <2>2, <2>u, <2>c, <3>f, <1>i, <1>n, <1>g, <1>c DEF FirstMonth
    <3>p4. RowCopies(g)'
      BY <2>2, <2>u, <2>c, <3>f, <1>i, <1>n, <1>g, <1>c DEF RowCopies, Edits, Deletes, CronHolds
    <3>p5. Emptying(g)'
      BY <2>2, <2>u, <2>c, <3>f, <1>i, <1>n, <1>g, <1>c DEF Emptying, Deletes, Edits
    <3>p6. Mandated(g)'
      BY <2>2, <2>u, <2>c, <3>f, <1>i, <1>n, <1>g, <1>c, <1>s DEF Mandated, TurningOff, TurningOn, Creating, RowCopies, Edits, Deletes, Created, CallShape
    <3> QED
      BY <3>p1, <3>p2, <3>p3, <3>p4, <3>p5, <3>p6 DEF GoalInv
  <2> QED
    BY <2>1, <2>2
<1>7. ASSUME Save(c) PROVE GoalInv(g)'
  <2>u. UNCHANGED <<active, ended, day, run, book, late, halved, unsaved>>
    BY <1>7 DEF Save
  <2>c. /\ client'[c].at = "idle" /\ client'[c].op = "none" /\ client'[c].goal = NoGoal
        /\ \A d \in Clients \ {c} : client'[d] = client[d]
    BY <1>7, <1>c, ReturnFacts DEF Save, NoCall
  <2>1. CASE client[c].goal # g
    <3>1. /\ goal'[g] = goal[g] /\ account'[g] = account[g] /\ client'[c].goal # g
          /\ g \in accountRaced' <=> g \in accountRaced
          /\ g \in goalRaced' <=> g \in goalRaced
      BY <1>7, <1>t, <2>1, <2>c, <1>n, TouchGoalFacts, TouchAccountFacts DEF Save
    <3> QED
      BY <3>1, <2>1, <2>u, <2>c, <1>i, <1>n, Frame DEF GoalInv
  <2>2. CASE client[c].goal = g
    <3>f. /\ goal'[g] = client[c].copy /\ account'[g] = client[c].seen
          /\ client[c].at = "save" /\ client[c].op = "update"
          /\ g \in accountRaced => g \in accountRaced'
          /\ g \notin accountRaced' =>
                \/ account'[g] = account[g]
                \/ /\ \A d \in Clients \ {c} : ~Edits(d, g)
                   /\ \A r \in Runs : ~CronHolds(r, g, {"save"})
          /\ g \in goalRaced => g \in goalRaced'
          /\ g \notin goalRaced' =>
                \/ goal'[g] = goal[g]
                \/ /\ \A d \in Clients \ {c} : ~Edits(d, g) /\ ~Deletes(d, g)
                   /\ \A r \in Runs :
                         ~CronHolds(r, g, {"read", "save", "finish", "open"})
      BY <1>7, <1>t, <1>c, <1>n, <2>2, TouchGoalFacts, TouchAccountFacts DEF Save, CallShape
    <3>p1. Created(g)'
      BY <2>2, <2>u, <2>c, <3>f, <1>i, <1>n, <1>g, <1>c DEF Created, CallShape
    <3>p2. AccountCopies(g)'
      BY <2>2, <2>u, <2>c, <3>f, <1>i, <1>n, <1>g, <1>c DEF AccountCopies, Edits, CronHolds
    <3>p3. FirstMonth(g)'
      BY <2>2, <2>u, <2>c, <3>f, <1>i, <1>n, <1>g, <1>c DEF FirstMonth, AccountCopies, Edits, Created
    <3>p4. RowCopies(g)'
      BY <2>2, <2>u, <2>c, <3>f, <1>i, <1>n, <1>g, <1>c DEF RowCopies, Edits, Deletes, CronHolds
    <3>p5. Emptying(g)'
      BY <2>2, <2>u, <2>c, <3>f, <1>i, <1>n, <1>g, <1>c DEF Emptying, Deletes, Edits, AccountCopies, RowCopies, CallShape
    <3>p6. Mandated(g)'
      BY <2>2, <2>u, <2>c, <3>f, <1>i, <1>n, <1>g, <1>c, <1>s DEF Mandated, TurningOff, TurningOn, Creating, RowCopies, Edits, Deletes, Created, CallShape
    <3> QED
      BY <3>p1, <3>p2, <3>p3, <3>p4, <3>p5, <3>p6 DEF GoalInv
  <2> QED
    BY <2>1, <2>2
<1>8. ASSUME ReadAccount(c) PROVE GoalInv(g)'
  <2>u. UNCHANGED <<goal, account, active, ended, day, run, book, accountRaced, goalRaced, late, halved, unsaved>>
    BY <1>8 DEF ReadAccount
  <2>c. /\ client'[c].at = (IF client[c].copy.preference = "automatic"
                             THEN "mandate" ELSE "close")
        /\ client'[c].op = client[c].op /\ client'[c].goal = client[c].goal
        /\ client'[c].copy = client[c].copy /\ client'[c].wish = client[c].wish
        /\ client'[c].seen = account[client[c].goal] /\ client[c].at = "account"
        /\ \A d \in Clients \ {c} : client'[d] = client[d]
    BY <1>8, <1>t, <1>c DEF ReadAccount, CallType
  <2>1. CASE client[c].goal # g
    BY <2>1, <2>u, <2>c, <1>i, <1>n, Frame DEF GoalInv
  <2>2. CASE client[c].goal = g
    <3>f. client[c].op = "delete"
      BY <1>c, <2>c DEF CallShape
    <3>p1. Created(g)'
      BY <2>2, <2>u, <2>c, <3>f, <1>i, <1>n, <1>g, <1>c DEF Created
    <3>p2. AccountCopies(g)'
      BY <2>2, <2>u, <2>c, <3>f, <1>i, <1>n, <1>g, <1>c DEF AccountCopies, Edits, CronHolds
    <3>p3. FirstMonth(g)'
      BY <2>2, <2>u, <2>c, <3>f, <1>i, <1>n, <1>g, <1>c DEF FirstMonth
    <3>p4. RowCopies(g)'
      BY <2>2, <2>u, <2>c, <3>f, <1>i, <1>n, <1>g, <1>c DEF RowCopies, Edits, Deletes, CronHolds
    <3>p5. Emptying(g)'
      BY <2>2, <2>u, <2>c, <3>f, <1>i, <1>n, <1>g, <1>c DEF Emptying, Deletes, Edits
    <3>p6. Mandated(g)'
      BY <2>2, <2>u, <2>c, <3>f, <1>i, <1>n, <1>g, <1>c, <1>s DEF Mandated, TurningOff, TurningOn, Creating, RowCopies, Edits, Deletes, Created, CallShape
    <3> QED
      BY <3>p1, <3>p2, <3>p3, <3>p4, <3>p5, <3>p6 DEF GoalInv
  <2> QED
    BY <2>1, <2>2
<1>9. ASSUME CloseEmpty(c) PROVE GoalInv(g)'
  <2>u. UNCHANGED <<goal, account, active, ended, day, run, book, accountRaced, goalRaced, late, halved, unsaved>>
    BY <1>9 DEF CloseEmpty
  <2>c. /\ client[c].at = "close" /\ client[c].seen.balance <= 0
        /\ client'[c].at = "terminate" /\ client'[c].op = client[c].op
        /\ client'[c].goal = client[c].goal /\ client'[c].copy = client[c].copy
        /\ client'[c].wish = client[c].wish
        /\ \A d \in Clients \ {c} : client'[d] = client[d]
    BY <1>9, <1>c, GoOnFacts DEF CloseEmpty
  <2>1. CASE client[c].goal # g
    BY <2>1, <2>u, <2>c, <1>i, <1>n, Frame DEF GoalInv
  <2>2. CASE client[c].goal = g
    <3>f. client[c].op = "delete"
      BY <1>c, <2>c DEF CallShape
    <3>p1. Created(g)'
      BY <2>2, <2>u, <2>c, <3>f, <1>i, <1>n, <1>g, <1>c DEF Created
    <3>p2. AccountCopies(g)'
      BY <2>2, <2>u, <2>c, <3>f, <1>i, <1>n, <1>g, <1>c DEF AccountCopies, Edits, CronHolds
    <3>p3. FirstMonth(g)'
      BY <2>2, <2>u, <2>c, <3>f, <1>i, <1>n, <1>g, <1>c DEF FirstMonth
    <3>p4. RowCopies(g)'
      BY <2>2, <2>u, <2>c, <3>f, <1>i, <1>n, <1>g, <1>c DEF RowCopies, Edits, Deletes, CronHolds
    <3>p5. Emptying(g)'
      BY <2>2, <2>u, <2>c, <3>f, <1>i, <1>n, <1>g, <1>c DEF Emptying, Deletes, Edits
    <3>p6. Mandated(g)'
      BY <2>2, <2>u, <2>c, <3>f, <1>i, <1>n, <1>g, <1>c, <1>s DEF Mandated, TurningOff, TurningOn, Creating, RowCopies, Edits, Deletes, Created, CallShape
    <3> QED
      BY <3>p1, <3>p2, <3>p3, <3>p4, <3>p5, <3>p6 DEF GoalInv
  <2> QED
    BY <2>1, <2>2
<1>10. ASSUME ChargeFee(c) PROVE GoalInv(g)'
  <2>1. -Fee \in Int /\ client[c].at = "close" /\ client[c].op = "delete"
    BY <1>10, <1>c, SavingsGoalsAssumption DEF ChargeFee, CallShape
  <2> QED
    BY <1>10, <2>1, MovingCallStep DEF ChargeFee, CanCharge
<1>11. ASSUME Reread(c) PROVE GoalInv(g)'
  <2>u. UNCHANGED <<goal, account, active, ended, day, run, book, accountRaced, goalRaced, late, halved, unsaved>>
    BY <1>11 DEF Reread
  <2>c. /\ client'[c].at = "rest"
        /\ client'[c].op = client[c].op /\ client'[c].goal = client[c].goal
        /\ client'[c].copy = client[c].copy /\ client'[c].wish = client[c].wish
        /\ client'[c].seen = account[client[c].goal] /\ client[c].at = "reread"
        /\ \A d \in Clients \ {c} : client'[d] = client[d]
    BY <1>11, <1>t, <1>c DEF Reread, CallType
  <2>1. CASE client[c].goal # g
    BY <2>1, <2>u, <2>c, <1>i, <1>n, Frame DEF GoalInv
  <2>2. CASE client[c].goal = g
    <3>f. client[c].op = "delete"
      BY <1>c, <2>c DEF CallShape
    <3>p1. Created(g)'
      BY <2>2, <2>u, <2>c, <3>f, <1>i, <1>n, <1>g, <1>c DEF Created
    <3>p2. AccountCopies(g)'
      BY <2>2, <2>u, <2>c, <3>f, <1>i, <1>n, <1>g, <1>c DEF AccountCopies, Edits, CronHolds
    <3>p3. FirstMonth(g)'
      BY <2>2, <2>u, <2>c, <3>f, <1>i, <1>n, <1>g, <1>c DEF FirstMonth
    <3>p4. RowCopies(g)'
      BY <2>2, <2>u, <2>c, <3>f, <1>i, <1>n, <1>g, <1>c DEF RowCopies, Edits, Deletes, CronHolds
    <3>p5. Emptying(g)'
      BY <2>2, <2>u, <2>c, <3>f, <1>i, <1>n, <1>g, <1>c DEF Emptying, Deletes, Edits
    <3>p6. Mandated(g)'
      BY <2>2, <2>u, <2>c, <3>f, <1>i, <1>n, <1>g, <1>c, <1>s DEF Mandated, TurningOff, TurningOn, Creating, RowCopies, Edits, Deletes, Created, CallShape
    <3> QED
      BY <3>p1, <3>p2, <3>p3, <3>p4, <3>p5, <3>p6 DEF GoalInv
  <2> QED
    BY <2>1, <2>2
<1>12. ASSUME TakeRest(c) PROVE GoalInv(g)'
  <2> DEFINE h == client[c].goal
             x == -client[c].seen.balance
  <2>1. /\ x \in Int /\ client[c].at = "rest" /\ client[c].op = "delete" /\ h \in Goals
        /\ account[h].flags # "locked" /\ account[h].balance \in Int
        /\ Movement(c, h, x) /\ GoOn(c, "terminate")
        /\ UNCHANGED <<goal, active, ended, day, run, goalRaced, halved, unsaved>>
    BY <1>12, <1>t, <1>c DEF TakeRest, CanCharge, CallShape, CallOk, AccountRow
  <2>2. account[h].balance <= client[c].seen.balance => account[h].balance + x <= 0
    BY <1>c, <2>1
  <2> HIDE DEF x
  <2> QED
    BY <2>1, <2>2, MovingCallStep
<1>13. ASSUME TakeAll(c) PROVE GoalInv(g)'
  <2> DEFINE h == client[c].goal
             amount == client[c].seen.balance
  <2>1. PICK cost \in Costs(h, amount) : CanTransfer(h, cost) /\ Movement(c, h, -cost)
    BY <1>13 DEF TakeAll
  <2>2. /\ client[c].at = "close" /\ client[c].op = "delete" /\ h \in Goals
        /\ amount > 0 /\ GoOn(c, "terminate")
        /\ UNCHANGED <<goal, active, ended, day, run, goalRaced, halved, unsaved>>
    BY <1>13, <1>c DEF TakeAll, CallShape, CallOk
  <2>3. cost \in Int /\ cost >= amount
    BY <1>c, <2>2, SavingsGoalsAssumption DEF Costs
  <2>4. /\ -cost \in Int /\ account[h].flags # "locked" /\ account[h].balance \in Int
        /\ account[h].balance <= amount => account[h].balance + (-cost) <= 0
    BY <1>c, <1>t, <2>1, <2>2, <2>3 DEF CanTransfer, AccountRow
  <2> QED
    BY <2>1, <2>2, <2>4, MovingCallStep
<1>14. ASSUME Terminate(c) PROVE GoalInv(g)'
  <2>u. UNCHANGED <<account, active, ended, day, run, book, accountRaced, late, halved, unsaved>>
    BY <1>14 DEF Terminate
  <2>c. /\ client[c].at = "terminate" /\ client[c].op = "delete"
        /\ client'[c].at = "idle" /\ client'[c].op = "none" /\ client'[c].goal = NoGoal
        /\ \A d \in Clients \ {c} : client'[d] = client[d]
    BY <1>14, <1>c, ReturnFacts DEF Terminate, NoCall, CallShape
  <2>1. CASE client[c].goal # g
    <3>1. /\ goal'[g] = goal[g]
          /\ g \in goalRaced' <=> g \in goalRaced
      BY <1>14, <1>t, <2>1, TouchGoalFacts DEF Terminate
    <3> QED
      BY <3>1, <2>1, <2>u, <2>c, <1>i, <1>n, Frame DEF GoalInv
  <2>2. CASE client[c].goal = g
    <3>f. /\ goal'[g].status = "TERMINATED" /\ goal'[g].preference = client[c].copy.preference
          /\ g \in goalRaced => g \in goalRaced'
          /\ g \notin goalRaced' =>
                \/ goal'[g] = goal[g]
                \/ /\ \A d \in Clients \ {c} : ~Edits(d, g) /\ ~Deletes(d, g)
                   /\ \A r \in Runs :
                         ~CronHolds(r, g, {"read", "save", "finish", "open"})
      BY <1>14, <1>t, <1>c, <1>n, <2>2, TouchGoalFacts DEF Terminate, GoalRow
    <3>p1. Created(g)'
      BY <2>2, <2>u, <2>c, <3>f, <1>i, <1>n, <1>g, <1>c DEF Created, CallShape
    <3>p2. AccountCopies(g)'
      BY <2>2, <2>u, <2>c, <3>f, <1>i, <1>n, <1>g, <1>c DEF AccountCopies, Edits, CronHolds
    <3>p3. FirstMonth(g)'
      BY <2>2, <2>u, <2>c, <3>f, <1>i, <1>n, <1>g, <1>c DEF FirstMonth, Created
    <3>p4. RowCopies(g)'
      BY <2>2, <2>u, <2>c, <3>f, <1>i, <1>n, <1>g, <1>c, <1>s DEF RowCopies, Edits, Deletes, CronHolds, CallShape
    <3>p5. Emptying(g)'
      BY <2>2, <2>u, <2>c, <3>f, <1>i, <1>n, <1>g, <1>c DEF Emptying, Deletes, Edits, RowCopies
    <3>p6. Mandated(g)'
      BY <2>2, <2>u, <2>c, <3>f, <1>i, <1>n, <1>g, <1>c, <1>s DEF Mandated, TurningOff, TurningOn, Creating, RowCopies, Edits, Deletes, Created, CallShape
    <3> QED
      BY <3>p1, <3>p2, <3>p3, <3>p4, <3>p5, <3>p6 DEF GoalInv
  <2> QED
    BY <2>1, <2>2
<1>15. ASSUME Throw(c) PROVE GoalInv(g)'
  <2>u. UNCHANGED <<goal, account, active, ended, day, run, book, accountRaced, goalRaced, late, unsaved>>
    BY <1>15 DEF Throw
  <2>c. /\ client[c].at \notin {"idle", "insert"}
        /\ client'[c].at = "idle" /\ client'[c].op = "none" /\ client'[c].goal = NoGoal
        /\ \A d \in Clients \ {c} : client'[d] = client[d]
    BY <1>15, <1>c, ReturnFacts DEF Throw, NoCall
  <2>1. CASE client[c].goal # g
    <3>1. g \in halved' <=> g \in halved
      BY <1>15, <2>1 DEF Throw
    <3> QED
      BY <3>1, <2>1, <2>u, <2>c, <1>i, <1>n, Frame DEF GoalInv
  <2>2. CASE client[c].goal = g
    <3>f. /\ g \in halved => g \in halved'
          /\ g \notin halved' => ~MandateOnly(c)
      BY <1>15, <2>2 DEF Throw
    <3>p1. Created(g)'
      BY <2>2, <2>u, <2>c, <3>f, <1>i, <1>n, <1>g, <1>c DEF Created
    <3>p2. AccountCopies(g)'
      BY <2>2, <2>u, <2>c, <3>f, <1>i, <1>n, <1>g, <1>c DEF AccountCopies, Edits, CronHolds
    <3>p3. FirstMonth(g)'
      BY <2>2, <2>u, <2>c, <3>f, <1>i, <1>n, <1>g, <1>c DEF FirstMonth
    <3>p4. RowCopies(g)'
      BY <2>2, <2>u, <2>c, <3>f, <1>i, <1>n, <1>g, <1>c DEF RowCopies, Edits, Deletes, CronHolds
    <3>p5. Emptying(g)'
      BY <2>2, <2>u, <2>c, <3>f, <1>i, <1>n, <1>g, <1>c DEF Emptying, Deletes, Edits
    <3>p6. Mandated(g)'
      BY <2>2, <2>u, <2>c, <3>f, <1>i, <1>n, <1>g, <1>c, <1>s DEF Mandated, TurningOff, TurningOn, Creating, RowCopies, Edits, Deletes, Created, CallShape, MandateOnly
    <3> QED
      BY <3>p1, <3>p2, <3>p3, <3>p4, <3>p5, <3>p6 DEF GoalInv
  <2> QED
    BY <2>1, <2>2
<1>16. ASSUME MandateUnsaved(c) PROVE GoalInv(g)'
  <2>u. UNCHANGED <<goal, account, active, ended, day, run, book, accountRaced, goalRaced,
                    late, halved>>
    BY <1>16 DEF MandateUnsaved
  <2>c. \/ /\ client[c].op = "create"
           /\ client'[c].at = "idle" /\ client'[c].op = "none" /\ client'[c].goal = NoGoal
           /\ \A d \in Clients \ {c} : client'[d] = client[d]
        \/ /\ client[c].op # "create"
           /\ client'[c].at = "save" /\ client'[c].op = client[c].op
           /\ client'[c].goal = client[c].goal /\ client'[c].copy = client[c].copy
           /\ client'[c].wish = client[c].wish
           /\ client'[c].seen = client[c].seen
           /\ \A d \in Clients \ {c} : client'[d] = client[d]
    BY <1>16, <1>c, GoOnFacts, ReturnFacts DEF MandateUnsaved, NoCall
  <2>1. CASE client[c].goal # g
    <3>1. (g \in unsaved' <=> g \in unsaved) /\ client'[c].goal # g
      BY <1>16, <2>1, <2>c, <1>n DEF MandateUnsaved
    <3> QED
      BY <3>1, <2>1, <2>u, <2>c, <1>i, <1>n, Frame DEF GoalInv
  <2>2. CASE client[c].goal = g
    <3>f. g \in unsaved' /\ client[c].at = "mandate" /\ client[c].wish = "automatic"
      BY <1>16, <2>2 DEF MandateUnsaved
    <3>p1. Created(g)'
      BY <2>2, <2>u, <2>c, <3>f, <1>i, <1>n, <1>g, <1>c DEF Created
    <3>p2. AccountCopies(g)'
      BY <2>2, <2>u, <2>c, <3>f, <1>i, <1>n, <1>g, <1>c DEF AccountCopies, Edits, CronHolds
    <3>p3. FirstMonth(g)'
      BY <2>2, <2>u, <2>c, <3>f, <1>i, <1>n, <1>g, <1>c DEF FirstMonth
    <3>p4. RowCopies(g)'
      BY <2>2, <2>u, <2>c, <3>f, <1>i, <1>n, <1>g, <1>c DEF RowCopies, Edits, Deletes, CronHolds
    <3>p5. Emptying(g)'
      BY <2>2, <2>u, <2>c, <3>f, <1>i, <1>n, <1>g, <1>c DEF Emptying, Deletes, Edits
    <3>p6. Mandated(g)'
      <4> USE <2>2, <2>u, <2>c, <3>f, <1>n, <1>g, <1>s
      <4>1. \A d \in Clients \ {c} :
                /\ TurningOff(d, g)' <=> TurningOff(d, g)
                /\ TurningOn(d, g)' <=> TurningOn(d, g)
                /\ Creating(d, g)' <=> Creating(d, g)
        BY DEF TurningOff, TurningOn, Creating
      <4>2. CASE client[c].op = "create"
        <5>1. ~TurningOff(c, g)' /\ ~TurningOn(c, g)' /\ ~Creating(c, g)'
          BY <4>2 DEF TurningOff, TurningOn, Creating
        <5>2. ~TurningOff(c, g) /\ ~TurningOn(c, g) /\ Creating(c, g)
          BY <4>2 DEF TurningOff, TurningOn, Creating
        <5> QED
          BY <4>1, <5>1, <5>2, <1>i DEF Mandated
      <4>3. CASE client[c].op = "update"
        BY <4>3, <1>i DEF Mandated, RowCopies, Edits, Creating, TurningOff, TurningOn
      <4> QED
        BY <4>2, <4>3, <1>c DEF CallShape
    <3> QED
      BY <3>p1, <3>p2, <3>p3, <3>p4, <3>p5, <3>p6 DEF GoalInv
  <2> QED
    BY <2>1, <2>2
<1> QED
  BY <1>1, <1>2, <1>3, <1>4, <1>5, <1>6, <1>7, <1>8, <1>9, <1>10, <1>11, <1>12, <1>13,
     <1>14, <1>15, <1>16 DEF ClientStep

\* A cron run keeps the invariant of every goal.
LEMMA RunGoalStep ==
    ASSUME IInv, NEW r \in Runs, RunStep(r), NEW g \in Goals
    PROVE  GoalInv(g)'
<1>t. /\ goal \in [Goals -> GoalRow] /\ account \in [Goals -> AccountRow]
      /\ client \in [Clients -> CallType] /\ run \in [Runs -> RunType]
      /\ RunTypes
  BY DEF IInv, RowTypes, CallTypes, RunTypes
<1>c. /\ run[r] \in RunType /\ run[r].copy \in GoalRow /\ run[r].seen \in AccountRow
      /\ run[r].at = "idle" => run[r].goal = NoGoal
      /\ run[r].at # "idle" => /\ run[r].goal \in Goals
                               /\ goal[run[r].goal].status # "none"
                               /\ day[run[r].goal] > 0
      /\ run[r].at \in {"read", "save", "finish"} => run[r].copy.status = "INPROGRESS"
  BY RunFields DEF IInv, RunTypes, RunOk, Shapes, RunShape, NoRun
<1>n. NoGoal \notin Goals /\ Clients \ {r} = Clients
  BY SavingsGoalsAssumption
<1>i. /\ Created(g) /\ AccountCopies(g) /\ FirstMonth(g) /\ RowCopies(g)
      /\ Emptying(g) /\ Mandated(g)
  BY DEF IInv, GoalInv
<1>g. /\ account[g].balance \in Int
      /\ goal[g].preference \in {"manual", "automatic"}
      /\ goal[g] = [status |-> goal[g].status, preference |-> goal[g].preference]
      /\ account[g] = [balance |-> account[g].balance, flags |-> account[g].flags]
  BY <1>t, SavingsGoalsAssumption DEF GoalRow, AccountRow
<1>1. ASSUME NEW h \in Goals, ListEnding(r, h) PROVE GoalInv(g)'
  <2>u. UNCHANGED <<goal, account, active, ended, day, client, book, accountRaced, goalRaced, late, halved, unsaved>>
    BY <1>1 DEF ListEnding
  <2>c. /\ run'[r].at = "read" /\ run'[r].goal = h /\ run'[r].copy = goal[h]
        /\ run[r].goal = NoGoal
        /\ \A s \in Runs \ {r} : run'[s] = run[s]
    BY <1>1, <1>t, <1>c DEF ListEnding, NoRun
  <2>1. CASE h # g
    BY <2>1, <2>u, <2>c, <1>i, <1>n, Frame DEF GoalInv
  <2>2. CASE h = g
    <3>p1. Created(g)'
      BY <2>2, <2>u, <2>c, <1>i, <1>n, <1>g, <1>c DEF Created
    <3>p2. AccountCopies(g)'
      BY <2>2, <2>u, <2>c, <1>i, <1>n, <1>g, <1>c DEF AccountCopies, Edits, CronHolds
    <3>p3. FirstMonth(g)'
      BY <2>2, <2>u, <2>c, <1>i, <1>n, <1>g, <1>c DEF FirstMonth
    <3>p4. RowCopies(g)'
      BY <2>2, <2>u, <2>c, <1>i, <1>n, <1>g, <1>c DEF RowCopies, Edits, Deletes, CronHolds
    <3>p5. Emptying(g)'
      BY <2>2, <2>u, <2>c, <1>i, <1>n, <1>g, <1>c DEF Emptying, Deletes, Edits
    <3>p6. Mandated(g)'
      BY <2>2, <2>u, <2>c, <1>i, <1>n, <1>g, <1>c DEF Mandated, TurningOff, TurningOn, Creating
    <3> QED
      BY <3>p1, <3>p2, <3>p3, <3>p4, <3>p5, <3>p6 DEF GoalInv
  <2> QED
    BY <2>1, <2>2
<1>2. ASSUME NEW h \in Goals, ListLocked(r, h) PROVE GoalInv(g)'
  <2>u. UNCHANGED <<goal, account, active, ended, day, client, book, accountRaced, goalRaced, late, halved, unsaved>>
    BY <1>2 DEF ListLocked
  <2>c. /\ run'[r].at = "open" /\ run'[r].goal = h /\ run[r].goal = NoGoal
        /\ \A s \in Runs \ {r} : run'[s] = run[s]
    BY <1>2, <1>t, <1>c DEF ListLocked, NoRun
  <2>1. CASE h # g
    BY <2>1, <2>u, <2>c, <1>i, <1>n, Frame DEF GoalInv
  <2>2. CASE h = g
    <3>p1. Created(g)'
      BY <2>2, <2>u, <2>c, <1>i, <1>n, <1>g, <1>c DEF Created
    <3>p2. AccountCopies(g)'
      BY <2>2, <2>u, <2>c, <1>i, <1>n, <1>g, <1>c DEF AccountCopies, Edits, CronHolds
    <3>p3. FirstMonth(g)'
      BY <2>2, <2>u, <2>c, <1>i, <1>n, <1>g, <1>c DEF FirstMonth
    <3>p4. RowCopies(g)'
      BY <2>2, <2>u, <2>c, <1>i, <1>n, <1>g, <1>c DEF RowCopies, Edits, Deletes, CronHolds
    <3>p5. Emptying(g)'
      BY <2>2, <2>u, <2>c, <1>i, <1>n, <1>g, <1>c DEF Emptying, Deletes, Edits
    <3>p6. Mandated(g)'
      BY <2>2, <2>u, <2>c, <1>i, <1>n, <1>g, <1>c DEF Mandated, TurningOff, TurningOn, Creating
    <3> QED
      BY <3>p1, <3>p2, <3>p3, <3>p4, <3>p5, <3>p6 DEF GoalInv
  <2> QED
    BY <2>1, <2>2
<1>3. ASSUME ReadForEnd(r) PROVE GoalInv(g)'
  <2>u. UNCHANGED <<goal, account, active, ended, day, client, book, accountRaced, goalRaced, late, halved, unsaved>>
    BY <1>3 DEF ReadForEnd
  <2>c. /\ run'[r].at = "save" /\ run'[r].goal = run[r].goal
        /\ run'[r].copy = run[r].copy /\ run'[r].seen = account[run[r].goal]
        /\ run[r].at = "read"
        /\ \A s \in Runs \ {r} : run'[s] = run[s]
    BY <1>3, <1>t, <1>c DEF ReadForEnd, RunType
  <2>1. CASE run[r].goal # g
    BY <2>1, <2>u, <2>c, <1>i, <1>n, Frame DEF GoalInv
  <2>2. CASE run[r].goal = g
    <3>p1. Created(g)'
      BY <2>2, <2>u, <2>c, <1>i, <1>n, <1>g, <1>c DEF Created
    <3>p2. AccountCopies(g)'
      BY <2>2, <2>u, <2>c, <1>i, <1>n, <1>g, <1>c DEF AccountCopies, Edits, CronHolds
    <3>p3. FirstMonth(g)'
      BY <2>2, <2>u, <2>c, <1>i, <1>n, <1>g, <1>c DEF FirstMonth
    <3>p4. RowCopies(g)'
      BY <2>2, <2>u, <2>c, <1>i, <1>n, <1>g, <1>c DEF RowCopies, Edits, Deletes, CronHolds
    <3>p5. Emptying(g)'
      BY <2>2, <2>u, <2>c, <1>i, <1>n, <1>g, <1>c DEF Emptying, Deletes, Edits
    <3>p6. Mandated(g)'
      BY <2>2, <2>u, <2>c, <1>i, <1>n, <1>g, <1>c DEF Mandated, TurningOff, TurningOn, Creating
    <3> QED
      BY <3>p1, <3>p2, <3>p3, <3>p4, <3>p5, <3>p6 DEF GoalInv
  <2> QED
    BY <2>1, <2>2
<1>4. ASSUME SaveAccount(r) PROVE GoalInv(g)'
  <2>u. UNCHANGED <<goal, active, ended, day, client, book, goalRaced, late, halved, unsaved>>
    BY <1>4 DEF SaveAccount
  <2>c. /\ run'[r].at = "finish" /\ run'[r].goal = run[r].goal
        /\ run'[r].copy = run[r].copy /\ run[r].at = "save"
        /\ \A s \in Runs \ {r} : run'[s] = run[s]
    BY <1>4, <1>t, <1>c DEF SaveAccount, RunType
  <2>1. CASE run[r].goal # g
    <3>1. account'[g] = account[g] /\ (g \in accountRaced' <=> g \in accountRaced)
      BY <1>4, <1>t, <2>1, TouchAccountFacts DEF SaveAccount
    <3> QED
      BY <3>1, <2>1, <2>u, <2>c, <1>i, <1>n, Frame DEF GoalInv
  <2>2. CASE run[r].goal = g
    <3>f. /\ account'[g].balance = run[r].seen.balance
          /\ g \notin accountRaced' => account'[g].balance = account[g].balance
          /\ g \in accountRaced => g \in accountRaced'
          /\ g \notin accountRaced' =>
                \/ account'[g] = account[g]
                \/ /\ \A d \in Clients : ~Edits(d, g)
                   /\ \A s \in Runs \ {r} : ~CronHolds(s, g, {"save"})
      BY <1>4, <1>t, <1>c, <1>n, <1>i, <2>2, TouchAccountFacts DEF SaveAccount, AccountRow, AccountCopies, CronHolds
    <3>p1. Created(g)'
      BY <2>2, <2>u, <2>c, <3>f, <1>i, <1>n, <1>g, <1>c DEF Created
    <3>p2. AccountCopies(g)'
      BY <2>2, <2>u, <2>c, <3>f, <1>i, <1>n, <1>g, <1>c DEF AccountCopies, Edits, CronHolds
    <3>p3. FirstMonth(g)'
      BY <2>2, <2>u, <2>c, <3>f, <1>i, <1>n, <1>g, <1>c DEF FirstMonth
    <3>p4. RowCopies(g)'
      BY <2>2, <2>u, <2>c, <3>f, <1>i, <1>n, <1>g, <1>c DEF RowCopies, Edits, Deletes, CronHolds
    <3>p5. Emptying(g)'
      BY <2>2, <2>u, <2>c, <3>f, <1>i, <1>n, <1>g, <1>c DEF Emptying, Deletes, Edits
    <3>p6. Mandated(g)'
      BY <2>2, <2>u, <2>c, <3>f, <1>i, <1>n, <1>g, <1>c DEF Mandated, TurningOff, TurningOn, Creating
    <3> QED
      BY <3>p1, <3>p2, <3>p3, <3>p4, <3>p5, <3>p6 DEF GoalInv
  <2> QED
    BY <2>1, <2>2
<1>5. ASSUME Finish(r) PROVE GoalInv(g)'
  <2>u. UNCHANGED <<account, active, ended, day, client, book, accountRaced, late, halved, unsaved>>
    BY <1>5 DEF Finish
  <2>c. /\ run'[r].at = "idle" /\ run'[r].goal = NoGoal /\ run[r].at = "finish"
        /\ \A s \in Runs \ {r} : run'[s] = run[s]
    BY <1>5, <1>t, EndRunFacts DEF Finish, NoRun
  <2>1. CASE run[r].goal # g
    <3>1. goal'[g] = goal[g] /\ (g \in goalRaced' <=> g \in goalRaced)
      BY <1>5, <1>t, <2>1, TouchGoalFacts DEF Finish
    <3> QED
      BY <3>1, <2>1, <2>u, <2>c, <1>i, <1>n, Frame DEF GoalInv
  <2>2. CASE run[r].goal = g
    <3>f. /\ goal'[g].status \in {"COMPLETED", "FAILED"}
          /\ goal'[g].preference = run[r].copy.preference
          /\ g \in goalRaced => g \in goalRaced'
          /\ g \notin goalRaced' =>
                \/ goal'[g] = goal[g]
                \/ /\ \A d \in Clients : ~Edits(d, g) /\ ~Deletes(d, g)
                   /\ \A s \in Runs \ {r} :
                         ~CronHolds(s, g, {"read", "save", "finish", "open"})
      BY <1>5, <1>t, <1>c, <1>n, <2>2, TouchGoalFacts DEF Finish, GoalRow
    <3>p1. Created(g)'
      BY <2>2, <2>u, <2>c, <3>f, <1>i, <1>n, <1>g, <1>c DEF Created
    <3>p2. AccountCopies(g)'
      BY <2>2, <2>u, <2>c, <3>f, <1>i, <1>n, <1>g, <1>c DEF AccountCopies, Edits, CronHolds
    <3>p3. FirstMonth(g)'
      BY <2>2, <2>u, <2>c, <3>f, <1>i, <1>n, <1>g, <1>c DEF FirstMonth
    <3>p4. RowCopies(g)'
      BY <2>2, <2>u, <2>c, <3>f, <1>i, <1>n, <1>g, <1>c DEF RowCopies, Edits, Deletes, CronHolds
    <3>p5. Emptying(g)'
      BY <2>2, <2>u, <2>c, <3>f, <1>i, <1>n, <1>g, <1>c DEF Emptying, Deletes, Edits
    <3>p6. Mandated(g)'
      BY <2>2, <2>u, <2>c, <3>f, <1>i, <1>n, <1>g, <1>c DEF Mandated, TurningOff, TurningOn, Creating, RowCopies, CronHolds
    <3> QED
      BY <3>p1, <3>p2, <3>p3, <3>p4, <3>p5, <3>p6 DEF GoalInv
  <2> QED
    BY <2>1, <2>2
<1>6. ASSUME Open(r) PROVE GoalInv(g)'
  <2>u. UNCHANGED <<goal, active, ended, day, client, book, goalRaced, late, halved, unsaved>>
    BY <1>6 DEF Open
  <2>c. /\ run'[r].at = "idle" /\ run'[r].goal = NoGoal /\ run[r].at = "open"
        /\ \A s \in Runs \ {r} : run'[s] = run[s]
    BY <1>6, <1>t, EndRunFacts DEF Open, NoRun
  <2>1. CASE run[r].goal # g
    <3>1. account'[g] = account[g] /\ (g \in accountRaced' <=> g \in accountRaced)
      BY <1>6, <1>t, <2>1, TouchAccountFacts DEF Open
    <3> QED
      BY <3>1, <2>1, <2>u, <2>c, <1>i, <1>n, Frame DEF GoalInv
  <2>2. CASE run[r].goal = g
    <3>f. /\ account'[g].balance = account[g].balance
          /\ g \in accountRaced => g \in accountRaced'
          /\ g \notin accountRaced' =>
                \/ account'[g] = account[g]
                \/ /\ \A d \in Clients : ~Edits(d, g)
                   /\ \A s \in Runs \ {r} : ~CronHolds(s, g, {"save"})
      BY <1>6, <1>t, <1>c, <1>n, <2>2, TouchAccountFacts DEF Open, AccountRow
    <3>p1. Created(g)'
      BY <2>2, <2>u, <2>c, <3>f, <1>i, <1>n, <1>g, <1>c DEF Created
    <3>p2. AccountCopies(g)'
      BY <2>2, <2>u, <2>c, <3>f, <1>i, <1>n, <1>g, <1>c DEF AccountCopies, Edits, CronHolds
    <3>p3. FirstMonth(g)'
      BY <2>2, <2>u, <2>c, <3>f, <1>i, <1>n, <1>g, <1>c DEF FirstMonth
    <3>p4. RowCopies(g)'
      BY <2>2, <2>u, <2>c, <3>f, <1>i, <1>n, <1>g, <1>c DEF RowCopies, Edits, Deletes, CronHolds
    <3>p5. Emptying(g)'
      BY <2>2, <2>u, <2>c, <3>f, <1>i, <1>n, <1>g, <1>c DEF Emptying, Deletes, Edits
    <3>p6. Mandated(g)'
      BY <2>2, <2>u, <2>c, <3>f, <1>i, <1>n, <1>g, <1>c DEF Mandated, TurningOff, TurningOn, Creating
    <3> QED
      BY <3>p1, <3>p2, <3>p3, <3>p4, <3>p5, <3>p6 DEF GoalInv
  <2> QED
    BY <2>1, <2>2
<1>7. ASSUME StopRun(r) PROVE GoalInv(g)'
  <2>u. UNCHANGED <<goal, account, active, ended, day, client, book, accountRaced, goalRaced, late, halved, unsaved>>
    BY <1>7 DEF StopRun
  <2>c. /\ run'[r].at = "idle" /\ run'[r].goal = NoGoal
        /\ \A s \in Runs \ {r} : run'[s] = run[s]
    BY <1>7, <1>t, EndRunFacts DEF StopRun, NoRun
  <2>1. CASE run[r].goal # g
    BY <2>1, <2>u, <2>c, <1>i, <1>n, Frame DEF GoalInv
  <2>2. CASE run[r].goal = g
    <3>p1. Created(g)'
      BY <2>2, <2>u, <2>c, <1>i, <1>n, <1>g, <1>c DEF Created
    <3>p2. AccountCopies(g)'
      BY <2>2, <2>u, <2>c, <1>i, <1>n, <1>g, <1>c DEF AccountCopies, Edits, CronHolds
    <3>p3. FirstMonth(g)'
      BY <2>2, <2>u, <2>c, <1>i, <1>n, <1>g, <1>c DEF FirstMonth
    <3>p4. RowCopies(g)'
      BY <2>2, <2>u, <2>c, <1>i, <1>n, <1>g, <1>c DEF RowCopies, Edits, Deletes, CronHolds
    <3>p5. Emptying(g)'
      BY <2>2, <2>u, <2>c, <1>i, <1>n, <1>g, <1>c DEF Emptying, Deletes, Edits
    <3>p6. Mandated(g)'
      BY <2>2, <2>u, <2>c, <1>i, <1>n, <1>g, <1>c DEF Mandated, TurningOff, TurningOn, Creating
    <3> QED
      BY <3>p1, <3>p2, <3>p3, <3>p4, <3>p5, <3>p6 DEF GoalInv
  <2> QED
    BY <2>1, <2>2
<1> QED
  BY <1>1, <1>2, <1>3, <1>4, <1>5, <1>6, <1>7 DEF RunStep


\* So does a transfer to or from the goal's account by anybody else.
LEMMA TransferGoalStep ==
    ASSUME IInv, NEW h \in Goals, NEW g \in Goals, NEW x \in Int,
           goal[h].status # "none", Movement(NoGoal, h, x),
           UNCHANGED <<goal, active, ended, day, client, run, goalRaced, halved, unsaved>>
    PROVE  GoalInv(g)'
<1>n. NoGoal \notin Goals \cup Clients \cup Runs
  BY SavingsGoalsAssumption
<1>i. /\ Created(g) /\ AccountCopies(g) /\ FirstMonth(g) /\ RowCopies(g)
      /\ Emptying(g) /\ Mandated(g) /\ RowTypes
  BY DEF IInv, GoalInv
<1>m. /\ account'[h].balance = account[h].balance + x
      /\ account'[h].flags = account[h].flags
      /\ \A k \in Goals \ {h} :
            /\ account'[k] = account[k] /\ book'[k] = book[k]
            /\ k \in accountRaced' <=> k \in accountRaced
            /\ k \in late' <=> k \in late
      /\ book'[h] = IF h \in accountRaced' THEN 0 ELSE book[h] + x
      /\ h \in accountRaced => h \in accountRaced'
      /\ h \notin accountRaced' =>
            \/ account'[h] = account[h]
            \/ /\ \A d \in Clients \ {NoGoal} : ~Edits(d, h)
               /\ \A r \in Runs \ {NoGoal} : ~CronHolds(r, h, {"save"})
  BY <1>i, MovementFacts
<1>1. CASE g # h
  BY <1>1, <1>m, <1>i, Frame DEF GoalInv
<1>2. CASE g = h
  <2>t. /\ account[g].balance \in Int /\ book[g] \in Int
        /\ account'[g].balance = account[g].balance + x
    BY <1>2, <1>m, <1>i DEF RowTypes, AccountRow
  <2>1. Created(g)'
    BY <1>2, <1>i DEF Created
  <2>2. AccountCopies(g)'
    BY <1>2, <1>m, <1>n, <1>i, <2>t DEF AccountCopies, Edits, CronHolds
  <2>3. FirstMonth(g)'
    BY <1>2, <1>m, <1>i DEF FirstMonth
  <2>4. RowCopies(g)'
    BY <1>2, <1>i DEF RowCopies, Edits, Deletes, CronHolds
  <2>5. Emptying(g)'
    <3> SUFFICES ASSUME g \notin late' \cup accountRaced' \cup goalRaced'
                 PROVE  /\ goal'[g].status = "TERMINATED" => account'[g].balance <= 0
                        /\ \A d \in Clients : Deletes(d, g)' =>
                              /\ client'[d].at \in {"mandate", "close", "rest"} =>
                                    account'[g].balance <= client'[d].seen.balance
                              /\ client'[d].at = "terminate" =>
                                    account'[g].balance <= 0
      BY DEF Emptying
    <3>1. Clients \ {NoGoal} = Clients /\ \A d \in Clients : client'[d] = client[d]
      BY <1>n
    <3> QED
      BY <1>2, <3>1, EmptyingOthers
  <2>6. Mandated(g)'
    BY <1>i DEF Mandated, TurningOff, TurningOn, Creating
  <2> QED
    BY <2>1, <2>2, <2>3, <2>4, <2>5, <2>6 DEF GoalInv
<1> QED
  BY <1>1, <1>2

\* Every step keeps the invariant.
LEMMA IInvStep == IInv /\ [Next]_vars => IInv'
<1> SUFFICES ASSUME IInv, [Next]_vars PROVE IInv'
  OBVIOUS
<1>t. RowTypes' /\ CallTypes' /\ RunTypes' /\ Shapes'
  BY TypeStep, ShapesStep DEF IInv
<1>g. account \in [Goals -> AccountRow]
  BY DEF IInv, RowTypes
<1> SUFFICES ASSUME NEW g \in Goals PROVE GoalInv(g)'
  BY <1>t DEF IInv
<1>1. ASSUME NEW c \in Clients, ClientStep(c) PROVE GoalInv(g)'
  BY <1>1, ClientGoalStep
<1>2. ASSUME NEW r \in Runs, RunStep(r) PROVE GoalInv(g)'
  BY <1>2, RunGoalStep
<1>3. ASSUME NEW h \in Goals, NEW x \in Amounts, Deposit(h, x) PROVE GoalInv(g)'
  <2>1. x \in Int
    BY SavingsGoalsAssumption
  <2> QED
    BY <1>3, <2>1, TransferGoalStep DEF Deposit
<1>4. ASSUME NEW h \in Goals, NEW x \in Amounts, Withdraw(h, x) PROVE GoalInv(g)'
  <2>1. PICK cost \in Costs(h, x) : Movement(NoGoal, h, -cost)
    BY <1>4 DEF Withdraw
  <2>2. -cost \in Int
    BY SavingsGoalsAssumption, CostsAreAmounts
  <2> QED
    BY <1>4, <2>1, <2>2, TransferGoalStep DEF Withdraw
<1>5. ASSUME NEW h \in Goals, DayPasses(h) PROVE GoalInv(g)'
  <2>1. /\ UNCHANGED <<goal, account, active, ended, client, run, book, accountRaced,
                       goalRaced, late, halved, unsaved>>
        /\ day' = [day EXCEPT ![h] = @ + 1] /\ day[g] \in 0..3
        /\ day \in [Goals -> 0..3]
    BY <1>5 DEF DayPasses, IInv, RowTypes
  <2>2. day'[g] = 0 => day[g] = 0
    BY <2>1
  <2>3. FirstMonth(g)'
    BY <2>1, <2>2 DEF IInv, GoalInv, FirstMonth
  <2>4. Created(g)' /\ AccountCopies(g)' /\ RowCopies(g)' /\ Emptying(g)' /\ Mandated(g)'
    BY <2>1 DEF IInv, GoalInv, Created, AccountCopies, RowCopies, Emptying, Mandated,
                Edits, Deletes, CronHolds, TurningOff, TurningOn, Creating
  <2> QED
    BY <2>3, <2>4 DEF GoalInv
<1>6. CASE UNCHANGED vars
  BY <1>6, Frame DEF vars, IInv
<1> QED
  BY <1>1, <1>2, <1>3, <1>4, <1>5, <1>6 DEF Next

\* The inductive invariant holds throughout: while nothing has been raced, a
\* copy that will be written back is the row itself.
THEOREM Invariant == Spec => []IInv
BY InitIInv, IInvStep, PTL DEF Spec

\* No money appears or vanishes behind the transfers' back: a balance is the
\* sum of what was moved, unless a stale copy of the account was written back.
THEOREM BalanceIsBook == Spec => []BookKept
<1>1. IInv => BookKept
  BY DEF IInv, GoalInv, AccountCopies, BookKept
<1> QED
  BY <1>1, Invariant, PTL

\* delete leaves no money behind in the account of a goal it has terminated.
THEOREM NothingLeftBehind == Spec => []TerminatedIsEmpty
<1>1. IInv => TerminatedIsEmpty
  BY DEF IInv, GoalInv, Emptying, TerminatedIsEmpty
<1> QED
  BY <1>1, Invariant, PTL

\* A goal at rest that says "manual" has no active mandate, and one that says
\* "automatic" has one unless the save of its mandate was rejected.
THEOREM MandateFollowsPreference == Spec => []PreferenceIsMandate
<1>1. IInv => PreferenceIsMandate
  <2> SUFFICES ASSUME IInv, NEW g \in Goals,
                      goal[g].status \notin {"none", "TERMINATED"},
                      \A c \in Clients : client[c].goal # g,
                      g \notin goalRaced \cup halved, active[g] + ended[g] <= 1
               PROVE  /\ active[g] = 1 => goal[g].preference = "automatic"
                      /\ goal[g].preference = "automatic" => active[g] = 1 \/ g \in unsaved
    BY DEF PreferenceIsMandate
  <2>1. Mandated(g) /\ goal[g].preference \in {"manual", "automatic"}
    BY SavingsGoalsAssumption DEF IInv, GoalInv, RowTypes, GoalRow
  <2> QED
    BY <2>1 DEF Mandated, TurningOff, TurningOn, Creating
<1> QED
  BY <1>1, Invariant, PTL

\* The balance of a locked goal does not fall in the goal's first month, other
\* than by a negative amount paid into it.
THEOREM FirstMonthKept == Spec => LockedKeepsMoney
<1> DEFINE Kept(g) == \/ account'[g].balance >= account[g].balance
                      \/ \E amount \in Amounts : amount < 0 /\ Deposit(g, amount)
<1>1. ASSUME IInv, [Next]_vars, NEW g \in BezoLocks,
             day[g] = 0, goal[g].status # "none", g \notin accountRaced
      PROVE  Kept(g)
  <2>t. /\ account \in [Goals -> AccountRow] /\ client \in [Clients -> CallType]
        /\ run \in [Runs -> RunType] /\ g \in Goals
        /\ account[g].balance \in Int
    <3>1. account \in [Goals -> AccountRow] /\ g \in Goals
      BY <1>1, SavingsGoalsAssumption DEF IInv, RowTypes
    <3>2. account[g] \in AccountRow
      BY <3>1
    <3>3. account[g].balance \in Int
      BY <3>2 DEF AccountRow
    <3> QED
      BY <1>1, <3>1, <3>3 DEF IInv, CallTypes, RunTypes
  <2>i. account[g].flags = "locked" /\ AccountCopies(g) /\ Created(g)
    BY <1>1, <2>t DEF IInv, GoalInv, FirstMonth
  <2>m. ASSUME NEW p, NEW h \in Goals, NEW x \in Int, Movement(p, h, x),
               x < 0 => account[h].flags # "locked"
        PROVE  account'[g].balance >= account[g].balance
    <3>1. RowTypes
      BY <1>1 DEF IInv
    <3>2. CASE h = g
      <4>1. account'[h].balance = account[h].balance + x /\ ~(x < 0)
        BY <2>m, <2>i, <3>1, <3>2, MovementFacts
      <4> QED
        BY <3>2, <4>1, <2>t
    <3>3. CASE h # g
      <4>1. account'[g] = account[g]
        BY <2>m, <2>t, <3>1, <3>3, MovementFacts
      <4> QED
        BY <4>1, <2>t
    <3> QED
      BY <3>2, <3>3
  <2>0. UNCHANGED account => account'[g].balance >= account[g].balance
    BY <2>t
  <2>1. ASSUME NEW c \in Clients, ClientStep(c)
        PROVE  account'[g].balance >= account[g].balance
    <3> DEFINE h == client[c].goal
    <3>t. /\ client[c].at # "idle" => h \in Goals
          /\ CallShape(c)
      BY <1>1 DEF IInv, CallTypes, CallOk, Shapes
    <3>s. client[c].seen.balance \in Int
      BY <2>t, CallFields DEF AccountRow
    <3>1. ASSUME NEW k \in Goals, NEW p \in Preferences, Create(c, k, p) \/ StartUpdate(c, k, p)
          PROVE  UNCHANGED account
      BY <3>1 DEF Create, StartUpdate
    <3>2. ASSUME NEW k \in Goals, StartDelete(c, k) PROVE UNCHANGED account
      BY <3>2 DEF StartDelete
    <3>3. ASSUME \/ CreateMandate(c) \/ MandateUnsaved(c) \/ DeactivateMandate(c)
                 \/ ReadAccount(c)
          PROVE  UNCHANGED account
      BY <3>3 DEF CreateMandate, MandateUnsaved, DeactivateMandate, ReadAccount
    <3>4. ASSUME CloseEmpty(c) \/ Reread(c) \/ Terminate(c) \/ Throw(c)
          PROVE  UNCHANGED account
      BY <3>4 DEF CloseEmpty, Reread, Terminate, Throw
    <3>5. ASSUME Insert(c) PROVE account'[g].balance >= account[g].balance
      <4>1. h # g
        BY <3>5, <1>1, <2>i DEF Insert, Created
      <4> QED
        BY <3>5, <4>1, <2>t DEF Insert
    <3>6. ASSUME Save(c) PROVE account'[g].balance >= account[g].balance
      <4>1. h = g => client[c].seen = account[g]
        BY <3>6, <1>1, <2>i, <3>t, CallFields, <2>t
           DEF Save, AccountCopies, Edits, CallShape
      <4> QED
        BY <3>6, <4>1, <2>t DEF Save
    <3>7. ASSUME ChargeFee(c) PROVE account'[g].balance >= account[g].balance
      BY <3>7, <3>t, <2>m, SavingsGoalsAssumption DEF ChargeFee, CanCharge
    <3>8. ASSUME TakeRest(c) PROVE account'[g].balance >= account[g].balance
      BY <3>8, <3>t, <3>s, <2>m DEF TakeRest, CanCharge
    <3>9. ASSUME TakeAll(c) PROVE account'[g].balance >= account[g].balance
      <4>1. h \in Goals
        BY <3>9, <3>t DEF TakeAll
      <4>2. PICK cost \in Costs(h, client[c].seen.balance) :
                CanTransfer(h, cost) /\ Movement(c, h, -cost)
        BY <3>9 DEF TakeAll
      <4>3. -cost \in Int
        BY <3>s, CostsAreAmounts
      <4> QED
        BY <4>1, <4>2, <4>3, <2>m DEF CanTransfer
    <3> QED
      BY <2>1, <2>0, <3>1, <3>2, <3>3, <3>4, <3>5, <3>6, <3>7, <3>8, <3>9 DEF ClientStep
  <2>2. ASSUME NEW r \in Runs, RunStep(r)
        PROVE  account'[g].balance >= account[g].balance
    <3>1. ASSUME NEW k \in Goals, ListEnding(r, k) \/ ListLocked(r, k) PROVE UNCHANGED account
      BY <3>1 DEF ListEnding, ListLocked
    <3>2. ASSUME ReadForEnd(r) \/ Finish(r) \/ StopRun(r) PROVE UNCHANGED account
      BY <3>2 DEF ReadForEnd, Finish, StopRun
    <3>3. ASSUME SaveAccount(r) \/ Open(r) PROVE account'[g].balance >= account[g].balance
      <4>1. run[r].goal # g
        BY <3>3, <1>1 DEF SaveAccount, Open, IInv, Shapes, RunShape
      <4> QED
        BY <3>3, <4>1, <2>t DEF SaveAccount, Open
    <3> QED
      BY <2>2, <2>0, <3>1, <3>2, <3>3 DEF RunStep
  <2>3. ASSUME NEW h \in Goals, NEW x \in Amounts, Deposit(h, x)
        PROVE  Kept(g)
    <3>1. x \in Int
      BY SavingsGoalsAssumption
    <3>2. CASE x < 0 /\ h = g
      BY <2>3, <3>2
    <3>3. CASE ~(x < 0)
      BY <2>3, <3>1, <3>3, <2>m DEF Deposit
    <3>4. CASE h # g
      <4>1. RowTypes
        BY <1>1 DEF IInv
      <4>2. account'[g] = account[g]
        BY <2>3, <3>1, <3>4, <4>1, <2>t, MovementFacts DEF Deposit
      <4> QED
        BY <4>2, <2>t
    <3> QED
      BY <3>2, <3>3, <3>4
  <2>4. ASSUME NEW h \in Goals, NEW x \in Amounts, Withdraw(h, x)
        PROVE  account'[g].balance >= account[g].balance
    <3>1. PICK cost \in Costs(h, x) : CanTransfer(h, cost) /\ Movement(NoGoal, h, -cost)
      BY <2>4 DEF Withdraw
    <3>2. -cost \in Int
      BY SavingsGoalsAssumption, CostsAreAmounts
    <3> QED
      BY <3>1, <3>2, <2>m DEF CanTransfer
  <2>5. ASSUME NEW h \in Goals, DayPasses(h) PROVE UNCHANGED account
    BY <2>5 DEF DayPasses
  <2>6. UNCHANGED vars => UNCHANGED account
    BY DEF vars
  <2> QED
    BY <1>1, <2>0, <2>1, <2>2, <2>3, <2>4, <2>5, <2>6 DEF Next
<1>2. IInv /\ [Next]_vars =>
          [\A g \in BezoLocks :
              (day[g] = 0 /\ goal[g].status # "none" /\ g \notin accountRaced)
                  => Kept(g)]_vars
  BY <1>1
<1> QED
  BY <1>2, Invariant, PTL DEF Spec, LockedKeepsMoney

=============================================================================
