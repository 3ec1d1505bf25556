------------------------- MODULE TransferSql_proofs -------------------------
(***************************************************************************)
(* Proofs about TransferSql: types, the row-lock invariant, and that the   *)
(* DO block implements an atomic move of the ledger, for any number of     *)
(* accounts and of concurrent blocks.                                      *)
(***************************************************************************)
EXTENDS TransferSql, TLAPS

USE DEF Steps

\* The arguments of a block: two accounts and an amount.
LEMMA JobType ==
    ASSUME TypeOK, NEW b \in Blocks
    PROVE  /\ job[b].from \in Accounts
           /\ job[b].to \in Accounts
           /\ job[b].amount \in Amounts
           /\ job[b].amount \in Int
           /\ -job[b].amount \in Int
<1>1. job[b] \in [from : Accounts, to : Accounts, amount : Amounts]
  BY SqlAssumption DEF TypeOK
<1>2. job[b].from \in Accounts /\ job[b].to \in Accounts /\ job[b].amount \in Amounts
  BY <1>1
<1>3. Amounts \subseteq Int
  BY SqlAssumption
<1>4. job[b].amount \in Int
  BY <1>2, <1>3
<1> QED
  BY <1>2, <1>4

\* What a block sees of a row is a number.
LEMMA VisibleType ==
    ASSUME TypeOK, NEW b \in Blocks, NEW a \in Accounts
    PROVE  Visible(b, a) \in Int
BY DEF TypeOK, Visible, Registers

\* A column is a number, and as near to the register as its own digits tell.
LEMMA SlackType ==
    ASSUME NEW x \in Int
    PROVE  Slack(x) \in Int /\ 0 + Slack(x) = Slack(x)
BY DEF Slack, Unit

LEMMA RecordedIsNear ==
    ASSUME NEW x \in Int, NEW y \in Recorded(x)
    PROVE  y \in Int /\ Near(x, y, Slack(y))
<1>1. /\ y \in Int /\ x - Slack(x) <= y /\ y <= x + Slack(x)
      /\ y % Unit(x) = 0
  BY SlackType DEF Recorded
<1>2. CASE Unit(x) = 1
  BY <1>1, <1>2, SlackType DEF Slack, Near
<1>3. CASE Unit(x) = 10
  <2>1. Unit(y) \in {10, 100, 1000, 10000}
    BY <1>1, <1>3 DEF Unit, Slack
  <2> QED
    BY <1>1, <1>3, <2>1 DEF Slack, Near
<1>4. CASE Unit(x) = 100
  <2>1. Unit(y) \in {100, 1000, 10000}
    BY <1>1, <1>4 DEF Unit, Slack
  <2> QED
    BY <1>1, <1>4, <2>1 DEF Slack, Near
<1>5. CASE Unit(x) = 1000
  <2>1. Unit(y) \in {1000, 10000}
    BY <1>1, <1>5 DEF Unit, Slack
  <2> QED
    BY <1>1, <1>5, <2>1 DEF Slack, Near
<1>6. CASE Unit(x) = 10000
  <2>1. Unit(y) = 10000
    BY <1>1, <1>6 DEF Unit, Slack
  <2> QED
    BY <1>1, <1>6, <2>1 DEF Slack, Near
<1> QED
  BY <1>2, <1>3, <1>4, <1>5, <1>6 DEF Unit

\* The account transactions a block inserts are well-formed rows.
LEMMA EntryType ==
    ASSUME TypeOK, NEW b \in Blocks
    PROVE  CreditEntries(b) \subseteq Entry /\ DebitEntries(b) \subseteq Entry
<1>1. job[b].from \in Accounts /\ job[b].to \in Accounts /\ job[b].amount \in Int
  BY JobType
<1>2. /\ reg[b].creditInitial \in Int /\ reg[b].creditCurrent \in Int
      /\ reg[b].debitInitial \in Int /\ reg[b].debitCurrent \in Int
  BY DEF TypeOK, Registers
<1>3. \A x \in Int : Recorded(x) \subseteq Int
  BY RecordedIsNear
<1> QED
  BY <1>1, <1>2, <1>3 DEF CreditEntries, DebitEntries, Entry

LEMMA InitType == Init => TypeOK
<1> SUFFICES ASSUME Init PROVE TypeOK
  OBVIOUS
<1>1. reg \in [Blocks -> Registers]
  BY DEF Init, Registers
<1>2. statement \in Seq(Entry)
  BY DEF Init
<1> QED
  BY <1>1, <1>2, SqlAssumption DEF Init, TypeOK

LEMMA NextType == TypeOK /\ [Next]_vars => TypeOK'
<1> SUFFICES ASSUME TypeOK, [Next]_vars PROVE TypeOK'
  OBVIOUS
<1> USE SqlAssumption
<1>1. ASSUME NEW b \in Blocks, ReadCredit(b) PROVE TypeOK'
  <2>1. Visible(b, job[b].to) \in Int
    BY VisibleType, JobType
  <2>2. reg' \in [Blocks -> Registers]
    BY <1>1, <2>1 DEF ReadCredit, TypeOK, Registers
  <2> QED
    BY <1>1, <2>2 DEF ReadCredit, TypeOK
<1>2. ASSUME NEW b \in Blocks, Credit(b) PROVE TypeOK'
  <2>1. Visible(b, job[b].to) + job[b].amount \in Int
    BY VisibleType, JobType
  <2>2. reg' \in [Blocks -> Registers]
    BY <1>2, <2>1 DEF Credit, TypeOK, Registers
  <2> QED
    BY <1>2, <2>2 DEF Credit, TypeOK
<1>3. ASSUME NEW b \in Blocks, ReadDebit(b) PROVE TypeOK'
  <2>1. Visible(b, job[b].from) \in Int
    BY VisibleType, JobType
  <2>2. reg' \in [Blocks -> Registers]
    BY <1>3, <2>1 DEF ReadDebit, TypeOK, Registers
  <2> QED
    BY <1>3, <2>2 DEF ReadDebit, TypeOK
<1>4. ASSUME NEW b \in Blocks, Debit(b) PROVE TypeOK'
  <2>1. Visible(b, job[b].from) - job[b].amount \in Int
    BY VisibleType, JobType
  <2>2. reg' \in [Blocks -> Registers]
    BY <1>4, <2>1 DEF Debit, TypeOK, Registers
  <2> QED
    BY <1>4, <2>2 DEF Debit, TypeOK
<1>5. ASSUME NEW b \in Blocks, Commit(b) PROVE TypeOK'
  <2>1. balance' \in [Accounts -> Int]
    BY <1>5, VisibleType DEF Commit
  <2>2. statement' \in Seq(Entry)
    BY <1>5, EntryType DEF Commit, TypeOK
  <2>3. lock' \in [Accounts -> Blocks \cup {Nobody}]
    BY <1>5 DEF Commit, ReleaseLocks, TypeOK
  <2> QED
    BY <1>5, <2>1, <2>2, <2>3 DEF Commit, TypeOK
<1>6. ASSUME NEW b \in Blocks, Abort(b) PROVE TypeOK'
  <2>1. lock' \in [Accounts -> Blocks \cup {Nobody}]
    BY <1>6 DEF Abort, ReleaseLocks, TypeOK
  <2> QED
    BY <1>6, <2>1 DEF Abort, TypeOK
<1>7. CASE UNCHANGED vars
  BY <1>7 DEF vars, TypeOK
<1> QED
  BY <1>1, <1>2, <1>3, <1>4, <1>5, <1>6, <1>7
  DEF Next, Advance, Fail, DeadlockVictim, AllEnded

\* executeTransferTransaction only ever holds values of the columns' types.
THEOREM TypeCorrect == Spec => []TypeOK
BY InitType, NextType, PTL DEF Spec

-----------------------------------------------------------------------------
\* The inductive invariant: a row lock covers every pending row version.
IInv == TypeOK /\ LockInv /\ PendingInv

LEMMA InitIInv == Init => IInv
<1>1. Init => LockInv /\ PendingInv
  BY SqlAssumption DEF Init, LockInv, PendingInv
<1> QED
  BY <1>1, InitType DEF IInv

LEMMA NextIInv == IInv /\ [Next]_vars => IInv'
<1> SUFFICES ASSUME IInv, [Next]_vars PROVE LockInv' /\ PendingInv'
  BY NextType DEF IInv
<1>t. TypeOK /\ TypeOK'
  BY NextType DEF IInv
<1>i. LockInv /\ PendingInv
  BY DEF IInv
<1>n. Nobody \notin Blocks
  BY SqlAssumption
<1>j. \A c \in Blocks : job[c].from \in Accounts /\ job[c].to \in Accounts
                        /\ job[c].amount \in Int
  BY <1>t, JobType
<1>1. ASSUME NEW b \in Blocks, ReadCredit(b) PROVE LockInv' /\ PendingInv'
  BY <1>1, <1>t, <1>i, <1>j DEF ReadCredit, LockInv, PendingInv, TypeOK, Registers
<1>2. ASSUME NEW b \in Blocks, Credit(b) PROVE LockInv' /\ PendingInv'
  <2>1. LockInv'
    BY <1>2, <1>t, <1>i, <1>j, <1>n DEF Credit, LockInv, TypeOK
  <2>2. Visible(b, job[b].to) = balance[job[b].to]
    BY <1>2 DEF Credit, Visible
  <2>3. PendingInv'
    BY <1>2, <2>2, <1>t, <1>i, <1>j DEF Credit, PendingInv, TypeOK, Registers
  <2> QED
    BY <2>1, <2>3
<1>3. ASSUME NEW b \in Blocks, ReadDebit(b) PROVE LockInv' /\ PendingInv'
  BY <1>3, <1>t, <1>i, <1>j DEF ReadDebit, LockInv, PendingInv, TypeOK, Registers
<1>4. ASSUME NEW b \in Blocks, Debit(b) PROVE LockInv' /\ PendingInv'
  <2>1. LockInv'
    BY <1>4, <1>t, <1>i, <1>j, <1>n DEF Debit, LockInv, TypeOK
  <2>2. Visible(b, job[b].from) = IF job[b].from = job[b].to
                                  THEN reg[b].creditCurrent
                                  ELSE balance[job[b].from]
    BY <1>4 DEF Debit, Visible
  <2>3. PendingInv'
    BY <1>4, <2>2, <1>t, <1>i, <1>j DEF Debit, PendingInv, TypeOK, Registers
  <2> QED
    BY <2>1, <2>3
<1>5. ASSUME NEW b \in Blocks, Commit(b) PROVE LockInv' /\ PendingInv'
  <2>1. LockInv'
    BY <1>5, <1>t, <1>i, <1>j, <1>n DEF Commit, ReleaseLocks, LockInv, TypeOK
  <2>2. ASSUME NEW c \in Blocks, c # b, NEW a \in Accounts, lock[a] = c
        PROVE  balance'[a] = balance[a]
    BY <1>5, <2>2, <1>t, <1>i DEF Commit, Visible, LockInv, TypeOK
  <2>3. PendingInv'
    BY <1>5, <2>2, <1>t, <1>i, <1>j DEF Commit, PendingInv, LockInv, TypeOK
  <2> QED
    BY <2>1, <2>3
<1>6. ASSUME NEW b \in Blocks, Abort(b) PROVE LockInv' /\ PendingInv'
  <2>1. LockInv'
    BY <1>6, <1>t, <1>i, <1>j, <1>n DEF Abort, ReleaseLocks, LockInv, TypeOK
  <2>2. PendingInv'
    BY <1>6, <1>t, <1>i, <1>j DEF Abort, PendingInv, TypeOK
  <2> QED
    BY <2>1, <2>2
<1>7. CASE UNCHANGED vars
  BY <1>7, <1>i DEF vars, LockInv, PendingInv
<1> QED
  BY <1>1, <1>2, <1>3, <1>4, <1>5, <1>6, <1>7
  DEF Next, Advance, Fail, DeadlockVictim, AllEnded

\* No update is lost: nothing is committed to a row between the moment a block
\* computes its new balance and the moment the block commits.
THEOREM NoLostUpdate == Spec => []PendingInv
<1>1. IInv => PendingInv
  BY DEF IInv
<1> QED
  BY InitIInv, NextIInv, <1>1, PTL DEF Spec

-----------------------------------------------------------------------------
(***************************************************************************)
(* The statement chains.  Of any sequence of entries: if it chains up to   *)
(* some balances, and an entry is appended whose currentBalance is near to *)
(* its account's balance moved on, it chains up to the balances so moved.  *)
(* A commit appends two such entries: PendingInv says that the rows the    *)
(* block has written go on from the committed balances.                    *)
(***************************************************************************)
EntriesIn(s, a) == {i \in 1 .. Len(s) : s[i].account = a}

HeldIn(s, a, i, x, slack) ==
    \/ (\A j \in EntriesIn(s, a) : ~(j < i)) /\ Near(x, Opening[a], slack)
    \/ \E j \in EntriesIn(s, a) :
          /\ j < i
          /\ \A k \in EntriesIn(s, a) : k < i => k <= j
          /\ Near(x, s[j].currentBalance, slack + Slack(s[j].currentBalance))

ChainIn(s, bal) ==
    \A a \in Accounts :
        /\ \A i \in EntriesIn(s, a) :
              HeldIn(s, a, i, s[i].currentBalance - Movement(s[i]),
                     Slack(s[i].currentBalance))
        /\ HeldIn(s, a, Len(s) + 1, bal[a], 0)

LEMMA ChainIsChainIn ==
    TypeOK => (StatementChain <=> ChainIn(statement, balance))
<1> SUFFICES ASSUME TypeOK PROVE StatementChain <=> ChainIn(statement, balance)
  OBVIOUS
<1>1. DOMAIN statement = 1 .. Len(statement)
  BY DEF TypeOK
<1>2. \A a : Entries(a) = EntriesIn(statement, a)
  BY <1>1 DEF Entries, EntriesIn
<1>3. \A a, i, x, d : Held(a, i, x, d) <=> HeldIn(statement, a, i, x, d)
  BY <1>2 DEF Held, HeldIn, Above
<1> QED
  BY <1>2, <1>3 DEF StatementChain, ChainIn

\* What is near to an entry stays near when both move on and the mark widens.
LEMMA NearMoves ==
    ASSUME NEW x \in Int, NEW y \in Int, NEW p \in Int, NEW m \in Int,
           NEW d \in Int, NEW e \in Int,
           Near(x, p, d), Near(x + m, y, e)
    PROVE  Near(y - m, p, e + d)
BY DEF Near

LEMMA AppendChains ==
    ASSUME TypeOK, NEW s \in Seq(Entry), NEW e \in Entry, NEW bal \in [Accounts -> Int],
           NEW v \in Int,
           ChainIn(s, bal), v = bal[e.account] + Movement(e),
           Near(v, e.currentBalance, Slack(e.currentBalance))
    PROVE  ChainIn(Append(s, e), [bal EXCEPT ![e.account] = v])
<1> DEFINE n == Len(s)
           t == Append(s, e)
           after == [bal EXCEPT ![e.account] = v]
<1>1. /\ n \in Nat /\ Len(t) = n + 1 /\ t[n + 1] = e
      /\ \A i \in 1 .. n : t[i] = s[i] /\ s[i] \in Entry
  OBVIOUS
<1>2. /\ e.account \in Accounts /\ Movement(e) \in Int /\ e.currentBalance \in Int
      /\ Slack(e.currentBalance) \in Int
  <2>1. e.account \in Accounts /\ e.block \in Blocks /\ e.currentBalance \in Int
    BY DEF Entry
  <2>2. job[e.block].amount \in Int /\ -job[e.block].amount \in Int
    BY <2>1, JobType
  <2>3. Slack(e.currentBalance) \in Int
    BY <2>1, SlackType
  <2> QED
    BY <2>1, <2>2, <2>3 DEF Movement
<1>3. \A a : EntriesIn(s, a) \subseteq 1 .. n
  BY DEF EntriesIn
<1>4. \A a : EntriesIn(t, a)
               = EntriesIn(s, a) \cup (IF a = e.account THEN {n + 1} ELSE {})
  BY <1>1 DEF EntriesIn
\* Below the end nothing changes.
<1>5. ASSUME NEW a, NEW i \in 1 .. n + 1, NEW x, NEW d, HeldIn(s, a, i, x, d)
      PROVE  HeldIn(t, a, i, x, d)
  <2>1. \A j : j \in EntriesIn(t, a) /\ j < i <=> j \in EntriesIn(s, a) /\ j < i
    BY <1>1, <1>3, <1>4
  <2> QED
    BY <1>1, <1>3, <1>5, <2>1 DEF HeldIn
<1> SUFFICES ASSUME NEW a \in Accounts
             PROVE  /\ \A i \in EntriesIn(t, a) :
                          HeldIn(t, a, i, t[i].currentBalance - Movement(t[i]),
                                 Slack(t[i].currentBalance))
                    /\ HeldIn(t, a, n + 2, after[a], 0)
  <2>1. Len(t) + 1 = n + 2
    BY <1>1
  <2> QED
    BY <2>1 DEF ChainIn
<1>6. HeldIn(t, a, n + 1, bal[a], 0)
  BY <1>1, <1>5 DEF ChainIn
<1>7. ASSUME NEW i \in EntriesIn(s, a)
      PROVE  HeldIn(t, a, i, t[i].currentBalance - Movement(t[i]),
                    Slack(t[i].currentBalance))
  <2>1. i \in 1 .. n /\ i \in 1 .. n + 1
    BY <1>1, <1>3
  <2>2. HeldIn(s, a, i, s[i].currentBalance - Movement(s[i]), Slack(s[i].currentBalance))
    BY DEF ChainIn
  <2> QED
    BY <1>1, <1>5, <2>1, <2>2
<1>8. CASE a = e.account
  <2>1. HeldIn(t, a, n + 1, t[n + 1].currentBalance - Movement(t[n + 1]),
               Slack(t[n + 1].currentBalance))
    <3> DEFINE y == e.currentBalance
    <3>1. bal[a] \in Int /\ bal[a] + Movement(e) = v /\ Opening[a] \in Int
      BY <1>8, SqlAssumption
    <3>2. ASSUME NEW p \in Int, NEW d \in Int, Near(bal[a], p, d)
          PROVE  Near(y - Movement(e), p, Slack(y) + d)
      BY <1>2, <3>1, <3>2, NearMoves
    <3>3. CASE (\A j \in EntriesIn(t, a) : ~(j < n + 1)) /\ Near(bal[a], Opening[a], 0)
      <4>1. Near(y - Movement(e), Opening[a], Slack(y))
        BY <1>2, <3>1, <3>2, <3>3
      <4> QED
        BY <1>1, <3>3, <4>1 DEF HeldIn
    <3>4. ASSUME NEW j \in EntriesIn(t, a), j < n + 1,
                 \A k \in EntriesIn(t, a) : k < n + 1 => k <= j,
                 Near(bal[a], t[j].currentBalance, 0 + Slack(t[j].currentBalance))
          PROVE  HeldIn(t, a, n + 1, y - Movement(e), Slack(y))
      <4>1. j \in 1 .. n
        BY <1>1, <1>3, <1>4, <3>4
      <4>2. t[j].currentBalance \in Int
        BY <1>1, <4>1 DEF Entry
      <4>3. Slack(t[j].currentBalance) \in Int
            /\ 0 + Slack(t[j].currentBalance) = Slack(t[j].currentBalance)
        BY <4>2, SlackType
      <4>4. Near(y - Movement(e), t[j].currentBalance, Slack(y) + Slack(t[j].currentBalance))
        BY <3>2, <3>4, <4>2, <4>3
      <4> QED
        BY <3>4, <4>4 DEF HeldIn
    <3> QED
      BY <1>1, <1>6, <3>3, <3>4 DEF HeldIn
  <2>2. HeldIn(t, a, n + 2, after[a], 0)
    <3>1. n + 1 \in EntriesIn(t, a) /\ \A k \in EntriesIn(t, a) : k <= n + 1
      BY <1>1, <1>3, <1>4, <1>8
    <3>2. after[a] = v /\ 0 + Slack(e.currentBalance) = Slack(e.currentBalance)
      BY <1>2, <1>8
    <3>3. Near(after[a], t[n + 1].currentBalance, 0 + Slack(t[n + 1].currentBalance))
      BY <1>1, <3>2
    <3>4. n + 1 < n + 2
      BY <1>1
    <3> QED
      BY <3>1, <3>3, <3>4 DEF HeldIn
  <2> QED
    BY <1>4, <1>7, <1>8, <2>1, <2>2
<1>9. CASE a # e.account
  <2>1. EntriesIn(t, a) = EntriesIn(s, a) /\ after[a] = bal[a]
    BY <1>4, <1>9
  <2>2. \A k \in EntriesIn(t, a) : k < n + 1 <=> k < n + 2
    BY <1>1, <1>3, <2>1
  <2>3. HeldIn(t, a, n + 2, after[a], 0)
    BY <1>6, <2>1, <2>2 DEF HeldIn
  <2> QED
    BY <1>7, <2>1, <2>3
<1> QED
  BY <1>8, <1>9

\* A commit appends two entries that go on from the committed balances.
LEMMA CommitChains ==
    ASSUME IInv, TypeOK', ChainIn(statement, balance), NEW b \in Blocks, Commit(b)
    PROVE  ChainIn(statement, balance)'
<1> DEFINE from == job[b].from
           to == job[b].to
           x == job[b].amount
           credited == [balance EXCEPT ![to] = reg[b].creditCurrent]
           moved == [credited EXCEPT ![from] = reg[b].debitCurrent]
<1>t. TypeOK /\ PendingInv
  BY DEF IInv
<1>0. PICK c \in CreditEntries(b), d \in DebitEntries(b) :
               statement' = statement \o <<c, d>>
  BY DEF Commit
<1>1. c \in Entry /\ d \in Entry
  BY <1>t, EntryType
<1>2. from \in Accounts /\ to \in Accounts /\ x \in Int /\ -x \in Int
  BY <1>t, JobType
<1>3. /\ c.account = to /\ c.currentBalance \in Recorded(reg[b].creditCurrent)
      /\ Movement(c) = x
      /\ d.account = from /\ d.currentBalance \in Recorded(reg[b].debitCurrent)
      /\ Movement(d) = -x
  BY <1>2 DEF CreditEntries, DebitEntries, Movement
<1>4. /\ balance \in [Accounts -> Int] /\ statement \in Seq(Entry)
      /\ reg[b].creditCurrent \in Int /\ reg[b].debitCurrent \in Int
  BY <1>t DEF TypeOK, Registers
<1>5. credited \in [Accounts -> Int]
  BY <1>4
<1>6. /\ reg[b].creditCurrent = balance[to] + x
      /\ reg[b].debitCurrent = credited[from] + (-x)
  BY <1>t, <1>2, <1>4 DEF Commit, PendingInv
<1>7. ChainIn(Append(statement, c), credited)
  BY <1>t, <1>1, <1>3, <1>4, <1>6, AppendChains, RecordedIsNear
<1>9. Append(statement, c) \in Seq(Entry)
  BY <1>1, <1>4
<1>10. ChainIn(Append(Append(statement, c), d), moved)
  BY <1>t, <1>1, <1>3, <1>4, <1>5, <1>6, <1>7, <1>9, AppendChains, RecordedIsNear
<1>11. statement' = Append(Append(statement, c), d)
  BY <1>0, <1>1, <1>4
<1>12. balance' = moved
  BY <1>2, <1>4 DEF Commit, Visible
<1>13. ChainIn(statement', balance')
  BY <1>10, <1>11, <1>12
<1>14. job' = job
  BY DEF Commit
<1> QED
  BY <1>13, <1>14 DEF ChainIn, HeldIn, EntriesIn, Movement

LEMMA ChainStep ==
    IInv /\ ChainIn(statement, balance) /\ [Next]_vars => ChainIn(statement, balance)'
<1> SUFFICES ASSUME IInv, ChainIn(statement, balance), [Next]_vars
             PROVE  ChainIn(statement, balance)'
  OBVIOUS
<1>1. TypeOK'
  BY NextType DEF IInv
<1>2. ASSUME UNCHANGED <<job, statement, balance>> PROVE ChainIn(statement, balance)'
  BY <1>2 DEF ChainIn, HeldIn, EntriesIn, Movement
<1>3. ASSUME NEW b \in Blocks, Commit(b) PROVE ChainIn(statement, balance)'
  BY <1>1, <1>3, CommitChains
<1> QED
  BY <1>2, <1>3
  DEF Next, Advance, ReadCredit, Credit, ReadDebit, Debit, Fail, DeadlockVictim, Abort,
      AllEnded, vars

\* Each entry of an account's statement goes on from the one before, and the
\* last one shows the account's balance, however the blocks interleave.
THEOREM StatementsChain == Spec => []StatementChain
<1>1. Init => ChainIn(statement, balance)
  <2> SUFFICES ASSUME Init, NEW a \in Accounts
               PROVE  /\ EntriesIn(statement, a) = {}
                      /\ HeldIn(statement, a, Len(statement) + 1, balance[a], 0)
    BY DEF ChainIn
  <2>1. EntriesIn(statement, a) = {}
    BY DEF Init, EntriesIn
  <2>2. Near(balance[a], Opening[a], 0)
    BY SqlAssumption DEF Init, Near
  <2> QED
    BY <2>1, <2>2 DEF HeldIn
<1>2. IInv /\ ChainIn(statement, balance) => StatementChain
  BY ChainIsChainIn DEF IInv
<1> QED
  BY <1>1, <1>2, InitIInv, NextIInv, ChainStep, PTL DEF Spec

-----------------------------------------------------------------------------
\* A step of a block is an atomic move of the ledger or leaves it alone.
LEMMA StepRefines == IInv /\ [Next]_vars => [Book!Next]_(Book!vars)
<1> SUFFICES ASSUME IInv, [Next]_vars PROVE [Book!Next]_(Book!vars)
  OBVIOUS
<1>t. TypeOK /\ LockInv /\ PendingInv
  BY DEF IInv
<1>j. \A c \in Blocks : job[c].from \in Accounts /\ job[c].to \in Accounts
                        /\ job[c].amount \in Amounts /\ job[c].amount \in Int
  BY <1>t, JobType
<1> DEFINE done == {c \in Blocks : pc[c] = "committed"}
<1>1. ASSUME NEW b \in Blocks, Commit(b) PROVE Book!Next
  <2>1. b \notin done /\ done' = done \cup {b}
    BY <1>1, <1>t DEF Commit, TypeOK
  <2>2. ASSUME NEW a \in Accounts
        PROVE  Visible(b, a) = balance[a]
                               + (IF a = job[b].to THEN job[b].amount ELSE 0)
                               - (IF a = job[b].from THEN job[b].amount ELSE 0)
    <3>1. pc[b] = "commit" /\ balance[a] \in Int
      BY <1>1, <1>t DEF Commit, TypeOK
    <3>2. reg[b].creditCurrent = balance[job[b].to] + job[b].amount
      BY <3>1, <1>t DEF PendingInv
    <3>3. reg[b].debitCurrent = (IF job[b].from = job[b].to
                                 THEN reg[b].creditCurrent
                                 ELSE balance[job[b].from]) - job[b].amount
      BY <3>1, <1>t DEF PendingInv
    <3> QED
      BY <3>1, <3>2, <3>3, <1>j DEF Visible
  <2>3. balance' = Book!Moved(job[b].from, job[b].to, job[b].amount)
    BY <1>1, <2>2 DEF Commit, Book!Moved
  <2> QED
    BY <2>1, <2>3, <1>j DEF Book!Next, Book!Move
<1>2. ASSUME NEW b \in Blocks,
             ReadCredit(b) \/ Credit(b) \/ ReadDebit(b) \/ Debit(b) \/ Fail(b)
             \/ DeadlockVictim(b)
      PROVE  UNCHANGED Book!vars
  <2>1. balance' = balance
    BY <1>2 DEF ReadCredit, Credit, ReadDebit, Debit, Fail, DeadlockVictim, Abort
  <2>2. pc[b] # "committed" /\ pc'[b] # "committed"
        /\ \A c \in Blocks : c # b => pc'[c] = pc[c]
    BY <1>2, <1>t DEF ReadCredit, Credit, ReadDebit, Debit, Fail,
          DeadlockVictim, Abort, TypeOK, InDeadlock, Waits
  <2>3. done' = done
    BY <2>2
  <2> QED
    BY <2>1, <2>3 DEF Book!vars
<1>3. CASE UNCHANGED vars
  BY <1>3 DEF vars, Book!vars
<1> QED
  BY <1>1, <1>2, <1>3 DEF Next, Advance, AllEnded

\* executeTransferTransaction implements the ledger: whatever blocks run side
\* by side, fail or are cancelled, each moves its amount at once or not at all.
THEOREM BlockIsAtomic == Spec => ImplementsLedger
<1>1. Init => Book!Init
  BY DEF Init, Book!Init
<1> QED
  BY <1>1, InitIInv, NextIInv, StepRefines, PTL
  DEF Spec, Book!Spec, ImplementsLedger

=============================================================================
