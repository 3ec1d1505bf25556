---------------------------------- MODULE Rim ----------------------------------
(***************************************************************************)
(* updateRimBalances: after each transfer, the totals of the sender's and  *)
(* then of the receiver's accounts are summed by a query, the user's row   *)
(* of rim_entity is looked up, and the totals are written to it, or to a   *)
(* new row.  Transfers of one user do this side by side, so that totals    *)
(* may arrive in another order than they were summed, and nothing keeps a  *)
(* user from getting two rows.                                             *)
(***************************************************************************)
EXTENDS Integers, FiniteSets

CONSTANTS
    Users,
    Transfers,  \* calls of executTransfer
    NoUser, NoRow,
    Opening,    \* what every primary account holds at the start
    MaxDrops    \* bound: refreshes that throw or die

Sides == {"from", "to"}
Kinds == {"primary", "goals"}
Ids == Transfers \X Sides  \* a row is named for the refresh that wrote it first

Totals == {r \in [all : Nat, goals : Nat] : r.goals <= r.all}

ASSUME RimAssumption ==
    /\ NoUser \notin Users /\ NoRow \notin Totals
    /\ Opening \in Nat /\ MaxDrops \in Nat

Blank == [all |-> 0, goals |-> 0]
Nobody == [s \in Sides |-> NoUser]

VARIABLES
    balance,  \* of each user's primary account, and of the goals' together
    rim,      \* rows of rim_entity of each user, by id
    at,       \* next step of each transfer
    side,     \* whose totals it refreshes
    party,    \* its two users
    summed,   \* the totals it has summed
    found,    \* the row it has found
    suspect,  \* users whose totals two refreshes have crossed, or one has dropped
    drops

rimVars == <<balance, rim, at, side, party, summed, found, suspect, drops>>

RimTypeOK ==
    /\ balance \in [Users -> [Kinds -> Nat]]
    /\ rim \in [Users -> [Ids -> Totals \cup {NoRow}]]
    /\ at \in [Transfers -> {"move", "sum", "find", "save", "done"}]
    /\ side \in [Transfers -> Sides]
    /\ party \in [Transfers -> [Sides -> Users \cup {NoUser}]]
    /\ summed \in [Transfers -> Totals]
    /\ found \in [Transfers -> Ids]
    /\ suspect \subseteq Users
    /\ drops \in 0..MaxDrops

RimInit ==
    /\ balance = [u \in Users |-> [primary |-> Opening, goals |-> 0]]
    /\ rim = [u \in Users |-> [i \in Ids |-> NoRow]]
    /\ at = [t \in Transfers |-> "move"]
    /\ side = [t \in Transfers |-> "from"]
    /\ party = [t \in Transfers |-> Nobody]
    /\ summed = [t \in Transfers |-> Blank]
    /\ found = [t \in Transfers |-> <<t, "from">>]
    /\ suspect = {}
    /\ drops = 0

-----------------------------------------------------------------------------
User(t) == party[t][side[t]]
Rows(u) == {i \in Ids : rim[u][i] # NoRow}

\* Users whose totals t has yet to refresh, and refreshes under way.
Due(t) ==
    IF at[t] \in {"move", "done"} THEN {}
    ELSE IF side[t] = "from" THEN {party[t]["from"], party[t]["to"]}
    ELSE {party[t]["to"]}
Carrying(u) == {t \in Transfers : at[t] \in {"find", "save"} /\ User(t) = u}
Quiet(u) == \A t \in Transfers : u \notin Due(t)

\* What a refresh has in hand is dropped with it.
Drop(t) ==
    /\ summed' = [summed EXCEPT ![t] = Blank]
    /\ found' = [found EXCEPT ![t] = <<t, "from">>]

End(t) ==
    /\ at' = [at EXCEPT ![t] = "done"]
    /\ side' = [side EXCEPT ![t] = "from"]
    /\ party' = [party EXCEPT ![t] = Nobody]

\* The DO block.
Move(t, u, v, k, l) ==
    /\ at[t] = "move"
    /\ u # v \/ k # l
    /\ balance[u][k] > 0
    /\ LET debited == [balance EXCEPT ![u][k] = @ - 1]
       IN  balance' = [debited EXCEPT ![v][l] = @ + 1]
    /\ party' = [party EXCEPT ![t] = [s \in Sides |-> IF s = "from" THEN u ELSE v]]
    /\ at' = [at EXCEPT ![t] = "sum"]
    /\ UNCHANGED <<rim, side, summed, found, suspect, drops>>

TotalOf(u) == [all |-> balance[u]["primary"] + balance[u]["goals"],
               goals |-> balance[u]["goals"]]

\* Mutant: the sender's totals are summed for both.
SumSender(t) ==
    /\ at[t] = "sum"
    /\ summed' = [summed EXCEPT ![t] = TotalOf(party[t]["from"])]
    /\ suspect' = suspect \ {User(t)}
    /\ at' = [at EXCEPT ![t] = "find"]
    /\ UNCHANGED <<balance, rim, side, party, found, drops>>

\* SELECT SUM(...), one statement.
Sum(t) ==
    /\ at[t] = "sum"
    /\ summed' = [summed EXCEPT ![t] = TotalOf(User(t))]
    /\ suspect' = suspect \ {User(t)}
    /\ at' = [at EXCEPT ![t] = "find"]
    /\ UNCHANGED <<balance, rim, side, party, found, drops>>

\* findOne: any row of the user, or a new one.
Find(t) ==
    LET u == User(t) IN
    /\ at[t] = "find"
    /\ \E i \in (IF Rows(u) = {} THEN {<<t, side[t]>>} ELSE Rows(u)) :
           found' = [found EXCEPT ![t] = i]
    /\ at' = [at EXCEPT ![t] = "save"]
    /\ UNCHANGED <<balance, rim, side, party, summed, suspect, drops>>

\* em.save of the totals, whatever has been saved since they were summed.
SaveTotals(t) ==
    /\ at[t] = "save"
    /\ rim' = [rim EXCEPT ![User(t)][found[t]] = summed[t]]
    /\ suspect' = IF Carrying(User(t)) # {t} THEN suspect \cup {User(t)} ELSE suspect
    /\ IF side[t] = "from"
       THEN /\ side' = [side EXCEPT ![t] = "to"]
            /\ at' = [at EXCEPT ![t] = "sum"]
            /\ UNCHANGED party
       ELSE End(t)
    /\ Drop(t)
    /\ UNCHANGED <<balance, drops>>

\* A query throws, and executTransfer with it, or the process dies.
Fail(t) ==
    /\ at[t] \in {"sum", "find", "save"}
    /\ drops < MaxDrops /\ drops' = drops + 1
    /\ suspect' = suspect \cup Due(t)
    /\ End(t) /\ Drop(t)
    /\ UNCHANGED <<balance, rim>>

RimNext ==
    \E t \in Transfers :
        \/ \E u, v \in Users, k, l \in Kinds : Move(t, u, v, k, l)
        \/ Sum(t) \/ Find(t) \/ SaveTotals(t) \/ Fail(t)

RimSpec == RimInit /\ [][RimNext]_rimVars

-----------------------------------------------------------------------------
\* When no transfer of a user is under way, the user's row shows what the
\* accounts add up to, unless refreshes have crossed or one was dropped; and a
\* later refresh that no other crosses makes up for either.
RimIsTotal ==
    \A u \in Users \ suspect :
        (Quiet(u) /\ Cardinality(Rows(u)) = 1) =>
            \A i \in Rows(u) : rim[u][i] = TotalOf(u)

=============================================================================
