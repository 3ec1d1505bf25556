--------------------------- MODULE MCSavingsGoals ---------------------------
(* Instances of SavingsGoals for TLC. *)
EXTENDS SavingsGoals, TLC

MCAmounts == {-1, 1}
MCMinBalance == -1

Symmetry == Permutations(Clients) \cup Permutations(Runs)

\* Bound: a behaviour is explored as long as no money has been paid, or no
\* automatic saving is about; neither depends on the other.
NoMoney(g) == book[g] = 0 /\ account[g].balance = 0
NoMandate(g) ==
    /\ active[g] + ended[g] = 0
    /\ g \notin unsaved
    /\ goal[g].preference = "manual"
    /\ \A c \in Clients :
           client[c].goal = g => "automatic" \notin {client[c].wish, client[c].copy.preference}

\* It is explored no further once every property has excused it: those about
\* money once the account has been raced, the one about mandates once the row
\* has been, or a call has died half-way.
OneOfBoth ==
    \A g \in Goals :
        /\ g \notin accountRaced
        /\ (NoMoney(g) /\ g \notin goalRaced \cup halved) \/ NoMandate(g)

=============================================================================
