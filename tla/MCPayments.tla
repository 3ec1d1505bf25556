----------------------------- MODULE MCPayments -----------------------------
(***************************************************************************)
(* TLC instances of Payments.  The configurations choose how many          *)
(* deposits, withdrawals, handlers and sweeps there are and which faults.  *)
(***************************************************************************)
EXTENDS Payments, TLC

Symmetry == Permutations(Handlers) \cup Permutations(Sweeps)

=============================================================================
