--------------------------- MODULE MCTransferCore ---------------------------
(***************************************************************************)
(* TLC instances of TransferCore: a user's primary account, a locked goal  *)
(* account that charges early-withdrawal fees, the fee account, and the    *)
(* system account, which may overdraw.                                     *)
(***************************************************************************)
EXTENDS TransferCore, TLC

CONSTANTS primary, goal, fees, system

MCOpening == (primary :> 2) @@ (goal :> 3) @@ (fees :> 0) @@ (system :> 0)

Flag(deposit, withdraw, withFees, overdraw) ==
    [allowDeposit |-> deposit, allowWithdrawal |-> withdraw,
     allowWithdrawalWithFees |-> withFees, canOverDraw |-> overdraw]

MCFlags == (primary :> Flag(TRUE, TRUE, FALSE, FALSE))
        @@ (goal    :> Flag(TRUE, TRUE, TRUE, FALSE))
        @@ (fees    :> Flag(TRUE, FALSE, FALSE, FALSE))
        @@ (system  :> Flag(TRUE, TRUE, TRUE, TRUE))

\* The fee on 2 is either end of the sliding scale, the fee on 1 rounds to 0; a
\* percentage of a negative amount is negative.
MCFees == (1 :> {0}) @@ (2 :> {0, 1}) @@ (-2 :> {-1})
MCAmounts == DOMAIN MCFees

Arg(op, from, to, amount, status) ==
    [op |-> op, from |-> from, to |-> to, amount |-> amount, status |-> status]

\* The calls the other services make: a deposit from the system account, a
\* withdrawal, a goal's early withdrawal, a goal's closing charge, calls that
\* each early return refuses, and negative amounts either way.
MCCalls ==
    { Arg("transfer", system, primary, 2, "SUCCESS"),
      Arg("transfer", primary, system, 2, "PENDING"),
      Arg("transfer", primary, goal, 1, "unset"),
      Arg("transfer", goal, primary, 2, "unset"),
      Arg("chargeTransfer", goal, fees, 1, "unset"),
      Arg("chargeTransfer", goal, primary, 2, "unset"),
      Arg("transfer", fees, primary, 1, "unset"),
      Arg("transfer", primary, goal, -2, "unset"),
      Arg("transfer", goal, primary, -2, "unset"),
      Arg("transfer", goal, NoAccount, 1, "unset") }

=============================================================================
