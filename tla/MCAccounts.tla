------------------------------ MODULE MCAccounts ------------------------------
(* Four machines around a user's account, for TLC: the totals of the user    *)
(* (Rim), signing up, the payment methods and the row one signs in with.     *)
(* They share no state, so a behaviour is one of one of them: machine says   *)
(* which, the others stay as they start.  They share their model values.     *)
EXTENDS Rim, SignUp, PaymentMethods, SignIn, TLC

VARIABLE machine

\* The password a visit would set is named for the visit.
FreshPassword == [v \in Visits |-> v]

mcVars == <<machine, rimVars, signUpVars, methodVars, signInVars>>

MCInit ==
    /\ machine \in {"rim", "sign up", "methods", "sign in"}
    /\ RimInit
    /\ SignUpInit
    /\ MethodsInit
    /\ SignInInit

MCNext ==
    \/ /\ machine = "rim" /\ RimNext
       /\ UNCHANGED <<machine, signUpVars, methodVars, signInVars>>
    \/ /\ machine = "sign up" /\ SignUpNext
       /\ UNCHANGED <<machine, rimVars, methodVars, signInVars>>
    \/ /\ machine = "methods" /\ MethodsNext
       /\ UNCHANGED <<machine, rimVars, signUpVars, signInVars>>
    \/ /\ machine = "sign in" /\ SignInNext
       /\ UNCHANGED <<machine, rimVars, signUpVars, methodVars>>

MCSpec == MCInit /\ [][MCNext]_mcVars

\* The view TLC compares states by: what a payment-method call that is over came
\* with no step and no property looks at, but for whose method it may have made.
Current(f) == [c \in {d \in Calls : place[d] \notin {"ended", "died"}} |-> f[c]]

View ==
    <<machine, rimVars, signUpVars, signInVars,
      Current(place), Current(op), Current(of), Current(flag), Current(otpOf), by,
      method, otp, methodGhosts>>

Symmetry == Permutations(Transfers) \cup Permutations(Users)

=============================================================================
