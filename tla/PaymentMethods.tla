--------------------------- MODULE PaymentMethods ---------------------------
(***************************************************************************)
(* The payment methods of the users: one user's are at most two, and one   *)
(* of them is the default, to which deposits and withdrawals go.  create,  *)
(* update and delete look at the rows, and then write; making one the      *)
(* default clears the flag on all of the caller's rows in a statement of   *)
(* its own, but whose the row is that is updated or deleted is not looked  *)
(* at.  A new method needs an OTP.  em.save writes back every column of    *)
(* the copy that was read, and inserts the row if it is gone.              *)
(***************************************************************************)
EXTENDS Integers, FiniteSets

CONSTANTS
    Calls,     \* calls made, each once; a method is named by its creator,
    Clients,    \* and the one made at sign-up by its user
    Otps,
    NoOtp

ASSUME MethodsAssumption == Clients \cap Calls = {} /\ NoOtp \notin Otps

VARIABLES
    place,     \* where a call is
    op,        \* "create", "update", "delete" or "assign"
    by,        \* the user it is made by or, an assign, made for
    of,        \* the method it is about
    flag,      \* input.default: TRUE, FALSE, null or left out
    otpOf,     \* the OTP a create came with
    method,    \* payment_method_entity: rows by name, the default column
    otp,       \* otp_entity.status
    passed,    \* calls each OTP let through
    otpShared, \* OTPs two calls had read before either was saved
    disturbed  \* users whose default something went wrong with, see Disturb

Methods == Calls \cup Clients
call == <<place, op, by, of, flag, otpOf>>
methodGhosts == <<passed, otpShared, disturbed>>
methodVars == <<call, method, otp, methodGhosts>>

Flags == {"true", "false", "null", "unset"}
Absent == "absent"
NoOwner == "no owner"

MethodsTypeOK ==
    /\ place \in [Calls -> {"idle", "otp", "use", "count", "clear", "check", "save",
                         "read", "delete", "ended", "died"}]
    /\ op \in [Calls -> {"create", "update", "delete", "assign"}]
    /\ by \in [Calls -> Clients \cup {NoOwner}]
    /\ of \in [Calls -> Methods \cup {NoOwner}]
    /\ flag \in [Calls -> Flags]
    /\ otpOf \in [Calls -> Otps \cup {NoOtp}]
    /\ method \in [Methods -> {"true", "false", "null", Absent}]
    /\ otp \in [Otps -> {"not_verified", "verified"}]
    /\ passed \in [Otps -> SUBSET Calls] /\ otpShared \subseteq Otps
    /\ disturbed \subseteq Clients

MethodsInit ==
    /\ place = [c \in Calls |-> "idle"]
    /\ op = [c \in Calls |-> "delete"]
    /\ by = [c \in Calls |-> NoOwner] /\ of = by
    /\ flag = [c \in Calls |-> "unset"]
    /\ otpOf = [c \in Calls |-> NoOtp]
    /\ method = [m \in Methods |-> IF m \in Clients THEN "true" ELSE Absent]
    /\ otp = [o \in Otps |-> "not_verified"]
    /\ passed = [o \in Otps |-> {}]
    /\ otpShared = {} /\ disturbed = {}

OwnerOf(m) == IF m \in Clients THEN m ELSE by[m]
Live == {m \in Methods : method[m] # Absent}
OfUser(p) == {m \in Live : OwnerOf(m) = p}
Defaults(p) == {m \in OfUser(p) : method[m] = "true"}
Active(c) == place[c] \notin {"idle", "ended", "died"}

To(c, where) == place' = [place EXCEPT ![c] = where]

-----------------------------------------------------------------------------
\* A call arrives: what it does, for whom, to which method, anybody's, with which
\* flag and OTP.  To a create a null is as good as left out.
Begin(c, o, p, m, f, t) ==
    /\ place[c] = "idle"
    /\ o \in {"create", "assign"} => m = c
    /\ o \in {"update", "delete"} => m # c
    /\ t # NoOtp <=> o = "create"
    /\ f = "null" => o = "update"
    /\ o \in {"delete", "assign"} => f = "unset"
    /\ op' = [op EXCEPT ![c] = o]
    /\ by' = [by EXCEPT ![c] = p]
    /\ of' = [of EXCEPT ![c] = m]
    /\ flag' = [flag EXCEPT ![c] = f]
    /\ otpOf' = [otpOf EXCEPT ![c] = t]
    /\ To(c, CASE o = "create" -> "otp"
               [] o = "assign" -> "save"
               [] OTHER        -> "read")
    /\ UNCHANGED <<method, otp, methodGhosts>>

\* verifyOtp reads the row, and throws if it is not there to be used.
ReadOtp(c) ==
    LET t == otpOf[c] IN
    /\ place[c] = "otp"
    /\ IF otp[t] = "verified"
       THEN /\ To(c, "ended")
            /\ UNCHANGED otpShared
       ELSE /\ To(c, "use")
            /\ otpShared' = IF \E d \in Calls : place[d] = "use" /\ otpOf[d] = t
                            THEN otpShared \cup {t} ELSE otpShared
    /\ UNCHANGED <<op, by, of, flag, otpOf, method, otp, passed, disturbed>>

\* Mutant: the row is not saved.
KeepOtp(c) ==
    LET t == otpOf[c] IN
    /\ place[c] = "use"
    /\ passed' = [passed EXCEPT ![t] = @ \cup {c}]
    /\ To(c, "count")
    /\ UNCHANGED <<op, by, of, flag, otpOf, method, otp, otpShared, disturbed>>

UseOtp(c) ==
    LET t == otpOf[c] IN
    /\ place[c] = "use"
    /\ otp' = [otp EXCEPT ![t] = "verified"]
    /\ passed' = [passed EXCEPT ![t] = @ \cup {c}]
    /\ To(c, "count")
    /\ UNCHANGED <<op, by, of, flag, otpOf, method, otpShared, disturbed>>

\* Where a create or an update goes by the flag it came with.
ByFlag(c) ==
    CASE flag[c] = "true"  -> "clear"
      [] flag[c] = "false" -> "check"
      [] OTHER             -> "save"

MayAdd(p) == Cardinality(OfUser(p)) < 2

\* The caller's methods are counted; the number may also be taken already.
Count(c) ==
    /\ place[c] = "count"
    /\ \/ MayAdd(by[c]) /\ To(c, ByFlag(c))
       \/ To(c, "ended")
    /\ UNCHANGED <<op, by, of, flag, otpOf, method, otp, methodGhosts>>

\* Mutant: the new default does not replace the old one.
ClearNothing(c) ==
    /\ place[c] = "clear"
    /\ To(c, "save")
    /\ UNCHANGED <<op, by, of, flag, otpOf, method, otp, methodGhosts>>

\* UPDATE ... SET "default" = 'false' for all rows of the caller.
Clear(c) ==
    /\ place[c] = "clear"
    /\ method' = [m \in Methods |-> IF m \in OfUser(by[c]) THEN "false" ELSE method[m]]
    /\ To(c, "save")
    /\ UNCHANGED <<op, by, of, flag, otpOf, otp, methodGhosts>>

\* 'You must have one default payment method': a create wants one among the
\* caller's rows, an update is refused while they have just one, whichever it is.
Check(c) ==
    /\ place[c] = "check"
    /\ To(c, IF \/ op[c] = "create" /\ Defaults(by[c]) = {}
                \/ op[c] = "update" /\ Cardinality(Defaults(by[c])) = 1
             THEN "ended" ELSE "save")
    /\ UNCHANGED <<op, by, of, flag, otpOf, method, otp, methodGhosts>>

\* getPaymentMethodById of update and delete; a default is not deleted.
Read(c) ==
    /\ place[c] = "read"
    /\ To(c, CASE of[c] \notin Live                                   -> "ended"
               [] of[c] \in Live /\ op[c] = "update"                  -> ByFlag(c)
               [] op[c] = "delete" /\ method[of[c]] = "true"           -> "ended"
               [] op[c] = "delete" /\ method[of[c]] \in {"false", "null"} -> "delete")
    /\ UNCHANGED <<op, by, of, flag, otpOf, method, otp, methodGhosts>>

\* The default column as it is saved.  An assigned method is a default, a new one
\* if the call says TRUE.  An update writes what it was sent, null too, and
\* keeps the column when nothing was.
Written(c) ==
    LET kept == IF of[c] \in Live THEN method[of[c]] ELSE "false"
    IN  CASE op[c] = "assign"                       -> "true"
          [] op[c] = "create"                       -> IF flag[c] = "true" THEN "true"
                                                       ELSE "false"
          [] op[c] = "update" /\ flag[c] # "unset"  -> flag[c]
          [] OTHER                                  -> kept

\* A call that has cleared the flags of its caller's rows and is to set one.
Choosing(c) == place[c] = "save" /\ flag[c] = "true"

\* A call that has seen that its method is no default, or may stop being one.
Demoting(c) == place[c] = "delete" \/ (place[c] = "save" /\ flag[c] = "false")

\* Whose defaults the save of a call may leave in disorder: the user of a row
\* another user's call or an admin's writes, and that user; a user whose row is
\* saved with null; and a user one of whose rows becomes the default while
\* another call is to make another row the default, or has seen that this one
\* may go.
Disturb(c) ==
    LET p == OwnerOf(of[c]) IN
    (IF p # by[c] THEN {p, by[c]} ELSE {})
    \cup
    (IF \/ op[c] = "assign"
        \/ op[c] = "update" /\ flag[c] = "null"
        \/ /\ Choosing(c)
           /\ \E d \in Calls \ {c} :
                 \/ Choosing(d) /\ by[d] = p /\ of[d] # of[c]
                 \/ Demoting(d) /\ of[d] = of[c]
     THEN {p} ELSE {})

Save(c) ==
    /\ place[c] = "save"
    /\ method' = [method EXCEPT ![of[c]] = Written(c)]
    /\ disturbed' = disturbed \cup Disturb(c)
    /\ To(c, "ended")
    /\ UNCHANGED <<op, by, of, flag, otpOf, otp, passed, otpShared>>

Delete(c) ==
    /\ place[c] = "delete"
    /\ method' = [method EXCEPT ![of[c]] = Absent]
    /\ To(c, "ended")
    /\ UNCHANGED <<op, by, of, flag, otpOf, otp, methodGhosts>>

\* A database call rejects, or the process dies: the call goes no further.
Die(c) ==
    /\ Active(c)
    /\ To(c, "died")
    /\ disturbed' = IF Choosing(c) THEN disturbed \cup {by[c]} ELSE disturbed
    /\ UNCHANGED <<op, by, of, flag, otpOf, method, otp, passed, otpShared>>

CallStep(c) ==
    \/ ReadOtp(c)
    \/ UseOtp(c)
    \/ Count(c)
    \/ Clear(c)
    \/ Check(c)
    \/ Read(c)
    \/ Save(c)
    \/ Delete(c)
    \/ Die(c)

MethodsNext ==
    \/ \E c \in Calls, o \in {"create", "update", "delete", "assign"}, p \in Clients,
          m \in Methods, f \in Flags, t \in Otps \cup {NoOtp} : Begin(c, o, p, m, f, t)
    \/ \E c \in Calls : CallStep(c)

MethodsSpec == MethodsInit /\ [][MethodsNext]_methodVars

-----------------------------------------------------------------------------
\* An OTP lets one call through, unless two had read it before it was saved.
OtpUsedOnce ==
    \A t \in Otps : Cardinality(passed[t]) > 1 => t \in otpShared

\* A user has exactly one default method, but between a call's clearing the
\* flags and its save, and unless such a call died there or one of the events of
\* Disturb came: calls of one user, however they interleave, lose the default or
\* double it in no other way.
OneDefault ==
    \A p \in Clients \ disturbed :
        \/ Cardinality(Defaults(p)) = 1
        \/ \E c \in Calls : Choosing(c) /\ by[c] = p

=============================================================================
