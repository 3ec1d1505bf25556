------------------------------- MODULE SignUp -------------------------------
(***************************************************************************)
(* Signing up.  A sign-up from the app looks the phone number up and then  *)
(* saves the user, a payment method and a referral code in turn; one over  *)
(* USSD looks nothing up.  A sign-up with the influencer's referral code   *)
(* also takes a Bolt promo code: any that is PENDING, since a null in a    *)
(* where clause is dropped, whoever it was given to before.  A cron later  *)
(* sends each code given away to its user, once verified; its tick does    *)
(* not wait for the run it starts, so that runs may overlap.               *)
(*                                                                         *)
(* em.save writes back every column of the copy that was read.             *)
(***************************************************************************)
EXTENDS Integers, FiniteSets

CONSTANTS
    SignUps,  \* sign-ups made; also the users they create
    Phones,
    Codes,    \* rows of referral_bolt_entity
    Ticks,    \* runs of the cron that may be under way together
    NoOne     \* userId of a code not given away, number of no sign-up

ASSUME SignUpAssumption == NoOne \notin SignUps \cup Codes

VARIABLES
    step,      \* where a sign-up is
    phone,     \* number it is made with
    channel,   \* "app" or "ussd"
    referral,  \* referral code sent: none, an unknown one, the influencer's
               \* during a campaign, or another known one
    users,     \* sign-ups whose user is saved
    methods,   \* those whose payment method is
    referred,  \* those recorded in referred_user_entity
    verified,  \* users who are no beginners any more
    code,      \* rows of referral_bolt_entity
    taken,     \* the code row a sign-up holds a copy of, and the copy
    sending,   \* the cron: code rows each run has listed, as they were read
    marked,    \* rows each run has marked, whose message is still to be sent
    sent,      \* users each code was sent to
    alongside, \* numbers two sign-ups worked on at a time
    straddling \* codes marked while a sign-up held a copy, or a run had
               \* listed them for another user

signing == <<step, phone, channel, referral>>
rows == <<users, methods, referred, verified>>
cron == <<sending, marked, sent>>
signUpVars == <<signing, rows, code, taken, cron, alongside, straddling>>

CodeRow == [status : {"PENDING", "SUCCESS"}, user : SignUps \cup {NoOne}]
NoCode == [of |-> NoOne, row |-> [status |-> "PENDING", user |-> NoOne]]

Outcomes == {"done", "refused"}
Referrals == {"none", "unknown", "bolt", "known"}

SignUpTypeOK ==
    /\ step \in [SignUps -> {"idle", "look", "save", "method", "refer", "find",
                             "take", "record"} \cup Outcomes]
    /\ phone \in [SignUps -> Phones \cup {NoOne}]
    /\ channel \in [SignUps -> {"app", "ussd"}]
    /\ referral \in [SignUps -> Referrals]
    /\ users \subseteq SignUps /\ methods \subseteq users
    /\ referred \subseteq users /\ verified \subseteq users
    /\ code \in [Codes -> CodeRow]
    /\ taken \in [SignUps -> [of : Codes \cup {NoOne}, row : CodeRow]]
    /\ sending \subseteq Ticks \X Codes \X SignUps
    /\ marked \subseteq Ticks \X Codes \X SignUps
    /\ sent \in [Codes -> SUBSET SignUps]
    /\ alongside \subseteq Phones /\ straddling \subseteq Codes

SignUpInit ==
    /\ step = [s \in SignUps |-> "idle"]
    /\ phone = [s \in SignUps |-> NoOne]
    /\ channel = [s \in SignUps |-> "app"]
    /\ referral = [s \in SignUps |-> "none"]
    /\ users = {} /\ methods = {} /\ referred = {} /\ verified = {}
    /\ code = [c \in Codes |-> [status |-> "PENDING", user |-> NoOne]]
    /\ taken = [s \in SignUps |-> NoCode]
    /\ sending = {} /\ marked = {}
    /\ sent = [c \in Codes |-> {}]
    /\ alongside = {} /\ straddling = {}

Go(s, to) == step' = [step EXCEPT ![s] = to]

-----------------------------------------------------------------------------
Arrive(s, number, by, ref) ==
    /\ step[s] = "idle"
    /\ phone' = [phone EXCEPT ![s] = number]
    /\ channel' = [channel EXCEPT ![s] = by]
    /\ referral' = [referral EXCEPT ![s] = ref]
    /\ UNCHANGED <<rows, code, taken, cron, alongside, straddling>>

\* registerUser, which goes on to look the number up.
Start(s, number, ref) == Arrive(s, number, "app", ref) /\ Go(s, "look")

\* signUp of the USSD service, which goes on to save; it takes no referral.
StartUssd(s, number) == Arrive(s, number, "ussd", "none") /\ Go(s, "save")

\* A sign-up that has looked, or need not, and has not saved its user.
AboutToSave(s) == step[s] = "save"

\* Mutant: only numbers with a payment method count.
LookUpMethod(s) ==
    /\ step[s] = "look"
    /\ Go(s, IF \E u \in methods : phone[u] = phone[s] THEN "refused" ELSE "save")
    /\ alongside' = IF \E u \in SignUps : AboutToSave(u) /\ phone[u] = phone[s]
                    THEN alongside \cup {phone[s]} ELSE alongside
    /\ UNCHANGED <<phone, channel, referral, rows, code, taken, cron, straddling>>

\* phoneExist: 'phone_already_exist' is thrown.
LookUp(s) ==
    /\ step[s] = "look"
    /\ Go(s, IF \E u \in users : phone[u] = phone[s] THEN "refused" ELSE "save")
    /\ alongside' = IF \E u \in SignUps : AboutToSave(u) /\ phone[u] = phone[s]
                    THEN alongside \cup {phone[s]} ELSE alongside
    /\ UNCHANGED <<phone, channel, referral, rows, code, taken, cron, straddling>>

\* One save cascades over the user, the account and the platform.
SaveUser(s) ==
    /\ step[s] = "save"
    /\ users' = users \cup {s}
    /\ Go(s, "method")
    /\ UNCHANGED <<phone, channel, referral, methods, referred, verified, code,
                   taken, cron, alongside, straddling>>

SaveMethod(s) ==
    /\ step[s] = "method"
    /\ methods' = methods \cup {s}
    /\ Go(s, "refer")
    /\ UNCHANGED <<phone, channel, referral, users, referred, verified, code,
                   taken, cron, alongside, straddling>>

\* Over USSD a payment method that cannot be saved is logged, and the sign-up
\* goes on without.
SkipMethod(s) ==
    /\ step[s] = "method" /\ channel[s] = "ussd"
    /\ Go(s, "refer")
    /\ UNCHANGED <<phone, channel, referral, rows, code, taken, cron, alongside,
                   straddling>>

\* The user's own referral code is saved, and only then the code that was
\* sent is looked up: an unknown one is refused, and the user stays.
CheckReferral(s) ==
    /\ step[s] = "refer"
    /\ Go(s, CASE referral[s] = "none"    -> "done"
               [] referral[s] = "unknown" -> "refused"
               [] referral[s] = "bolt"    -> "find"
               [] referral[s] = "known"   -> "record")
    /\ UNCHANGED <<phone, channel, referral, rows, code, taken, cron, alongside,
                   straddling>>

Takeable == {c \in Codes : code[c].status = "PENDING"}

\* findOne of a PENDING code; without one the sign-up goes on.
FindCode(s) ==
    /\ step[s] = "find"
    /\ \/ /\ Takeable = {}
          /\ Go(s, "record")
          /\ UNCHANGED taken
       \/ \E c \in Takeable :
              /\ taken' = [taken EXCEPT ![s] =
                              [of |-> c, row |-> [code[c] EXCEPT !.user = s]]]
              /\ Go(s, "take")
    /\ UNCHANGED <<phone, channel, referral, rows, code, cron, alongside, straddling>>

\* The row is saved with its user, and with the status that was read.
TakeCode(s) ==
    /\ step[s] = "take"
    /\ code' = [code EXCEPT ![taken[s].of] = taken[s].row]
    /\ taken' = [taken EXCEPT ![s] = NoCode]
    /\ Go(s, "record")
    /\ UNCHANGED <<phone, channel, referral, rows, cron, alongside, straddling>>

RecordReferral(s) ==
    /\ step[s] = "record"
    /\ referred' = referred \cup {s}
    /\ Go(s, "done")
    /\ UNCHANGED <<phone, channel, referral, users, methods, verified, code, taken,
                   cron, alongside, straddling>>

\* A database call rejects or the process dies: what was saved stays.
Abandon(s) ==
    /\ step[s] \notin {"idle"} \cup Outcomes
    /\ Go(s, "refused")
    /\ taken' = [taken EXCEPT ![s] = NoCode]
    /\ UNCHANGED <<phone, channel, referral, rows, code, cron, alongside, straddling>>

-----------------------------------------------------------------------------
\* The identity of a user is approved.
Approve(u) ==
    /\ u \in users \ verified
    /\ verified' = verified \cup {u}
    /\ UNCHANGED <<signing, users, methods, referred, code, taken, cron, alongside,
                   straddling>>

Given == {cu \in Codes \X SignUps :
             /\ code[cu[1]].status = "PENDING"
             /\ code[cu[1]].user = cu[2]}

\* The cron's SELECT, in a run that is not under way yet.
ListGiven(k) ==
    /\ \A job \in sending \cup marked : job[1] # k
    /\ Given # {}
    /\ sending' = sending \cup {<<k, cu[1], cu[2]>> : cu \in Given}
    /\ UNCHANGED <<signing, rows, code, taken, marked, sent, alongside, straddling>>

\* Mutant: the row is not saved.
LeavePending(k, c, u) ==
    /\ <<k, c, u>> \in sending
    /\ sending' = sending \ {<<k, c, u>>}
    /\ marked' = IF u \in verified THEN marked \cup {<<k, c, u>>} ELSE marked
    /\ UNCHANGED <<signing, rows, code, taken, sent, alongside, straddling>>

\* A sign-up will write the code back as it read it, or a run has listed it for
\* another user.
InOtherHands(c, u) ==
    \/ \E s \in SignUps : taken[s].of = c
    \/ \E k \in Ticks, v \in SignUps \ {u} : <<k, c, v>> \in sending

\* One listed row: a beginner's is left, a verified user's is saved as SUCCESS,
\* with the user that was listed.  The rows of a chunk are worked on together;
\* that a chunk waits for the one before it is left out.
Mark(k, c, u) ==
    /\ <<k, c, u>> \in sending
    /\ sending' = sending \ {<<k, c, u>>}
    /\ IF u \in verified
       THEN /\ code' = [code EXCEPT ![c] = [status |-> "SUCCESS", user |-> u]]
            /\ marked' = marked \cup {<<k, c, u>>}
            /\ straddling' = IF InOtherHands(c, u) THEN straddling \cup {c}
                             ELSE straddling
       ELSE UNCHANGED <<code, marked, straddling>>
    /\ UNCHANGED <<signing, rows, taken, sent, alongside>>

SendCode(k, c, u) ==
    /\ <<k, c, u>> \in marked
    /\ marked' = marked \ {<<k, c, u>>}
    /\ sent' = [sent EXCEPT ![c] = @ \cup {u}]
    /\ UNCHANGED <<signing, rows, code, taken, sending, alongside, straddling>>

\* A listed row gets no further: its query, its save or its message fails, the
\* run was ended by another row's failure, or the process died.
DropRow(k, c, u) ==
    /\ <<k, c, u>> \in sending \cup marked
    /\ sending' = sending \ {<<k, c, u>>}
    /\ marked' = marked \ {<<k, c, u>>}
    /\ UNCHANGED <<signing, rows, code, taken, sent, alongside, straddling>>

SignUpStep(s) ==
    \/ LookUp(s)
    \/ SaveUser(s)
    \/ SaveMethod(s)
    \/ SkipMethod(s)
    \/ CheckReferral(s)
    \/ FindCode(s)
    \/ TakeCode(s)
    \/ RecordReferral(s)
    \/ Abandon(s)

SignUpNext ==
    \/ \E s \in SignUps, number \in Phones :
          (\E ref \in Referrals : Start(s, number, ref)) \/ StartUssd(s, number)
    \/ \E s \in SignUps : SignUpStep(s)
    \/ \E u \in SignUps : Approve(u)
    \/ \E k \in Ticks : ListGiven(k)
    \/ \E k \in Ticks, c \in Codes, u \in SignUps :
          Mark(k, c, u) \/ SendCode(k, c, u) \/ DropRow(k, c, u)

SignUpSpec == SignUpInit /\ [][SignUpNext]_signUpVars

-----------------------------------------------------------------------------
\* The app gives a phone number to one user: of two users with it, one came
\* over USSD, or both were being signed up at a time.
OneUserPerPhone ==
    \A u, v \in users :
        (u # v /\ phone[u] = phone[v])
            => "ussd" \in {channel[u], channel[v]} \/ phone[u] \in alongside

\* A promo code, though it may pass from user to user before, is sent to one,
\* however the cron's runs overlap, unless while a run marked it a sign-up held
\* a copy or a run had it listed for another user.
CodeSentOnce == \A c \in Codes : Cardinality(sent[c]) > 1 => c \in straddling

=============================================================================
