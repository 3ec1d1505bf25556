----------------------------- MODULE MCCashback -----------------------------
(* Two referees; u2 stays a beginner.  Either both were brought by the same   *)
(* referrer, or an influencer brought u1; in the second case the half-hourly  *)
(* cron may overlap with itself while the daily one rests.  Or somebody has   *)
(* no primary account: u2, who may then be verified too, or the referrer.     *)
EXTENDS Cashback

CONSTANTS u1, u2, r2

Busy == {r \in Runs : \E u \in Referees : pay[<<r, u>>] # "idle"}

Bound ==
    /\ level[u2] = "beginner" \/ u2 \in accountless
    /\ accountless # {} => r2 \notin Busy
    /\ Referrer \in accountless => Busy = {}
    /\ Busy = Runs => brought # {} /\ \A u \in Referees : move[u] = "idle"
    /\ brought = {} => r2 \notin Busy

MCInit ==
    /\ Init
    /\ brought \subseteq {u1}
    /\ accountless \subseteq (IF brought = {} THEN {Referrer} ELSE {u2})

MCNext == Next /\ Bound'

MCSpec ==
    /\ MCInit /\ [][MCNext]_vars
    /\ WF_vars(\E r \in Runs : ListUnpaid(r))
    /\ \A r \in Runs : WF_vars(NextChunk(r))
    /\ \A r \in Runs, u \in Referees : WF_vars(PayStep(r, u))
=============================================================================
