------------------------------ MODULE FeedAudit ------------------------------
(***************************************************************************)
(* The feed pallet with a record of the submissions it has accepted.  The  *)
(* pallet keeps of an oracle only the last round it reported for, and a    *)
(* status is replaced when the oracle is added again; what an oracle has   *)
(* been paid for over time is not in the storage.  `reported` is a history *)
(* variable: no call reads it.                                             *)
(***************************************************************************)
EXTENDS FeedProperties

VARIABLE reported   \* (feed, oracle) -> the rounds of its accepted submissions

auditVars == <<vars, reported>>

AuditInit ==
    /\ Init
    /\ reported = [k \in FeedIds \X Accounts |-> <<>>]

(* A submission is accepted and recorded. *)
AuditedSubmit ==
    \E a \in Accounts, f \in FeedIds, r \in RoundIds, v \in SubmissionValues :
        /\ Submit(a, f, r, v)
        /\ reported' = [reported EXCEPT ![f, a] = Append(@, r)]

AuditedOtherCall == OtherCall /\ UNCHANGED reported

AuditNext == AuditedSubmit \/ AuditedOtherCall

AuditSpec == AuditInit /\ [][AuditNext]_auditVars

-----------------------------------------------------------------------------
(* "An oracle can never successfully report two submissions for            *)
(* non-increasing round ids on the same feed" (ReportingOrder of           *)
(* ensure_round_valid_for): the rounds an oracle has been paid for in a    *)
(* feed are strictly increasing.                                           *)
ReportingOrder ==
    \A k \in DOMAIN reported :
        \A i, j \in DOMAIN reported[k] :
            i < j => reported[k][i] < reported[k][j]

=============================================================================
