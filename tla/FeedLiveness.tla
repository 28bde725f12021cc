----------------------------- MODULE FeedLiveness -----------------------------
(***************************************************************************)
(* Progress of a feed.  The pallet takes no step of its own: whether a     *)
(* round is ever answered depends on the chain, which produces blocks, on  *)
(* the oracles, which report, and on the pallets that request rounds.      *)
(* What is assumed of them is weak fairness: a call that stays valid is    *)
(* eventually included in a block.  A call that is valid only now and then *)
(* may be dropped every time, and nothing is assumed of owners, admins and *)
(* the oracles that are not live.                                          *)
(***************************************************************************)
EXTENDS FeedProperties

CONSTANT LiveOracles    \* the oracles that keep reporting

ASSUME LiveOracles \subseteq Accounts

(* A live oracle reports for the reporting round of a feed. *)
ReportCurrent(o) ==
    \E f \in ExistingFeeds, v \in SubmissionValues :
        Submit(o, f, feeds[f].reporting_round, v)

Fairness ==
    /\ WF_vars(NextBlock)
    /\ \A o \in LiveOracles : WF_vars(ReportCurrent(o))
    /\ \A f \in ConsumerFeeds : WF_vars(FeedOracleRequestNewRound(f))

LiveSpec == Init /\ [][Next]_vars /\ Fairness

-----------------------------------------------------------------------------
ReportingRound(f) == IF feeds[f] = None THEN 0 ELSE feeds[f].reporting_round

Answered(f, r) == rounds[f, r] # None /\ rounds[f, r].answer # None

(* The round will be timed out before the clock of the model stops. *)
TimesOutInTime(f, r) ==
    /\ rounds[f, r] # None /\ details[f, r] # None
    /\ details[f, r].timeout > 0
    /\ rounds[f, r].started_at + details[f, r].timeout < MaxBlock

(* The live oracles that may still report for the round, together with   *)
(* the submissions the round has, reach its minimum count.                 *)
QuorumInReach(f, r) ==
    /\ details[f, r] # None
    /\ Len(details[f, r].submissions)
         + Cardinality({o \in LiveOracles : RoundValidFor(f, o, r)})
            >= details[f, r].submission_count_bounds[1]

(* A later round has been opened. *)
Superseded(f, r) == r < MaxRound /\ rounds[f, r + 1] # None

(* A reporting round that the live oracles can bring to its minimum count  *)
(* is answered, unless a later round takes its place first: submit counts  *)
(* every submission of a round, answers at the minimum count and keeps the *)
(* round open for the oracles that have not reported yet, as long as the   *)
(* fund covers their payment.                                              *)
ReportingRoundSettles ==
    \A f \in FeedIds, r \in 1..MaxRound :
        (ReportingRound(f) = r /\ QuorumInReach(f, r))
            ~> (Answered(f, r) \/ Superseded(f, r))

(* A round that does not reach its minimum count does not block the feed:  *)
(* once it has timed out, a pallet that asks for a new round gets one      *)
(* (timed_out and the supersedable test of request_new_round).             *)
StalledRoundGivesWay ==
    \A f \in FeedIds, r \in 1..(MaxRound - 1) :
        (ReportingRound(f) = r /\ TimesOutInTime(f, r))
            ~> (Answered(f, r) \/ Superseded(f, r))

=============================================================================
