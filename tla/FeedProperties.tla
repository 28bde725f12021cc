---------------------------- MODULE FeedProperties ----------------------------
(***************************************************************************)
(* What the Chainlink feed pallet is to guarantee, as invariants and       *)
(* action properties of ChainlinkFeed.  The first part holds of the code;  *)
(* the second part is what its documentation and its own assertion say and *)
(* the code does not keep.                                                 *)
(***************************************************************************)
EXTENDS ChainlinkFeed, MedianReference

ExistingFeeds == {f \in FeedIds : feeds[f] # None}

(* The oracles of a feed that are enabled: they have a status without an   *)
(* ending round.                                                           *)
EnabledOracles(f) ==
    {a \in Accounts : /\ oracleStati[f, a] # None
                      /\ oracleStati[f, a].ending_round = None}

(* What the pallet owes its oracles. *)
TotalWithdrawable ==
    MapThenSumSet(LAMBDA a : oracles[a].withdrawable,
                  {a \in Accounts : oracles[a] # None})

-----------------------------------------------------------------------------
(* The oracle_count of a feed, which change_oracles and add_oracles keep   *)
(* by arithmetic on the lengths of their arguments, is the number of       *)
(* oracles whose status in the feed is enabled, whatever lists with        *)
(* repeated, unknown or re-added oracles the owner has passed.             *)
OracleCountMatchesEnabled ==
    \A f \in ExistingFeeds :
        feeds[f].oracle_count = Cardinality(EnabledOracles(f))

(* The three two-step transfers of the pallet, each as an instance of      *)
(* TwoPhaseTransfer.  A feed that is not created and an oracle that is not *)
(* known have no holder.                                                   *)
FeedOwnership ==
    INSTANCE TwoPhaseTransfer WITH
        Roles <- FeedIds, Parties <- Accounts, Nobody <- None,
        holder <- [f \in FeedIds |-> IF feeds[f] = None THEN None
                                     ELSE feeds[f].owner],
        nominee <- [f \in FeedIds |-> IF feeds[f] = None THEN None
                                      ELSE feeds[f].pending_owner]

OracleAdministration ==
    INSTANCE TwoPhaseTransfer WITH
        Roles <- Accounts, Parties <- Accounts, Nobody <- None,
        holder <- [o \in Accounts |-> IF oracles[o] = None THEN None
                                      ELSE oracles[o].admin],
        nominee <- [o \in Accounts |-> IF oracles[o] = None THEN None
                                       ELSE oracles[o].pending_admin]

PalletAdministration ==
    INSTANCE TwoPhaseTransfer WITH
        Roles <- {PalletAccount}, Parties <- Accounts, Nobody <- None,
        holder <- [p \in {PalletAccount} |-> palletAdmin],
        nominee <- [p \in {PalletAccount} |-> pendingPalletAdmin]

(* The ownership of a feed implements the two-step transfer: create_feed   *)
(* establishes the owner, transfer_ownership nominates, accept_ownership   *)
(* hands the feed to the nominee and ends the nomination, and no other     *)
(* call that rewrites the FeedConfig (submit, change_oracles,              *)
(* update_future_rounds, prune) touches owner or pending_owner.            *)
FeedOwnerHandshake == FeedOwnership!Spec

(* The admin of an oracle, which all feeds share, implements the two-step  *)
(* transfer: add_oracles establishes the admin of an oracle it sees for    *)
(* the first time and never replaces the admin of a known one, whichever   *)
(* owner adds it with whichever admin; transfer_admin and accept_admin are *)
(* the only way the admin changes, also while submit and withdraw_payment  *)
(* rewrite the same OracleMeta.                                            *)
OracleAdminHandshake == OracleAdministration!Spec

(* The admin of the pallet implements the two-step transfer:               *)
(* accept_pallet_admin gives the role to the account                       *)
(* transfer_pallet_admin has named last, and to no other.                  *)
PalletAdminHandshake == PalletAdministration!Spec

(* The rounds of all feeds as an instance of RoundPhases: a round is      *)
(* absent while it is not stored, open while it has details, and closed    *)
(* when it is stored without them.  Details without a round are no phase.  *)
PhaseOf(k) ==
    CASE rounds[k] = None /\ details[k] = None -> "absent"
      [] rounds[k] # None /\ details[k] = None -> "closed"
      [] rounds[k] # None /\ details[k] # None /\ rounds[k].answer = None
            -> "pending"
      [] rounds[k] # None /\ details[k] # None /\ rounds[k].answer # None
            -> "answered"
      [] OTHER -> "broken"

RoundStates ==
    INSTANCE RoundPhases WITH
        Slots <- FeedIds \X RoundIds, Answers <- Values, NoAnswer <- None,
        phase <- [k \in FeedIds \X RoundIds |-> PhaseOf(k)],
        answer <- [k \in FeedIds \X RoundIds |->
                        IF rounds[k] = None THEN None ELSE rounds[k].answer]

(* The storage implements the round state machine of the design document   *)
(* ("Pending -> Answered -> Closed"): submit, the closing of a timed-out   *)
(* round when its successor opens, and prune move every round forward     *)
(* only; a closed round keeps its answer, whoever submits late and         *)
(* whichever round is opened after it; and no call leaves details behind   *)
(* for a round that is not stored.                                         *)
RoundsFollowPhases == RoundStates!Spec

(* An open round has no answer before its submissions reach the minimum    *)
(* count it was opened with, and from then on its answer is the median of  *)
(* exactly the submissions stored for it: submit, the opening of a round   *)
(* that is already stored, and a change of the configuration of the feed   *)
(* while the round is open all leave the round and its details in step.    *)
RoundAnswerMatchesSubmissions ==
    \A f \in FeedIds, r \in RoundIds :
        details[f, r] # None =>
            LET submissions == details[f, r].submissions
                min_count   == details[f, r].submission_count_bounds[1]
            IN  /\ rounds[f, r] # None
                /\ rounds[f, r].answer =
                      IF submissions # <<>> /\ Len(submissions) >= min_count
                      THEN MiddleOrderStatistic(submissions, ValueMax)
                      ELSE None

(* prune removes no round of the retention window: a round that a step     *)
(* deletes is not round 0 and lies more than PruningWindow rounds before   *)
(* the latest round, whatever first_to_prune and keep_round are passed.    *)
PruneKeepsRetentionWindow ==
    [][\A f \in FeedIds, r \in RoundIds :
          rounds[f, r] # None /\ rounds'[f, r] = None =>
              r > 0 /\ r + PruningWindow < feeds[f].latest_round]_vars

(* The first valid round of a feed is a round of the storage: prune,      *)
(* which moves the pointer to `keep_round.max(first_valid_round)`, never   *)
(* leaves it at a round that this or an earlier sweep has removed, also    *)
(* when a sweep starts above the pointer or ends below it.                 *)
FirstValidRoundIsStored ==
    \A f \in ExistingFeeds :
        LET first == FirstValidRound(Feed(f))
        IN  first # None => first \in RoundIds /\ rounds[f, first] # None

(* `latest_data()` finds the data of the latest round: "The latest round   *)
(* data should always be available", the debug_assert of latest_data.      *)
(* Late submissions to older rounds move latest_round back and prune       *)
(* removes rounds; neither leaves latest_round at a round without data.    *)
LatestDataAvailable ==
    \A f \in ExistingFeeds :
        DataAt(Feed(f), LatestRound(Feed(f))) \in RoundData

(* A consumer that follows the AnswerUpdated events of a feed knows what   *)
(* latest_data returns: whenever a call changes the latest data of a feed, *)
(* by a first answer, by a later submission to the same round or by a late *)
(* submission to an older one, it deposits an AnswerUpdated event with the *)
(* round, the answer and the block that latest_data then reports.          *)
LatestDataChangeIsAnnounced ==
    [][\A f \in ExistingFeeds :
          LatestData(Feed(f))' # LatestData(Feed(f)) =>
              <<"AnswerUpdated", f, LatestRound(Feed(f))',
                LatestData(Feed(f))'.answer, LatestData(Feed(f))'.updated_at>>
                  \in Range(events')]_vars

(* The oracles a subscriber holds to be enabled after `deposited`, when it *)
(* held `enabled` to be so before.                                         *)
Replay(enabled, f, deposited) ==
    FoldLeft(LAMBDA known, e :
                IF e[1] # "OraclePermissionsUpdated" \/ e[2] # f THEN known
                ELSE IF e[4] THEN known \cup {e[3]} ELSE known \ {e[3]},
             enabled, deposited)

(* An off-chain node that replays the OraclePermissionsUpdated events in   *)
(* the order they are deposited knows the enabled oracles of every feed:   *)
(* create_feed, the disable loop of change_oracles over the deduplicated   *)
(* list and the loop of add_oracles report every permission they change,   *)
(* and nothing else, also when one call disables and adds the same oracle. *)
PermissionEventsReplay ==
    [][\A f \in FeedIds :
          EnabledOracles(f)' = Replay(EnabledOracles(f), f, events')]_vars

(* Every payment credited to an oracle by submit was reserved in the fund: *)
(* what the oracles may withdraw never exceeds the reserved balance, also  *)
(* when the free balance of the fund runs out in the middle of a round.    *)
WithdrawableBackedByReserve == TotalWithdrawable <= fundReserved

(* A requester that has started a round starts its next one only more      *)
(* than `delay` rounds later (CannotRequestRoundYet of request_new_round), *)
(* also when the owner sets the requester again in between.                *)
RequesterCooldown ==
    [][\A f \in FeedIds, a \in Accounts :
          LET old == requesters[f, a]
              new == requesters'[f, a]
          IN  (/\ old # None /\ new # None
               /\ old.last_started_round # None
               /\ new.last_started_round # old.last_started_round)
              => /\ new.last_started_round # None
                 /\ new.last_started_round >
                        old.last_started_round + old.delay]_vars

(* An oracle that has started a round starts its next one only more than   *)
(* restart_delay rounds later (`eligible_to_start` of submit): no oracle   *)
(* drives the rounds of a feed alone.                                      *)
RestartDelayRespected ==
    [][\A f \in ExistingFeeds, a \in Accounts :
          LET old == oracleStati[f, a]
              new == oracleStati'[f, a]
          IN  (/\ old # None /\ new # None
               /\ old.last_started_round # None
               /\ new.last_started_round # None
               /\ new.last_started_round # old.last_started_round)
              => new.last_started_round >
                    old.last_started_round + feeds[f].restart_delay]_vars

(* An open round stops accepting submissions only when it is due: a       *)
(* submission to it reaches the maximum count it was opened with, prune    *)
(* removes the round, or the round, started after block 0, is older than   *)
(* its timeout when the next round is opened.  No call closes a round that *)
(* oracles may still answer.                                               *)
OpenRoundClosedOnlyWhenDue ==
    [][\A f \in FeedIds, r \in RoundIds :
          details[f, r] # None /\ details'[f, r] = None =>
              \/ /\ \E a \in Accounts :
                        /\ oracleStati'[f, a] # oracleStati[f, a]
                        /\ oracleStati'[f, a].last_reported_round = r
                 /\ Len(details[f, r].submissions) + 1 >=
                        details[f, r].submission_count_bounds[2]
              \/ rounds'[f, r] = None
              \/ /\ details[f, r].timeout > 0 /\ rounds[f, r].started_at > 0
                 /\ now > rounds[f, r].started_at + details[f, r].timeout]_vars

(* A round that closes because its submissions have reached the maximum   *)
(* count has an answer: Pending, Answered, Closed in this order.  The      *)
(* minimum count of the snapshot must not lie above its maximum, which     *)
(* update_future_rounds checks (WrongBounds) for the rounds opened later.  *)
FullRoundIsAnswered ==
    [][\A f \in FeedIds, r \in RoundIds :
          (/\ details[f, r] # None /\ details'[f, r] = None
           /\ \E a \in Accounts :
                 /\ oracleStati'[f, a] # oracleStati[f, a]
                 /\ oracleStati'[f, a].last_reported_round = r)
          => rounds'[f, r] # None /\ rounds'[f, r].answer # None]_vars

-----------------------------------------------------------------------------
(* "Opening round N+1 is only possible once round N has an answer or has   *)
(* timed out": the design document on submit and request_new_round.  A     *)
(* step that stores a round that was not stored finds its predecessor      *)
(* answered or timed out.                                                  *)
OpensOnlySupersedable ==
    [][\A f \in FeedIds, r \in RoundIds \ {MaxRound} :
          (/\ rounds[f, r] # None
           /\ rounds[f, r + 1] = None
           /\ rounds'[f, r + 1] # None)
          => \/ rounds[f, r].answer # None
             \/ TimedOut(RoundStore, f, r)]_vars

(* "Returns the id of the first round that contains non-default data"     *)
(* (FeedInterface::first_valid_round): once a feed has a first valid       *)
(* round, data_at finds data there, also after prune has moved the pointer *)
(* past rounds that were superseded or timed out without an answer.        *)
FirstValidRoundHasData ==
    \A f \in ExistingFeeds :
        LET first == FirstValidRound(Feed(f))
        IN  first # None =>
                first \in RoundIds /\ DataAt(Feed(f), first) \in RoundData

(* "A timed-out round, once superseded, inherits its predecessor's         *)
(* answer/answered-in-round exactly": the design document on               *)
(* close_timed_out_round, for a round that is pending when it times out.   *)
(* A step that opens round r + 1 and drops the details of the timed-out    *)
(* round r, which has no answer, leaves r with the answer of r - 1.        *)
TimedOutRoundInheritsAnswer ==
    [][\A f \in FeedIds, r \in RoundIds \ {0, MaxRound} :
          (/\ TimedOut(RoundStore, f, r)
           /\ rounds[f, r].answer = None
           /\ details'[f, r] = None
           /\ rounds[f, r - 1] # None
           /\ rounds'[f, r] # None
           /\ rounds[f, r + 1] = None /\ rounds'[f, r + 1] # None)
          => /\ rounds'[f, r].answer = rounds[f, r - 1].answer
             /\ rounds'[f, r].answered_in_round =
                    rounds[f, r - 1].answered_in_round]_vars

(* What an oracle has earned can be paid out: submit reserves "the         *)
(* corresponding funds" for every credit it gives, so a withdraw_payment   *)
(* of the whole withdrawable amount of an oracle finds the funds for its   *)
(* transfer.                                                               *)
CreditCanBePaidOut ==
    \A o \in Accounts :
        (oracles[o] # None /\ oracles[o].withdrawable > 0)
            => oracles[o].withdrawable + ExistentialDeposit <= fundFree

=============================================================================
