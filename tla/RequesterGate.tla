---------------------------- MODULE RequesterGate ----------------------------
(***************************************************************************)
(* The requester gate of the pallet: the accounts the owner of a feed      *)
(* permits to start rounds without submitting, each with the number of     *)
(* rounds it has to wait between two rounds it starts.                     *)
(***************************************************************************)
EXTENDS FeedStorage

CONSTANT RequesterDelays    \* the `delay` arguments offered to set_requester

ASSUME RequesterDelays \subseteq Nat

(* `set_requester(origin, feed_id, requester, delay)`: creates the record  *)
(* of the requester or updates the delay of the one it has, which keeps    *)
(* its last started round.                                                 *)
SetRequester(owner, f, requester, delay) ==
    /\ feeds[f] # None                                  \* FeedNotFound
    /\ feeds[f].owner = owner                           \* NotFeedOwner
    /\ requesters' = [requesters EXCEPT ![f, requester] =
            [delay |-> delay,
             last_started_round |->
                IF @ = None THEN None ELSE @.last_started_round]]
    /\ Emit(<<"RequesterPermissionsSet", f, requester, TRUE, delay>>)
    /\ UNCHANGED <<now, adminVars, feedCounter, feeds, roundVars,
                   oracleVars, ledgerVars>>

(* `remove_requester(origin, feed_id, requester)`. *)
RemoveRequester(owner, f, requester) ==
    /\ feeds[f] # None                                  \* FeedNotFound
    /\ feeds[f].owner = owner                           \* NotFeedOwner
    /\ requesters[f, requester] # None                  \* RequesterNotFound
    /\ requesters' = [requesters EXCEPT ![f, requester] = None]
    /\ Emit(<<"RequesterPermissionsSet", f, requester, FALSE,
                  requesters[f, requester].delay>>)
    /\ UNCHANGED <<now, adminVars, feedCounter, feeds, roundVars,
                   oracleVars, ledgerVars>>

(* A cooldown that lets a requester start the round right after the delay *)
(* has passed, one round early.                                            *)
MayRequestOneRoundEarly(requester, new_round) ==
    \/ requester.last_started_round = None
    \/ new_round >= UnwrapOr(requester.last_started_round, 0) + requester.delay

(* The cooldown of request_new_round: a requester that has started a round *)
(* may start `new_round` only if it lies more than `delay` rounds after    *)
(* that one (CannotRequestRoundYet).                                       *)
MayRequest(requester, new_round) ==
    \/ requester.last_started_round = None
    \/ new_round > UnwrapOr(requester.last_started_round, 0) + requester.delay

=============================================================================
