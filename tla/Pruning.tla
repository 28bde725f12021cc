------------------------------- MODULE Pruning -------------------------------
(***************************************************************************)
(* The pruning sweep of the pallet: the owner of a feed removes old rounds *)
(* from the storage.                                                       *)
(***************************************************************************)
EXTENDS FeedStorage

(* A sweep that stops where the caller asks, the retention window not     *)
(* applied.                                                                *)
KeepRoundUnclamped(feed, keep_round) == keep_round

(* The round up to which prune removes: the one the caller names, but not  *)
(* inside the PruningWindow rounds before the latest round.                *)
KeepRound(feed, keep_round) ==
    LET kept == SaturatingSub(feed.latest_round, PruningWindow)
    IN  IF kept < keep_round THEN kept ELSE keep_round

(* A pointer that follows the sweep also when it ends below the pointer. *)
FirstValidAfterSweepOnly(keep, first_valid_round) == keep

(* `Some(keep_round.max(first_valid_round))`: the pointer never moves     *)
(* back.                                                                   *)
FirstValidAfter(keep, first_valid_round) ==
    IF keep > first_valid_round THEN keep ELSE first_valid_round

(* `prune(origin, feed_id, first_to_prune, keep_round)`: removes the       *)
(* rounds and details from first_to_prune up to, not including, the        *)
(* clamped keep_round, and moves first_valid_round up to it.               *)
Prune(owner, f, first_to_prune, keep_round) ==
    /\ first_to_prune > 0                               \* CannotPruneRoundZero
    /\ keep_round > first_to_prune                      \* CannotPruneRoundZero
    /\ feeds[f] # None                                  \* FeedNotFound
    /\ feeds[f].owner = owner                           \* NotFeedOwner
    /\ feeds[f].first_valid_round # None                \* NothingToPrune
    /\ SaturatingSub(feeds[f].latest_round, first_to_prune) > PruningWindow
                                                        \* NothingToPrune
    /\ LET keep   == KeepRound(feeds[f], keep_round)
           pruned == {k \in DOMAIN rounds :
                        k[1] = f /\ first_to_prune <= k[2] /\ k[2] < keep}
       IN  /\ rounds' = [k \in DOMAIN rounds |->
                            IF k \in pruned THEN None ELSE rounds[k]]
           /\ details' = [k \in DOMAIN details |->
                            IF k \in pruned THEN None ELSE details[k]]
           /\ feeds' = [feeds EXCEPT ![f].first_valid_round =
                            FirstValidAfter(keep, @)]
    /\ Deposit(<<>>)
    /\ UNCHANGED <<now, adminVars, feedCounter, oracleVars, requesters,
                   ledgerVars>>

=============================================================================
