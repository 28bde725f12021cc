------------------------------ MODULE FeedAdmin ------------------------------
(***************************************************************************)
(* The calls of the owner of a feed and of the admin of the pallet:        *)
(* creating a feed, configuring its future rounds, the two-step transfers  *)
(* of the ownership of a feed and of the pallet admin, and the withdrawal  *)
(* of funds of the pallet.                                                 *)
(***************************************************************************)
EXTENDS OracleRegistry

CONSTANTS
    FeedParams,         \* the arguments offered to create_feed
    FutureRoundParams,  \* the arguments offered to update_future_rounds
    WithdrawAmounts     \* the amounts offered to the withdrawals

(* The arguments of create_feed; `description_len` stands for the          *)
(* description, of which only the length is checked.                       *)
FeedParamsType == [
    payment_amount : Nat,
    timeout : Nat,
    submission_value_bounds : Values \X Values,
    submission_count_bounds : Nat \X Nat,
    description_len : Nat,
    restart_delay : Nat,
    oracles : Seq(Accounts \X Accounts) ]

FutureRoundParamsType == [
    payment_amount : Nat,
    submission_count_bounds : Nat \X Nat,
    restart_delay : Nat,
    timeout : Nat ]

ASSUME /\ FeedParams \subseteq FeedParamsType
       /\ FutureRoundParams \subseteq FutureRoundParamsType
       /\ WithdrawAmounts \subseteq Nat

(* `create_feed(origin, ...)`: takes the next feed id, stores round 0 with *)
(* the answer 0 as the round the first rounds carry over from, adds the    *)
(* oracles and stores the configuration, in one transaction.  The count    *)
(* bounds and the restart delay are stored as given.                       *)
CreateFeed(owner, p) ==
    /\ p.description_len <= StringLimit                 \* DescriptionTooLong
    /\ feedCounter < MaxFeeds                           \* bound; Overflow
    /\ LET id == feedCounter
           new_feed == [
                owner |-> owner,
                pending_owner |-> None,
                payment_amount |-> p.payment_amount,
                timeout |-> p.timeout,
                submission_value_bounds |-> p.submission_value_bounds,
                submission_count_bounds |-> p.submission_count_bounds,
                restart_delay |-> p.restart_delay,
                latest_round |-> 0,
                reporting_round |-> 0,
                first_valid_round |-> None,
                oracle_count |-> 0 ]
           added == AddOracles(OracleStore, id, new_feed, p.oracles)
       IN  /\ added.ok
           /\ feedCounter' = id + 1
           /\ rounds' = [rounds EXCEPT ![id, 0] =
                [started_at |-> now, answer |-> 0, updated_at |-> now,
                 answered_in_round |-> 0]]
           /\ oracles' = added.oracles
           /\ oracleStati' = added.stati
           /\ feeds' = [feeds EXCEPT ![id] =
                [new_feed EXCEPT !.oracle_count = Len(p.oracles)]]
           /\ Deposit(Append(added.events, <<"FeedCreated", id, owner>>))
    /\ UNCHANGED <<now, adminVars, details, requesters, ledgerVars>>

(* A check of the count bounds that accepts every pair. *)
BoundsUnchecked(bounds) == TRUE

(* `ensure!(max >= min, WrongBounds)`. *)
BoundsOrdered(bounds) == bounds[2] >= bounds[1]

(* `update_future_rounds(origin, feed_id, ...)`: the owner sets what the   *)
(* rounds opened from now on snapshot.  The maximum count may not exceed   *)
(* the number of enabled oracles, and at least one oracle must be able to  *)
(* start a round.                                                          *)
UpdateFutureRounds(sender, f, p) ==
    /\ BoundsOrdered(p.submission_count_bounds)         \* WrongBounds
    /\ feeds[f] # None                                  \* FeedNotFound
    /\ feeds[f].owner = sender                          \* NotFeedOwner
    /\ feeds[f].oracle_count >= p.submission_count_bounds[2] \* MaxExceededTotal
    /\ feeds[f].oracle_count > p.restart_delay          \* DelayExceededTotal
    /\ feeds' = [feeds EXCEPT ![f] =
            [@ EXCEPT !.payment_amount = p.payment_amount,
                      !.submission_count_bounds = p.submission_count_bounds,
                      !.restart_delay = p.restart_delay,
                      !.timeout = p.timeout]]
    /\ Emit(<<"RoundDetailsUpdated", p.payment_amount,
                  p.submission_count_bounds, p.restart_delay, p.timeout>>)
    /\ UNCHANGED <<now, adminVars, feedCounter, roundVars, oracleVars,
                   requesters, ledgerVars>>

-----------------------------------------------------------------------------
(* `transfer_ownership(origin, feed_id, new_owner)`. *)
TransferOwnership(old_owner, f, new_owner) ==
    /\ feeds[f] # None                                  \* FeedNotFound
    /\ feeds[f].owner = old_owner                       \* NotFeedOwner
    /\ feeds' = [feeds EXCEPT ![f].pending_owner = new_owner]
    /\ Emit(<<"OwnerUpdateRequested", f, old_owner, new_owner>>)
    /\ UNCHANGED <<now, adminVars, feedCounter, roundVars, oracleVars,
                   requesters, ledgerVars>>

(* A feed that changes hands and keeps its nomination: the former         *)
(* nominee may take the feed back after a later transfer.                  *)
OwnedKeepingPending(feed, new_owner) == [feed EXCEPT !.owner = new_owner]

(* The feed of the owner who accepted: the nomination ends with it.       *)
OwnedBy(feed, new_owner) ==
    [feed EXCEPT !.pending_owner = None, !.owner = new_owner]

(* `accept_ownership(origin, feed_id)`. *)
AcceptOwnership(new_owner, f) ==
    /\ feeds[f] # None                                  \* FeedNotFound
    /\ feeds[f].pending_owner = new_owner               \* NotPendingOwner
    /\ feeds' = [feeds EXCEPT ![f] = OwnedBy(@, new_owner)]
    /\ Emit(<<"OwnerUpdated", f, new_owner>>)
    /\ UNCHANGED <<now, adminVars, feedCounter, roundVars, oracleVars,
                   requesters, ledgerVars>>

(* `transfer_pallet_admin(origin, new_pallet_admin)`. *)
TransferPalletAdmin(old_admin, new_pallet_admin) ==
    /\ palletAdmin = old_admin                          \* NotPalletAdmin
    /\ pendingPalletAdmin' = new_pallet_admin
    /\ Emit(<<"PalletAdminUpdateRequested", old_admin, new_pallet_admin>>)
    /\ UNCHANGED <<now, palletAdmin, feedCounter, feeds, roundVars,
                   oracleVars, requesters, ledgerVars>>

(* A test that any account passes once a transfer is pending: the         *)
(* comparison with the caller left out.                                    *)
AnyoneWhilePending(account) == pendingPalletAdmin # None

(* `ensure!(PendingPalletAdmin == Some(account), NotPendingPalletAdmin)`. *)
IsPendingPalletAdmin(account) == pendingPalletAdmin = account

(* `accept_pallet_admin(origin)`. *)
AcceptPalletAdmin(new_pallet_admin) ==
    /\ IsPendingPalletAdmin(new_pallet_admin)
    /\ pendingPalletAdmin' = None
    /\ palletAdmin' = new_pallet_admin
    /\ Emit(<<"PalletAdminUpdated", new_pallet_admin>>)
    /\ UNCHANGED <<now, feedCounter, feeds, roundVars, oracleVars,
                   requesters, ledgerVars>>

-----------------------------------------------------------------------------
(* `withdraw_funds(origin, recipient, amount)`: the pallet admin takes     *)
(* free funds out of the fund, which must keep the minimum reserve.        *)
WithdrawFunds(sender, recipient, amount) ==
    /\ sender = palletAdmin                             \* NotPalletAdmin
    /\ amount <= fundFree                               \* InsufficientFunds
    /\ fundFree - amount >= MinimumReserve              \* InsufficientReserve
    /\ Transfer(recipient, amount)
    /\ Deposit(<<>>)
    /\ UNCHANGED <<now, adminVars, feedCounter, feeds, roundVars,
                   oracleVars, requesters>>

(* `withdraw_payment(origin, oracle, recipient, amount)`: the admin of an  *)
(* oracle takes out what the oracle has earned.  The amount is paid from   *)
(* the free balance of the fund.                                           *)
WithdrawPayment(admin, oracle, recipient, amount) ==
    /\ oracles[oracle] # None                           \* OracleNotFound
    /\ oracles[oracle].admin = admin                    \* NotAdmin
    /\ amount <= oracles[oracle].withdrawable           \* InsufficientFunds
    /\ Transfer(recipient, amount)
    /\ oracles' = [oracles EXCEPT ![oracle].withdrawable = @ - amount]
    /\ Deposit(<<>>)
    /\ UNCHANGED <<now, adminVars, feedCounter, feeds, roundVars,
                   oracleStati, requesters>>

=============================================================================
