----------------------------- MODULE ChainlinkFeed -----------------------------
(***************************************************************************)
(* The Chainlink feed pallet: every dispatchable of the module, the        *)
(* FeedOracle entry point for other pallets and the passing of blocks, as  *)
(* one next-state relation over the storage of the pallet, and the         *)
(* read-only FeedInterface consumers query.                                *)
(*                                                                         *)
(* The runtime executes the calls of a block one after the other; a step   *)
(* is one call that succeeds.  Which account makes which call, and in      *)
(* which order, is not constrained.                                        *)
(***************************************************************************)
EXTENDS RoundLifecycle, FeedAdmin, Pruning

CONSTANTS
    Creators,       \* the accounts that create feeds
    Successors,     \* the accounts named as new owner or new admin
    RequesterAccounts,     \* the accounts named to set_requester
    Recipients,     \* the accounts named as recipient of a withdrawal
    ConsumerFeeds   \* the feeds other pallets of the runtime request rounds of

ASSUME /\ Creators \subseteq Accounts
       /\ Successors \subseteq Accounts
       /\ RequesterAccounts \subseteq Accounts
       /\ Recipients \subseteq Accounts
       /\ ConsumerFeeds \subseteq FeedIds

Init == StorageInit

(* An oracle submits. *)
SubmitCall ==
    \E a \in Accounts, f \in FeedIds, r \in RoundIds, v \in SubmissionValues :
        Submit(a, f, r, v)

(* Any other call of the pallet, or the passing of a block. *)
OtherCall ==
    \/ NextBlock
    \/ \E a \in Creators, p \in FeedParams : CreateFeed(a, p)
    \/ \E a \in Accounts, f \in FeedIds, d \in DisableLists, t \in AddLists :
            ChangeOracles(a, f, d, t)
    \/ \E a \in Accounts, f \in FeedIds, p \in FutureRoundParams :
            UpdateFutureRounds(a, f, p)
    \/ \E a, o \in Accounts, r \in Recipients, m \in WithdrawAmounts :
            WithdrawPayment(a, o, r, m)
    \/ \E a \in Accounts, r \in Recipients, m \in WithdrawAmounts :
            WithdrawFunds(a, r, m)
    \/ \E a, o \in Accounts, n \in Successors : TransferAdmin(a, o, n)
    \/ \E a, o \in Accounts : AcceptAdmin(a, o)
    \/ \E a \in Accounts, f \in FeedIds : RequestNewRound(a, f)
    \/ \E f \in ConsumerFeeds : FeedOracleRequestNewRound(f)
    \/ \E a \in Accounts, f \in FeedIds, r \in RequesterAccounts,
          d \in RequesterDelays : SetRequester(a, f, r, d)
    \/ \E a \in Accounts, f \in FeedIds, r \in RequesterAccounts :
            RemoveRequester(a, f, r)
    \/ \E a \in Accounts, f \in FeedIds, n \in Successors :
            TransferOwnership(a, f, n)
    \/ \E a \in Accounts, f \in FeedIds : AcceptOwnership(a, f)
    \/ \E a \in Accounts, n \in Successors : TransferPalletAdmin(a, n)
    \/ \E a \in Accounts : AcceptPalletAdmin(a)
    \/ \E a \in Accounts, f \in FeedIds, first, keep \in 1..(MaxRound + 1) :
            Prune(a, f, first, keep)

Next == SubmitCall \/ OtherCall

Spec == Init /\ [][Next]_vars

-----------------------------------------------------------------------------
(* FeedInterface, the read side other pallets use through a Feed object:   *)
(* the id of a feed and a copy of its configuration, which is as old as    *)
(* the last `feed(id)` or `reload()`.  The data of a round are read from   *)
(* the storage when they are asked for.                                    *)

(* `FeedOracle::feed(id)`: the proxy of a feed that exists. *)
Feed(id) ==
    IF feeds[id] = None THEN None ELSE [id |-> id, config |-> feeds[id]]

(* `reload()`: the proxy with the configuration as it is stored now. *)
Reload(feed) == [feed EXCEPT !.config = feeds[feed.id]]

(* `first_valid_round()` and `latest_round()` answer from the copy. *)
FirstValidRound(feed) == feed.config.first_valid_round

LatestRound(feed) == feed.config.latest_round

(* `RoundData`: a round whose fields are all set.  `RoundData::default()`  *)
(* is the one of zeros.                                                    *)
RoundData ==
    [started_at : Nat, answer : Values, updated_at : Nat,
     answered_in_round : RoundIds]

DefaultRoundData ==
    [started_at |-> 0, answer |-> 0, updated_at |-> 0, answered_in_round |-> 0]

(* `RoundData::try_from(round)`: the round has data only if answer,        *)
(* updated_at and answered_in_round are all set. *)
HasData(round) ==
    /\ round.answered_in_round # None
    /\ round.answer # None
    /\ round.updated_at # None

(* `data_at(round)`: the data of a stored round that has them, else None. *)
DataAt(feed, round_id) ==
    LET r == rounds[feed.id, round_id]
    IN  IF r # None /\ HasData(r) THEN r ELSE None

(* `latest_data()`: the data of the latest round of the copy, or the       *)
(* default RoundData when that round has none.                             *)
LatestData(feed) ==
    LET data == DataAt(feed, LatestRound(feed))
    IN  IF data # None THEN data ELSE DefaultRoundData

=============================================================================
