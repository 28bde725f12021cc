---------------------------- MODULE OracleRegistry ----------------------------
(***************************************************************************)
(* The oracle registry of the pallet: which accounts may submit to a feed  *)
(* (OracleStati), who administers an oracle and what it may withdraw       *)
(* (Oracles), and the two-step transfer of an oracle's admin.              *)
(***************************************************************************)
EXTENDS FeedStorage, SequencesExt

CONSTANTS
    DisableLists,   \* the `to_disable` vectors offered to change_oracles
    AddLists        \* the `to_add` vectors of (oracle, admin) pairs

ASSUME /\ DisableLists \subseteq Seq(Accounts)
       /\ AddLists \subseteq Seq(Accounts \X Accounts)

NewOracleMeta(admin) ==
    [withdrawable |-> 0, admin |-> admin, pending_admin |-> None]

NewOracleStatus(starting_round) ==
    [starting_round |-> starting_round, ending_round |-> None,
     last_reported_round |-> None, last_started_round |-> None]

(* The oracle part of the storage as one value, for the handlers that are  *)
(* called from inside a transaction of another handler.                    *)
OracleStore ==
    [ok |-> TRUE, oracles |-> oracles, stati |-> oracleStati, events |-> <<>>]

Failed(store) == [store EXCEPT !.ok = FALSE]

(* An event that reports every change of a permission as an enabling. *)
PermissionsUpdatedAlwaysEnabled(f, oracle, enabled) ==
    <<"OraclePermissionsUpdated", f, oracle, TRUE>>

(* `RawEvent::OraclePermissionsUpdated(feed_id, oracle, enabled)`. *)
PermissionsUpdated(f, oracle, enabled) ==
    <<"OraclePermissionsUpdated", f, oracle, enabled>>

-----------------------------------------------------------------------------
(* A try_mutate that gives a known oracle the admin of the call: the      *)
(* `ensure!(meta.admin == admin)` arm replaced by an assignment.           *)
OracleMetaOverwritingAdmin(meta, admin) ==
    IF meta = None THEN NewOracleMeta(admin) ELSE [meta EXCEPT !.admin = admin]

(* The try_mutate of Oracles in add_oracles: a new oracle gets fresh meta  *)
(* data, a known one keeps its own and must come with its stored admin     *)
(* (OwnerCannotChangeAdmin, here None).                                    *)
OracleMetaFor(meta, admin) ==
    CASE meta = None -> NewOracleMeta(admin)
      [] meta # None /\ meta.admin = admin -> meta
      [] OTHER -> None

(* One iteration of the loop of add_oracles: the meta data as above; the   *)
(* status of the oracle in the feed must be absent or disabled             *)
(* (AlreadyEnabled) and is replaced by a fresh one.  An error in an        *)
(* earlier iteration ends the loop.                                        *)
AddOracle(store, f, starting_round, pair) ==
    LET oracle == pair[1]
        meta   == OracleMetaFor(store.oracles[oracle], pair[2])
        status == store.stati[f, oracle]
    IN  IF \/ ~store.ok
           \/ meta = None
           \/ status # None /\ status.ending_round = None
        THEN Failed(store)
        ELSE [store EXCEPT
                !.oracles[oracle] = meta,
                !.stati[f, oracle] = NewOracleStatus(starting_round),
                !.events = Append(@, PermissionsUpdated(f, oracle, TRUE))]

(* An add_oracles without the check of the count against the limit. *)
AddOraclesWithoutLimit(store, f, feed, to_add) ==
    FoldLeft(LAMBDA s, pair : AddOracle(s, f, feed.reporting_round, pair),
             store, to_add)

(* `add_oracles(feed, feed_id, to_add)` on the given oracle store: the     *)
(* store after the loop, failed if the count would pass the limit          *)
(* (OraclesLimitExceeded) or an iteration failed.  The caller adds         *)
(* Len(to_add) to feed.oracle_count.                                       *)
AddOracles(store, f, feed, to_add) ==
    IF feed.oracle_count + Len(to_add) > OracleCountLimit
    THEN Failed(store)
    ELSE FoldLeft(LAMBDA s, pair : AddOracle(s, f, feed.reporting_round, pair),
                  store, to_add)

-----------------------------------------------------------------------------
(* The loop of change_oracles that forgets `to_disable.dedup()` counts a   *)
(* repeated oracle twice.                                                  *)
DisabledCountWithoutDedup(to_disable) == Len(to_disable)

(* `to_disable.sort(); to_disable.dedup(); to_disable.len()`. *)
DisabledCount(to_disable) == Cardinality(ToSet(to_disable))

(* The `for d in to_disable` loop: every oracle must have a status         *)
(* (OracleNotFound) that is not yet disabled (OracleDisabled); its last    *)
(* round becomes the reporting round, and an event reports it.  The order *)
(* of the sorted vector is some order of its oracles.                      *)
DisableOracles(store, f, feed, to_disable) ==
    LET disabled == ToSet(to_disable)
    IN  IF \E d \in disabled :
              \/ store.stati[f, d] = None
              \/ store.stati[f, d].ending_round # None
        THEN Failed(store)
        ELSE [store EXCEPT
                !.stati =
                    [k \in DOMAIN @ |->
                        IF k[1] = f /\ k[2] \in disabled
                        THEN [@[k] EXCEPT !.ending_round = feed.reporting_round]
                        ELSE @[k]],
                !.events =
                    [i \in 1..Cardinality(disabled) |->
                        PermissionsUpdated(f, SetToSeq(disabled)[i], FALSE)]]

(* `change_oracles(origin, feed_id, to_disable, to_add)`: the owner of the *)
(* feed disables some oracles and adds others, in one transaction.         *)
ChangeOracles(sender, f, to_disable, to_add) ==
    /\ feeds[f] # None                                  \* FeedNotFound
    /\ feeds[f].owner = sender                          \* NotFeedOwner
    /\ LET feed == [feeds[f] EXCEPT !.oracle_count =
                        SaturatingSub(@, DisabledCount(to_disable))]
           disabled == DisableOracles(OracleStore, f, feed, to_disable)
           added == AddOracles(disabled, f, feed, to_add)
       IN  /\ added.ok
           /\ oracles' = added.oracles
           /\ oracleStati' = added.stati
           /\ feeds' = [feeds EXCEPT ![f] =
                            [feed EXCEPT !.oracle_count = @ + Len(to_add)]]
           /\ Deposit(added.events)
    /\ UNCHANGED <<now, adminVars, feedCounter, roundVars, requesters,
                   ledgerVars>>

-----------------------------------------------------------------------------
(* A validity check that lets an oracle report once more for the round it  *)
(* reported last: `l <= round_id` for `l < round_id`.                      *)
RoundValidForLastReportedAgain(f, acc, round_id) ==
    LET o == oracleStati[f, acc]
    IN  /\ o # None
        /\ o.starting_round <= round_id
        /\ o.ending_round # None => o.ending_round >= round_id
        /\ o.last_reported_round # None => o.last_reported_round <= round_id

(* `ensure_round_valid_for(feed, acc, round_id)`: the account is an oracle *)
(* of the feed (NotOracle), enabled from a round not after this one        *)
(* (OracleNotEnabled) and not disabled before it (OracleDisabled), and has *)
(* not yet reported for this or a later round (ReportingOrder).            *)
RoundValidFor(f, acc, round_id) ==
    LET o == oracleStati[f, acc]
    IN  /\ o # None
        /\ o.starting_round <= round_id
        /\ o.ending_round # None => o.ending_round >= round_id
        /\ o.last_reported_round # None => o.last_reported_round < round_id

-----------------------------------------------------------------------------
(* `transfer_admin(origin, oracle, new_admin)`: the admin of an oracle     *)
(* names the account that may take the role over.                          *)
TransferAdmin(old_admin, oracle, new_admin) ==
    /\ oracles[oracle] # None                           \* OracleNotFound
    /\ oracles[oracle].admin = old_admin                \* NotAdmin
    /\ oracles' = [oracles EXCEPT ![oracle].pending_admin = new_admin]
    /\ Emit(<<"OracleAdminUpdateRequested", oracle, old_admin, new_admin>>)
    /\ UNCHANGED <<now, adminVars, feedCounter, feeds, roundVars,
                   oracleStati, requesters, ledgerVars>>

(* `accept_admin(origin, oracle)`: the pending admin takes the role. *)
AcceptAdmin(new_admin, oracle) ==
    /\ oracles[oracle] # None                           \* OracleNotFound
    /\ oracles[oracle].pending_admin = new_admin        \* NotPendingAdmin
    /\ oracles' = [oracles EXCEPT ![oracle].pending_admin = None,
                                  ![oracle].admin = new_admin]
    /\ Emit(<<"OracleAdminUpdated", oracle, new_admin>>)
    /\ UNCHANGED <<now, adminVars, feedCounter, feeds, roundVars,
                   oracleStati, requesters, ledgerVars>>

=============================================================================
