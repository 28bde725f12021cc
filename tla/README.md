# TLA+ models of `pallet-chainlink-feed`

A verification development for the Chainlink price feed pallet of
`chainlink-polkadot` (`src/pallet-chainlink-feed/src/lib.rs`). The modules
model the storage of the pallet and every dispatchable; TLC checks them in
small instances. `PROJECT.json` holds the machine-readable index: components,
runs, the map from definitions to source lines, the mutants that show each
property is able to fail, the findings and the hazards.

## 1. The system

The pallet keeps any number of *feeds*. A feed has an owner, a set of oracles
and a sequence of *rounds*; in each round the oracles submit a value and the
pallet stores the median as the answer of the round. The parts, with the names
of the design document (`spec.md`):

| Part | Code (`lib.rs`) | What it does |
|---|---|---|
| Quorum Aggregator | `median` 50-59 | sorts the submissions of a round in place, returns the middle value or the saturating half sum of the two middle ones |
| Storage | `decl_storage!` 257-284, records 95-206 | `Feeds`, `Rounds`, `Details`, `Oracles`, `OracleStati`, `Requesters`, `FeedCounter`, `PalletAdmin`, `PendingPalletAdmin` |
| Oracle Registry | `change_oracles` 540-574, `add_oracles` 930-964, `ensure_round_valid_for` 860-870, `transfer_admin`/`accept_admin` 647-683 | enables and disables oracles per feed, keeps `oracle_count`, binds an oracle to its admin for all feeds |
| Round Lifecycle Controller | `submit` 456-537, `initialize_round` 875-894, `timed_out` 898-907, `close_timed_out_round` 913-925 | opens rounds, collects submissions, answers, pays, closes timed-out rounds |
| Requester Gate | `request_new_round` 686-718, `set_requester`/`remove_requester` 721-755, `FeedOracle::request_new_round` 1064-1082 | lets authorised accounts and other pallets open a round, with a cooldown per requester |
| Pruning Sweep | `prune` 825-855 | the owner deletes old rounds outside a retention window |
| Feed administration | `create_feed` 403-452, `update_future_rounds` 577-612 | creates feeds, reconfigures the rounds opened from now on |
| Handshakes | `transfer_ownership`/`accept_ownership` 758-792, `transfer_pallet_admin`/`accept_pallet_admin` 795-822 | two-step transfers of feed ownership and of the pallet admin |
| Payments | `withdraw_payment` 615-629, `withdraw_funds` 632-643, the reserve in `submit` 520-527 | oracle credit (`withdrawable`), the free and reserved balance of the fund account |
| Events | `decl_event!` 287-323, `deposit_event` 398 and its calls | thirteen kinds of notifications for off-chain subscribers; the pallet never reads them |
| Read side | `Feed` 996-999, `FeedInterface` impl 1001-1048, `FeedOracle::feed` 1056-1060, `RoundData` 195-204, `RoundData::try_from` 218-242 | a proxy with a copy of the configuration: `first_valid_round`, `latest_round`, `data_at`, `latest_data`, `reload` for consumers |
| Collaborators | not in this repository | the block number (`frame_system`), the balances (`Currency`) |

How they interact. All state is in the storage; the dispatchables are the only
steps and each runs to completion inside a storage transaction
(`with_transaction_result`, 38-47), so there is no concurrency below the level
of a call. What makes the pallet hard is the *order of calls of different
actors* on shared state: oracles submitting to several open rounds, a requester
or a consumer pallet opening rounds beside them, the clock timing rounds out,
the owner changing oracles and the configuration while rounds are open, the
owner pruning while late submissions move `latest_round`, and the fund running
out in the middle of a round.

## 2. Modules

```
FeedStorage ── OracleRegistry ──┬─ RoundLifecycle ─┐
            ├─ RequesterGate ───┘                  ├─ ChainlinkFeed ─ FeedProperties ─┬─ MCFeed ──────┐
            ├─ Pruning ────────────────────────────┤        │                         ├─ FeedAudit ───┴─ MCAudit
            └─ (OracleRegistry) ─ FeedAdmin ───────┘        │                         └─ FeedLiveness ─ MCLiveness
TwoPhaseTransfer ── instantiated three times by FeedProperties
RoundPhases ─────── instantiated by FeedProperties
Median ─ (RoundLifecycle),  Median + MedianReference ─ MCMedian
```

| Module | Models | State and actions |
|---|---|---|
| `Median` | `median` | operators `SortUnstable`, `MedianOfSorted`, `SaturatingAdd`, `Median`; the value type is `0..ValueMax` so that the saturation is reachable |
| `MedianReference` | nothing of the code | the order-statistic definition the median is compared with (`KthSmallest`, `MiddleOrderStatistic`) |
| `FeedStorage` | `decl_storage!`, the records, the `Trait` constants, the events, clock and ledger | one variable per storage item; a map is a total function with `None` for an absent key; `events` and `Deposit` for the events of a call; `NextBlock`, `Reserve`, `Transfer` stand for the collaborators |
| `OracleRegistry` | registry | `ChangeOracles`, `TransferAdmin`, `AcceptAdmin`; helpers `AddOracles`, `AddOracle`, `OracleMetaFor`, `DisableOracles`, `DisabledCount`, `RoundValidFor` |
| `RequesterGate` | requesters | `SetRequester`, `RemoveRequester`, the cooldown test `MayRequest` |
| `RoundLifecycle` | lifecycle | `Submit`, `RequestNewRound`, `FeedOracleRequestNewRound`; helpers `OpenRequestedRound`, `InitializeRound`, `OpenRound`, `TimedOut` (`Started`, `Ticking`, `CheckedAdd`, `TimedOutPanics`, `Expired`), `CloseTimedOutRound`, `Supersedable`, `EligibleToStart`, `CountBounds`, the events `NewRoundStarted` and `AnswerUpdated` |
| `FeedAdmin` | administration, handshakes, withdrawals | `CreateFeed`, `UpdateFutureRounds`, `TransferOwnership`, `AcceptOwnership`, `TransferPalletAdmin`, `AcceptPalletAdmin`, `WithdrawFunds`, `WithdrawPayment`; helpers `OwnedBy`, `IsPendingPalletAdmin`, `BoundsOrdered` |
| `Pruning` | prune | `Prune`, `KeepRound`, `FirstValidAfter` |
| `ChainlinkFeed` | the pallet | `Init`, `Next` = every dispatchable, the consumer entry point and `NextBlock`; the read side `Feed`, `Reload`, `FirstValidRound`, `LatestRound`, `DataAt`, `LatestData`, `RoundData` |
| `TwoPhaseTransfer` | nothing of the code | the abstract specification of a role that changes hands in two steps: `holder`, `nominee`; `Establish`, `Propose`, `Accept` |
| `RoundPhases` | nothing of the code | the abstract specification of the life of a round: `phase`, `answer`; `Advance`, `Remove` |
| `FeedProperties` | | the invariants and action properties, the three refinement mappings to `TwoPhaseTransfer` and the one to `RoundPhases` |
| `FeedAudit` | | `ChainlinkFeed` with a history variable `reported`: the rounds each oracle was paid for, in order |
| `FeedLiveness` | | `ChainlinkFeed` with the fairness of the chain, the live oracles and the consumer pallets, and the progress properties |
| `MCMedian`, `MCFeed`, `MCAudit`, `MCLiveness` | | the instances TLC checks: accounts as model values, the feeds and the argument sets of the calls |

### The order of the disabled oracles

`change_oracles` sorts and deduplicates `to_disable` and disables the
oracles in that order. Accounts are model values without an order, so
`DisableOracles` reports the oracles of the deduplicated list in one fixed
order of the set; the order among the disable events makes no difference to
a subscriber, the order between the disable events and the add events,
which does, is the one of the code. The `debug_assert` of `lib.rs:554`
stops no release build and is not a guard of the model (see the
observations of section 3).

### The read side

`FeedOracle::feed(id)` hands a consumer a `Feed`: the id and a *copy* of the
configuration. `Feed(id)` is that record; `FirstValidRound` and `LatestRound`
answer from the copy, `DataAt` reads `Rounds` from the storage, `Reload`
replaces the copy. None of them changes the storage, so they are operators
and not actions. The properties apply them to a fresh proxy, which is what a
consumer sees at the start of a call.

### The events

Every `deposit_event` of a dispatchable is part of its action. The variable
`events` holds the events of the last call that succeeded, in the order in
which the call deposited them; an event is the tuple of its kind and its
fields (`<<"AnswerUpdated", feed, round, answer, block>>`). A call that
fails deposits nothing, and `NextBlock` starts with no events, as
`frame_system` clears them at the start of a block. The pallet never reads
an event, so most models need none: the constant `Subscribed` names the
kinds a model keeps, the way an off-chain subscriber filters the events of a
block, and a model with `Subscribed = {}` has the state space of the storage
alone. The pruning run subscribes to `AnswerUpdated`, the registry run to
`OraclePermissionsUpdated`; the properties about them say that a subscriber
who sees only the events knows what the storage holds.

`submit` deposits up to three events (`NewRound` if it opens the round,
`SubmissionReceived`, `AnswerUpdated` if the round has its minimum count),
`change_oracles` one per disabled and one per added oracle, `create_feed`
one per oracle and `FeedCreated`. The withdrawals and `prune` deposit none.
The initiator of the `NewRound` of `FeedOracle::request_new_round` is the
default account (`T::AccountId::default()`), here `None`.

### The life of a round as a refinement

A round id of a feed is in one of four phases, told apart by what is stored
under it: *absent* (no round), *pending* (round and details, no answer),
*answered* (round and details, an answer), *closed* (a round without
details). `RoundPhases` says what a step may do to it: the phase moves
forward (absent, pending, answered, closed, with steps skipped), the answer
of an answered round may change, the answer of a closed round may not, and
a round may be removed. `FeedProperties` maps `Rounds` and `Details` to the
phase and the answer (`PhaseOf`) and the pruning run checks
`RoundStates!Spec`. A round stored without a round record but with details
has no phase, so the mapping also says that `Details` never outlives
`Rounds`.

### The handshakes as a refinement

The owner of a feed, the admin of an oracle and the pallet admin each change
hands by a proposal of the holder and an acceptance by the nominee.
`TwoPhaseTransfer` states this once, for a set of roles: a role is
established at most once (`Establish`), its holder names a nominee
(`Propose`), and the holder changes only in a step in which the nominee
accepts, which also clears the nomination (`Accept`). `FeedProperties`
instantiates it three times:

| Instance | `Roles` | `holder` | `nominee` | Steps of the pallet |
|---|---|---|---|---|
| `FeedOwnership` | `FeedIds` | `feeds[f].owner` | `feeds[f].pending_owner` | `create_feed`, `transfer_ownership`, `accept_ownership` |
| `OracleAdministration` | `Accounts` | `oracles[o].admin` | `oracles[o].pending_admin` | `create_feed` and `change_oracles` (through `add_oracles`), `transfer_admin`, `accept_admin` |
| `PalletAdministration` | the pallet | `palletAdmin` | `pendingPalletAdmin` | `transfer_pallet_admin`, `accept_pallet_admin` |

A role that does not exist yet has holder `None`. The registry run checks
`FeedOwnership!Spec`, `OracleAdministration!Spec` and
`PalletAdministration!Spec` as properties of the pallet: every step of every
dispatchable is a step of the abstract specification or leaves the role as
it is.

Conventions that tie the models to the code:

* **A failing call is no step.** Every dispatchable either checks before it
  writes or runs inside `with_transaction_result`, which rolls back on `Err`.
  A guard stands for each `ensure!`, `ok_or` and `?`, with the name of the
  error beside it.
* **Handlers called inside a transaction** (`initialize_round`,
  `close_timed_out_round`, `add_oracles`) are operators from a store record
  to a store record with an `ok` flag; the action is enabled only if the flag
  is still set at the end. This keeps the order of reads and writes of the
  code: `submit` reads the details *after* `initialize_round` has replaced
  them, `change_oracles` adds *after* it has disabled.
* **An action is the whole handler**: `Submit` includes the opening of the
  round, the closing of a timed-out predecessor, the in-place sort of the
  submissions by `median`, the reserve, the credit and the dropping of the
  details at the maximum count.
* **Data left out**: `decimals`, `description` (only its length is checked)
  and `latest_submission` are written and never read by the pallet. Balances
  other than the fund's are not kept.
* **Bounds** are constants and named in the guards: `MaxFeeds`
  (`FeedCounter`), `MaxRound` (round ids), `MaxBlock` (the clock).

## 3. Runs

All feed runs set `CHECK_DEADLOCK FALSE`: the pallet is passive, it has no
step of its own, and a state where no call of the offered set succeeds and
the bounded clock has reached `MaxBlock` is a legitimate end of a behaviour.
`MCMedian` checks deadlock.

### Passing runs

| Run | Module, config | Instance | Properties |
|---|---|---|---|
| `median` | `MCMedian`, `MCMedian.cfg` | values `0..3`, up to 4 submissions in every order | `MedianIsMiddleOrderStatistic` |
| `lifecycle` | `MCAudit`, `MCLifecycle.cfg` | 1 feed (either 3 oracles, quorum 2..3, or 2 oracles, quorum 1..2; timeout 1, restart delay 1; or 2 oracles with timeout `BlockNumberMax` = 255), a requester with delay 0 or 1, a consumer pallet, the owner may disable an oracle, rounds 0..2, blocks 1..3, values {1,2}; with the history of accepted submissions | `RoundAnswerMatchesSubmissions`, `RequesterCooldown`, `OpenRoundClosedOnlyWhenDue`, `ReportingOrder` |
| `registry` | `MCFeed`, `MCRegistry.cfg` | 1 feed with 2 oracles, limit 2; `change_oracles` with empty, repeated and mixed disable lists and add lists that re-add a disabled oracle or name another admin; all three handshakes | `TypeOK`, `OracleCountMatchesEnabled`, `FeedOwnerHandshake`, `OracleAdminHandshake`, `PalletAdminHandshake`, `PermissionEventsReplay` |
| `pruning` | `MCFeed`, `MCPruning.cfg` | 1 feed with 2 oracles and timeout 1: either quorum 1..2 and restart delay 0, or quorum 2..2 and restart delay 1; rounds 0..4, blocks 0..3, one value, window 1, `prune` with every pair of arguments | `FirstValidRoundIsStored`, `LatestDataAvailable`, `PruneKeepsRetentionWindow`, `LatestDataChangeIsAnnounced`, `RoundsFollowPhases`, `OpenRoundClosedOnlyWhenDue`, `RestartDelayRespected` |
| `payments` | `MCFeed`, `MCPayments.cfg` | 1 feed with 3 oracles, payment 1, fund of 5 with reserve 2 and existential deposit 1; `update_future_rounds` (payment 2, other quorum, and a quorum with min > max), both withdrawals | `WithdrawableBackedByReserve`, `RoundAnswerMatchesSubmissions`, `FullRoundIsAnswered` |
| `liveness` | `MCLiveness`, `MCLiveness.cfg` | 1 feed with 3 oracles of which 2 are live (quorum 2..3 with timeout 1 or 0, or quorum 3..3 with timeout 1), payment 1 from a fund of 7, a requester, a consumer pallet, rounds 0..2, blocks 1..4; fairness of section 5 | `ReportingRoundSettles`, `StalledRoundGivesWay` |

What they show:

* **`MedianIsMiddleOrderStatistic`** - `median` agrees with the definition by
  order statistics (the element with exactly the right number of smaller
  elements; for an even length the half of the clamped sum of the two middle
  ones) on every input of the instance, duplicates and saturation included.
* **`RoundAnswerMatchesSubmissions`** - for every round that still has
  details, the stored answer is `None` below the minimum count the round was
  opened with, and the median of exactly the stored submissions at or above it.
  This relates `Rounds` to `Details` across `submit`, re-initialisation of an
  open round by a request, and `update_future_rounds` while rounds are open
  (the snapshot in the details, not the live configuration, decides).
* **`RequesterCooldown`**, **`RestartDelayRespected`** - the two rate limits
  hold at their boundary: a requester, and an oracle, never starts a round
  sooner than the configured number of rounds after the last round it started.
  The restart delay is checked in the pruning run, whose four rounds let an
  oracle start a second and a third round: with delay 1 an oracle starts
  rounds 1 and 3 and is refused round 2.
* **`OpenRoundClosedOnlyWhenDue`** - the details of a round are removed only
  by the submission that reaches the maximum count the round was opened with,
  by `prune` removing the round, or when the round has truly timed out
  (`started_at + timeout < now`) as the next round is opened. The sum of
  the property is one of natural numbers, that of the model is the
  `checked_add` of the code in the width of `BlockNumber`: for the feed
  whose timeout is `BlockNumberMax` the sum does not fit, and a sum that
  wrapped around would close the round in the block after it started.
  The pruning run checks the same property from block 0 on: a round that
  starts in block 0 is never timed out (`started_at > 0` is the test of
  `timed_out` for "never started"), so the opening of the next round leaves
  its details in place however old it is.
* **`ReportingOrder`** - the rounds an oracle is paid for are strictly
  increasing per feed, across disabling, timeouts and rounds that a request
  opens again, as long as the oracle is not added again.
* **`TypeOK`** (registry) - in particular `oracle_count <= OracleCountLimit`
  and no unsigned underflow of any counter.
* **`OracleCountMatchesEnabled`** - the counter that the code maintains by
  `saturating_sub` and `checked_add` on list lengths is the number of enabled
  oracles, also for lists with repeated or unknown oracles.
* **`FeedOwnerHandshake`**, **`OracleAdminHandshake`**,
  **`PalletAdminHandshake`** - the refinement above. In particular the admin
  of an oracle changes only through `accept_admin` by the pending admin:
  adding the oracle again with another admin fails
  (`OwnerCannotChangeAdmin`), and `create_feed` with several oracles
  establishes several roles in one step.
* **`FirstValidRoundIsStored`** - the round `first_valid_round()` names is
  in the storage: `prune` moves the pointer only forward
  (`keep_round.max(first_valid_round)`) and only to a round it keeps, also
  when a sweep starts above the pointer, ends below it, or is clamped to
  the retention window. That the round has *data* is more than the code
  keeps; see the `first_valid_round` run below.
* **`LatestDataAvailable`** (pruning) - without requesters `latest_data()`
  always finds data: neither late submissions nor `prune` leave `latest_round`
  at a round without an answer.
* **`PruneKeepsRetentionWindow`** - a round that a step removes is not round
  0 and is more than `PruningWindow` rounds older than the latest round.
* **`LatestDataChangeIsAnnounced`** - whenever a call changes what
  `latest_data()` returns, the call deposits an `AnswerUpdated` event with
  the round, the answer and the block that `latest_data()` then reports.
  The latest data change in three ways: the first answer of a round, a
  further submission to a round that is answered and still open (the event
  is deposited at every count from the minimum on, not only when the
  minimum is reached), and a late submission to an older round, which moves
  `latest_round` back. A consumer of the events is never behind the storage.
* **`RoundsFollowPhases`** - the refinement of `RoundPhases`: where rounds
  are opened by `submit`, no round that has an answer is opened again, a
  round loses its details only after it was stored, the answer of a round
  whose details are gone never changes, and `close_timed_out_round` closes
  a round without touching the round record. The feed with quorum 2..2
  has rounds in every phase: pending after the first submission, closed
  without an answer by a timeout, answered and closed by the second.
* **`PermissionEventsReplay`** - a subscriber that applies the
  `OraclePermissionsUpdated` events of each call, in their order, to the set
  of oracles it knows as enabled, has the set the storage enables
  (`ending_round` unset) after every call: with repeated and unknown oracles
  in `to_disable`, and with an oracle that one call disables and adds again,
  for which the order of the two events decides.
* **`WithdrawableBackedByReserve`** - the sum of the credit of all oracles
  never exceeds the reserved balance of the fund, including the behaviours in
  which the reserve fails in the middle of a round and the call is rolled
  back.
* **`FullRoundIsAnswered`** - the submission that brings a round to its
  maximum count, and so removes its details, leaves the round with an
  answer. `submit` tests the minimum and the maximum count independently;
  the property holds because `update_future_rounds` refuses bounds with
  min > max, whatever the owner asks for while rounds are open.
* **`ReportingRoundSettles`** - a reporting round that the live oracles can
  still bring to its minimum count is eventually answered, unless a later
  round is opened first.
* **`StalledRoundGivesWay`** - a reporting round that will time out before
  the clock of the model stops is eventually answered or followed by a later
  round: the request of the consumer pallet succeeds once the round has
  timed out.

Between them the passing runs take every disjunct of `Next`: each
dispatchable, the consumer entry point and the clock.

### Runs that end in a counterexample

Each checks one statement made by the design document or by the code itself
and shows the shortest behaviour of the code that contradicts it.

| Run | Statement | Counterexample |
|---|---|---|
| `latest_data` (`MCLatestData.cfg`) | "The latest round data should always be available" (`debug_assert`, `lib.rs:1039`) | a round opened by a request is answered and becomes `latest_round`; `reporting_round` was not advanced (`lib.rs:709`), so the next request opens the same round again and wipes its answer |
| `supersede` (`MCSupersede.cfg`) | round N+1 opens only once round N has an answer or has timed out | `submit` opens round 2 while round 1 is pending; the check is a TODO in `ensure_round_valid_for` (`lib.rs:866`) |
| `timed_out_answer` (`MCTimedOutAnswer.cfg`) | a round that is pending when it times out inherits its predecessor's answer once it is superseded | in the feed with quorum 2..3 round 1 gets one submission and times out; the `submit` that opens round 2 calls `close_timed_out_round`, which changes a local copy and never stores it (`lib.rs:913-925`): round 1 keeps no answer, where round 0 has the answer 0 |
| `reenabled_oracle` (`MCAudit`, `MCReenable.cfg`) | an oracle never reports the same round twice | disable and add an oracle again: `add_oracles` stores a default status (`lib.rs:954`), the oracle reports round 1 a second time and is paid twice |
| `first_valid_round` (`MCFirstValid.cfg`) | `first_valid_round()` "returns the id of the first round that contains non-default data" (`lib.rs`, `FeedInterface`) | `prune` sets the pointer to `keep_round.max(first_valid_round)` (`lib.rs:847`) without looking at the round: in the feed with quorum 2..2 round 1 is answered, round 2 gets one submission, round 3 is opened and answered, and `prune(1, 2)` leaves `first_valid_round = 2`, a round without an answer, for which `data_at` returns nothing |
| `payout` (`MCPayout.cfg`) | what an oracle has earned can be withdrawn | `submit` reserves the payment (`lib.rs:521`), `withdraw_payment` transfers from the free balance (`lib.rs:627`) and nothing unreserves: with a fund of 5 and three paid submissions of 1 the fund has 2 free and 3 reserved, and an oracle with credit 2 cannot withdraw it, because the transfer must leave the existential deposit of 1 in the free balance |

Further disagreements are recorded without a run of their own:

* `create_feed` stores `submission_count_bounds` and `restart_delay` as
  given (`lib.rs:428`), where `update_future_rounds` refuses min > max,
  max > `oracle_count` and `restart_delay >= oracle_count`. In a feed
  created with bounds (3, 2) the second submission removes the details of
  round 1 before any answer is written (`FullRoundIsAnswered` fails for
  such a feed). `change_oracles` lowers `oracle_count` without looking at
  the bounds (`lib.rs:557`): a feed created with (2, 3) and three oracles
  has bounds above its number of oracles after two are disabled. The unit
  tests of the pallet create feeds with bounds (3, 8) and three oracles, so
  the second half is the practice of the repository.

* `median([MAX, MAX])` is `MAX / 2`: the two middle values are added with
  `saturating_add` before the division (`lib.rs:55`), so the median can lie
  below every submission. `MedianIsMiddleOrderStatistic` states the
  behaviour with the clamp.
* `latest_round` can exceed `reporting_round` (spec.md: `latest_round <=
  reporting_round`): an oracle answers a round that a request has opened.
  Same cause as `latest_data`.
* `prune` returns `NothingToPrune` when `latest_round - first_to_prune =
  PruningWindow` exactly, where the design document gives the condition as
  `>=` (`lib.rs:839`).
* `prune(first_to_prune, keep_round)` with `first_to_prune` above
  `first_valid_round` leaves the rounds below `first_to_prune` stored and
  moves `first_valid_round` past them: the pointer is then not the *first*
  round with data. A later sweep can still remove them.
* `debug_assert!(feed.oracle_count >= disabled_count)` (`lib.rs:554`) is
  evaluated before the loop that rejects unknown oracles: a `to_disable`
  list longer than the oracles of the feed stops a debug build where a
  release build returns `OracleNotFound`.
* With requesters (the instance of the lifecycle run) neither
  `RoundsFollowPhases` nor `LatestDataChangeIsAnnounced` holds: a second
  `request_new_round` opens the answered round 2 again, because
  `reporting_round` is still 1. The answer of the round is wiped while
  `latest_round` names it, and `latest_data()` falls back to the default
  without any `AnswerUpdated`. This is the cause of the `latest_data` run
  seen through the events and through the phases.
* `RoundDetailsUpdated` (`lib.rs:609`) carries the new payment, count
  bounds, restart delay and timeout, and not the id of the feed: a
  subscriber of a pallet with several feeds cannot tell which feed was
  reconfigured.
* `remove_requester` followed by `set_requester` gives the requester a
  record without `last_started_round` (`take`, then `unwrap_or_default`,
  `lib.rs:732` and `750`): the cooldown starts afresh, as the reporting
  order of an oracle does in the `reenabled_oracle` run.
  `RequesterCooldown` is about a requester that stays authorised.
* `withdraw_payment` and `withdraw_funds` deposit no event; a subscriber
  learns of the credit of an oracle only from the storage.
* `timed_out` computes `started_at.checked_add(&timeout).expect(..)`
  (`lib.rs:906`), and `create_feed` and `update_future_rounds` accept every
  timeout: with a timeout near the maximum of `BlockNumber` the sum
  overflows and every `submit` that opens the next round and every
  `request_new_round` that tests the round panics. The design document
  calls the overflow a violated precondition that deserves a hard stop, so
  the models take the panic as a call that does not happen
  (`TimedOutPanics`). The lifecycle run has such a feed: its open round
  never closes early, and the feed moves on only through the submissions
  that answer the round, since no request can supersede it.
* After a request has superseded a timed-out round, `reporting_round` still
  names that round, which has neither details nor `updated_at`: no further
  request is `Supersedable`, and only an oracle's `submit` moves the feed on.

### Mutants

For each property of a passing run `PROJECT.json` names a definition of the
model and a faulty variant of it, written beside the original (for example
`ExpiredOneBlockEarly`, `DisabledCountWithoutDedup`,
`WrappingAdd`, `OracleMetaOverwritingAdmin`, `OwnedKeepingPending`,
`AnyoneWhilePending`,
`FirstValidAfterSweepOnly`, `ReservePaymentIgnoringError`, `BoundsUnchecked`,
`CountBoundsSwapped`, `SupersedableOnlyWhenUpdated`, `StartedFromBlockZero`,
`AnswerUpdatedAtMinimumOnly`, `CloseTimedOutRoundRemovingRound`,
`PermissionsUpdatedAlwaysEnabled`). With the variant in
place TLC finds the property violated in the same instance, which shows that
the instance is large enough for the property to fail. Without the fairness
of section 5 both progress properties fail.

## 4. Bounds

* **Rounds.** `MaxRound = 2` in the lifecycle runs gives round 0 (created with
  the feed) and two rounds that are open at the same time, which is what the
  supersede, time-out, re-initialisation and late-submission cases need.
  Pruning needs a distance larger than the window and runs with
  `MaxRound = 4`, `PruningWindow = 1`.
* **Blocks.** `MaxBlock = 3` with timeout 1 lets a round be open, at the
  boundary and timed out. A round started in block 0 counts as never
  started (`timed_out` tests `started_at > 0`): the pruning run starts in
  block 0, where the unit tests of the pallet run, and has such rounds. The
  other runs start in block 1, the first block of a chain in which an
  extrinsic is executed; from block 0 the lifecycle instance has more than
  a million states.
  `BlockNumberMax = 255` stands for the width of `T::BlockNumber`: the
  blocks of a model stay below it, as the blocks of a chain do, and only a
  timeout reaches it, which is an argument of `create_feed` that the code
  does not check.
* **Oracles.** Three oracles with quorum 2..3 separate "below minimum",
  "answered and open" and "at maximum"; two oracles with quorum 1..2 are used
  where the state space is spent elsewhere.
* **Values.** `{1, 2}` of `0..3` tells the median of a round from each single
  submission; the saturation is covered by the median run. The pruning run
  has one value: its properties are about which rounds are stored, open and
  announced, and a second value triples its states.
* **Fund.** `InitialFunds = 5`, payment 1 or 2: the fund runs out within the
  two rounds of the payments run. The liveness run has a fund of 7 for at
  most six paid submissions, so that the fund does not stop the oracles.
* **Liveness.** One submission value: the progress of a round does not
  depend on the values. `MaxBlock = 4` lets a round that starts in block 1
  or 2 with timeout 1 time out; `TimesOutInTime` in the antecedent of
  `StalledRoundGivesWay` excludes the rounds that the end of the clock of the
  model, not the pallet, keeps from timing out.
* **Feeds.** One feed per run. Instances with two feeds, or with three
  rounds and three oracles, do not finish within five minutes: the registry
  instance with two feeds has more than 440,000 distinct states after three
  minutes and the payments instance more than 2,400,000 after five, both
  still growing.
  The code paths that two feeds share (`OracleMeta` of an oracle that is
  added a second time, the fund) are reached with one feed through
  `change_oracles`.

## 5. Fairness

The safety runs assume none. The pallet takes no step of its own, so
progress is a property of the pallet *together with* its environment, and
`FeedLiveness` says what is assumed of the environment:

| Assumption | Action | Why the system justifies it |
|---|---|---|
| blocks keep coming | `WF_vars(NextBlock)` | block production of the chain; `NextBlock` is enabled until `MaxBlock` |
| a live oracle reports for the reporting round | `WF_vars(ReportCurrent(o))` for `o \in LiveOracles` | an oracle node submits to the round the feed reports on; a call that stays valid is eventually included in a block |
| a consumer pallet asks for a round | `WF_vars(FeedOracleRequestNewRound(f))` for `f \in ConsumerFeeds` | the consumer calls `request_new_round` from its own logic in every block in which it wants a round |

Weak fairness only: a call that is valid now and then may lose every race.
Nothing is assumed of the owner, the admins, the requesters, and the oracles
that are not live; in the liveness run one of three oracles is silent or
reports at will. The fairness of the live oracles covers `submit` for the
*reporting* round only; whether an oracle opens the next round is left open.

## 5a. The fault model

The pallet runs inside a block-producing runtime, which gives it
transactions and a total order of calls; there are no messages to lose and
no process to crash. What can fail is a call (modelled: a failing call is
no step, and `Submit` is enabled only if every nested handler and the
reserve succeed; a call that panics in `timed_out` is no step either), an actor (an oracle that stops reporting: not in
`LiveOracles`; a fund that runs out: payments run) and the clock running
past a timeout (all lifecycle runs).

## 6. Not modelled

* **Which error a failing call returns** (`decl_error!`): every `ensure!`,
  `ok_or` and `?` is a guard with the name of its error beside it; the order
  of the checks of one call only decides which error is returned, never
  whether the call succeeds, and a failing call leaves no trace in the
  storage or the events that a property could be about.
* **Balances of accounts other than the fund**, and payments into the fund.
  `Currency` and `frame_system` are modelled from their documented
  behaviour (they are not code of this repository). The pallet reads the
  free balance of the fund and nothing else, and no call of the pallet pays
  into the fund: the fund of a model is its endowment at genesis, as in the
  mock runtime.
* **The events of the models that do not subscribe**: the lifecycle,
  payments and liveness runs keep no events (`Subscribed = {}`).
* **Weights, SCALE encoding, the genesis configuration** other than the
  default, the mock runtime and the unit tests (`tests.rs`).
* **The widths of `FeedId`, `RoundId` and `Balance`**: these counters are
  bounded by the model constants and never reach the overflow the code
  checks with `checked_add` and answers with the `Overflow` error, a failing
  call like any other. The two widths that matter are modelled: the value
  type of the median with `ValueMax`, for the saturating average, and the
  block number with `BlockNumberMax`, for the one place where an overflow is
  not an error but a panic, `timed_out`.

## 7. Plan

Done: the storage, every dispatchable with its events, the median, the read
side, the width of the block number in `timed_out`, the handshakes as a refinement of `TwoPhaseTransfer`, the life of a
round as a refinement of `RoundPhases`, progress under fairness, the runs
above.

Open, in this order:

1. **Paid submissions.** "A paid submission is never discarded" does not
   hold of the code with requesters (a request followed by an eligible
   oracle's `submit` opens a round twice) and is not a state property
   without them (oracles move on while older rounds stay open); it needs
   the history of `FeedAudit` and a statement per round.
2. **Two feeds.** `OracleMeta` is shared between feeds; a run with two feeds
   and one shared oracle needs a narrower call set to finish.
3. **Progress with a repaired `reporting_round`.** The progress properties
   are stated so that they hold of the code as it is; with
   `reporting_round` advanced by requests they can be stated for every
   round.

## 8. Running

```
cd tla
tlc -workers 2 -config MCMedian.cfg MCMedian
tlc -workers 2 -config MCLifecycle.cfg MCAudit    # likewise MCReenable
tlc -workers 2 -config MCRegistry.cfg MCFeed      # likewise MCPruning, MCPayments and the
                                                  # counterexample runs
tlc -workers 2 -config MCLiveness.cfg MCLiveness
```

The largest runs are `lifecycle` (about 470,000 distinct states),
`registry` (about 200,000, with the four refinement and event properties),
`liveness` (about 140,000 with the temporal check) and `pruning` (about
95,000); each takes under three minutes with two workers.
