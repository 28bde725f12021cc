----------------------------- MODULE FeedStorage -----------------------------
(***************************************************************************)
(* The storage of the Chainlink feed pallet (`decl_storage!`) and the       *)
(* records it holds, together with the two collaborators every dispatchable *)
(* reads or writes: the block number of frame_system and the balance of the *)
(* pallet's fund account in the Currency.                                   *)
(*                                                                          *)
(* The modules of the dispatchables extend this one.  An `Option` is the    *)
(* value or the model value None; a storage map is a total function whose   *)
(* absent keys hold None.                                                   *)
(***************************************************************************)
EXTENDS Naturals, Sequences, FiniteSets, SequencesExt

CONSTANTS
    Accounts,           \* T::AccountId, the origins of the calls
    PalletAccount,      \* T::ModuleId::get().into_account(), the fund
    None,               \* Option::None
    MaxFeeds,           \* bound: feeds ever created (FeedCounter)
    MaxRound,           \* bound: the largest round id a model opens
    MaxBlock,           \* bound: the largest block number
    FirstBlock,         \* the block number of the first call
    BlockNumberMax,     \* the largest value of T::BlockNumber
    ValueMax,           \* the largest value of T::Value
    InitialFunds,       \* free balance of the fund at genesis
    ExistentialDeposit, \* of the Currency
    MinimumReserve,     \* T::MinimumReserve
    StringLimit,        \* T::StringLimit
    OracleCountLimit,   \* T::OracleCountLimit
    PruningWindow,      \* T::PruningWindow
    Subscribed          \* the kinds of events the observer of a model keeps

(* The associated types of `Trait` a runtime fixes: the fund account     *)
(* derived from ModuleId, and the four limits.                             *)
TraitConstants ==
    /\ PalletAccount \in Accounts
    /\ MinimumReserve \in Nat /\ StringLimit \in Nat
    /\ OracleCountLimit \in Nat /\ PruningWindow \in Nat

ASSUME /\ TraitConstants
       /\ None \notin Accounts
       /\ MaxFeeds \in Nat \ {0} /\ MaxRound \in Nat /\ ValueMax \in Nat
       /\ BlockNumberMax \in Nat /\ MaxBlock \in 0..BlockNumberMax
       /\ FirstBlock \in 0..MaxBlock
       /\ InitialFunds \in Nat /\ ExistentialDeposit \in Nat

VARIABLES
    now,                \* frame_system::Module::<T>::block_number()
    palletAdmin,        \* PalletAdmin
    pendingPalletAdmin, \* PendingPalletAdmin
    feedCounter,        \* FeedCounter
    feeds,              \* Feeds:       FeedId -> Option<FeedConfig>
    rounds,             \* Rounds:      (FeedId, RoundId) -> Option<Round>
    details,            \* Details:     (FeedId, RoundId) -> Option<RoundDetails>
    oracles,            \* Oracles:     AccountId -> Option<OracleMeta>
    oracleStati,        \* OracleStati: (FeedId, AccountId) -> Option<OracleStatus>
    requesters,         \* Requesters:  (FeedId, AccountId) -> Option<Requester>
    fundFree,           \* Currency::free_balance(fund)
    fundReserved,       \* Currency::reserved_balance(fund)
    events              \* the events of the last call, as subscribed

adminVars  == <<palletAdmin, pendingPalletAdmin>>
roundVars  == <<rounds, details>>
oracleVars == <<oracles, oracleStati>>
ledgerVars == <<fundFree, fundReserved>>
vars == <<now, adminVars, feedCounter, feeds, roundVars, oracleVars,
          requesters, ledgerVars, events>>

-----------------------------------------------------------------------------
FeedIds  == 0..(MaxFeeds - 1)
RoundIds == 0..MaxRound
Values   == 0..ValueMax

Optional(S) == S \cup {None}

(* The value of an Option, or `default`: `unwrap_or(default)`. *)
UnwrapOr(option, default) == IF option = None THEN default ELSE option

(* `a.saturating_sub(b)` of an unsigned type. *)
SaturatingSub(a, b) == IF a > b THEN a - b ELSE 0

(* The records.  `decimals` and `description` of FeedConfig and            *)
(* `latest_submission` of OracleStatus are written and never read by a     *)
(* dispatchable, and are left out.                                         *)
FeedConfig == [
    owner : Accounts,
    pending_owner : Optional(Accounts),
    submission_value_bounds : Values \X Values,
    submission_count_bounds : Nat \X Nat,
    payment_amount : Nat,
    timeout : Nat,
    restart_delay : Nat,
    reporting_round : RoundIds,
    latest_round : RoundIds,
    first_valid_round : Optional(RoundIds),
    oracle_count : 0..OracleCountLimit ]

Round == [
    started_at : Nat,
    answer : Optional(Values),
    updated_at : Optional(Nat),
    answered_in_round : Optional(RoundIds) ]

RoundDetails == [
    submissions : Seq(Values),
    submission_count_bounds : Nat \X Nat,
    payment_amount : Nat,
    timeout : Nat ]

OracleMeta == [
    withdrawable : Nat,
    admin : Accounts,
    pending_admin : Optional(Accounts) ]

OracleStatus == [
    starting_round : RoundIds,
    ending_round : Optional(RoundIds),
    last_reported_round : Optional(RoundIds),
    last_started_round : Optional(RoundIds) ]

Requester == [
    delay : Nat,
    last_started_round : Optional(RoundIds) ]

(* `decl_event!`: an event is the tuple of its kind and its fields. *)
EventKinds ==
    {"FeedCreated", "NewRound", "SubmissionReceived", "AnswerUpdated",
     "RoundDetailsUpdated", "OracleAdminUpdateRequested", "OracleAdminUpdated",
     "OraclePermissionsUpdated", "RequesterPermissionsSet",
     "OwnerUpdateRequested", "OwnerUpdated", "PalletAdminUpdateRequested",
     "PalletAdminUpdated"}

ASSUME Subscribed \subseteq EventKinds

TypeOK ==
    /\ now \in FirstBlock..MaxBlock
    /\ palletAdmin \in Accounts
    /\ pendingPalletAdmin \in Optional(Accounts)
    /\ feedCounter \in 0..MaxFeeds
    /\ feeds \in [FeedIds -> Optional(FeedConfig)]
    /\ rounds \in [FeedIds \X RoundIds -> Optional(Round)]
    /\ details \in [FeedIds \X RoundIds -> Optional(RoundDetails)]
    /\ oracles \in [Accounts -> Optional(OracleMeta)]
    /\ oracleStati \in [FeedIds \X Accounts -> Optional(OracleStatus)]
    /\ requesters \in [FeedIds \X Accounts -> Optional(Requester)]
    /\ fundFree \in 0..InitialFunds
    /\ fundReserved \in 0..InitialFunds
    /\ \A e \in Range(events) : e[1] \in Subscribed

(* Genesis: PalletAdmin defaults to the fund account, every map is empty,  *)
(* and the fund holds its endowment.                                       *)
StorageInit ==
    /\ now = FirstBlock
    /\ palletAdmin = PalletAccount
    /\ pendingPalletAdmin = None
    /\ feedCounter = 0
    /\ feeds = [f \in FeedIds |-> None]
    /\ rounds = [k \in FeedIds \X RoundIds |-> None]
    /\ details = [k \in FeedIds \X RoundIds |-> None]
    /\ oracles = [a \in Accounts |-> None]
    /\ oracleStati = [k \in FeedIds \X Accounts |-> None]
    /\ requesters = [k \in FeedIds \X Accounts |-> None]
    /\ fundFree = InitialFunds
    /\ fundReserved = 0
    /\ events = <<>>

(* `deposit_event`, for all events of a call at once.  The events are      *)
(* written and never read by the pallet; a model keeps the kinds its       *)
(* properties are about, as an off-chain subscriber does.                  *)
Deposit(deposited) ==
    events' = SelectSeq(deposited, LAMBDA e : e[1] \in Subscribed)

Emit(event) == Deposit(<<event>>)

-----------------------------------------------------------------------------
(* The collaborators.  Neither is code of the pallet: the block number is  *)
(* frame_system's, the balances are pallet_balances'.                      *)

(* A block is finalized and the next one starts, with no events yet. *)
NextBlock ==
    /\ now < MaxBlock
    /\ now' = now + 1
    /\ Deposit(<<>>)
    /\ UNCHANGED <<adminVars, feedCounter, feeds, roundVars, oracleVars,
                   requesters, ledgerVars>>

(* `Currency::reserve(fund, amount)`: moves free balance of the fund to its *)
(* reserved balance, or fails when the free balance is too small.          *)
Reserve(amount) ==
    /\ amount <= fundFree
    /\ fundFree' = fundFree - amount
    /\ fundReserved' = fundReserved + amount

(* `Currency::transfer(fund, recipient, amount, KeepAlive)`: pays out of   *)
(* the free balance of the fund, which must stay at or above the           *)
(* existential deposit.  A transfer of the fund to itself changes nothing. *)
(* The balance of the recipient is not part of the model.                  *)
Transfer(recipient, amount) ==
    /\ UNCHANGED fundReserved
    /\ \/ recipient = PalletAccount /\ UNCHANGED fundFree
       \/ /\ recipient # PalletAccount
          /\ amount + ExistentialDeposit <= fundFree
          /\ fundFree' = fundFree - amount

=============================================================================
