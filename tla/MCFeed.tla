------------------------------- MODULE MCFeed -------------------------------
(***************************************************************************)
(* The accounts, feed configurations and argument lists of the models of   *)
(* the feed pallet.  Each configuration file picks the ones its question   *)
(* needs and leaves the input sets of the other calls empty.               *)
(***************************************************************************)
EXTENDS FeedProperties

CONSTANTS fund, owner, adm, adm2, o1, o2, o3

AllAccounts == {fund, owner, adm, adm2, o1, o2, o3}
LifecycleAccounts == {fund, owner, adm, o1, o2, o3}
RegistryAccounts == {fund, owner, adm, adm2, o1, o2}
SmallAccounts == {fund, owner, adm, o1, o2}

OneOracle    == <<<<o1, adm>>>>
TwoOracles   == <<<<o1, adm>>, <<o2, adm>>>>
ThreeOracles == <<<<o1, adm>>, <<o2, adm>>, <<o3, adm>>>>

FeedOf(payment, timeout, counts, delay, oracle_list) ==
    [payment_amount |-> payment, timeout |-> timeout,
     submission_value_bounds |-> <<1, 2>>,
     submission_count_bounds |-> counts,
     description_len |-> 1, restart_delay |-> delay,
     oracles |-> oracle_list]

(* The feed of the tests of the pallet, count bounds (2, 3) of three       *)
(* oracles: a round is pending until two of them have reported.            *)
QuorumFeeds == { FeedOf(0, 1, <<2, 3>>, 1, ThreeOracles) }

(* The same, and a feed in which one submission answers a round.           *)
LifecycleFeeds == QuorumFeeds \cup { FeedOf(0, 1, <<1, 2>>, 1, TwoOracles) }

(* The same, and a feed whose timeout is the largest block number: the     *)
(* end of the timeout of its rounds does not fit the type.                 *)
OverflowFeeds ==
    LifecycleFeeds \cup { FeedOf(0, BlockNumberMax, <<1, 2>>, 1, TwoOracles) }

(* Feeds of the oracle registry: no payment, no timeout, an oracle may     *)
(* start every round.                                                      *)
RegistryFeeds == { FeedOf(0, 0, <<1, 2>>, 0, TwoOracles) }

(* Lists with a repeated oracle, with an oracle the feed does not have,    *)
(* and with an oracle that is disabled and added in the same call.         *)
RegistryDisableLists == { <<>>, <<o1>>, <<o1, o1>>, <<o2, o1>> }

RegistryAddLists == { <<>>, <<<<o1, adm>>>>, <<<<o3, adm>>>>, <<<<o1, adm2>>>>,
                      <<<<o3, adm2>>, <<o1, adm>>>> }

(* A feed whose rounds one submission answers and two close, in which an  *)
(* oracle may start every round, and a feed whose rounds stay pending     *)
(* until both oracles have reported, in which an oracle may start every   *)
(* other round; both with a timeout of one block.                         *)
PruningFeeds == { FeedOf(0, 1, <<1, 2>>, 0, TwoOracles),
                  FeedOf(0, 1, <<2, 2>>, 1, TwoOracles) }

(* A feed that pays 1 for a submission and needs all three oracles for an  *)
(* answer, and the configurations its owner asks for: a smaller minimum    *)
(* count, a higher payment, and a minimum count above the maximum, which   *)
(* is refused.                                                             *)
PaymentFeeds == { FeedOf(1, 0, <<3, 3>>, 0, ThreeOracles) }

PaymentFutureRounds == {
    [payment_amount |-> 1, submission_count_bounds |-> <<1, 3>>,
     restart_delay |-> 0, timeout |-> 0],
    [payment_amount |-> 2, submission_count_bounds |-> <<3, 3>>,
     restart_delay |-> 0, timeout |-> 0],
    [payment_amount |-> 1, submission_count_bounds |-> <<3, 2>>,
     restart_delay |-> 0, timeout |-> 0] }

=============================================================================
