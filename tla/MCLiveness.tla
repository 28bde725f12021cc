------------------------------ MODULE MCLiveness ------------------------------
(***************************************************************************)
(* The instance of the progress properties: three oracles of which two     *)
(* are live, and a pallet of the runtime that requests rounds.             *)
(***************************************************************************)
EXTENDS MCFeed, FeedLiveness

(* The feed of the tests of the pallet, whose rounds the two live oracles  *)
(* answer, with and without a timeout, and a feed that needs all three     *)
(* oracles, whose rounds stall when the third is silent.  Every submission *)
(* is paid 1, and the fund covers all of them.                             *)
LivenessFeeds == { FeedOf(1, 1, <<2, 3>>, 1, ThreeOracles),
                   FeedOf(1, 0, <<2, 3>>, 0, ThreeOracles),
                   FeedOf(1, 1, <<3, 3>>, 1, ThreeOracles) }

=============================================================================
