------------------------------- MODULE MCAudit -------------------------------
(***************************************************************************)
(* The feeds and argument lists of the models of the audited pallet, next  *)
(* to the ones of the pallet itself.                                       *)
(***************************************************************************)
EXTENDS MCFeed, FeedAudit

(* Count bounds (2, 3) of two oracles: a round stays open after both have  *)
(* reported.                                                               *)
AuditFeeds == { FeedOf(1, 1, <<2, 3>>, 0, TwoOracles) }

(* The owner disables an oracle and adds it again. *)
ReenableDisableLists == { <<>>, <<o1>> }
ReenableAddLists == { <<>>, <<<<o1, adm>>>> }

(* The owner disables oracles and adds none. *)
AddNothing == { <<>> }

=============================================================================
