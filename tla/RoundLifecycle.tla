---------------------------- MODULE RoundLifecycle ----------------------------
(***************************************************************************)
(* The round lifecycle of the pallet: opening a round, closing the round   *)
(* before it when that one has timed out, accepting a submission, writing  *)
(* the answer of a round and paying the oracle.                            *)
(*                                                                         *)
(* Every dispatchable runs in a storage transaction that is rolled back    *)
(* when it returns an error, and checks before the transaction write       *)
(* nothing: a call that fails leaves the storage as it was and is no step  *)
(* here.  The error each guard stands for is named beside it.              *)
(***************************************************************************)
EXTENDS OracleRegistry, RequesterGate, Median

CONSTANT SubmissionValues   \* the values oracles submit

ASSUME SubmissionValues \subseteq Values

NewRound(started_at) ==
    [started_at |-> started_at, answer |-> None, updated_at |-> None,
     answered_in_round |-> None]

(* The details of a round snapshot the configuration of the feed at the    *)
(* time the round is opened.                                               *)
NewRoundDetails(feed) ==
    [submissions |-> <<>>,
     submission_count_bounds |-> feed.submission_count_bounds,
     payment_amount |-> feed.payment_amount,
     timeout |-> feed.timeout]

(* The round part of the storage as one value, for the handlers that run   *)
(* inside the transaction of a dispatchable.                               *)
RoundStore == [ok |-> TRUE, rounds |-> rounds, details |-> details]

-----------------------------------------------------------------------------
(* A sum that wraps around at the width of the block number:              *)
(* `wrapping_add` for `checked_add`.                                       *)
WrappingAdd(a, b) == (a + b) % (BlockNumberMax + 1)

(* `a.checked_add(&b)` of block numbers: None when the sum does not fit. *)
CheckedAdd(a, b) == IF a + b > BlockNumberMax THEN None ELSE a + b

(* A comparison that already holds in the block in which the timeout     *)
(* ends.                                                                   *)
ExpiredOneBlockEarly(started_at, timeout) ==
    CheckedAdd(started_at, timeout) <= now

(* More blocks than the timeout have passed since the start. *)
Expired(started_at, timeout) == CheckedAdd(started_at, timeout) < now

(* A test that takes block 0 for a start like any other. *)
StartedFromBlockZero(started_at) == started_at >= 0

(* `started_at > Zero::zero()`: zero is what timed_out reads for a round    *)
(* that is not stored, and a round started in block 0 looks the same.      *)
Started(started_at) == started_at > 0

(* The round was started and its details are still stored with a timeout   *)
(* that is not zero: the two tests of timed_out before the sum.            *)
Ticking(store, f, round_id) ==
    /\ store.rounds[f, round_id] # None /\ store.details[f, round_id] # None
    /\ Started(store.rounds[f, round_id].started_at)
    /\ store.details[f, round_id].timeout > 0

(* The `expect` of timed_out: the end of the timeout does not fit the      *)
(* block number and the call panics.  A call that panics is no step: the   *)
(* block author drops the extrinsic.                                       *)
TimedOutPanics(store, f, round_id) ==
    /\ Ticking(store, f, round_id)
    /\ CheckedAdd(store.rounds[f, round_id].started_at,
                  store.details[f, round_id].timeout) = None

(* `timed_out(feed, round_id)`: the timeout of a round that is ticking has *)
(* expired.  A round without details, and one started in block 0, never    *)
(* times out.                                                              *)
TimedOut(store, f, round_id) ==
    /\ Ticking(store, f, round_id)
    /\ ~TimedOutPanics(store, f, round_id)
    /\ Expired(store.rounds[f, round_id].started_at,
               store.details[f, round_id].timeout)

(* A closing that removes the round where it is to remove its details:    *)
(* `Rounds` for `Details` in the remove.                                   *)
CloseTimedOutRoundRemovingRound(store, f, timed_out) ==
    [store EXCEPT !.rounds[f, timed_out] = None]

(* `close_timed_out_round(feed, timed_out)`: reads the round and the one   *)
(* before it (RoundNotFound), copies answer and answered_in_round of the   *)
(* latter into a local copy of the former, and removes the details of the  *)
(* round.  The copy is never written back: the stored round is unchanged.  *)
CloseTimedOutRound(store, f, timed_out) ==
    LET prev_id == SaturatingSub(timed_out, 1)
    IN  IF store.rounds[f, prev_id] = None \/ store.rounds[f, timed_out] = None
        THEN [store EXCEPT !.ok = FALSE]
        ELSE [store EXCEPT !.details[f, timed_out] = None]

(* An opening that stores a fresh round only where none is stored, and so *)
(* keeps the answer of a round that is opened again.                       *)
OpenRoundKeepingRound(store, f, feed, new_round_id) ==
    [store EXCEPT !.details[f, new_round_id] = NewRoundDetails(feed),
                  !.rounds[f, new_round_id] =
                        IF @ = None THEN NewRound(now) ELSE @]

(* The two inserts of initialize_round: fresh details and a fresh round    *)
(* under the new id, replacing what is stored there.                       *)
OpenRound(store, f, feed, new_round_id) ==
    [store EXCEPT !.details[f, new_round_id] = NewRoundDetails(feed),
                  !.rounds[f, new_round_id] = NewRound(now)]

(* `initialize_round(feed_id, feed, new_round_id)`: closes the round       *)
(* before the new one if it has timed out (RoundNotFound, or the panic of  *)
(* timed_out, ends the call), then opens the new one.                      *)
InitializeRound(store, f, feed, new_round_id) ==
    LET prev_round_id == SaturatingSub(new_round_id, 1)
        closed == IF TimedOutPanics(store, f, prev_round_id)
                  THEN [store EXCEPT !.ok = FALSE]
                  ELSE IF TimedOut(store, f, prev_round_id)
                       THEN CloseTimedOutRound(store, f, prev_round_id)
                       ELSE store
    IN  IF closed.ok THEN OpenRound(closed, f, feed, new_round_id) ELSE closed

-----------------------------------------------------------------------------
(* An oracle that may start a round as soon as restart_delay rounds have   *)
(* passed, the `+ 1` of the code forgotten.                                *)
EligibleToStartOneRoundEarly(status, feed, round_id) ==
    \/ status.last_started_round = None
    \/ round_id >= UnwrapOr(status.last_started_round, 0) + feed.restart_delay

(* `eligible_to_start` of submit: the oracle has started no round yet, or  *)
(* the round lies more than restart_delay rounds after the last one it     *)
(* started.                                                                *)
EligibleToStart(status, feed, round_id) ==
    LET next_eligible_round ==
            UnwrapOr(status.last_started_round, 0) + feed.restart_delay + 1
    IN  \/ round_id >= next_eligible_round
        \/ status.last_started_round = None

(* The count bounds of the feed as it is configured now, not as it was     *)
(* when the round was opened.                                              *)
CountBoundsOfFeed(feed, round_details) == feed.submission_count_bounds

(* The pair of the snapshot taken apart in the wrong order: the maximum    *)
(* count where the minimum is meant, and the other way round.              *)
CountBoundsSwapped(feed, round_details) ==
    <<round_details.submission_count_bounds[2],
      round_details.submission_count_bounds[1]>>

(* The (min_count, max_count) submit applies to a round: the snapshot in   *)
(* the details of the round.                                               *)
CountBounds(feed, round_details) == round_details.submission_count_bounds

(* `RawEvent::NewRound(feed_id, new_round_id, initiator, started_at)`. *)
NewRoundStarted(f, new_round_id, initiator) ==
    <<"NewRound", f, new_round_id, initiator, now>>

(* An announcement of the answer only by the submission that reaches the   *)
(* minimum count, not by the later ones that change the answer.            *)
AnswerUpdatedAtMinimumOnly(f, round_id, count, min_count, new_answer) ==
    IF count = min_count
    THEN <<<<"AnswerUpdated", f, round_id, new_answer, now>>>>
    ELSE <<>>

(* `RawEvent::AnswerUpdated(feed_id, round_id, new_answer, updated_at)`,   *)
(* deposited by every submission that writes the answer.                   *)
AnswerUpdated(f, round_id, count, min_count, new_answer) ==
    IF count >= min_count
    THEN <<<<"AnswerUpdated", f, round_id, new_answer, now>>>>
    ELSE <<>>

(* A payment that credits the oracle although the reserve has failed: the  *)
(* `?` after the call of reserve left out.                                 *)
ReservePaymentIgnoringError(payment) ==
    \/ Reserve(payment)
    \/ payment > fundFree /\ UNCHANGED ledgerVars

(* The payment of a submission is reserved in the fund; the submission     *)
(* fails if the free balance of the fund does not cover it.                *)
ReservePayment(payment) == Reserve(payment)

(* `submit(origin, feed_id, round_id, submission)`.  The oracle opens the  *)
(* round if it is the one after the reporting round and the oracle may     *)
(* start it; the submission is appended to the details of the round        *)
(* (NotAcceptingSubmissions if there are none); once the minimum count is  *)
(* reached every submission writes the median as the answer of the round   *)
(* and makes the round the latest; the payment of the round is reserved in *)
(* the fund and credited to the oracle; the details are dropped when the   *)
(* maximum count is reached.                                               *)
Submit(oracle, f, round_id, submission) ==
    /\ RoundValidFor(f, oracle, round_id)
    /\ feeds[f] # None                                  \* FeedNotFound
    /\ submission >= feeds[f].submission_value_bounds[1] \* SubmissionBelowMinimum
    /\ submission <= feeds[f].submission_value_bounds[2] \* SubmissionAboveMaximum
    /\ LET feed   == feeds[f]
           status == oracleStati[f, oracle]
           new_round_id == feed.reporting_round + 1
           starts == /\ round_id = new_round_id
                     /\ EligibleToStart(status, feed, round_id)
           store  == IF starts
                     THEN InitializeRound(RoundStore, f, feed, new_round_id)
                     ELSE RoundStore
           taken  == store.details[f, round_id]
       IN
       /\ store.ok                                      \* RoundNotFound
       /\ taken # None                                  \* NotAcceptingSubmissions
       /\ LET pushed    == Append(taken.submissions, submission)
              min_count == CountBounds(feed, taken)[1]
              max_count == CountBounds(feed, taken)[2]
              answers   == Len(pushed) >= min_count
              \* median() sorts the vector of the details in place
              submissions == IF answers THEN SortUnstable(pushed) ELSE pushed
              new_answer == MedianOfSorted(submissions, ValueMax)
          IN
          /\ answers => store.rounds[f, round_id] # None \* RoundNotFound
          /\ ReservePayment(taken.payment_amount)       \* InsufficientBalance
          /\ oracles[oracle] # None                     \* OracleNotFound
          /\ rounds' =
                IF answers
                THEN [store.rounds EXCEPT ![f, round_id] =
                        [@ EXCEPT !.answer = new_answer,
                                  !.updated_at = now,
                                  !.answered_in_round = round_id]]
                ELSE store.rounds
          /\ details' = [store.details EXCEPT ![f, round_id] =
                IF Len(submissions) < max_count
                THEN [taken EXCEPT !.submissions = submissions]
                ELSE None]
          /\ feeds' = [feeds EXCEPT ![f] =
                [@ EXCEPT
                    !.reporting_round = IF starts THEN new_round_id ELSE @,
                    !.latest_round = IF answers THEN round_id ELSE @,
                    !.first_valid_round =
                        IF answers /\ @ = None THEN round_id ELSE @]]
          /\ oracleStati' = [oracleStati EXCEPT ![f, oracle] =
                [@ EXCEPT
                    !.last_started_round = IF starts THEN new_round_id ELSE @,
                    !.last_reported_round = round_id]]
          /\ oracles' = [oracles EXCEPT ![oracle].withdrawable =
                            @ + taken.payment_amount]
          /\ Deposit(
                (IF starts THEN <<NewRoundStarted(f, new_round_id, oracle)>>
                 ELSE <<>>)
                \o <<<<"SubmissionReceived", f, round_id, submission, oracle>>>>
                \o AnswerUpdated(f, round_id, Len(pushed), min_count,
                                 new_answer))
    /\ UNCHANGED <<now, adminVars, feedCounter, requesters>>

-----------------------------------------------------------------------------
(* A supersedable test that forgets the timed-out rounds. *)
SupersedableOnlyWhenUpdated(f) ==
    LET reporting_round == feeds[f].reporting_round
    IN  \/ reporting_round = 0
        \/ /\ rounds[f, reporting_round] # None
           /\ rounds[f, reporting_round].updated_at # None

(* The condition of both request_new_round: the reporting round is round 0 *)
(* or has been updated, or it has timed out (RoundNotSupersedable).  A     *)
(* reporting round that is not stored is RoundNotFound.                    *)
Supersedable(f) ==
    LET reporting_round == feeds[f].reporting_round
        is_first_round_or_updated ==
            \/ reporting_round = 0
            \/ rounds[f, reporting_round].updated_at # None
    IN  /\ reporting_round # 0 => rounds[f, reporting_round] # None
        /\ is_first_round_or_updated \/ TimedOut(RoundStore, f, reporting_round)

(* `FeedOracle::request_new_round(feed_id)`: another pallet of the runtime *)
(* opens the round after the reporting round, which is supersedable.  The  *)
(* reporting round of the feed is not advanced.  The initiator of the      *)
(* event is the default account, here None.                                *)
OpenRequestedRound(f, initiator) ==
    /\ feeds[f] # None                                  \* FeedNotFound
    /\ Supersedable(f)
    /\ LET new_round == feeds[f].reporting_round + 1
           store == InitializeRound(RoundStore, f, feeds[f], new_round)
       IN  /\ new_round <= MaxRound                     \* bound; Overflow
           /\ store.ok                                  \* RoundNotFound
           /\ rounds' = store.rounds
           /\ details' = store.details
           /\ Emit(NewRoundStarted(f, new_round, initiator))
    /\ UNCHANGED <<now, adminVars, feedCounter, feeds, oracleVars, ledgerVars>>

FeedOracleRequestNewRound(f) ==
    OpenRequestedRound(f, None) /\ UNCHANGED requesters

(* `request_new_round(origin, feed_id)`: the same for a requester of the   *)
(* feed, whose cooldown has passed and starts again.                       *)
RequestNewRound(sender, f) ==
    /\ requesters[f, sender] # None                     \* NotAuthorizedRequester
    /\ OpenRequestedRound(f, sender)
    /\ LET new_round == feeds[f].reporting_round + 1
       IN  /\ MayRequest(requesters[f, sender], new_round) \* CannotRequestRoundYet
           /\ requesters' = [requesters EXCEPT
                                ![f, sender].last_started_round = new_round]

=============================================================================
