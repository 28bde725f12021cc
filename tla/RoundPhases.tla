----------------------------- MODULE RoundPhases -----------------------------
(***************************************************************************)
(* What the rounds of a feed promise its consumers, the state machine of   *)
(* the design document: a round is opened Pending, becomes Answered when   *)
(* enough oracles have reported, and ends Closed; while it is Answered its *)
(* answer may still change, once it is Closed it never changes again, and  *)
(* only a pruning sweep removes it.  Round 0 is stored Closed when the     *)
(* feed is created.                                                        *)
(*                                                                         *)
(* One call may take a round through several phases (the submission that   *)
(* opens a round may answer and close it) and may move two rounds (a new   *)
(* round opens while the one before it is closed), so a step moves every   *)
(* round forward by any number of phases.                                  *)
(***************************************************************************)
EXTENDS Naturals

CONSTANTS
    Slots,      \* the rounds: pairs of a feed and a round id
    Answers,    \* what a round may answer
    NoAnswer    \* the answer of a round that has none

ASSUME NoAnswer \notin Answers

VARIABLES
    phase,      \* phase[s]: how far round s has come
    answer      \* answer[s]: its answer

phaseVars == <<phase, answer>>

Order == [absent |-> 0, pending |-> 1, answered |-> 2, closed |-> 3]

TypeOK ==
    /\ phase \in [Slots -> DOMAIN Order]
    /\ answer \in [Slots -> Answers \cup {NoAnswer}]

Init ==
    /\ phase = [s \in Slots |-> "absent"]
    /\ answer = [s \in Slots |-> NoAnswer]

(* A round that is not stored, or waits for its first answer, has none;    *)
(* an Answered round has one; a round may close with or without one.       *)
WellFormed(s) ==
    /\ phase'[s] \in {"absent", "pending"} => answer'[s] = NoAnswer
    /\ phase'[s] = "answered" => answer'[s] \in Answers

(* The round stays as it is or moves forward; a Closed round is final. *)
Advance(s) ==
    /\ Order[phase'[s]] >= Order[phase[s]]
    /\ phase[s] = "closed" => answer'[s] = answer[s]

(* A stored round is removed. *)
Remove(s) == phase[s] # "absent" /\ phase'[s] = "absent"

Next ==
    /\ phase' \in [Slots -> DOMAIN Order]
    /\ \A s \in Slots : WellFormed(s) /\ (Advance(s) \/ Remove(s))

Spec == Init /\ [][Next]_phaseVars

=============================================================================
