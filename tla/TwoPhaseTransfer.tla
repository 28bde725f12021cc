--------------------------- MODULE TwoPhaseTransfer ---------------------------
(***************************************************************************)
(* What a two-step transfer of a role promises: a role has at most one     *)
(* holder; someone may be nominated for a role that has a holder, and a    *)
(* later nomination replaces an earlier one; the holder changes in one way *)
(* only, the nominee taking the role, which ends the nomination.  A role   *)
(* never loses its holder.                                                 *)
(*                                                                         *)
(* The pallet has three such roles: the owner of a feed, the admin of an   *)
(* oracle and the admin of the pallet.  Who makes a call is not part of    *)
(* the state, so this specification says what may happen to a role, not    *)
(* who may do it.                                                          *)
(***************************************************************************)
CONSTANTS
    Roles,      \* what is held: feeds, oracles, or the pallet
    Parties,    \* who holds and who is nominated
    Nobody      \* no holder yet, no nominee

ASSUME Nobody \notin Parties

VARIABLES
    holder,     \* holder[r]: the party that holds role r
    nominee     \* nominee[r]: the party that may take role r over

roleVars == <<holder, nominee>>

TypeOK ==
    /\ holder \in [Roles -> Parties \cup {Nobody}]
    /\ nominee \in [Roles -> Parties \cup {Nobody}]

(* Some roles exist from the start; no nomination is pending. *)
Init ==
    /\ holder \in [Roles -> Parties \cup {Nobody}]
    /\ nominee = [r \in Roles |-> Nobody]

(* Roles come into being with their first holders, any number of them in  *)
(* one step: every role whose holder changes had none.                     *)
Establish ==
    /\ holder' \in [Roles -> Parties \cup {Nobody}]
    /\ \A r \in Roles : holder[r] # Nobody => holder'[r] = holder[r]
    /\ UNCHANGED nominee

(* A party is nominated for a role that is held. *)
Propose(r, p) ==
    /\ holder[r] # Nobody
    /\ nominee' = [nominee EXCEPT ![r] = p]
    /\ UNCHANGED holder

(* The nominee takes the role. *)
Accept(r) ==
    /\ nominee[r] # Nobody
    /\ holder' = [holder EXCEPT ![r] = nominee[r]]
    /\ nominee' = [nominee EXCEPT ![r] = Nobody]

Next ==
    \/ Establish
    \/ \E r \in Roles : Accept(r) \/ \E p \in Parties : Propose(r, p)

Spec == Init /\ [][Next]_roleVars

=============================================================================
