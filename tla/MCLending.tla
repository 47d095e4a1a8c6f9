----------------------------- MODULE MCLending ------------------------------
(* Small instances of Loans for TLC.  In part "guarantors" members find
   guarantors and there is no committee; in part "committee" the loan is a
   group's and has no guarantors. *)
EXTENDS Loans, TLC

VARIABLE part

mcVars == <<vars, part>>

\* Persons of one kind are interchangeable.
Symmetry ==
    Permutations(Hands) \cup Permutations(Admins) \cup Permutations(Supers)
    \cup Permutations(Members)

MCInit == Init /\ part \in {"guarantors", "committee"}

Board == part = "committee" /\ UNCHANGED part
Bail == part = "guarantors" /\ UNCHANGED <<part, committeeVars, prov>>
Both == UNCHANGED part

MCNext ==
    \/ \E b \in Persons, l \in Loans : Apply(b, l) /\ Bail
    \/ \E b \in Members \cup Supers, l \in Loans :
        ApplyJointly(b, l) /\ Board /\ UNCHANGED <<committeeVars, prov>>
    \/ \E l \in Loans, m \in Persons : AddGuarantor(l, m) /\ Bail
    \/ \E k \in Hands, m \in Persons, l \in Loans : ReadCode(k, m, l) /\ Bail
    \/ \E x \in Swaps, l \in Loans, old, new \in Persons : RequestSwap(x, l, old, new) /\ Bail
    \/ \E k \in Hands, x \in Swaps : ReadSwapCode(k, x) /\ Bail
    \/ \E k \in Hands, a \in Managers, x \in Swaps :
        (ReadForDecline(k, a, x) \/ ReadForSwap(k, a, x)) /\ Bail
    \/ \E k \in Hands :
        (\/ CountConfirmed(k) \/ ConfirmGuarantee(k) \/ AcceptSwap(k) \/ DeclineSwap(k)
         \/ SwapGuarantor(k) \/ SwapCollides(k)) /\ Bail
    \/ \E k \in Hands, m \in Persons, l \in Loans : ReadForApproval(k, m, l) /\ Both
    \/ \E k \in Hands, m \in Persons, l \in Loans : ReadForRejectVote(k, m, l) /\ Board
    \/ \E k \in Hands, m \in Managers, l \in Loans : ReadForReject(k, m, l) /\ Both
    \/ \E k \in Hands : Handler(k) /\ Both
    \/ \E m \in Managers, l \in Loans : RejectByOfficer(m, l) /\ Both
    \/ \E l \in Loans : (Repaid(l) \/ ProviderSettles(l)) /\ Both
    \/ \E m \in Appointable : (Appoint(m) \/ Unseat(m)) /\ Board

MCSpec == MCInit /\ [][MCNext]_mcVars
=============================================================================
