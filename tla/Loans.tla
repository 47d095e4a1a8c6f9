------------------------------- MODULE Loans --------------------------------
(***************************************************************************)
(* The approval of a loan, its rejection and its disbursement              *)
(* (services/loans.ts, disburseLoan of services/disbursements.ts), with    *)
(* the credit committee (services/committees.ts).  Repayments are one      *)
(* step here: they are only told apart by whether they end the loan.       *)
(***************************************************************************)
EXTENDS Guarantees

CONSTANTS
    Officers,     \* managers with an active AccountOfficerAssignment
    Appointable,  \* persons that super admins appoint to the committee
    Size          \* configured seats of the committee

ASSUME LoansAssumption ==
    Officers \subseteq Managers /\ Appointable \subseteq Persons /\ Size \in Nat

VARIABLES
    seats,  \* active CommitteeMember rows
    dec,    \* the status of the CommitteeDecision on each loan
    votes,  \* the CommitteeVote rows
    prov    \* the provider's record of reference TFR-LOAN-<loan>

committeeVars == <<seats, dec, votes>>
vars == <<guaranteeVars, committeeVars, prov>>

Init ==
    /\ GuaranteesInit
    /\ seats = {}
    /\ dec = [l \in Loans |-> "none"]
    /\ votes = [l \in Loans |-> [m \in Persons |-> "none"]]
    /\ prov = [l \in Loans |-> "none"]

Majority == Size \div 2 + 1
CommitteeActive == Cardinality(seats) >= Majority
Voters(l, v) == {m \in Persons : votes[l][m] = v}
MayVote(m, l) == m \in seats /\ dec[l] \in {"none", "pending"} /\ votes[l][m] = "none"

Appoint(m) ==
    /\ m \notin seats
    /\ seats' = seats \cup {m}
    /\ UNCHANGED <<guaranteeVars, dec, votes, prov>>

Unseat(m) ==
    /\ m \in seats
    /\ seats' = seats \ {m}
    /\ UNCHANGED <<guaranteeVars, dec, votes, prov>>

-----------------------------------------------------------------------------
(* approveLoan                                                             *)

Signers(l) == {loan[l].officer, loan[l].admin, loan[l].super1, loan[l].super2}

\* Mutant: who has signed another stage may sign this one.
MaySignAgain(m, l) == m # loan[l].by

MaySign(m, l) == m # loan[l].by /\ m \notin Signers(l)

\* The stage that the loan's status calls for, and who may take it.
Stage(m, l) ==
    LET st == loan[l].status IN
    \/ st = "guaranteed" /\ m \in Officers
    \/ st = "account_officer_approved" /\ m \in Managers
    \/ st = "admin_approved" /\ ~CommitteeActive /\ m \in Supers

Begin(k, m, l, pc, v) ==
    /\ hand[k].pc = "idle" /\ ~Busy(m)
    /\ hand' = [hand EXCEPT ![k] = [Idle EXCEPT !.pc = pc, !.who = m, !.l = l,
                                    !.from = loan[l].status, !.vote = v,
                                    !.fresh = v # "none" /\ dec[l] = "none"]]
    /\ UNCHANGED <<loan, gua, swap, committeeVars, prov>>

ReadForApproval(k, m, l) ==
    /\ MaySign(m, l)
    /\ \/ Stage(m, l) /\ Begin(k, m, l, "sign", "none")
       \/ /\ loan[l].status = "super_approved_1" /\ m \in Supers
          /\ Begin(k, m, l, "finalize", "none")
       \/ /\ loan[l].status = "admin_approved" /\ CommitteeActive /\ MayVote(m, l)
          /\ Begin(k, m, l, "vote", "approve")

\* The update fires from the status that was read, once the row is free.
Still(k) == ~Locked(hand[k].l) /\ loan[hand[k].l].status = hand[k].from

OfficerApproves(k) ==
    /\ hand[k].pc = "sign" /\ hand[k].from = "guaranteed" /\ Still(k)
    /\ loan' = [loan EXCEPT ![hand[k].l].status = "account_officer_approved",
                            ![hand[k].l].officer = hand[k].who]
    /\ Return(k) /\ UNCHANGED <<gua, swap, committeeVars, prov>>

AdminApproves(k) ==
    /\ hand[k].pc = "sign" /\ hand[k].from = "account_officer_approved" /\ Still(k)
    /\ loan' = [loan EXCEPT ![hand[k].l].status = "admin_approved",
                            ![hand[k].l].admin = hand[k].who]
    /\ Return(k) /\ UNCHANGED <<gua, swap, committeeVars, prov>>

FirstSuperApproves(k) ==
    /\ hand[k].pc = "sign" /\ hand[k].from = "admin_approved" /\ Still(k)
    /\ loan' = [loan EXCEPT ![hand[k].l].status = "super_approved_1",
                            ![hand[k].l].super1 = hand[k].who]
    /\ Return(k) /\ UNCHANGED <<gua, swap, committeeVars, prov>>

\* "was just updated by another approval"
SignRefused(k) ==
    /\ hand[k].pc = "sign" /\ loan[hand[k].l].status # hand[k].from
    /\ Return(k) /\ UNCHANGED <<loan, gua, swap, committeeVars, prov>>

-----------------------------------------------------------------------------
(* recordCommitteeVote                                                     *)

\* cvote <loan> reject, whatever the loan's status.
ReadForRejectVote(k, m, l) ==
    /\ loan[l].status # "none" /\ MayVote(m, l)
    /\ Begin(k, m, l, "vote", "reject")

\* Another voter's first decision row is not committed yet.
Inserting(l) ==
    \E j \in Hands : /\ hand[j].l = l /\ hand[j].fresh
                     /\ hand[j].pc # "vote"

\* Mutant: a majority of the seats that are filled is enough.
TallyOfSeated(approvals, rejections) ==
    IF 2 * approvals > Cardinality(seats) THEN "approved"
    ELSE IF approvals + rejections >= Cardinality(seats) THEN "rejected"
    ELSE "none"

Tally(approvals, rejections) ==
    IF approvals >= Majority THEN "approved"
    ELSE IF rejections >= Majority \/ approvals + rejections >= Cardinality(seats) THEN "rejected"
    ELSE "none"

\* The vote is inserted and counted with those that are committed.
CastVote(k) ==
    LET l == hand[k].l
        all(v) == Cardinality(Voters(l, v)) + (IF hand[k].vote = v THEN 1 ELSE 0)
    IN
    /\ hand[k].pc = "vote"
    /\ IF hand[k].fresh THEN dec[l] = "none" /\ ~Inserting(l) ELSE TRUE
    /\ hand' = [hand EXCEPT ![k].pc = "tally", ![k].res = Tally(all("approve"), all("reject"))]
    /\ UNCHANGED <<loan, gua, swap, committeeVars, prov>>

\* Somebody else's first vote came in between: the insert of the decision fails.
VoteCollides(k) ==
    /\ hand[k].pc = "vote" /\ hand[k].fresh /\ dec[hand[k].l] # "none"
    /\ Return(k) /\ UNCHANGED <<loan, gua, swap, committeeVars, prov>>

\* The decision row is updated by a voter who has not committed.
Deciding(l) ==
    \E k \in Hands : /\ hand[k].l = l /\ hand[k].vote = "approve"
                     /\ hand[k].pc \in {"finalize", "pay", "book"}

\* What a handler's vote, if it cast one, leaves in the committee's rows.
RecordVote(k) ==
    LET l == hand[k].l IN
    /\ votes' = IF hand[k].vote = "none" THEN votes
                ELSE [votes EXCEPT ![l][hand[k].who] = hand[k].vote]
    /\ dec' = IF hand[k].vote = "none" THEN dec
              ELSE [dec EXCEPT ![l] = IF hand[k].res # "none" THEN hand[k].res
                                      ELSE IF dec[l] = "none" THEN "pending" ELSE dec[l]]
    /\ UNCHANGED seats

\* Nothing is decided, or the loan was voted through by a vote to reject, the
\* first to see a majority: the cvote command then does nothing more.
VoteOnly(k) ==
    /\ hand[k].pc = "tally"
    /\ hand[k].res = "none" \/ (hand[k].res = "approved" /\ hand[k].vote = "reject")
    /\ hand[k].res = "approved" => ~Deciding(hand[k].l)
    /\ RecordVote(k) /\ Return(k) /\ UNCHANGED <<loan, gua, swap, prov>>

\* The cvote command rejects the loan as well; a last vote to approve that
\* leaves no majority does not.
DecideRejected(k) ==
    LET l == hand[k].l IN
    /\ hand[k].pc = "tally" /\ hand[k].res = "rejected" /\ ~Deciding(l)
    /\ hand[k].vote = "reject" => ~Locked(l)
    /\ loan' = IF hand[k].vote = "reject" /\ loan[l].status \in {"admin_approved", "super_approved_1"}
               THEN [loan EXCEPT ![l].status = "rejected"] ELSE loan
    /\ RecordVote(k) /\ Return(k) /\ UNCHANGED <<gua, swap, prov>>

\* A majority approves: on to finalizeLoanApproval.
DecideApproved(k) ==
    /\ hand[k].pc = "tally" /\ hand[k].res = "approved" /\ hand[k].vote = "approve"
    /\ ~Deciding(hand[k].l)
    /\ hand' = [hand EXCEPT ![k].pc = "finalize"]
    /\ UNCHANGED <<loan, gua, swap, committeeVars, prov>>

-----------------------------------------------------------------------------
(* finalizeLoanApproval and disburseLoan                                   *)

\* The loan moved on, or the cooperative has fewer than 20 active members, or
\* the rate is too high.  A deciding vote stays recorded.
FinalizeRefused(k) ==
    /\ hand[k].pc = "finalize"
    /\ RecordVote(k) /\ Return(k) /\ UNCHANGED <<loan, gua, swap, prov>>

\* The claim locks the row until the handler's end.
Claim(k) ==
    /\ hand[k].pc = "finalize" /\ Still(k)
    /\ hand' = [hand EXCEPT ![k].pc = "pay"]
    /\ UNCHANGED <<loan, gua, swap, committeeVars, prov>>

\* The handler's transaction commits the loan with this status.
Commit(k, st, paid, n) ==
    LET l == hand[k].l IN
    /\ loan' = [loan EXCEPT ![l].status = st, ![l].super2 = hand[k].who, ![l].pay = paid,
                            ![l].booked = @ + n]
    /\ RecordVote(k) /\ Return(k) /\ UNCHANGED <<gua, swap, prov>>

\* Mutant: the disbursement is not claimed.
Unpaid(l) == TRUE

\* The claim on disbursementStatus.  A Payout row, which turns a second payout
\* away as well, is only committed with "successful".
Payable(l) == loan[l].pay # "successful"

AlreadyPaid(k) ==
    /\ hand[k].pc = "pay" /\ ~Payable(hand[k].l)
    /\ Commit(k, "approved", loan[hand[k].l].pay, 0)

\* No bank details, an account of another name, or a screening hit.
Held(k) == hand[k].pc = "pay" /\ Payable(hand[k].l) /\ Commit(k, "approved", "failed", 0)

\* The transfer is taken, awaits an authorization or its answer is lost; or it
\* is refused, as a duplicate when the provider holds the reference.
Answers(l) ==
    IF prov[l] \in {"none", "failed"}
    THEN {[p |-> "accepted", res |-> "ok"], [p |-> "accepted", res |-> "unsure"],
          [p |-> "failed", res |-> "refused"]}
    ELSE {[p |-> prov[l], res |-> "refused"]}

CallProvider(k) ==
    /\ hand[k].pc = "pay" /\ Payable(hand[k].l)
    /\ \E ans \in Answers(hand[k].l) :
        /\ prov' = [prov EXCEPT ![hand[k].l] = ans.p]
        /\ hand' = [hand EXCEPT ![k].pc = "book", ![k].from = ans.res]
    /\ UNCHANGED <<loan, gua, swap, committeeVars>>

Disbursed(k) ==
    /\ hand[k].pc = "book" /\ hand[k].from = "ok"
    /\ Commit(k, "disbursed", "successful", 1)

\* Mutant: a status the row does not have.
NotDisbursedUnknown(k) ==
    /\ hand[k].pc = "book" /\ hand[k].from # "ok"
    /\ Commit(k, "failed", "failed", 0)

\* Nothing tries again: the loan stays approved.
NotDisbursed(k) ==
    /\ hand[k].pc = "book" /\ hand[k].from # "ok"
    /\ Commit(k, "approved", "failed", 0)

ProviderSettles(l) ==
    /\ prov[l] = "accepted"
    /\ \E st \in {"sent", "failed"} : prov' = [prov EXCEPT ![l] = st]
    /\ UNCHANGED <<guaranteeVars, committeeVars>>

\* The process dies, or the transaction fails, deadlocks or times out.
Lose(k) ==
    /\ hand[k].pc # "idle"
    /\ Return(k) /\ UNCHANGED <<loan, gua, swap, committeeVars, prov>>

-----------------------------------------------------------------------------
(* Rejections and the last repayment                                       *)

RejectByOfficer(m, l) ==
    /\ m \in Officers /\ m # loan[l].by /\ ~Locked(l)
    /\ loan[l].status \in {"guaranteed", "account_officer_approved"}
    /\ loan' = [loan EXCEPT ![l].status = "rejected_by_officer"]
    /\ UNCHANGED <<gua, swap, hand, committeeVars, prov>>

\* The dashboard rejects a pending loan; its update is not guarded.
ReadForReject(k, m, l) ==
    /\ loan[l].status = "pending"
    /\ Begin(k, m, l, "reject", "none")

RejectPending(k) ==
    /\ hand[k].pc = "reject" /\ ~Locked(hand[k].l)
    /\ loan' = [loan EXCEPT ![hand[k].l].status = "rejected"]
    /\ Return(k) /\ UNCHANGED <<gua, swap, committeeVars, prov>>

\* repayLoan takes approved loans too.
Repaid(l) ==
    /\ loan[l].status \in {"approved", "disbursed"} /\ ~Locked(l)
    /\ loan' = [loan EXCEPT ![l].status = "paid"]
    /\ UNCHANGED <<gua, swap, hand, committeeVars, prov>>

Handler(k) ==
    \/ OfficerApproves(k) \/ AdminApproves(k) \/ FirstSuperApproves(k) \/ SignRefused(k)
    \/ CastVote(k) \/ VoteCollides(k) \/ VoteOnly(k) \/ DecideRejected(k) \/ DecideApproved(k)
    \/ FinalizeRefused(k) \/ Claim(k) \/ AlreadyPaid(k) \/ Held(k) \/ CallProvider(k)
    \/ Disbursed(k) \/ NotDisbursed(k) \/ RejectPending(k) \/ Lose(k)

Next ==
    \/ GuaranteeStep /\ UNCHANGED <<committeeVars, prov>>
    \/ \E k \in Hands, m \in Persons, l \in Loans :
        ReadForApproval(k, m, l) \/ ReadForRejectVote(k, m, l)
    \/ \E k \in Hands, m \in Managers, l \in Loans : ReadForReject(k, m, l)
    \/ \E k \in Hands : Handler(k)
    \/ \E m \in Managers, l \in Loans : RejectByOfficer(m, l)
    \/ \E l \in Loans : Repaid(l) \/ ProviderSettles(l)
    \/ \E m \in Appointable : Appoint(m) \/ Unseat(m)

Spec == Init /\ [][Next]_vars

-----------------------------------------------------------------------------
(* Properties                                                              *)

Statuses == {"none", "pending", "guaranteed", "account_officer_approved", "admin_approved",
             "super_approved_1", "approved", "disbursed", "paid", "rejected",
             "rejected_by_officer"}
Signer == Persons \cup {Nobody}
LoanRow == [status : Statuses, by : Signer, joint : BOOLEAN, officer : Signer, admin : Signer,
            super1 : Signer, super2 : Signer, pay : {"none", "failed", "successful"},
            booked : Nat]
SwapRow == [status : {"none", "pending_guarantor", "pending_admin", "approved", "rejected"},
            l : Loans \cup {NoLoan}, old : Signer, new : Signer]
HandRow == [pc : {"idle", "confirm", "counted", "accept", "decline", "swap", "sign", "vote",
                  "tally", "finalize", "pay", "book", "reject"},
            who : Signer, l : Loans \cup {NoLoan}, x : Swaps \cup {NoSwap},
            from : Statuses \cup {"ok", "unsure", "refused"},
            vote : {"none", "approve", "reject"}, fresh : BOOLEAN,
            res : {"none", "enough", "approved", "rejected"}]

TypeOK ==
    /\ loan \in [Loans -> LoanRow]
    /\ gua \in [Loans -> [Persons -> {"none", "pending", "confirmed", "released"}]]
    /\ swap \in [Swaps -> SwapRow]
    /\ hand \in [Hands -> HandRow]
    /\ seats \subseteq Appointable
    /\ dec \in [Loans -> {"none", "pending", "approved", "rejected"}]
    /\ votes \in [Loans -> [Persons -> {"none", "approve", "reject"}]]
    /\ prov \in [Loans -> {"none", "accepted", "sent", "failed"}]

\* "The same person cannot fill multiple approval roles", and nobody signs a
\* loan of their own.
OneRoleEach ==
    \A l \in Loans :
        LET r == loan[l] IN
        /\ r.by \notin Signers(l) \/ r.status = "none"
        /\ r.officer # Nobody => r.officer \notin {r.admin, r.super1, r.super2}
        /\ r.admin # Nobody => r.admin \notin {r.super1, r.super2}
        /\ r.super1 # Nobody => r.super1 # r.super2

\* A handler that disburses does so on two super admins' signatures, its own
\* one of them, or on votes to approve of a majority of the committee.
PaidByMandate ==
    \A k \in Hands :
        hand[k].pc \in {"pay", "book"} =>
            LET l == hand[k].l IN
            \/ hand[k].who \in Supers /\ loan[l].super1 \in Supers \ {hand[k].who}
            \/ Cardinality(Voters(l, "approve") \cup {hand[k].who}) >= Majority

\* From its guarantee to its end a loan has the guarantors it needs, whatever
\* exchanges of guarantors were asked for, raced or declined.
KeepsGuarantors ==
    \A l \in Loans :
        /\ loan[l].status \in Live \cup {"account_officer_approved"} /\ ~loan[l].joint
           => Cardinality(Confirmed(l)) >= Needed(loan[l].by)
        /\ loan[l].by \notin Asked(l)

\* A loan is entered in the ledger once, when the bank took the transfer, even
\* if a late confirmation sends a disbursed loan through the approvals again.
BookedOnce ==
    \A l \in Loans :
        /\ loan[l].booked = IF loan[l].pay = "successful" THEN 1 ELSE 0
        /\ loan[l].booked = 1 => prov[l] # "none"
        /\ loan[l].status = "disbursed" => loan[l].booked = 1

-----------------------------------------------------------------------------
(* What the repository says of this code, and the code does not do.        *)

\* rejectLoan: "Rejection is terminal - loan cannot be revived, must reapply."
RejectionIsTerminal ==
    [][\A l \in Loans : loan[l].status \in {"rejected", "rejected_by_officer"}
                       => loan'[l].status = loan[l].status]_vars

\* hasActiveCommittee: "a loan can never strand waiting for votes that no one is
\* seated to cast".
NeverStrands ==
    \A l \in Loans :
        /\ loan[l].status = "admin_approved" /\ CommitteeActive
        /\ \A k \in Hands : hand[k].pc = "idle"
        => \E m \in seats : MayVote(m, l)
=============================================================================
