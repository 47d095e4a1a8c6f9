---------------------------- MODULE DeathClaims ----------------------------
(* Claims on a dead member's savings (services/deathclaims.ts): the certificate,
   two validations, the family's confirmation and bank account, the approvals of
   super admins, the write-off of protected loans (services/loan-protection.ts)
   and the payout.

   A handler is one transaction, the payout included. It reads in one step and
   writes in another; guarded updates look at the committed row, the others
   overwrite it. The claims are about one dead member. *)
EXTENDS BankTransfer, Naturals

CONSTANTS
    Claims,       \* DeathClaim rows that may come to exist
    Supers,       \* super admins
    Members,      \* the others who may validate
    Backers,      \* confirmed guarantors of the dead member's loans
    Hands,        \* concurrent handlers
    Balance0,     \* savings of the dead member
    Debt0, Fund0, \* his protected loan's balance and the protection fund
    Nobody, NoClaim

VARIABLES
    dead,       \* the member's status is deceased
    claim,      \* DeathClaim: status, family (confirmed), account (set), late (the 72 h are over)
    valid,      \* DeathValidation: who validated
    appr,       \* DeathClaimApproval: which super admins approved
    bank,       \* the transfer TFR-CLAIM-<id>
    paidOut,    \* what was transferred for a claim
    wallet,     \* the dead member's balance
    debt, fund, \* the protected loan's balance, Cooperative.protectionFundBalance
    writtenOff, \* history: what the journal has written off the loan
    hand        \* handlers between read and commit: what they saw

vars == <<dead, claim, valid, appr, bank, paidOut, wallet, debt, fund, writtenOff, hand>>
rest == <<bank, paidOut, wallet, debt, fund, writtenOff>>

RequiredValidations == 2
ApprovalsRequired == 2

NewClaim == [status |-> "none", family |-> FALSE, account |-> FALSE, late |-> FALSE]
IdleHand == [pc |-> "idle", who |-> Nobody, c |-> NoClaim, ready |-> FALSE, seen |-> {},
             debt |-> 0, wallet |-> 0]

Init ==
    /\ dead = FALSE
    /\ claim = [c \in Claims |-> NewClaim]
    /\ valid = [c \in Claims |-> {}]
    /\ appr = [c \in Claims |-> {}]
    /\ bank = [c \in Claims |-> NoTransfer]
    /\ paidOut = [c \in Claims |-> 0]
    /\ wallet = Balance0
    /\ debt \in {0, Debt0}   \* he may have no protected loan
    /\ fund = Fund0
    /\ writtenOff = 0
    /\ hand = [k \in Hands |-> IdleHand]

Closed == {"paid", "rejected"}
OpenClaim(c) == claim[c].status \notin Closed \cup {"none"}
Exists(c) == claim[c].status # "none"

\* A person has one handler at a time.
Begin(k, pc, who, c, ready, seen) ==
    /\ hand[k].pc = "idle"
    /\ \A j \in Hands : hand[j].who # who
    /\ hand' = [hand EXCEPT ![k] =
            [IdleHand EXCEPT !.pc = pc, !.who = who, !.c = c, !.ready = ready, !.seen = seen]]

End(k) == hand' = [hand EXCEPT ![k] = IdleHand]

\* A payout keeps the claim's row locked from its claim to its commit.
Free(c) == \A k \in Hands : hand[k].pc = "payout" => hand[k].c # c

-----------------------------------------------------------------------------
(* Opening, certificate, family, bank account *)

(* startDeathClaim looks for an open claim only if the member is already known
   as dead. *)
ReadStart(k, s, c) ==
    /\ claim[c].status = "none"
    /\ \A j \in Hands : hand[j].c # c
    /\ dead => ~\E d \in Claims : OpenClaim(d)
    /\ Begin(k, "start", s, c, FALSE, {})
    /\ UNCHANGED <<dead, claim, valid, appr, rest>>

StartDeathClaim(k) ==
    /\ hand[k].pc = "start"
    /\ dead' = TRUE
    /\ claim' = [claim EXCEPT ![hand[k].c].status = "awaiting_certificate"]
    /\ End(k)
    /\ UNCHANGED <<valid, appr, rest>>

SubmitCertificate(c) ==
    /\ claim[c].status = "awaiting_certificate"
    /\ claim' = [claim EXCEPT ![c].status = "awaiting_validation"]
    /\ UNCHANGED <<dead, valid, appr, rest, hand>>

\* The one-time code is for one confirmation; it is accepted at any age.
ConfirmFamily(c) ==
    /\ OpenClaim(c) /\ Free(c)
    /\ ~claim[c].family
    /\ claim' = [claim EXCEPT ![c].family = TRUE]
    /\ UNCHANGED <<dead, valid, appr, rest, hand>>

SetClaimBank(c) ==
    /\ OpenClaim(c) /\ Free(c)
    /\ claim' = [claim EXCEPT ![c].account = TRUE]
    /\ UNCHANGED <<dead, valid, appr, rest, hand>>

WaitingPeriodEnds(c) ==
    /\ Exists(c)
    /\ ~claim[c].late
    /\ claim' = [claim EXCEPT ![c].late = TRUE]
    /\ UNCHANGED <<dead, valid, appr, rest, hand>>

-----------------------------------------------------------------------------
(* Validation *)

\* With two guarantors or more, only they validate.
MayValidate(m) == Cardinality(Backers) >= RequiredValidations => m \in Backers

ReadValidate(k, m, c) ==
    /\ claim[c].status = "awaiting_validation"
    /\ m \notin valid[c]
    /\ MayValidate(m)
    /\ Begin(k, "validate", m, c, FALSE, valid[c])
    /\ UNCHANGED <<dead, claim, valid, appr, rest>>

(* The row is inserted; the count is of the rows that were read, and the status
   is written without a guard. *)
ValidateClaim(k) ==
    /\ hand[k].pc = "validate"
    /\ Free(hand[k].c)
    /\ LET c == hand[k].c IN
        /\ valid' = [valid EXCEPT ![c] = @ \cup {hand[k].who}]
        /\ claim' = IF Cardinality(hand[k].seen) + 1 >= RequiredValidations
                    THEN [claim EXCEPT ![c].status = "validated"]
                    ELSE claim
    /\ End(k)
    /\ UNCHANGED <<dead, appr, rest>>

-----------------------------------------------------------------------------
(* Approval and payout *)

(* approveClaim: the claim is read, the approval inserted and the approvals
   counted, those of open transactions not among them. *)
ReadApprove(k, s, c) ==
    /\ claim[c].status = "validated"
    /\ claim[c].account
    /\ s \notin appr[c]
    /\ Begin(k, "approve", s, c, claim[c].family /\ claim[c].late, appr[c])
    /\ UNCHANGED <<dead, claim, valid, appr, rest>>

Approval(k) == appr' = [appr EXCEPT ![hand[k].c] = @ \cup {hand[k].who}]

\* Mutant: the waiting period and the family are not looked at.
ConditionsMetEarly(k) == Cardinality(hand[k].seen) + 1 >= ApprovalsRequired

ConditionsMet(k) ==
    /\ hand[k].ready
    /\ Cardinality(hand[k].seen) + 1 >= ApprovalsRequired

\* Not all conditions are met, or the claim's status has changed: the approval stays.
RecordApproval(k) ==
    /\ hand[k].pc = "approve"
    /\ Free(hand[k].c)
    /\ ~(ConditionsMet(k) /\ claim[hand[k].c].status = "validated")
    /\ Approval(k)
    /\ End(k)
    /\ UNCHANGED <<dead, claim, valid, rest>>

\* The claim's row is taken, the protected loan and, if there is none, the wallet read.
ClaimPayout(k) ==
    /\ hand[k].pc = "approve"
    /\ Free(hand[k].c)
    /\ ConditionsMet(k)
    /\ claim[hand[k].c].status = "validated"
    /\ hand' = [hand EXCEPT ![k].pc = "payout", ![k].debt = debt, ![k].wallet = wallet]
    /\ UNCHANGED <<dead, claim, valid, appr, rest>>

(* writeOffProtection: the loan is settled whatever became of it since it was
   read; the fund covers what it can, the rest is an expense. *)
FromFund(seen) == IF seen <= fund THEN seen ELSE fund

WriteOff(k) ==
    /\ debt' = IF hand[k].debt > 0 THEN 0 ELSE debt
    /\ fund' = fund - FromFund(hand[k].debt)
    /\ writtenOff' = writtenOff + hand[k].debt

(* Whoever updated the loan has waited for the transactions before it, and reads
   the wallet after them. *)
Savings(k) == IF hand[k].debt > 0 THEN wallet ELSE hand[k].wallet

SetStatus(c, s) == claim' = [claim EXCEPT ![c].status = s]

CloseEmpty(k) ==
    /\ Savings(k) = 0
    /\ SetStatus(hand[k].c, "paid")
    /\ UNCHANGED <<bank, paidOut, wallet>>

\* The guarded debit fails: the claim stays validated.
BalanceChanged(k) ==
    /\ Savings(k) > wallet
    /\ UNCHANGED <<claim, bank, paidOut, wallet>>

(* The wallet is debited, the transfer sent, and the debit taken back if the
   answer is a refusal. *)
SendSavings(k) ==
    /\ Savings(k) > 0
    /\ Savings(k) <= wallet
    /\ LET c == hand[k].c IN
        \E o \in SendToBank(bank[c]) :
            /\ bank' = [bank EXCEPT ![c] = o.bank]
            /\ CASE o.answer = "successful" ->
                        /\ SetStatus(c, "paid")
                        /\ paidOut' = [paidOut EXCEPT ![c] = Savings(k)]
                        /\ wallet' = wallet - Savings(k)
                 [] o.answer = "unsure" ->
                        /\ SetStatus(c, "investigating")
                        /\ wallet' = wallet - Savings(k)
                        /\ UNCHANGED paidOut
                 [] OTHER -> UNCHANGED <<claim, wallet, paidOut>>

FinalizeClaim(k) ==
    /\ hand[k].pc = "payout"
    /\ Approval(k)
    /\ WriteOff(k)
    /\ CloseEmpty(k) \/ BalanceChanged(k) \/ SendSavings(k)
    /\ End(k)
    /\ UNCHANGED <<dead, valid>>

\* The transaction is rolled back; if it was a payout, perhaps after the call to the bank.
RollBack(k) ==
    /\ hand[k].pc # "idle"
    /\ LET c == hand[k].c IN
        \E b \in IF hand[k].pc = "payout" /\ Savings(k) \in 1..wallet
                 THEN RolledBack(bank[c]) ELSE {bank[c]} :
            bank' = [bank EXCEPT ![c] = b]
    /\ End(k)
    /\ UNCHANGED <<dead, claim, valid, appr, paidOut, wallet, debt, fund, writtenOff>>

-----------------------------------------------------------------------------
(* Rejection: the status is read, then overwritten; the member stays dead. *)

ReadReject(k, s, c) ==
    /\ Exists(c)
    /\ claim[c].status # "paid"
    /\ Begin(k, "reject", s, c, FALSE, {})
    /\ UNCHANGED <<dead, claim, valid, appr, rest>>

RejectClaim(k) ==
    /\ hand[k].pc = "reject"
    /\ Free(hand[k].c)
    /\ SetStatus(hand[k].c, "rejected")
    /\ End(k)
    /\ UNCHANGED <<dead, valid, appr, rest>>

Voters == Supers \cup Members

Next ==
    \/ \E k \in Hands, s \in Supers, c \in Claims : ReadStart(k, s, c)
    \/ \E c \in Claims : SubmitCertificate(c)
    \/ \E c \in Claims : ConfirmFamily(c)
    \/ \E c \in Claims : SetClaimBank(c)
    \/ \E c \in Claims : WaitingPeriodEnds(c)
    \/ \E k \in Hands, m \in Voters, c \in Claims : ReadValidate(k, m, c)
    \/ \E k \in Hands, s \in Supers, c \in Claims : ReadApprove(k, s, c)
    \/ \E k \in Hands, s \in Supers, c \in Claims : ReadReject(k, s, c)
    \/ \E k \in Hands : StartDeathClaim(k)
    \/ \E k \in Hands : ValidateClaim(k)
    \/ \E k \in Hands : RecordApproval(k)
    \/ \E k \in Hands : ClaimPayout(k)
    \/ \E k \in Hands : FinalizeClaim(k)
    \/ \E k \in Hands : RejectClaim(k)
    \/ \E k \in Hands : RollBack(k)

Spec == Init /\ [][Next]_vars

-----------------------------------------------------------------------------
(* Properties *)

TypeOK ==
    /\ dead \in BOOLEAN
    /\ claim \in [Claims -> [status : {"none", "awaiting_certificate", "awaiting_validation",
                                       "validated", "investigating", "paid", "rejected"},
                             family : BOOLEAN, account : BOOLEAN, late : BOOLEAN]]
    /\ valid \in [Claims -> SUBSET Voters]
    /\ appr \in [Claims -> SUBSET Supers]
    /\ bank \in [Claims -> Transfers]
    /\ paidOut \in [Claims -> 0..Balance0]
    /\ wallet \in 0..Balance0 /\ debt \in 0..Debt0 /\ fund \in 0..Fund0
    /\ writtenOff \in Nat
    /\ hand \in [Hands -> [pc : {"idle", "start", "validate", "approve", "payout", "reject"},
                           who : Voters \cup {Nobody}, c : Claims \cup {NoClaim},
                           ready : BOOLEAN, seen : SUBSET Voters,
                           debt : 0..Debt0, wallet : 0..Balance0]]

(* Savings leave only for a claim that two members validated, two super admins
   approved and the family confirmed, after the 72 hours; the savings go out
   once, though the member may have several claims and a paid claim may later be
   overwritten as rejected. *)
SavingsLeaveOnce ==
    /\ \A c \in Claims : bank[c].row =>
        /\ Cardinality(valid[c]) >= RequiredValidations
        /\ Cardinality(appr[c]) >= ApprovalsRequired
        /\ claim[c].family /\ claim[c].late
    /\ \A c, d \in Claims : bank[c].row /\ bank[d].row => c = d
    /\ \A c \in Claims : bank[c].row => paidOut[c] = Balance0 /\ wallet = 0

(* loan-protection.ts: the protected loan is written off once, and with the fund
   or an expense for its whole balance. *)
WrittenOffOnce == writtenOff + debt \in {0, Debt0}

\* All a payout needs is there.
Complete(c) ==
    /\ claim[c].status = "validated"
    /\ claim[c].family /\ claim[c].late /\ claim[c].account
    /\ bank[c] = NoTransfer

\* Some super admin can still approve the claim, or is about to.
CanBeApproved(c) ==
    \/ \E s \in Supers : s \notin appr[c]
    \/ \E k \in Hands : hand[k].pc \in {"approve", "payout"} /\ hand[k].c = c

(* deathclaims.ts, confirmFamily: "The claim can now proceed to admin approval":
   a complete claim that nobody sent money for has somebody who can approve it. *)
CompleteCanProceed == \A c \in Claims : Complete(c) => CanBeApproved(c)
=============================================================================
