--------------------------- MODULE MCCollections ---------------------------
(* Small instances, side by side, of what is collected from members: direct debits
   on a mandate, repayments of a loan and the recovery from its guarantors, and
   payroll deduction batches; and of the scheduler, which starts the first two. Each
   behaviour is of one of them, "part". *)
EXTENDS Mandates, TLC

CONSTANTS
    Parts,   \* the components of this run
    Nobody, Supers,
    Hands,   \* concurrent handlers; the processes of Scheduling
    Guarantors, LoanBalance, Wallet0, Savings0, LoanInstallment, Fine, Share, MaxLate, \* of Repayments
    Admins, Members, Batches, Saving, Installment, Balance0, Amounts, \* of Deductions
    MaxStarts                                                   \* of Scheduling

\* Processes and members can be counted, none of them is nobody; money and bounds are
\* natural numbers.
ASSUME CollectionsAssumption ==
    /\ Parts \subseteq {"mandates", "repayments", "deductions", "scheduling"}
    /\ IsFiniteSet(Hands) /\ IsFiniteSet(Members)
    /\ Nobody \notin Hands \cup Admins \cup Supers
    /\ Saving \in Nat /\ Installment \in Nat /\ Balance0 \in Nat /\ Amounts \subseteq Nat
    /\ LoanBalance \in Nat /\ Wallet0 \in Nat /\ Savings0 \in Nat
    /\ LoanInstallment \in Nat /\ Fine \in Nat /\ Share \in Nat
    /\ MaxLate \in Nat /\ MaxDue \in Nat /\ MaxStarts \in Nat

VARIABLES
    part,
    balance, status, late, wallet, payer, booked, notice, recovery, savings, charged, crossed,
    batch, item, short, waived, loan, hand, used, given, checker, overtaken,
    job, mode, link, run, token, once, memo, mark, memMark, stamp, sent, told, digests,
    fell, excused, starts

repaymentsVars == <<balance, status, late, wallet, payer, booked, notice, recovery, savings, charged, crossed>>
deductionsVars == <<batch, item, short, waived, loan, hand, used, given, checker, overtaken>>
schedulingVars == <<job, mode, link, run, token, once, memo, mark, memMark, stamp, sent,
                    told, digests, fell, excused, starts>>
collectionsVars == <<part, vars, repaymentsVars, deductionsVars, schedulingVars>>

P == INSTANCE Repayments WITH Balance0 <- LoanBalance, Installment <- LoanInstallment,
                              Runs <- Hands, hand <- payer, run <- recovery
D == INSTANCE Deductions
S == INSTANCE Scheduling WITH Procs <- Hands, NoProc <- Nobody

Symmetry == Permutations(Supers) \cup Permutations(Hands)

\* The parts that do not run are in one of their initial states only.
CollectionsInit ==
    /\ part \in Parts
    /\ Init /\ P!Init /\ D!Init /\ S!Init
    /\ part # "repayments" => \A g \in Guarantors : savings[g] = Savings0
    /\ part # "scheduling" => job = "tick"

CollectionsNext ==
    /\ UNCHANGED part
    /\ \/ part = "mandates" /\ Next /\ UNCHANGED <<repaymentsVars, deductionsVars, schedulingVars>>
       \/ part = "repayments" /\ P!Next /\ UNCHANGED <<vars, deductionsVars, schedulingVars>>
       \/ part = "deductions" /\ D!Next /\ UNCHANGED <<vars, repaymentsVars, schedulingVars>>
       \/ part = "scheduling" /\ S!Next /\ UNCHANGED <<vars, repaymentsVars, deductionsVars>>

CollectionsSpec == CollectionsInit /\ [][CollectionsNext]_collectionsVars

\* The scheduler ticks for ever, and days pass: for what has to happen in Repayments.
Elsewhere == UNCHANGED <<part, vars, deductionsVars, schedulingVars>>
Recovers(r) == part = "repayments" /\ P!Recovers(r) /\ Elsewhere
Expires(g) == part = "repayments" /\ P!NoticeExpires(g) /\ Elsewhere

\* No run fails, too.
FairSpec ==
    /\ CollectionsInit /\ [][part = "repayments" /\ P!Works /\ Elsewhere]_collectionsVars
    /\ \A r \in Hands : WF_collectionsVars(Recovers(r))
    /\ \A g \in Guarantors : WF_collectionsVars(Expires(g))

-----------------------------------------------------------------------------
(* Properties of the parts *)

\* Every component keeps its types.
TypesOK ==
    CASE part = "mandates" -> TypeOK
      [] part = "repayments" -> P!TypeOK
      [] part = "deductions" -> D!TypeOK
      [] part = "scheduling" -> S!TypeOK

\* A guarantor pays his share once, as announced, for a loan in default.
GuarantorChargedOnce == P!GuarantorChargedOnce

\* A payroll batch is credited once, by somebody else than its maker.
BatchCreditedOnce == D!BatchCreditedOnce

\* A claimed notice, a statement and a digest go out once among all processes.
NoticesGoOutOnce == S!NoticesGoOutOnce

\* README: when day 10 arrives, the deduction executes.
DueIsDeducted == part = "repayments" => P!DueIsDeducted

\* loans.ts: never more principal than is outstanding.
NeverOverpaid == P!NeverOverpaid

\* loans.ts: money never leaves the wallet without its record.
DebitIsBooked == P!DebitIsBooked

\* deductions.ts: what the employer paid reaches the members.
MoneyReachesMembers == D!MoneyReachesMembers

\* index.ts: with multiple instances, exactly one runs the tick.
ExactlyOneRuns == S!ExactlyOneRuns
=============================================================================
