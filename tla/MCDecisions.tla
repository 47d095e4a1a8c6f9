---------------------------- MODULE MCDecisions ----------------------------
(* Small instances, side by side, of the components in which officers decide over
   money, and what they file: payments to outsiders, refunds with the ombudsman's
   remedies, manual credits, death claims and dividends; the returns to the regulator.
   Each behaviour is of one of them, "part". *)
EXTENDS PayAnyone, Sequences, TLC

CONSTANTS
    Parts,       \* the components of this run
    NoRecord,
    Officers,    \* super admins, of the components in which two are enough
    Rows,        \* manual credits, claims or dividend runs
    Hands,       \* concurrent handlers
    Requests, Clerks, Desks,             \* of Refunds
    Members, Backers, Balance0, Debt0, Fund0,  \* of DeathClaims
    Votes, Weight, Banked, Profit, Statutory, Rates, Jump, RequiredYes, MaxPreviews, MaxTransfers,
    Packs, Processes, Dues, DefaultDue, MaxDay             \* of Filings

\* A member with twice the savings of the other, so that remainders are to be placed.
TwoToOne == <<2, 1>>

\* The parts to run together, amounts of money, and rates up to MAX_DIVIDEND_RATE.
ASSUME DecisionsAssumption ==
    /\ Parts \subseteq {"payments", "refunds", "credits", "claims", "dividends", "filings"}
    /\ Balance0 \in Nat /\ Debt0 \in Nat /\ Fund0 \in Nat
    /\ Profit \in Nat /\ Statutory \in Nat /\ Rates \subseteq 1..25
    /\ Weight \in Seq(Nat) /\ Banked \subseteq DOMAIN Weight
    /\ IsFiniteSet(Rows) /\ IsFiniteSet(Officers)
    /\ Nobody \notin Packs /\ NoRecord \notin Packs \cup {Nobody}
    /\ {MaxDay, DefaultDue} \cup Dues \subseteq Nat \ {0}

VARIABLES
    part,
    refund, refundBank, refundClerk, case, desk,
    credit, credited, creditClerk,
    dead, claim, valid, appr, claimBank, paidOut, wallet, debt, fund, writtenOff, claimHand,
    asking, lastRate, vote, run, entry, dividendBank, returned, reversed, taken,
    dividendHand, granted, landed,
    today, regulator, pack, filer, maker, claimed, reminded, crossed, mishaps

refundsVars == <<refund, refundBank, refundClerk, case, desk>>
creditsVars == <<credit, credited, creditClerk>>
claimsVars == <<dead, claim, valid, appr, claimBank, paidOut, wallet, debt, fund, writtenOff,
                claimHand>>
dividendsVars == <<asking, lastRate, vote, run, entry, dividendBank, returned, reversed,
                   taken, dividendHand, granted, landed>>
filingsVars == <<today, regulator, pack, filer, maker, claimed, reminded, crossed,
                 mishaps>>
officeVars == <<part, vars, refundsVars, creditsVars, claimsVars, dividendsVars, filingsVars>>

R == INSTANCE Refunds WITH Supers <- Officers, RefundIds <- Requests, NoRefund <- NoRecord,
                           bank <- refundBank, clerk <- refundClerk
C == INSTANCE ManualCredits WITH Credits <- Rows, Clerks <- Hands, NoCredit <- NoRecord,
                                 clerk <- creditClerk
D == INSTANCE DeathClaims WITH Supers <- Officers, Claims <- Rows, NoClaim <- NoRecord,
                               bank <- claimBank, hand <- claimHand
V == INSTANCE Dividends WITH Supers <- Officers, Runs <- Rows, bank <- dividendBank, hand <- dividendHand
Q == INSTANCE Filings WITH Scheduled <- Packs, Clerks <- Hands, Jobs <- Processes,
                           Profile <- Nobody, NoPack <- NoRecord, clerk <- filer, job <- maker

Symmetry == Permutations(Processes) \cup Permutations(Officers) \cup Permutations(Rows) \cup Permutations(Hands)

\* The parts that do not run are in one of their initial states only.
OfficeInit ==
    /\ part \in Parts
    /\ Init /\ R!Init /\ C!Init /\ D!Init /\ V!Init /\ Q!Init
    /\ part # "claims" => debt = Debt0

OfficeNext ==
    /\ UNCHANGED part
    /\ \/ part = "payments" /\ Next
          /\ UNCHANGED <<refundsVars, creditsVars, claimsVars, dividendsVars, filingsVars>>
       \/ part = "refunds" /\ R!Next
          /\ UNCHANGED <<vars, creditsVars, claimsVars, dividendsVars, filingsVars>>
       \/ part = "credits" /\ C!Next
          /\ UNCHANGED <<vars, refundsVars, claimsVars, dividendsVars, filingsVars>>
       \/ part = "claims" /\ D!Next
          /\ UNCHANGED <<vars, refundsVars, creditsVars, dividendsVars, filingsVars>>
       \/ part = "dividends" /\ V!Next
          /\ UNCHANGED <<vars, refundsVars, creditsVars, claimsVars, filingsVars>>
       \/ part = "filings" /\ Q!Next
          /\ UNCHANGED <<vars, refundsVars, creditsVars, claimsVars, dividendsVars>>

OfficeSpec == OfficeInit /\ [][OfficeNext]_officeVars

-----------------------------------------------------------------------------
(* Properties of the parts *)

\* Every component keeps its types.
TypesOK ==
    CASE part = "payments" -> TypeOK
      [] part = "refunds" -> R!TypeOK
      [] part = "credits" -> C!TypeOK
      [] part = "claims" -> D!TypeOK
      [] part = "dividends" -> V!TypeOK
      [] part = "filings" -> Q!TypeOK

\* Money is on the books exactly when the request says it was paid.
PaidMatchesBooks == R!PaidMatchesBooks

\* Two different super admins, and one credit of the wallet.
CreditedOnceByTwo == C!CreditedOnceByTwo

\* The dead member's savings leave once, under all the conditions.
SavingsLeaveOnce == D!SavingsLeaveOnce

\* A dividend's shares add up to its pool, and entries match the transfers.
PoolIsShared == part = "dividends" => V!PoolIsShared

\* regulator-reporting.ts: what was filed stays filed, and reminders go out once.
FilingsStand == Q!FilingsStand

\* README: a refund is recommended by one person and approved by another.
TwoPeople == R!TwoPeople

\* ombudsman.ts: of two remedies for one case, exactly one pays.
RemedyPaysOnce == R!RemedyPaysOnce

\* manualcredit.ts: a rejected credit changed no balance.
RejectedMovedNothing == C!RejectedMovedNothing

\* deathclaims.ts: a complete claim can proceed to admin approval.
CompleteCanProceed == D!CompleteCanProceed

\* dividends.ts: the statutory funds are taken once per period.
StatutoryOnce == V!StatutoryOnce

\* session.ts: a reply cannot trigger a payout again.
OneRunPerPreview == V!OneRunPerPreview
=============================================================================
