----------------------------- MODULE Repayments -----------------------------
(* Paying a disbursed loan back: repayLoan (services/loans.ts), by the member or
   after a direct debit, the installments of a deduction batch, and the recovery
   from guarantors (services/guarantordeduction.ts).

   One loan. A repayment reads the loan and the wallet in one step and writes in
   another; amounts are in small units. Nothing keeps two runs of the daily recovery
   apart: the guarantors' part of a run is a transaction, which reads before it writes
   and writes by id. *)
EXTENDS Integers, FiniteSets

CONSTANTS
    Hands,        \* concurrent repayments
    Runs,         \* concurrent runs of the daily recovery
    Guarantors,   \* confirmed guarantors of the loan
    Balance0, Wallet0, Savings0, \* of the loan, the borrower, a guarantor
    Installment,  \* Loan.monthlyPayment
    Fine,         \* late fine per month overdue
    Share,        \* guarantorSharePaid of each guarantor
    MaxLate       \* bound on the months overdue

VARIABLES
    balance, status, \* of the loan
    late,            \* months since the due date, 0 when it has not passed
    wallet,          \* the borrower's balance
    hand,            \* a repayment between its read and its write
    booked,          \* history: repayments and fines in the ledger
    notice,          \* GuarantorDeduction.status; "due": notified, and the 10 days are over
    run,             \* a run of the recovery, and the guarantors it has read
    savings,         \* the guarantors' balances
    charged,         \* history: how often each guarantor has paid his share
    crossed          \* history: guarantors two runs of the deductions had in hand at once

vars == <<balance, status, late, wallet, hand, booked, notice, run, savings, charged, crossed>>
loanVars == <<balance, status, late>>
guaranteeVars == <<notice, run, savings, charged, crossed>>
chargeVars == <<savings, charged>>

IdleRun == [pc |-> "idle", seen |-> {}]
IdleHand == [pc |-> "idle", principal |-> 0, interest |-> 0, fine |-> 0]

Init ==
    /\ balance = Balance0 /\ status = "disbursed" /\ late = 0
    /\ wallet = Wallet0
    /\ hand = [h \in Hands |-> IdleHand]
    /\ booked = 0
    /\ notice = [g \in Guarantors |-> "none"]
    /\ run = [r \in Runs |-> IdleRun]
    /\ charged = [g \in Guarantors |-> 0] /\ crossed = {}
    /\ savings \in [Guarantors -> {0, Savings0}]   \* one may have too little

\* The due date moves on its own: a month passes.
MonthPasses ==
    /\ late < MaxLate
    /\ late' = late + 1
    /\ UNCHANGED <<balance, status, wallet, hand, booked, guaranteeVars>>

-----------------------------------------------------------------------------
(* repayLoan *)

\* calculateInterestPortion: a part of the balance, none on nothing.
Interest == IF balance > 0 THEN 1 ELSE 0
Smaller(a, b) == IF a <= b THEN a ELSE b
Larger(a, b) == IF a >= b THEN a ELSE b

\* computeRepaymentDue, and the split of the installment.
Due == [pc |-> "repay", interest |-> Interest, fine |-> Fine * late,
        principal |-> Smaller(Installment - Interest, balance)]

Debit(d) == Installment + d.fine

ReadRepayment(h) ==
    /\ hand[h].pc = "idle"
    /\ wallet >= Debit(Due)
    /\ hand' = [hand EXCEPT ![h] = Due]
    /\ UNCHANGED <<loanVars, wallet, booked, guaranteeVars>>

\* The member's command takes a loan that is disbursed.
RepayLoan(h) == status = "disbursed" /\ ReadRepayment(h)

\* A direct debit names the loan, and its status is not looked at.
RepayByMandate(h) == ReadRepayment(h)

(* The wallet must still have it; the loan's principal is the one computed from
   the balance that was read. *)
CommitRepayment(h) ==
    /\ hand[h].pc = "repay"
    /\ LET d == hand[h] IN
        IF wallet >= Debit(d)
        THEN /\ wallet' = wallet - Debit(d)
             /\ balance' = balance - d.principal
             /\ booked' = booked + Larger(d.principal, 0) + d.interest + d.fine
             /\ IF balance' <= 0
                THEN status' = "paid" /\ UNCHANGED late
                ELSE late' = (IF late > 0 THEN late - 1 ELSE 0) /\ UNCHANGED status
        ELSE UNCHANGED <<wallet, booked, loanVars>>
    /\ hand' = [hand EXCEPT ![h] = IdleHand]
    /\ UNCHANGED guaranteeVars

(* approveBatch (services/deductions.ts): a guarded decrement, and paid at zero. *)
DeductInstallment ==
    /\ status = "disbursed" /\ balance > 0
    /\ balance' = balance - Smaller(Installment, balance)
    /\ status' = IF balance' <= 0 THEN "paid" ELSE status
    /\ UNCHANGED <<late, wallet, hand, booked, guaranteeVars>>

-----------------------------------------------------------------------------
(* The guarantors *)

Defaulted == status = "disbursed" /\ balance > 0 /\ late >= 2

\* Mutant: the notice is not withdrawn when the borrower has paid.
StillDefaultedAlways == TRUE

StillDefaulted == status = "disbursed" /\ balance > 0 /\ late >= 1

At(r, pc) == run[r].pc = pc
Goes(r, pc, seen) == run' = [run EXCEPT ![r] = [pc |-> pc, seen |-> seen]]

\* The scan goes over the loans of all cooperatives: it may have sent a notice to a
\* guarantor of another loan, and then the tick goes on to the deductions.
Scanned == {"idle", "found"}

\* scanGuarantorDefaults: the loan, which is in default or not.
ScanGuarantorDefaults(r) ==
    /\ At(r, "idle")
    /\ \/ Defaulted /\ Goes(r, "scan", {})
       \/ ~Defaulted /\ \E pc \in Scanned : Goes(r, pc, {})
    /\ UNCHANGED <<loanVars, wallet, hand, booked, notice, chargeVars, crossed>>

\* Who has no notice of it, or had one taken back.
ReadNotices(r) ==
    /\ At(r, "scan")
    /\ Goes(r, "notify", {g \in Guarantors : notice[g] \in {"none", "cancelled"}})
    /\ UNCHANGED <<loanVars, wallet, hand, booked, notice, chargeVars, crossed>>

\* The upsert, whatever the row holds by then.
SendNotices(r) ==
    /\ At(r, "notify")
    /\ notice' = [g \in Guarantors |-> IF g \in run[r].seen THEN "notified" ELSE notice[g]]
    /\ \E pc \in Scanned : Goes(r, pc, {}) /\ (run[r].seen # {} => pc = "found")
    /\ UNCHANGED <<loanVars, wallet, hand, booked, chargeVars, crossed>>

\* The 10 days are over; no transaction lasts as long.
NoticeExpires(g) ==
    /\ notice[g] = "notified"
    /\ \A r \in Runs : At(r, "notify") => g \notin run[r].seen
    /\ notice' = [notice EXCEPT ![g] = "due"]
    /\ UNCHANGED <<loanVars, wallet, hand, booked, run, chargeVars, crossed>>

Executing == {"pending", "cancel", "deduct"}
InHand(r) == IF run[r].pc \in Executing THEN run[r].seen ELSE {}
\* r reads these guarantors while another run has some of them in hand.
Crosses(r, gs) == crossed' = crossed \cup UNION {gs \cap InHand(q) : q \in Runs \ {r}}

\* executeDueDeductions, after a scan that has sent a notice: the notices that are out.
ReadPending(r) ==
    /\ At(r, "found")
    /\ LET out == {g \in Guarantors : notice[g] \in {"notified", "due"}} IN
        Goes(r, "pending", out) /\ Crosses(r, out)
    /\ UNCHANGED <<loanVars, wallet, hand, booked, notice, chargeVars>>

\* If the loan is still in default, those that are due now are taken; if not, the
\* notices that were read are taken back.
ReadDueDeductions(r) ==
    /\ At(r, "pending")
    /\ LET due == {g \in Guarantors : notice[g] = "due"} IN
        \/ StillDefaulted /\ Goes(r, "deduct", due) /\ Crosses(r, due)
        \/ ~StillDefaulted /\ Goes(r, "cancel", run[r].seen) /\ UNCHANGED crossed
    /\ UNCHANGED <<loanVars, wallet, hand, booked, notice, chargeVars>>

CancelNotices(r) ==
    /\ At(r, "cancel")
    /\ notice' = [g \in Guarantors |-> IF g \in run[r].seen THEN "cancelled" ELSE notice[g]]
    /\ Goes(r, "idle", {})
    /\ UNCHANGED <<loanVars, wallet, hand, booked, chargeVars, crossed>>

\* The debit looks at the savings only, and the status is written by id. Not enough
\* savings: tomorrow again.
DeductGuarantors(r) ==
    /\ At(r, "deduct")
    /\ LET pay == {g \in run[r].seen : savings[g] >= Share} IN
        /\ savings' = [g \in Guarantors |-> savings[g] - IF g \in pay THEN Share ELSE 0]
        /\ charged' = [g \in Guarantors |-> charged[g] + IF g \in pay THEN 1 ELSE 0]
        /\ notice' = [g \in Guarantors |-> IF g \in pay THEN "deducted" ELSE notice[g]]
    /\ Goes(r, "idle", {})
    /\ UNCHANGED <<loanVars, wallet, hand, booked, crossed>>

\* A run fails or its process dies, and the transaction is rolled back.
RunFails(r) ==
    /\ ~At(r, "idle")
    /\ Goes(r, "idle", {})
    /\ UNCHANGED <<loanVars, wallet, hand, booked, notice, chargeVars, crossed>>

Recovers(r) ==
    \/ ScanGuarantorDefaults(r) \/ ReadNotices(r) \/ SendNotices(r)
    \/ ReadPending(r) \/ ReadDueDeductions(r) \/ CancelNotices(r) \/ DeductGuarantors(r)

Works ==
    \/ MonthPasses \/ DeductInstallment
    \/ \E h \in Hands : RepayLoan(h) \/ RepayByMandate(h) \/ CommitRepayment(h)
    \/ \E r \in Runs : Recovers(r)
    \/ \E g \in Guarantors : NoticeExpires(g)

Next == Works \/ \E r \in Runs : RunFails(r)

Spec == Init /\ [][Next]_vars

-----------------------------------------------------------------------------
(* Properties *)

\* The balance may be negative: each of those who read it before one wrote takes its part.
TypeOK ==
    /\ balance \in Int
    /\ status \in {"disbursed", "paid"}
    /\ late \in 0..MaxLate
    /\ wallet \in 0..Wallet0
    /\ hand \in [Hands -> [pc : {"idle", "repay"}, principal : Int,
                           interest : 0..1, fine : 0..Fine * MaxLate]]
    /\ booked \in Nat
    /\ notice \in [Guarantors -> {"none", "notified", "due", "deducted", "cancelled"}]
    /\ run \in [Runs -> [pc : {"idle", "scan", "notify", "found"} \cup Executing,
                         seen : SUBSET Guarantors]]
    /\ savings \in [Guarantors -> 0..Savings0]
    /\ charged \in [Guarantors -> Nat] /\ crossed \subseteq Guarantors

(* A guarantor whose notice no two runs had in hand at once has paid if and only if it
   is "deducted", and then once: whatever the runs of other days, of other guarantors
   and the scans, which may overlap, have read. *)
OneCharge ==
    \A g \in Guarantors \ crossed : charged[g] = IF notice[g] = "deducted" THEN 1 ELSE 0

(* Every charge, of overlapping runs too, follows a notice of which the 10 days were
   over and a loan that was in default when the run looked: one that the borrower has
   brought up to date by then takes the notice back. *)
ChargedAsAnnounced ==
    \A g \in Guarantors :
        /\ charged'[g] # charged[g] => \E r \in Runs : At(r, "deduct") /\ g \in run[r].seen
        /\ \A r \in Runs : At(r, "deduct")' /\ ~At(r, "deduct") /\ g \in run'[r].seen =>
            notice[g] = "due" /\ status = "disbursed" /\ balance > 0 /\ late > 0

(* guarantordeduction.ts: a guarantor pays his share once, as he was told. *)
GuarantorChargedOnce == []OneCharge /\ [][ChargedAsAnnounced]_vars

(* Not so of overlapping runs: each debits, and a stale one takes the notice of the
   other's deduction back. *)
OneChargeWhatever == \A g \in Guarantors : charged[g] <= 1

(* README: "If day 10 arrives and the loan still isn't repaid, the deduction executes
   automatically". A notice that is due ends: with the deduction, or because the
   borrower has paid, or for want of savings. *)
DueIsDeducted ==
    \A g \in Guarantors :
        notice[g] = "due" ~> notice[g] # "due" \/ ~StillDefaulted \/ savings[g] < Share

(* loans.ts, repayLoan: "Never repay more principal than is outstanding". *)
NeverOverpaid == balance >= 0

(* loans.ts, repayLoan: "money can never leave the wallet without the matching
   loan/repayment record". *)
DebitIsBooked == Wallet0 - wallet = booked
=============================================================================
