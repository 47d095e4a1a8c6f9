--------------------------- MODULE CollectionsProofs ---------------------------
(* What the collections never take or send twice, for any number of references,
   guarantors and processes: a direct debit is credited once, whatever the order of
   ticks, retries, ageing, skips and notifications; a guarantor pays his share once,
   after a notice; a notice of the scheduler goes out once per claim; a payroll batch
   is credited once, with no more than its items add up to; and every part keeps its
   types.

   Each part has an inductive invariant of its own over its own variables (MoneyInv,
   RecoveryInv, SchedulingInv, PayrollInv); a step of another part leaves those
   unchanged, so the composition keeps all four. *)
EXTENDS MCCollections, Sums

DebitStatus == {"none", "pending", "failed", "due", "successful", "skipped"}
ChargeStatus == {"none", "asked", "taken", "declined"}

MoneyTyped ==
    /\ debit \in [References -> DebitStatus]
    /\ charge \in [References -> ChargeStatus]
    /\ journal \subseteq References
    /\ credited \in [References -> Nat]

(* The journal knows what was credited: the status of the debit does not, for a
   retry may set it back to pending after the settlement. *)
JournalTells ==
    \A r \in References :
        IF r \in journal
        THEN credited[r] = 1 /\ charge[r] = "taken"
        ELSE credited[r] = 0 /\ debit[r] # "successful"

MoneyInv == MoneyTyped /\ JournalTells

(* Whatever journals nothing, takes no charge back and marks nothing successful. *)
LEMMA QuietStep ==
    ASSUME MoneyInv, UNCHANGED <<journal, credited>>,
           debit' \in [References -> DebitStatus],
           charge' \in [References -> ChargeStatus],
           \A q \in References : /\ charge[q] = "taken" => charge'[q] = "taken"
                                 /\ debit'[q] = "successful" => debit[q] = "successful"
    PROVE  MoneyInv'
BY DEF MoneyInv, MoneyTyped, JournalTells

(* The same, of a step that leaves the provider and one debit's status. *)
LEMMA StatusStep ==
    ASSUME MoneyInv, NEW r \in References, NEW s \in DebitStatus \ {"successful"},
           UNCHANGED <<charge, journal, credited>>,
           debit' = [debit EXCEPT ![r] = s]
    PROVE  MoneyInv'
<1>1. debit' \in [References -> DebitStatus]
  BY DEF MoneyInv, MoneyTyped
<1>2. \A q \in References : debit'[q] = "successful" => debit[q] = "successful"
  BY DEF MoneyInv, MoneyTyped
<1> QED BY <1>1, <1>2, QuietStep DEF MoneyInv, MoneyTyped

(* Asking again leaves what was taken. *)
LEMMA AskStep ==
    ASSUME MoneyInv, NEW r \in References, Ask(r), UNCHANGED <<debit, journal, credited>>
    PROVE  MoneyInv'
<1>1. charge' \in [References -> ChargeStatus]
  BY DEF Ask, MoneyInv, MoneyTyped, ChargeStatus
<1>2. \A q \in References : charge[q] = "taken" => charge'[q] = "taken"
  BY DEF Ask, MoneyInv, MoneyTyped
<1> QED BY <1>1, <1>2, QuietStep DEF MoneyInv, MoneyTyped

(* The only step that credits: its reference is not in the journal yet. *)
LEMMA SettleStep ==
    ASSUME MoneyInv, NEW r \in References, SettleSuccessful(r)
    PROVE  MoneyInv'
<1>1. /\ r \notin journal /\ charge[r] = "taken"
      /\ journal' = journal \cup {r} /\ charge' = charge
      /\ credited' = [credited EXCEPT ![r] = credited[r] + 1]
      /\ debit' = [debit EXCEPT ![r] = "successful"]
  BY DEF SettleSuccessful, Settleable
<1>2. credited[r] = 0 BY <1>1 DEF MoneyInv, JournalTells
<1>3. /\ credited' \in [References -> Nat] /\ credited'[r] = 1
      /\ \A q \in References : q # r => credited'[q] = credited[q]
  BY <1>1, <1>2 DEF MoneyInv, MoneyTyped
<1>4. /\ debit' \in [References -> DebitStatus]
      /\ \A q \in References : q # r => debit'[q] = debit[q]
  BY <1>1 DEF MoneyInv, MoneyTyped, DebitStatus
<1>5. MoneyTyped' BY <1>1, <1>3, <1>4 DEF MoneyInv, MoneyTyped
<1>6. JournalTells' BY <1>1, <1>3, <1>4 DEF MoneyInv, JournalTells
<1> QED BY <1>5, <1>6 DEF MoneyInv

(* The hourly tick, and what its process does with the provider. *)
LEMMA TickStep ==
    ASSUME MoneyInv, CreateDebits \/ TickAborted \/ ProcessDies
    PROVE  MoneyInv'
<1>1. CASE CreateDebits
  <2>1. /\ debit' = [r \in References |-> IF r \in New THEN "pending" ELSE debit[r]]
        /\ UNCHANGED <<charge, journal, credited>>
    BY <1>1 DEF CreateDebits, moneyVars
  <2>2. debit' \in [References -> DebitStatus]
    BY <2>1 DEF MoneyInv, MoneyTyped, DebitStatus
  <2>3. \A q \in References : debit'[q] = "successful" => debit[q] = "successful"
    BY <2>1
  <2> QED BY <2>1, <2>2, <2>3, QuietStep DEF MoneyInv, MoneyTyped
<1>2. CASE TickAborted \/ ProcessDies
  <2>1. UNCHANGED <<debit, charge, journal, credited>>
    BY <1>2 DEF TickAborted, ProcessDies, moneyVars
  <2> QED BY <2>1, QuietStep DEF MoneyInv, MoneyTyped
<1> QED BY <1>1, <1>2

(* A mandate's status is no debit's. *)
LEMMA MandateStep ==
    ASSUME MoneyInv, NEW m \in Mandates,
           CreateMandate(m) \/ CancelMandate(m) \/ PauseMandate(m)
           \/ ResumeMandate(m) \/ ApplyMandateStatus(m)
    PROVE  MoneyInv'
<1>1. UNCHANGED <<debit, charge, journal, credited>>
  BY DEF CreateMandate, CancelMandate, PauseMandate, ResumeMandate, ApplyMandateStatus,
         SetMandate, moneyVars
<1> QED BY <1>1, QuietStep DEF MoneyInv, MoneyTyped

(* The tick sends a due debit, or fails to. *)
LEMMA DispatchStep ==
    ASSUME MoneyInv, NEW r \in References, DispatchDebit(r) \/ DispatchFails(r)
    PROVE  MoneyInv'
<1>1. CASE DispatchDebit(r)
  BY <1>1, AskStep DEF DispatchDebit
<1>2. CASE DispatchFails(r)
  <2>1. /\ Ask(r) \/ UNCHANGED charge
        /\ UNCHANGED <<journal, credited>>
        /\ debit' = IF debit[r] = "none" THEN debit ELSE [debit EXCEPT ![r] = "failed"]
    BY <1>2 DEF DispatchFails
  <2>2. charge' \in [References -> ChargeStatus]
    BY <2>1 DEF Ask, MoneyInv, MoneyTyped, ChargeStatus
  <2>3. \A q \in References : charge[q] = "taken" => charge'[q] = "taken"
    BY <2>1 DEF Ask, MoneyInv, MoneyTyped
  <2>4. debit' \in [References -> DebitStatus]
    BY <2>1 DEF MoneyInv, MoneyTyped, DebitStatus
  <2>5. \A q \in References : debit'[q] = "successful" => debit[q] = "successful"
    BY <2>1 DEF MoneyInv, MoneyTyped
  <2> QED BY <2>1, <2>2, <2>3, <2>4, <2>5, QuietStep
<1> QED BY <1>1, <1>2

(* Retries, ageing, skips. *)
LEMMA RetryStep ==
    ASSUME MoneyInv, NEW r \in References,
           DayPasses(r) \/ ClaimRetry(r) \/ CallRetry(r) \/ RetryRefused(r)
           \/ MarkRetried(r) \/ ReconcileStale(r) \/ SkipDebit(r)
           \/ \E w \in DOMAIN Outcome : WriteDebit(r, w)
    PROVE  MoneyInv'
<1>1. CASE DayPasses(r)
  BY <1>1, StatusStep DEF DayPasses, moneyVars, DebitStatus
<1>2. CASE ClaimRetry(r) \/ ReconcileStale(r)
  BY <1>2, StatusStep DEF ClaimRetry, ReconcileStale, moneyVars, DebitStatus
<1>3. CASE MarkRetried(r)
  BY <1>3, StatusStep DEF MarkRetried, moneyVars, DebitStatus
<1>4. ASSUME NEW w \in DOMAIN Outcome, WriteDebit(r, w) PROVE MoneyInv'
  <2>1. Outcome[w] \in DebitStatus \ {"successful"} BY DEF Outcome, DebitStatus
  <2> QED BY <1>4, <2>1, StatusStep DEF WriteDebit
<1>5. CASE CallRetry(r)
  BY <1>5, AskStep DEF CallRetry
<1>6. CASE RetryRefused(r) \/ SkipDebit(r)
  <2>1. UNCHANGED <<debit, charge, journal, credited>>
    BY <1>6 DEF RetryRefused, SkipDebit, moneyVars
  <2> QED BY <2>1, QuietStep DEF MoneyInv, MoneyTyped
<1> QED BY <1>1, <1>2, <1>3, <1>4, <1>5, <1>6

(* The provider decides on what it was asked, and tells. *)
LEMMA ProviderStep ==
    ASSUME MoneyInv, NEW r \in References,
           Collect(r) \/ SettleFailed(r) \/ SettleIgnored(r)
    PROVE  MoneyInv'
<1>1. CASE Collect(r)
  <2>1. PICK c \in {"taken", "declined"} : charge' = [charge EXCEPT ![r] = c]
    BY <1>1 DEF Collect
  <2>2. charge[r] = "asked" /\ UNCHANGED <<debit, journal, credited>>
    BY <1>1 DEF Collect
  <2>3. charge' \in [References -> ChargeStatus]
    BY <2>1 DEF MoneyInv, MoneyTyped, ChargeStatus
  <2>4. \A q \in References : charge[q] = "taken" => charge'[q] = "taken"
    BY <2>1, <2>2 DEF MoneyInv, MoneyTyped
  <2> QED BY <2>2, <2>3, <2>4, QuietStep DEF MoneyInv, MoneyTyped
<1>2. CASE SettleFailed(r) \/ SettleIgnored(r)
  <2>1. UNCHANGED <<debit, charge, journal, credited>>
    BY <1>2 DEF SettleFailed, SettleIgnored
  <2> QED BY <2>1, QuietStep DEF MoneyInv, MoneyTyped
<1> QED BY <1>1, <1>2

(* Every step of the mandates keeps MoneyInv. *)
LEMMA MoneyStep ==
    ASSUME MoneyInv, Next
    PROVE  MoneyInv'
<1>2. CASE CreateDebits \/ TickAborted \/ ProcessDies
  BY <1>2, TickStep
<1>3. ASSUME NEW m \in Mandates,
             CreateMandate(m) \/ CancelMandate(m) \/ PauseMandate(m)
             \/ ResumeMandate(m) \/ ApplyMandateStatus(m)
      PROVE  MoneyInv'
  BY <1>3, MandateStep
<1>4. ASSUME NEW r \in References, DispatchDebit(r) \/ DispatchFails(r)
      PROVE  MoneyInv'
  BY <1>4, DispatchStep
<1>5. ASSUME NEW r \in References,
             DayPasses(r) \/ ClaimRetry(r) \/ CallRetry(r) \/ RetryRefused(r)
             \/ MarkRetried(r) \/ ReconcileStale(r) \/ SkipDebit(r)
             \/ \E w \in DOMAIN Outcome : WriteDebit(r, w)
      PROVE  MoneyInv'
  BY <1>5, RetryStep
<1>6. ASSUME NEW r \in References, Collect(r) \/ SettleFailed(r) \/ SettleIgnored(r)
      PROVE  MoneyInv'
  BY <1>6, ProviderStep
<1>7. ASSUME NEW r \in References, SettleSuccessful(r)
      PROVE  MoneyInv'
  BY <1>7, SettleStep
<1> QED BY <1>2, <1>3, <1>4, <1>5, <1>6, <1>7 DEF Next

(* The other parts leave the mandates alone. *)
LEMMA MoneyStutter ==
    ASSUME MoneyInv, UNCHANGED vars
    PROVE  MoneyInv'
BY DEF vars, moneyVars, MoneyInv, MoneyTyped, JournalTells

(* mandates.ts, settleDebit: a reference is credited at most once, with money the
   provider took, and a debit marked successful was credited. *)
THEOREM ChargesCreditedOnce == CollectionsSpec => []CreditedOncePerCharge
<1>1. CollectionsInit => MoneyInv
  BY DEF CollectionsInit, Init, MoneyInv, MoneyTyped, JournalTells, DebitStatus, ChargeStatus
<1>2. MoneyInv /\ [CollectionsNext]_collectionsVars => MoneyInv'
  BY MoneyStep, MoneyStutter DEF CollectionsNext, collectionsVars
<1>3. MoneyInv => CreditedOncePerCharge
  BY DEF MoneyInv, MoneyTyped, JournalTells, CreditedOncePerCharge
<1> QED BY <1>1, <1>2, <1>3, PTL DEF CollectionsSpec

-----------------------------------------------------------------------------
(* The recovery from guarantors *)

NoticeStatus == {"none", "notified", "due", "deducted", "cancelled"}

RunPc == {"idle", "scan", "notify", "found", "pending", "cancel", "deduct"}

RunTyped == recovery \in [Hands -> [pc : RunPc, seen : SUBSET Guarantors]]

Has(r, pc, g) == recovery[r].pc = pc /\ g \in recovery[r].seen
Executes(r, g) == \E pc \in P!Executing : Has(r, pc, g)

(* Of a guarantor two runs never had in hand: the run that is about to charge him still
   finds his notice due, a scan that has read him finds none that is due, and a notice a
   run may take back has not been acted upon. *)
Apart(g) ==
    /\ charged[g] = IF notice[g] = "deducted" THEN 1 ELSE 0
    /\ \A r, q \in Hands : Executes(r, g) /\ Executes(q, g) => r = q
    /\ \A r \in Hands : Has(r, "notify", g) =>
        /\ notice[g] \in {"none", "notified", "cancelled"}
        /\ \A q \in Hands : ~Has(q, "deduct", g)
    /\ \A r \in Hands : Has(r, "deduct", g) => notice[g] = "due"
    /\ \A r \in Hands : Has(r, "pending", g) \/ Has(r, "cancel", g) => notice[g] # "deducted"

RecoveryInv ==
    /\ late \in Nat
    /\ notice \in [Guarantors -> NoticeStatus]
    /\ charged \in [Guarantors -> Nat]
    /\ RunTyped
    /\ \A g \in Guarantors \ crossed : Apart(g)

(* RecoveryInv holds at the start: no notice is out, and no run under way. *)
LEMMA RecoveryInit ==
    ASSUME P!Init PROVE RecoveryInv
<1>1. /\ RunTyped /\ \A r \in Hands : recovery[r].pc = "idle"
      /\ notice = [g \in Guarantors |-> "none"] /\ charged = [g \in Guarantors |-> 0] /\ late = 0
  BY DEF P!Init, P!IdleRun, RunTyped, RunPc
<1>2. \A r \in Hands, g \in Guarantors : ~Executes(r, g) /\ ~Has(r, "notify", g)
        /\ ~Has(r, "deduct", g) /\ ~Has(r, "pending", g) /\ ~Has(r, "cancel", g)
  BY <1>1 DEF Executes, P!Executing, Has
<1> QED BY <1>1, <1>2 DEF RecoveryInv, Apart, NoticeStatus

\* Loan and wallet: the due date moves, the guarantors are left alone.
LEMMA RepaymentStep ==
    ASSUME RecoveryInv,
           \/ P!MonthPasses \/ P!DeductInstallment
           \/ \E h \in Hands : P!RepayLoan(h) \/ P!RepayByMandate(h) \/ P!CommitRepayment(h)
    PROVE  RecoveryInv' /\ P!ChargedAsAnnounced
<1>1. UNCHANGED <<notice, recovery, charged, crossed>>
  BY DEF P!MonthPasses, P!DeductInstallment, P!RepayLoan, P!RepayByMandate, P!ReadRepayment,
         P!CommitRepayment, P!guaranteeVars
<1>2. late' \in Nat
  <2>1. CASE P!MonthPasses BY <2>1 DEF P!MonthPasses, RecoveryInv
  <2>2. CASE P!DeductInstallment BY <2>2 DEF P!DeductInstallment, RecoveryInv
  <2>3. ASSUME NEW h \in Hands, P!RepayLoan(h) \/ P!RepayByMandate(h) PROVE late' \in Nat
    BY <2>3 DEF P!RepayLoan, P!RepayByMandate, P!ReadRepayment, P!loanVars, RecoveryInv
  <2>4. ASSUME NEW h \in Hands, P!CommitRepayment(h) PROVE late' \in Nat
    <3>1. late' \in {late, IF late > 0 THEN late - 1 ELSE 0}
      BY <2>4 DEF P!CommitRepayment, P!loanVars
    <3> QED BY <3>1 DEF RecoveryInv
  <2> QED BY <2>1, <2>2, <2>3, <2>4
<1>3. \A g \in Guarantors : Apart(g) => Apart(g)'
  BY <1>1 DEF Apart, Executes, Has
<1> QED BY <1>1, <1>2, <1>3 DEF RecoveryInv, RunTyped, P!ChargedAsAnnounced, P!At

(* A run moves on; the others stay where they are. *)
LEMMA RunMoves ==
    ASSUME RunTyped, NEW r \in Hands, NEW pc \in RunPc, NEW seen \in SUBSET Guarantors,
           P!Goes(r, pc, seen)
    PROVE  /\ RunTyped' /\ recovery'[r].pc = pc /\ recovery'[r].seen = seen
           /\ \A q \in Hands : q # r => recovery'[q] = recovery[q]
BY DEF RunTyped, P!Goes

(* A step of the scan. *)
LEMMA ScanStep ==
    ASSUME RecoveryInv, NEW r \in Hands,
           P!ScanGuarantorDefaults(r) \/ P!ReadNotices(r) \/ P!SendNotices(r)
    PROVE  RecoveryInv' /\ P!ChargedAsAnnounced
<1>1. UNCHANGED <<late, charged, crossed>>
  BY DEF P!ScanGuarantorDefaults, P!ReadNotices, P!SendNotices, P!loanVars, P!chargeVars
<1>2. CASE P!ScanGuarantorDefaults(r)
  <2>1. UNCHANGED notice /\ \E pc \in {"scan", "idle", "found"} : P!Goes(r, pc, {})
    BY <1>2 DEF P!ScanGuarantorDefaults, P!Scanned
  <2>2. PICK pc \in {"scan", "idle", "found"} : P!Goes(r, pc, {})
    BY <2>1
  <2>3. /\ RunTyped' /\ recovery'[r].pc = pc /\ recovery'[r].seen = {}
        /\ \A q \in Hands : q # r => recovery'[q] = recovery[q]
    BY <2>2, RunMoves DEF RecoveryInv, RunPc
  <2>4. \A g \in Guarantors : Apart(g) => Apart(g)'
    BY <1>1, <2>1, <2>3 DEF Apart, Executes, Has, P!Executing
  <2> QED BY <1>1, <2>1, <2>3, <2>4 DEF RecoveryInv, P!ChargedAsAnnounced, P!At
<1>3. CASE P!ReadNotices(r)
  <2> DEFINE seen == {g \in Guarantors : notice[g] \in {"none", "cancelled"}}
  <2>1. UNCHANGED notice /\ P!Goes(r, "notify", seen) BY <1>3 DEF P!ReadNotices
  <2>2. /\ RunTyped' /\ recovery'[r].pc = "notify" /\ recovery'[r].seen = seen
        /\ \A q \in Hands : q # r => recovery'[q] = recovery[q]
    BY <2>1, RunMoves DEF RecoveryInv, RunPc
  <2>3. \A g \in Guarantors : Apart(g) => Apart(g)'
    <3> SUFFICES ASSUME NEW g \in Guarantors, Apart(g) PROVE Apart(g)' OBVIOUS
    <3>1. \A q \in Hands : Executes(q, g)' => Executes(q, g)
      BY <2>2 DEF Executes, Has, P!Executing
    <3>2. \A q \in Hands : Has(q, "notify", g)' => Has(q, "notify", g) \/ notice[g] \in {"none", "cancelled"}
      BY <2>2 DEF Has
    <3>3. \A q \in Hands, pc \in P!Executing : Has(q, pc, g)' => Has(q, pc, g)
      BY <2>2 DEF Has, P!Executing
    <3> QED BY <1>1, <2>1, <3>1, <3>2, <3>3 DEF Apart, P!Executing
  <2> QED BY <1>1, <2>1, <2>2, <2>3 DEF RecoveryInv, P!ChargedAsAnnounced, P!At
<1>4. CASE P!SendNotices(r)
  <2>1. /\ recovery[r].pc = "notify"
        /\ notice' = [g \in Guarantors |-> IF g \in recovery[r].seen THEN "notified" ELSE notice[g]]
        /\ \E pc \in {"idle", "found"} : P!Goes(r, pc, {})
    BY <1>4 DEF P!SendNotices, P!Scanned, P!At
  <2>2. PICK pc \in {"idle", "found"} : P!Goes(r, pc, {}) BY <2>1
  <2>3. /\ RunTyped' /\ recovery'[r].pc = pc /\ recovery'[r].seen = {}
        /\ \A q \in Hands : q # r => recovery'[q] = recovery[q]
    BY <2>2, RunMoves DEF RecoveryInv, RunPc
  <2>4. notice' \in [Guarantors -> NoticeStatus] BY <2>1 DEF RecoveryInv, NoticeStatus
  <2>5. \A g \in Guarantors : Apart(g) => Apart(g)'
    <3> SUFFICES ASSUME NEW g \in Guarantors, Apart(g) PROVE Apart(g)' OBVIOUS
    <3>1. \A q \in Hands, c \in {"notify", "pending", "cancel", "deduct"} : Has(q, c, g)' => Has(q, c, g)
      BY <2>3 DEF Has
    <3>2. \A q \in Hands : Executes(q, g)' => Executes(q, g)
      BY <3>1 DEF Executes, P!Executing
    <3>3. CASE g \in recovery[r].seen
      <4>1. Has(r, "notify", g) /\ notice'[g] = "notified" BY <2>1, <3>3 DEF Has
      <4> QED BY <1>1, <3>1, <3>2, <4>1 DEF Apart
    <3>4. CASE g \notin recovery[r].seen
      <4>1. notice'[g] = notice[g] BY <2>1, <3>4
      <4> QED BY <1>1, <3>1, <3>2, <4>1 DEF Apart
    <3> QED BY <3>3, <3>4
  <2> QED BY <1>1, <2>3, <2>4, <2>5 DEF RecoveryInv, P!ChargedAsAnnounced, P!At
<1> QED BY <1>2, <1>3, <1>4

(* The 10 days are over: of no notice a scan is about to write. *)
LEMMA ExpiryStep ==
    ASSUME RecoveryInv, NEW g \in Guarantors, P!NoticeExpires(g)
    PROVE  RecoveryInv' /\ P!ChargedAsAnnounced
<1>1. /\ notice[g] = "notified" /\ notice' = [notice EXCEPT ![g] = "due"]
      /\ \A r \in Hands : ~Has(r, "notify", g)
      /\ UNCHANGED <<late, recovery, charged, crossed>>
  BY DEF P!NoticeExpires, P!loanVars, P!chargeVars, P!At, Has
<1>2. /\ notice' \in [Guarantors -> NoticeStatus] /\ notice'[g] = "due"
      /\ \A k \in Guarantors : k # g => notice'[k] = notice[k]
  BY <1>1 DEF RecoveryInv, NoticeStatus
<1>3. \A k \in Guarantors : Apart(k) => Apart(k)'
  <2> SUFFICES ASSUME NEW k \in Guarantors, Apart(k) PROVE Apart(k)' OBVIOUS
  <2>1. \A q \in Hands, pc \in RunPc : Has(q, pc, k)' <=> Has(q, pc, k) BY <1>1 DEF Has
  <2>2. \A q \in Hands : Executes(q, k)' <=> Executes(q, k)
    BY <2>1 DEF Executes, P!Executing, RunPc
  <2> QED BY <1>1, <1>2, <2>1, <2>2 DEF Apart, RunPc
<1> QED BY <1>1, <1>2, <1>3 DEF RecoveryInv, RunTyped, P!ChargedAsAnnounced, P!At

(* A run of the deductions reads. *)
LEMMA ReadStep ==
    ASSUME RecoveryInv, NEW r \in Hands, P!ReadPending(r) \/ P!ReadDueDeductions(r)
    PROVE  RecoveryInv' /\ P!ChargedAsAnnounced
<1>1. UNCHANGED <<late, charged, notice>>
  BY DEF P!ReadPending, P!ReadDueDeductions, P!loanVars, P!chargeVars
<1> DEFINE out == {g \in Guarantors : notice[g] \in {"notified", "due"}}
           due == {g \in Guarantors : notice[g] = "due"}
<1>2. \/ P!Goes(r, "pending", out) /\ P!Crosses(r, out) /\ recovery[r].pc = "found"
      \/ P!Goes(r, "deduct", due) /\ P!Crosses(r, due) /\ P!StillDefaulted
      \/ P!Goes(r, "cancel", recovery[r].seen) /\ UNCHANGED crossed /\ recovery[r].pc = "pending"
  BY DEF P!ReadPending, P!ReadDueDeductions, P!At
<1>3. ASSUME NEW pc \in {"pending", "deduct"}, NEW gs \in {out, due}, pc = "deduct" => gs = due,
             P!Goes(r, pc, gs), P!Crosses(r, gs), pc = "deduct" => P!StillDefaulted
      PROVE  RecoveryInv' /\ P!ChargedAsAnnounced
  <2>1. /\ RunTyped' /\ recovery'[r].pc = pc /\ recovery'[r].seen = gs
        /\ \A q \in Hands : q # r => recovery'[q] = recovery[q]
    BY <1>3, RunMoves DEF RecoveryInv, RunPc
  <2>2. ASSUME NEW g \in Guarantors \ crossed' PROVE Apart(g)'
    <3>1. g \notin crossed /\ Apart(g)
      BY <1>3, <2>2 DEF RecoveryInv, P!Crosses
    <3>2. \A q \in Hands : q # r /\ g \in gs => ~Executes(q, g)
      <4> SUFFICES ASSUME NEW q \in Hands, q # r, g \in gs, Executes(q, g) PROVE FALSE OBVIOUS
      <4>1. g \in gs \cap P!InHand(q) BY DEF Executes, Has, P!InHand
      <4>2. g \in crossed' BY <1>3, <4>1 DEF P!Crosses
      <4> QED BY <2>2, <4>2
    <3>3. \A q \in Hands : q # r => (Executes(q, g)' <=> Executes(q, g))
      BY <2>1 DEF Executes, Has
    <3>4. Executes(r, g)' => g \in gs BY <2>1 DEF Executes, Has
    <3>5. \A q \in Hands, c \in RunPc : q # r => (Has(q, c, g)' <=> Has(q, c, g))
      BY <2>1 DEF Has
    <3>6. /\ ~Has(r, "notify", g)' /\ ~Has(r, "cancel", g)'
          /\ Has(r, "deduct", g)' => notice[g] = "due"
          /\ Has(r, "pending", g)' => notice[g] # "deducted"
      BY <1>3, <2>1 DEF Has
    <3>7. \A p, q \in Hands : Executes(p, g)' /\ Executes(q, g)' => p = q
      BY <3>1, <3>2, <3>3, <3>4 DEF Apart
    <3>8. \A p \in Hands : Has(p, "notify", g)' =>
            notice[g] \in {"none", "notified", "cancelled"} /\ \A q \in Hands : ~Has(q, "deduct", g)'
      BY <3>1, <3>5, <3>6 DEF Apart, RunPc
    <3> QED BY <1>1, <3>1, <3>5, <3>6, <3>7, <3>8 DEF Apart, RunPc
  <2>3. ASSUME NEW g \in Guarantors, NEW q \in Hands, P!At(q, "deduct")', ~P!At(q, "deduct"),
               g \in recovery'[q].seen
        PROVE  notice[g] = "due" /\ status = "disbursed" /\ balance > 0 /\ late > 0
    <3>1. q = r /\ pc = "deduct" BY <2>1, <2>3 DEF P!At
    <3> QED BY <1>3, <2>1, <2>3, <3>1 DEF P!StillDefaulted, RecoveryInv
  <2> QED BY <1>1, <2>1, <2>2, <2>3 DEF RecoveryInv, P!ChargedAsAnnounced
<1>4. ASSUME P!Goes(r, "cancel", recovery[r].seen), UNCHANGED crossed, recovery[r].pc = "pending"
      PROVE  RecoveryInv' /\ P!ChargedAsAnnounced
  <2>1. /\ RunTyped' /\ recovery'[r].pc = "cancel" /\ recovery'[r].seen = recovery[r].seen
        /\ \A q \in Hands : q # r => recovery'[q] = recovery[q]
    <3>1. recovery[r].seen \in SUBSET Guarantors BY DEF RecoveryInv, RunTyped
    <3> QED BY <1>4, <3>1, RunMoves DEF RecoveryInv, RunPc
  <2>2. ASSUME NEW g \in Guarantors, Apart(g) PROVE Apart(g)'
    <3>1. \A q \in Hands : Executes(q, g)' <=> Executes(q, g)
      BY <1>4, <2>1 DEF Executes, Has, P!Executing
    <3>2. \A q \in Hands : /\ Has(q, "notify", g)' => Has(q, "notify", g)
                           /\ Has(q, "deduct", g)' => Has(q, "deduct", g)
                           /\ Has(q, "pending", g)' => Has(q, "pending", g)
                           /\ Has(q, "cancel", g)' => Has(q, "cancel", g) \/ Has(q, "pending", g)
      BY <1>4, <2>1 DEF Has
    <3> QED BY <1>1, <2>2, <3>1, <3>2 DEF Apart
  <2> QED BY <1>1, <1>4, <2>1, <2>2 DEF RecoveryInv, P!ChargedAsAnnounced, P!At
<1> QED BY <1>2, <1>3, <1>4

(* It writes: what it takes back has not been acted upon, what it takes is still due. *)
LEMMA WriteStep ==
    ASSUME RecoveryInv, NEW r \in Hands,
           P!CancelNotices(r) \/ P!DeductGuarantors(r) \/ P!RunFails(r)
    PROVE  RecoveryInv' /\ P!ChargedAsAnnounced
<1>1. UNCHANGED <<late, crossed>> /\ P!Goes(r, "idle", {})
  BY DEF P!CancelNotices, P!DeductGuarantors, P!RunFails, P!loanVars
<1>2. /\ RunTyped' /\ recovery'[r].pc = "idle" /\ recovery'[r].seen = {}
      /\ \A q \in Hands : q # r => recovery'[q] = recovery[q]
  BY <1>1, RunMoves DEF RecoveryInv, RunPc
<1>3. \A q \in Hands, pc \in RunPc, g \in Guarantors :
        Has(q, pc, g)' => Has(q, pc, g) /\ q # r
  BY <1>2 DEF Has
<1>4. \A q \in Hands, g \in Guarantors : Executes(q, g)' => Executes(q, g) /\ q # r
  BY <1>3 DEF Executes, P!Executing, RunPc
<1>5. CASE P!CancelNotices(r)
  <2>1. /\ recovery[r].pc = "cancel" /\ UNCHANGED charged
        /\ notice' = [g \in Guarantors |-> IF g \in recovery[r].seen THEN "cancelled" ELSE notice[g]]
    BY <1>5 DEF P!CancelNotices, P!chargeVars, P!At
  <2>2. notice' \in [Guarantors -> NoticeStatus] BY <2>1 DEF RecoveryInv, NoticeStatus
  <2>3. ASSUME NEW g \in Guarantors, Apart(g) PROVE Apart(g)'
    <3>1. CASE g \in recovery[r].seen
      <4>1. Has(r, "cancel", g) /\ notice'[g] = "cancelled" BY <2>1, <3>1 DEF Has
      <4>2. Executes(r, g) BY <4>1 DEF Executes, P!Executing
      <4>3. \A q \in Hands : ~Executes(q, g)' BY <1>4, <2>3, <4>2 DEF Apart
      <4>4. \A q \in Hands : ~Has(q, "deduct", g)' BY <4>3 DEF Executes, P!Executing
      <4> QED BY <1>3, <1>4, <2>1, <2>3, <4>1, <4>3, <4>4 DEF Apart, RunPc
    <3>2. CASE g \notin recovery[r].seen
      <4>1. notice'[g] = notice[g] BY <2>1, <3>2
      <4> QED BY <1>3, <1>4, <2>1, <2>3, <4>1 DEF Apart, RunPc
    <3> QED BY <3>1, <3>2
  <2> QED BY <1>1, <1>2, <2>1, <2>2, <2>3 DEF RecoveryInv, P!ChargedAsAnnounced, P!At
<1>6. CASE P!DeductGuarantors(r)
  <2> DEFINE pay == {g \in recovery[r].seen : savings[g] >= Share}
  <2>1. /\ recovery[r].pc = "deduct"
        /\ charged' = [g \in Guarantors |-> charged[g] + IF g \in pay THEN 1 ELSE 0]
        /\ notice' = [g \in Guarantors |-> IF g \in pay THEN "deducted" ELSE notice[g]]
    BY <1>6 DEF P!DeductGuarantors, P!At
  <2>2. notice' \in [Guarantors -> NoticeStatus] /\ charged' \in [Guarantors -> Nat]
    BY <2>1 DEF RecoveryInv, NoticeStatus
  <2>3. ASSUME NEW g \in Guarantors, Apart(g) PROVE Apart(g)'
    <3>0. charged[g] \in {0, 1} BY <2>3 DEF Apart
    <3>1. CASE g \in pay
      <4>1. /\ Has(r, "deduct", g) /\ notice'[g] = "deducted" /\ charged'[g] = charged[g] + 1
        BY <2>1, <3>1 DEF Has
      <4>2. Executes(r, g) BY <4>1 DEF Executes, P!Executing
      <4>3. \A q \in Hands : ~Executes(q, g)' BY <1>4, <2>3, <4>2 DEF Apart
      <4>4. \A q \in Hands : ~Has(q, "deduct", g)' /\ ~Has(q, "pending", g)' /\ ~Has(q, "cancel", g)'
        BY <4>3 DEF Executes, P!Executing
      <4>5. \A q \in Hands : ~Has(q, "notify", g)' BY <1>3, <2>3, <4>1 DEF Apart, RunPc
      <4>6. charged'[g] = 1 BY <2>3, <4>1 DEF Apart
      <4> QED BY <4>1, <4>3, <4>4, <4>5, <4>6 DEF Apart
    <3>2. CASE g \notin pay
      <4>1. notice'[g] = notice[g] /\ charged'[g] = charged[g] BY <2>1, <3>0, <3>2
      <4> QED BY <1>3, <1>4, <2>3, <4>1 DEF Apart, RunPc
    <3> QED BY <3>1, <3>2
  <2>4. ASSUME NEW g \in Guarantors, charged'[g] # charged[g]
        PROVE  \E q \in Hands : P!At(q, "deduct") /\ g \in recovery[q].seen
    <3>1. g \in pay BY <2>1, <2>4 DEF RecoveryInv
    <3> QED BY <2>1, <3>1 DEF P!At
  <2>5. \A q \in Hands : P!At(q, "deduct")' => P!At(q, "deduct")
    BY <1>2 DEF P!At
  <2> QED BY <1>1, <1>2, <2>2, <2>3, <2>4, <2>5 DEF RecoveryInv, P!ChargedAsAnnounced
<1>7. CASE P!RunFails(r)
  <2>1. UNCHANGED <<notice, charged>> BY <1>7 DEF P!RunFails, P!chargeVars
  <2>2. \A g \in Guarantors : Apart(g) => Apart(g)'
    BY <1>3, <1>4, <2>1 DEF Apart, RunPc
  <2> QED BY <1>1, <1>2, <2>1, <2>2 DEF RecoveryInv, P!ChargedAsAnnounced, P!At
<1> QED BY <1>5, <1>6, <1>7

(* Every step of the repayments keeps RecoveryInv and charges only as announced. *)
LEMMA RecoveryStep ==
    ASSUME RecoveryInv, P!Next
    PROVE  RecoveryInv' /\ P!ChargedAsAnnounced
<1>1. CASE \/ P!MonthPasses \/ P!DeductInstallment
           \/ \E h \in Hands : P!RepayLoan(h) \/ P!RepayByMandate(h) \/ P!CommitRepayment(h)
  BY <1>1, RepaymentStep
<1>2. ASSUME NEW r \in Hands, P!Recovers(r) \/ P!RunFails(r)
      PROVE  RecoveryInv' /\ P!ChargedAsAnnounced
  BY <1>2, ScanStep, ReadStep, WriteStep DEF P!Recovers
<1>3. CASE \E g \in Guarantors : P!NoticeExpires(g)
  BY <1>3, ExpiryStep
<1> QED BY <1>1, <1>2, <1>3 DEF P!Next, P!Works

(* The other parts leave the repayments alone. *)
LEMMA RecoveryStutter ==
    ASSUME RecoveryInv, UNCHANGED repaymentsVars
    PROVE  RecoveryInv' /\ UNCHANGED P!vars
<1>1. UNCHANGED <<late, notice, recovery, charged, crossed>> BY DEF repaymentsVars
<1>2. \A g \in Guarantors : Apart(g) => Apart(g)' BY <1>1 DEF Apart, Executes, Has
<1> QED BY <1>1, <1>2 DEF repaymentsVars, RecoveryInv, RunTyped, P!vars

(* guarantordeduction.ts: however runs of the recovery overlap, a guarantor is charged
   only after a notice that was due and for a loan that was in default when the run
   read it; one whom no two runs had in hand at once pays once, if and only if his
   notice is "deducted". *)
THEOREM GuarantorsChargedOnce == CollectionsSpec => GuarantorChargedOnce
<1>1. CollectionsInit => RecoveryInv
  BY RecoveryInit DEF CollectionsInit
<1>2. RecoveryInv /\ [CollectionsNext]_collectionsVars => RecoveryInv'
  BY RecoveryStep, RecoveryStutter DEF CollectionsNext, collectionsVars
<1>3. RecoveryInv /\ [CollectionsNext]_collectionsVars => [P!ChargedAsAnnounced]_(P!vars)
  BY RecoveryStep, RecoveryStutter DEF CollectionsNext, collectionsVars
<1>4. RecoveryInv => P!OneCharge
  BY DEF RecoveryInv, Apart, P!OneCharge
<1> QED BY <1>1, <1>2, <1>3, <1>4, PTL
        DEF CollectionsSpec, GuarantorChargedOnce, P!GuarantorChargedOnce

-----------------------------------------------------------------------------
(* Notices of the scheduler *)

Running(p) == run[p].pc # "idle"
Sending == {p \in Hands : run[p].pc = "send"}

RunRow == [pc : S!Steps, via : S!Shares \cup {"alone", "none"}]
RunType == [Hands -> RunRow]

NoticeTypes ==
    /\ job \in S!Jobs
    /\ mode \in [Hands -> {"off", "worker", "loops"}]
    /\ link \in [Hands -> BOOLEAN]
    /\ run \in RunType
    /\ token \in [S!Shares -> Hands \cup {Nobody}]
    /\ once \in BOOLEAN /\ mark \in BOOLEAN /\ stamp \in BOOLEAN /\ excused \in BOOLEAN
    /\ memMark \subseteq Hands
    /\ sent \in Nat /\ told \in Nat /\ digests \in Nat /\ fell \in Nat

\* A claim that is not sent yet counts like one that is.
ClaimsCounted == sent + Cardinality(Sending) <= fell + (IF once THEN 1 ELSE 0)

\* What is recorded as sent was sent.
RecordsTrue ==
    /\ stamp => told > 0
    /\ \A p \in Hands : run[p].pc = "stamp" => told > 0
    /\ mark \/ memMark # {} => digests > 0
    /\ \A p \in Hands : run[p].pc = "mark" => digests > 0
    /\ \A p \in Hands : mode[p] = "off" => ~Running(p)
    /\ \A p \in Hands : run[p].pc \in {"check", "digest", "mark"} => job = "digest"

(* Without a death, an expiry or a rollback one process runs, and it holds the token
   it shares with the others; a digest's run can reach the marker. *)
OneRuns ==
    /\ \A p, q \in Hands : Running(p) /\ Running(q) => p = q
    /\ \A p \in Hands : Running(p) => /\ run[p].via \in S!Shares => token[run[p].via] = p
                                      /\ job = "digest" => link[p]

\* What the one that runs still may send was not sent.
SentByStep ==
    /\ (\A p \in Hands : run[p].pc # "stamp") => told = (IF stamp THEN 1 ELSE 0)
    /\ \A p \in Hands : /\ run[p].pc = "stamp" => told = 1 /\ ~stamp
                        /\ run[p].pc = "tell" => ~stamp
    /\ (\A p \in Hands : run[p].pc # "mark") => digests = (IF mark THEN 1 ELSE 0)
    /\ \A p \in Hands : /\ run[p].pc = "mark" => digests = 1 /\ ~mark
                        /\ run[p].pc = "digest" => ~mark

SchedulingInv ==
    /\ NoticeTypes
    /\ ClaimsCounted
    /\ RecordsTrue
    /\ ~excused => OneRuns /\ SentByStep

\* A run goes on to its next step.
LEMMA RunGoes ==
    ASSUME run \in RunType, NEW p \in Hands, NEW pc \in S!Steps, S!Goes(p, pc)
    PROVE  /\ run' \in RunType /\ run'[p].pc = pc /\ run'[p].via = run[p].via
           /\ \A q \in Hands : q # p => run'[q] = run[q]
<1> DEFINE row == [run[p] EXCEPT !.pc = pc]
<1>1. run[p] \in RunRow BY DEF RunType
<1>2. row \in RunRow /\ row.pc = pc /\ row.via = run[p].via BY <1>1 DEF RunRow
<1>3. run' = [run EXCEPT ![p] = row] BY DEF S!Goes
<1> HIDE DEF row
<1> QED BY <1>2, <1>3 DEF RunType

\* A run is set: it starts, or it is over.
LEMMA RunSet ==
    ASSUME run \in RunType, NEW p \in Hands, NEW row \in RunRow, run' = [run EXCEPT ![p] = row]
    PROVE  /\ run' \in RunType /\ run'[p] = row
           /\ \A q \in Hands : q # p => run'[q] = run[q]
BY DEF RunType

(* A process that runs nothing. *)
LEMMA IdleRun == S!Idle \in RunRow /\ S!Idle.pc = "idle" /\ S!Idle.via = "none"
BY DEF S!Idle, RunRow, S!Steps

\* How many claims wait to be sent, when one process moves.
LEMMA SendingMoves ==
    ASSUME NEW p \in Hands, \A q \in Hands : q # p => run'[q] = run[q]
    PROVE  /\ Cardinality(Sending) \in Nat /\ Cardinality(Sending') \in Nat
           /\ Cardinality(Sending') - (IF run'[p].pc = "send" THEN 1 ELSE 0)
                = Cardinality(Sending) - (IF run[p].pc = "send" THEN 1 ELSE 0)
<1>1. IsFiniteSet(Sending) /\ IsFiniteSet(Sending')
  BY CollectionsAssumption, FS_Subset DEF Sending
<1>2. Sending \ {p} = Sending' \ {p}
  BY DEF Sending
<1>3. /\ Cardinality(Sending \ {p}) = Cardinality(Sending) - (IF p \in Sending THEN 1 ELSE 0)
      /\ Cardinality(Sending' \ {p}) = Cardinality(Sending') - (IF p \in Sending' THEN 1 ELSE 0)
      /\ Cardinality(Sending) \in Nat /\ Cardinality(Sending') \in Nat
  BY <1>1, FS_RemoveElement, FS_CardinalityType
<1>4. (p \in Sending <=> run[p].pc = "send") /\ (p \in Sending' <=> run'[p].pc = "send")
  BY DEF Sending
<1> QED BY <1>2, <1>3, <1>4

(* SchedulingInv holds at the start: nothing was sent and nobody runs. *)
LEMMA SchedulingInit ==
    ASSUME S!Init PROVE SchedulingInv
<1>1. NoticeTypes
  <2>1. run \in RunType BY IdleRun DEF S!Init, RunType
  <2>2. token \in [S!Shares -> Hands \cup {Nobody}] BY DEF S!Init
  <2> QED BY <2>1, <2>2 DEF S!Init, NoticeTypes, S!Jobs
<1>2. \A p \in Hands : run[p].pc = "idle" BY IdleRun DEF S!Init
<1>3. Sending = {} BY <1>2 DEF Sending
<1>4. ClaimsCounted BY <1>3, FS_EmptySet DEF S!Init, ClaimsCounted
<1>5. RecordsTrue BY <1>2 DEF S!Init, RecordsTrue, Running
<1>6. OneRuns /\ SentByStep BY <1>2 DEF S!Init, OneRuns, SentByStep, Running
<1> QED BY <1>1, <1>4, <1>5, <1>6 DEF SchedulingInv

(* Processes boot, lose their connection and get it back. *)
LEMMA LinkMoves ==
    ASSUME SchedulingInv, NEW p \in Hands, S!Boot(p) \/ S!LinkCut(p) \/ S!LinkBack(p)
    PROVE  SchedulingInv'
<1>1. UNCHANGED <<job, run, token, once, mark, memMark, stamp, sent, told, digests, fell>>
  BY DEF S!Boot, S!LinkCut, S!LinkBack, S!redis, S!counts
<1>2. /\ mode' \in [Hands -> {"off", "worker", "loops"}] /\ link' \in [Hands -> BOOLEAN]
      /\ excused' \in BOOLEAN
      /\ \A q \in Hands : mode'[q] = "off" => mode[q] = "off"
  BY DEF S!Boot, S!LinkCut, S!LinkBack, SchedulingInv, NoticeTypes
<1>3. NoticeTypes' BY <1>1, <1>2 DEF SchedulingInv, NoticeTypes
<1>4. Sending' = Sending /\ ClaimsCounted' /\ RecordsTrue'
  BY <1>1, <1>2 DEF SchedulingInv, Sending, ClaimsCounted, RecordsTrue, Running
<1>5. ASSUME ~excused' PROVE OneRuns' /\ SentByStep'
  <2>1. ~excused
    BY <1>5 DEF S!Boot, S!LinkCut, S!LinkBack
  <2>2. OneRuns /\ SentByStep BY <2>1 DEF SchedulingInv
  <2>3. ASSUME NEW q \in Hands, Running(q), job = "digest" PROVE link'[q]
    <3>1. link[q] BY <2>2, <2>3 DEF OneRuns
    <3>2. CASE q # p
      BY <3>1, <3>2 DEF S!Boot, S!LinkCut, S!LinkBack, SchedulingInv, NoticeTypes
    <3>3. CASE q = p
      <4>1. ~S!Boot(p) BY <2>3, <3>3 DEF S!Boot, SchedulingInv, RecordsTrue
      <4>2. ~S!LinkCut(p) BY <1>5, <2>3, <3>3 DEF S!LinkCut, S!Running, Running
      <4> QED BY <3>3, <4>1, <4>2 DEF S!LinkBack, SchedulingInv, NoticeTypes
    <3> QED BY <3>2, <3>3
  <2> QED BY <1>1, <2>2, <2>3 DEF OneRuns, SentByStep, Running
<1> QED BY <1>3, <1>4, <1>5 DEF SchedulingInv

(* A process dies: its run is forgotten, its token stays until it lapses. *)
LEMMA ProcessGone ==
    ASSUME SchedulingInv, NEW p \in Hands, S!Dies(p)
    PROVE  SchedulingInv'
<1>1. /\ UNCHANGED <<job, token, once, mark, stamp, sent, told, digests, fell>>
      /\ memMark' \subseteq memMark
      /\ excused' = (excused \/ Running(p))
      /\ run' = [run EXCEPT ![p] = S!Idle]
  BY DEF S!Dies, S!redis, S!counts, S!Running, Running
<1>2. /\ run' \in RunType /\ run'[p] = S!Idle /\ \A q \in Hands : q # p => run'[q] = run[q]
  BY <1>1, IdleRun, RunSet DEF SchedulingInv, NoticeTypes
<1>3. /\ mode' \in [Hands -> {"off", "worker", "loops"}] /\ link' \in [Hands -> BOOLEAN]
      /\ \A q \in Hands : q # p => mode'[q] = mode[q] /\ link'[q] = link[q]
  BY DEF S!Dies, SchedulingInv, NoticeTypes
<1>4. NoticeTypes' BY <1>1, <1>2, <1>3 DEF SchedulingInv, NoticeTypes
<1>5. ClaimsCounted'
  BY <1>1, <1>2, IdleRun, SendingMoves DEF SchedulingInv, NoticeTypes, ClaimsCounted
<1>6. RecordsTrue'
  BY <1>1, <1>2, <1>3, IdleRun DEF SchedulingInv, RecordsTrue, Running
<1>7. ASSUME ~excused' PROVE OneRuns' /\ SentByStep'
  <2>1. ~excused /\ run[p].pc = "idle" BY <1>1, <1>7 DEF Running
  <2>2. OneRuns /\ SentByStep BY <2>1 DEF SchedulingInv
  <2>3. \A q \in Hands : run'[q].pc = run[q].pc /\ (q # p => run'[q] = run[q])
    BY <1>2, <2>1, IdleRun
  <2>4. \A q \in Hands : Running(q)' <=> Running(q) /\ q # p
    BY <2>1, <2>3 DEF Running
  <2> QED BY <1>1, <1>3, <2>2, <2>3, <2>4 DEF OneRuns, SentByStep
<1> QED BY <1>4, <1>5, <1>6, <1>7 DEF SchedulingInv

(* A token lapses; under a run that holds it that excuses a repetition. *)
LEMMA TokenLapses ==
    ASSUME SchedulingInv, NEW v \in S!Shares, S!Lapse(v)
    PROVE  SchedulingInv'
<1>1. /\ UNCHANGED <<job, mode, link, run, once, mark, memMark, stamp, sent, told, digests, fell>>
      /\ token[v] \in Hands /\ token' = [token EXCEPT ![v] = Nobody]
      /\ excused' = (excused \/ run[token[v]].via = v)
  BY DEF S!Lapse, S!counts, SchedulingInv, NoticeTypes
<1>2. /\ token' \in [S!Shares -> Hands \cup {Nobody}]
      /\ \A w \in S!Shares : w # v => token'[w] = token[w]
  BY <1>1 DEF SchedulingInv, NoticeTypes
<1>3. excused' \in BOOLEAN BY <1>1 DEF SchedulingInv, NoticeTypes
<1>4. NoticeTypes' BY <1>1, <1>2, <1>3 DEF SchedulingInv, NoticeTypes
<1>5. Sending' = Sending /\ ClaimsCounted' /\ RecordsTrue'
  BY <1>1 DEF SchedulingInv, Sending, ClaimsCounted, RecordsTrue, Running
<1>6. ASSUME ~excused' PROVE OneRuns' /\ SentByStep'
  <2>1. ~excused /\ run[token[v]].via # v BY <1>1, <1>6
  <2>2. OneRuns /\ SentByStep BY <2>1 DEF SchedulingInv
  <2>3. \A p \in Hands : Running(p) => run[p].via # v
    BY <2>1, <2>2 DEF OneRuns
  <2> QED BY <1>1, <1>2, <2>2, <2>3 DEF OneRuns, SentByStep, Running
<1> QED BY <1>4, <1>5, <1>6 DEF SchedulingInv

(* A job starts: it shares its token with all that run, or is alone. *)
LEMMA JobStarts ==
    ASSUME SchedulingInv, NEW p \in Hands, S!StartJob(p)
    PROVE  SchedulingInv'
<1>1. PICK v \in S!Shares \cup {"alone"} :
        /\ S!Starts(p, v)
        /\ v \in S!Shares => link[p] /\ token[v] = Nobody /\ token' = [token EXCEPT ![v] = p]
        /\ v = "alone" => UNCHANGED token
  <2>1. "alone" \notin S!Shares BY DEF S!Shares
  <2>2. CASE \E v \in S!Shares : /\ link[p] /\ S!Free(v) /\ token' = [token EXCEPT ![v] = p]
                                 /\ S!Starts(p, v)
    BY <2>1, <2>2 DEF S!Free
  <2>3. CASE S!Starts(p, "alone") /\ UNCHANGED token
    BY <2>1, <2>3
  <2> QED BY <2>2, <2>3 DEF S!StartJob
<1>2. /\ ~Running(p) /\ mode[p] # "off"
  BY DEF S!StartJob, S!Running, Running, S!Shares
<1> DEFINE row == [pc |-> S!First, via |-> v]
<1>3. row \in RunRow /\ row.via = v /\ row.pc \in {"claim", "check"}
      /\ (row.pc = "check" => job = "digest")
  <2>1. v \in S!Shares \cup {"alone", "none"} BY <1>1
  <2>2. S!First \in {"claim", "check"} /\ (S!First = "check" => job = "digest")
    <3>1. CASE job = "tick" BY <3>1 DEF S!First
    <3>2. CASE job # "tick" BY <3>2 DEF SchedulingInv, NoticeTypes, S!First, S!Jobs
    <3> QED BY <3>1, <3>2
  <2> QED BY <2>1, <2>2 DEF RunRow, S!Steps
<1>4. /\ UNCHANGED <<job, mode, link, once, mark, memMark, stamp, sent, told, digests, fell>>
      /\ run' = [run EXCEPT ![p] = row]
      /\ excused' = (excused \/ S!Apart(v) \/ (v = "alone" /\ job = "digest"))
  BY <1>1 DEF S!Starts, S!counts
<1> HIDE DEF row
<1>5. /\ run' \in RunType /\ run'[p] = row /\ \A q \in Hands : q # p => run'[q] = run[q]
  BY <1>3, <1>4, RunSet DEF SchedulingInv, NoticeTypes
<1>6. /\ token' \in [S!Shares -> Hands \cup {Nobody}]
      /\ v \in S!Shares => token'[v] = p
      /\ \A w \in S!Shares : w # v => token'[w] = token[w]
  BY <1>1 DEF SchedulingInv, NoticeTypes
<1>7. NoticeTypes'
  BY <1>4, <1>5, <1>6 DEF SchedulingInv, NoticeTypes
<1>8. ClaimsCounted'
  BY <1>2, <1>3, <1>4, <1>5, SendingMoves DEF SchedulingInv, NoticeTypes, ClaimsCounted, Running
<1>9. RecordsTrue'
  BY <1>2, <1>3, <1>4, <1>5 DEF SchedulingInv, RecordsTrue, Running
<1>10. ASSUME ~excused' PROVE OneRuns' /\ SentByStep'
  <2>1. ~excused /\ ~S!Apart(v) /\ ~(v = "alone" /\ job = "digest") BY <1>4, <1>10
  <2>2. OneRuns /\ SentByStep BY <2>1 DEF SchedulingInv
  <2>3. \A q \in Hands : ~Running(q)
    <3> SUFFICES ASSUME NEW q \in Hands, Running(q) PROVE FALSE OBVIOUS
    <3>1. v # "alone" /\ run[q].via = v
      BY <2>1 DEF S!Apart, S!Running, Running
    <3>2. token[v] = q BY <1>1, <2>2, <3>1 DEF OneRuns
    <3> QED BY <1>1, <3>1, <3>2, CollectionsAssumption
  <2>4. \A q \in Hands : Running(q)' => q = p
    BY <1>5, <2>3 DEF Running
  <2>5. job = "digest" => link[p] BY <1>1, <2>1
  <2>6. OneRuns' BY <1>1, <1>3, <1>4, <1>5, <1>6, <2>4, <2>5 DEF OneRuns
  <2>7. \A q \in Hands : run'[q].pc \notin {"stamp", "tell", "mark", "digest"}
    BY <1>3, <1>5, <2>3 DEF Running
  <2>8. \A q \in Hands : run[q].pc \notin {"stamp", "mark"}
    BY <2>3 DEF Running
  <2>9. SentByStep' BY <1>4, <2>2, <2>7, <2>8 DEF SentByStep
  <2> QED BY <2>6, <2>9
<1> QED BY <1>7, <1>8, <1>9, <1>10 DEF SchedulingInv

(* Within a run: who runs, and with what, stays. *)
LEMMA RunsOn ==
    ASSUME SchedulingInv, NEW p \in Hands, Running(p), NEW pc \in S!Steps \ {"idle"},
           S!Goes(p, pc), UNCHANGED <<job, mode, link, token>>
    PROVE  /\ run' \in RunType /\ run'[p].pc = pc
           /\ \A q \in Hands : q # p => run'[q] = run[q]
           /\ \A q \in Hands : Running(q)' <=> Running(q)
           /\ OneRuns => OneRuns' /\ \A q \in Hands \ {p} : run[q].pc = "idle"
           /\ Cardinality(Sending') - (IF pc = "send" THEN 1 ELSE 0)
                = Cardinality(Sending) - (IF run[p].pc = "send" THEN 1 ELSE 0)
           /\ Cardinality(Sending) \in Nat /\ Cardinality(Sending') \in Nat
<1>1. /\ run' \in RunType /\ run'[p].pc = pc /\ run'[p].via = run[p].via
      /\ \A q \in Hands : q # p => run'[q] = run[q]
  BY RunGoes DEF SchedulingInv, NoticeTypes
<1>2. \A q \in Hands : Running(q)' <=> Running(q)
  BY <1>1 DEF Running
<1>3. OneRuns => OneRuns'
  BY <1>1, <1>2 DEF OneRuns
<1>4. OneRuns => \A q \in Hands \ {p} : run[q].pc = "idle"
  BY DEF OneRuns, Running
<1> QED BY <1>1, <1>2, <1>3, <1>4, SendingMoves

(* The claim in Redis, or in the process's memory. *)
LEMMA ClaimMade ==
    ASSUME SchedulingInv, NEW p \in Hands, S!ClaimOnce(p)
    PROVE  SchedulingInv'
<1>1. /\ run[p].pc = "claim" /\ Running(p)
      /\ UNCHANGED <<job, mode, link, token, mark, memMark, stamp, excused, sent, told, digests>>
  BY DEF S!ClaimOnce, S!counts, Running
<1>2. PICK pc \in {"send", "look"} : S!Goes(p, pc)
  BY DEF S!ClaimOnce
<1>3. pc \in S!Steps \ {"idle"} BY DEF S!Steps
<1>4. /\ run' \in RunType /\ run'[p].pc = pc
      /\ \A q \in Hands : q # p => run'[q] = run[q]
      /\ \A q \in Hands : Running(q)' <=> Running(q)
      /\ OneRuns => OneRuns' /\ \A q \in Hands \ {p} : run[q].pc = "idle"
      /\ Cardinality(Sending') - (IF pc = "send" THEN 1 ELSE 0)
           = Cardinality(Sending) - (IF run[p].pc = "send" THEN 1 ELSE 0)
      /\ Cardinality(Sending) \in Nat /\ Cardinality(Sending') \in Nat
  BY <1>1, <1>2, <1>3, RunsOn
<1>5. /\ once' \in BOOLEAN /\ (once => once') /\ fell' \in Nat /\ fell' >= fell
      /\ pc = "send" => fell' = fell + 1 \/ (~once /\ once')
  <2>1. link[p] \in BOOLEAN /\ once \in BOOLEAN /\ fell \in Nat
    BY DEF SchedulingInv, NoticeTypes
  <2>2. CASE /\ link[p] /\ once' = TRUE
             /\ (S!Unclaimed /\ S!Goes(p, "send")) \/ S!Goes(p, "look")
             /\ UNCHANGED S!counts
    <3>1. pc = "send" => ~once
      <4>1. ASSUME S!Goes(p, "look") PROVE run'[p].pc = "look"
        BY <4>1, RunGoes DEF SchedulingInv, NoticeTypes, S!Steps
      <4> QED BY <1>4, <2>2, <4>1 DEF S!Unclaimed
    <3> QED BY <2>1, <2>2, <3>1 DEF S!counts
  <2>3. CASE /\ once' \in {once, once \/ link[p]}
             /\ S!Goes(p, "look") /\ UNCHANGED S!counts
    <3>1. run'[p].pc = "look" BY <2>3, RunGoes DEF SchedulingInv, NoticeTypes, S!Steps
    <3> QED BY <1>4, <2>1, <2>3, <3>1 DEF S!counts
  <2>4. CASE once' \in {once, once \/ link[p]} /\ fell' = fell + 1
    BY <2>1, <2>4
  <2> QED BY <2>2, <2>3, <2>4 DEF S!ClaimOnce
<1>6. NoticeTypes' BY <1>1, <1>4, <1>5 DEF SchedulingInv, NoticeTypes
<1>7. ClaimsCounted'
  BY <1>1, <1>2, <1>4, <1>5 DEF SchedulingInv, NoticeTypes, ClaimsCounted
<1>8. RecordsTrue' BY <1>1, <1>2, <1>4 DEF SchedulingInv, RecordsTrue
<1>9. SentByStep => SentByStep'
  BY <1>1, <1>2, <1>4 DEF SentByStep
<1> QED BY <1>1, <1>4, <1>6, <1>7, <1>8, <1>9 DEF SchedulingInv

(* The claimed notice goes out. *)
LEMMA NoticeSent ==
    ASSUME SchedulingInv, NEW p \in Hands, S!Send(p)
    PROVE  SchedulingInv'
<1>1. /\ run[p].pc = "send" /\ Running(p) /\ sent' = sent + 1 /\ S!Goes(p, "look")
      /\ UNCHANGED <<job, mode, link, token, once, mark, memMark, stamp, excused, told, digests, fell>>
  BY DEF S!Send, S!redis, Running
<1>2. "look" \in S!Steps \ {"idle"} BY DEF S!Steps
<1>3. /\ run' \in RunType /\ run'[p].pc = "look"
      /\ \A q \in Hands : q # p => run'[q] = run[q]
      /\ \A q \in Hands : Running(q)' <=> Running(q)
      /\ OneRuns => OneRuns'
      /\ Cardinality(Sending') = Cardinality(Sending) - 1
      /\ Cardinality(Sending) \in Nat /\ Cardinality(Sending') \in Nat
  BY <1>1, <1>2, RunsOn
<1>4. NoticeTypes' BY <1>1, <1>3 DEF SchedulingInv, NoticeTypes
<1>5. ClaimsCounted' BY <1>1, <1>3 DEF SchedulingInv, NoticeTypes, ClaimsCounted
<1>6. RecordsTrue' BY <1>1, <1>3 DEF SchedulingInv, RecordsTrue
<1>7. SentByStep => SentByStep' BY <1>1, <1>3 DEF SentByStep
<1> QED BY <1>1, <1>3, <1>4, <1>5, <1>6, <1>7 DEF SchedulingInv

(* One transaction: who is due is read, told and stamped. *)
LEMMA DueRead ==
    ASSUME SchedulingInv, NEW p \in Hands, S!ReadDue(p)
    PROVE  SchedulingInv'
<1> DEFINE pc == IF stamp THEN "release" ELSE "tell"
<1>1. /\ run[p].pc = "look" /\ Running(p) /\ S!Goes(p, pc)
      /\ UNCHANGED <<job, mode, link, token, once, mark, memMark, stamp, excused, sent, told, digests, fell>>
  BY DEF S!ReadDue, S!redis, S!counts, Running
<1>2. pc \in S!Steps \ {"idle"} /\ pc \in {"release", "tell"} /\ (pc = "tell" => ~stamp)
  BY DEF S!Steps
<1> HIDE DEF pc
<1>3. /\ run' \in RunType /\ run'[p].pc = pc
      /\ \A q \in Hands : q # p => run'[q] = run[q]
      /\ \A q \in Hands : Running(q)' <=> Running(q)
      /\ OneRuns => OneRuns'
      /\ Cardinality(Sending') = Cardinality(Sending)
  BY <1>1, <1>2, RunsOn
<1>4. NoticeTypes' BY <1>1, <1>3 DEF SchedulingInv, NoticeTypes
<1>5. ClaimsCounted' BY <1>1, <1>3 DEF SchedulingInv, ClaimsCounted
<1>6. RecordsTrue' BY <1>1, <1>2, <1>3 DEF SchedulingInv, RecordsTrue
<1>7. SentByStep => SentByStep' BY <1>1, <1>2, <1>3 DEF SentByStep
<1> QED BY <1>1, <1>3, <1>4, <1>5, <1>6, <1>7 DEF SchedulingInv

(* A statement goes out before the member is stamped. *)
LEMMA StatementTold ==
    ASSUME SchedulingInv, NEW p \in Hands, S!Tell(p)
    PROVE  SchedulingInv'
<1>1. /\ run[p].pc = "tell" /\ Running(p) /\ told' = told + 1 /\ S!Goes(p, "stamp")
      /\ UNCHANGED <<job, mode, link, token, once, mark, memMark, stamp, excused, sent, digests, fell>>
  BY DEF S!Tell, S!redis, Running
<1>2. "stamp" \in S!Steps \ {"idle"} BY DEF S!Steps
<1>3. /\ run' \in RunType /\ run'[p].pc = "stamp"
      /\ \A q \in Hands : q # p => run'[q] = run[q]
      /\ \A q \in Hands : Running(q)' <=> Running(q)
      /\ OneRuns => OneRuns' /\ \A q \in Hands \ {p} : run[q].pc = "idle"
      /\ Cardinality(Sending') = Cardinality(Sending)
  BY <1>1, <1>2, RunsOn
<1>4. NoticeTypes' BY <1>1, <1>3 DEF SchedulingInv, NoticeTypes
<1>5. ClaimsCounted' BY <1>1, <1>3 DEF SchedulingInv, ClaimsCounted
<1>6. RecordsTrue' BY <1>1, <1>3 DEF SchedulingInv, NoticeTypes, RecordsTrue
<1>7. OneRuns /\ SentByStep => SentByStep'
  <2> SUFFICES ASSUME OneRuns, SentByStep PROVE SentByStep' OBVIOUS
  <2>1. \A q \in Hands : run[q].pc # "stamp" BY <1>1, <1>3
  <2>2. told = 0 /\ ~stamp BY <1>1, <2>1 DEF SentByStep
  <2> QED BY <1>1, <1>3, <2>2 DEF SentByStep
<1> QED BY <1>1, <1>3, <1>4, <1>5, <1>6, <1>7 DEF SchedulingInv

(* The member is stamped, or the transaction took too long and the stamp is lost. *)
LEMMA MemberStamped ==
    ASSUME SchedulingInv, NEW p \in Hands, S!Stamp(p)
    PROVE  SchedulingInv'
<1>1. /\ run[p].pc = "stamp" /\ Running(p) /\ S!Goes(p, "release")
      /\ \/ stamp' = TRUE /\ UNCHANGED excused
         \/ excused' = TRUE /\ UNCHANGED stamp
      /\ UNCHANGED <<job, mode, link, token, once, mark, memMark, sent, told, digests, fell>>
  BY DEF S!Stamp, S!redis, S!counts, Running
<1>2. "release" \in S!Steps \ {"idle"} BY DEF S!Steps
<1>3. /\ run' \in RunType /\ run'[p].pc = "release"
      /\ \A q \in Hands : q # p => run'[q] = run[q]
      /\ \A q \in Hands : Running(q)' <=> Running(q)
      /\ OneRuns => OneRuns' /\ \A q \in Hands \ {p} : run[q].pc = "idle"
      /\ Cardinality(Sending') = Cardinality(Sending)
  BY <1>1, <1>2, RunsOn
<1>4. NoticeTypes' BY <1>1, <1>3 DEF SchedulingInv, NoticeTypes
<1>5. ClaimsCounted' BY <1>1, <1>3 DEF SchedulingInv, ClaimsCounted
<1>6. RecordsTrue' BY <1>1, <1>3 DEF SchedulingInv, RecordsTrue
<1>7. ASSUME ~excused', OneRuns, SentByStep PROVE ~excused /\ SentByStep'
  <2>1. stamp' = TRUE /\ ~excused BY <1>1, <1>7
  <2>2. told = 1 BY <1>1, <1>7 DEF SentByStep
  <2>3. \A q \in Hands : run'[q].pc \notin {"stamp", "tell"} BY <1>3, <1>7
  <2>4. \A q \in Hands : /\ run'[q].pc = "mark" => run[q].pc = "mark"
                         /\ run'[q].pc = "digest" => run[q].pc = "digest"
    BY <1>3
  <2>5. (\A q \in Hands : run'[q].pc # "mark") => \A q \in Hands : run[q].pc # "mark"
    BY <1>1, <1>3
  <2> QED BY <1>1, <1>7, <2>1, <2>2, <2>3, <2>4, <2>5 DEF SentByStep
<1>8. ~excused' => ~excused BY <1>1
<1> QED BY <1>3, <1>4, <1>5, <1>6, <1>7, <1>8 DEF SchedulingInv

(* The digest's marker is looked at, and set after the digest. *)
LEMMA MarkerChecked ==
    ASSUME SchedulingInv, NEW p \in Hands, S!CheckMarker(p)
    PROVE  SchedulingInv'
<1> DEFINE pc == IF p \in memMark \/ (link[p] /\ mark) THEN "release" ELSE "digest"
<1>1. /\ run[p].pc = "check" /\ Running(p) /\ S!Goes(p, pc)
      /\ UNCHANGED <<job, mode, link, token, once, mark, memMark, stamp, excused, sent, told, digests, fell>>
  BY DEF S!CheckMarker, S!redis, S!counts, Running
<1>2. pc \in S!Steps \ {"idle"} /\ pc \in {"release", "digest"} /\ (pc = "digest" => ~(link[p] /\ mark))
  BY DEF S!Steps
<1> HIDE DEF pc
<1>3. /\ run' \in RunType /\ run'[p].pc = pc
      /\ \A q \in Hands : q # p => run'[q] = run[q]
      /\ \A q \in Hands : Running(q)' <=> Running(q)
      /\ OneRuns => OneRuns'
      /\ Cardinality(Sending') = Cardinality(Sending)
  BY <1>1, <1>2, RunsOn
<1>4. NoticeTypes' BY <1>1, <1>3 DEF SchedulingInv, NoticeTypes
<1>5. ClaimsCounted' BY <1>1, <1>3 DEF SchedulingInv, ClaimsCounted
<1>6. RecordsTrue' BY <1>1, <1>2, <1>3 DEF SchedulingInv, RecordsTrue
<1>7. OneRuns => link[p]
  BY <1>1 DEF SchedulingInv, RecordsTrue, OneRuns
<1>8. OneRuns /\ SentByStep => SentByStep' BY <1>1, <1>2, <1>3, <1>7 DEF SentByStep
<1> QED BY <1>1, <1>3, <1>4, <1>5, <1>6, <1>8 DEF SchedulingInv

(* The digest goes out, and the marker is set next unless the job ends in an error. *)
LEMMA DigestSent ==
    ASSUME SchedulingInv, NEW p \in Hands, S!SendDigest(p)
    PROVE  SchedulingInv'
<1>1. PICK pc \in {"mark", "release"} :
        /\ S!Goes(p, pc)
        /\ pc = "mark" => UNCHANGED excused
        /\ pc = "release" => excused' = TRUE
  BY DEF S!SendDigest
<1>2. /\ run[p].pc = "digest" /\ Running(p) /\ digests' = digests + 1
      /\ UNCHANGED <<job, mode, link, token, once, mark, memMark, stamp, sent, told, fell>>
  BY DEF S!SendDigest, S!redis, Running
<1>3. pc \in S!Steps \ {"idle"} BY DEF S!Steps
<1>4. /\ run' \in RunType /\ run'[p].pc = pc
      /\ \A q \in Hands : q # p => run'[q] = run[q]
      /\ \A q \in Hands : Running(q)' <=> Running(q)
      /\ OneRuns => OneRuns' /\ \A q \in Hands \ {p} : run[q].pc = "idle"
      /\ Cardinality(Sending') = Cardinality(Sending)
  BY <1>1, <1>2, <1>3, RunsOn
<1>5. excused' \in BOOLEAN BY <1>1 DEF SchedulingInv, NoticeTypes
<1>6. NoticeTypes' BY <1>2, <1>4, <1>5 DEF SchedulingInv, NoticeTypes
<1>7. ClaimsCounted' BY <1>2, <1>4 DEF SchedulingInv, ClaimsCounted
<1>8. RecordsTrue' BY <1>1, <1>2, <1>4 DEF SchedulingInv, NoticeTypes, RecordsTrue
<1>9. ASSUME ~excused', OneRuns, SentByStep PROVE SentByStep'
  <2>1. pc = "mark" BY <1>1, <1>9
  <2>2. \A q \in Hands : run[q].pc # "mark" BY <1>2, <1>4, <1>9
  <2>3. digests = 0 /\ ~mark BY <1>2, <1>9, <2>2 DEF SentByStep
  <2>4. \A q \in Hands \ {p} : run'[q].pc = "idle" BY <1>4, <1>9
  <2>5. run'[p].pc = "mark" BY <1>4, <2>1
  <2>6. \A q \in Hands : run[q].pc # "stamp" BY <1>2, <1>4, <1>9
  <2> QED BY <1>2, <1>9, <2>3, <2>4, <2>5, <2>6 DEF SentByStep
<1>10. ~excused' => ~excused BY <1>1
<1> QED BY <1>4, <1>6, <1>7, <1>8, <1>9, <1>10 DEF SchedulingInv

(* The marker is set where the run has a link, and remembered by the process. *)
LEMMA MarkerSet ==
    ASSUME SchedulingInv, NEW p \in Hands, S!SetMarker(p)
    PROVE  SchedulingInv'
<1>1. /\ run[p].pc = "mark" /\ Running(p) /\ S!Goes(p, "release")
      /\ memMark' = memMark \cup {p} /\ mark' = (mark \/ link[p])
      /\ UNCHANGED <<job, mode, link, token, once, stamp, excused, sent, told, digests, fell>>
  BY DEF S!SetMarker, S!counts, Running
<1>2. "release" \in S!Steps \ {"idle"} BY DEF S!Steps
<1>3. /\ run' \in RunType /\ run'[p].pc = "release"
      /\ \A q \in Hands : q # p => run'[q] = run[q]
      /\ \A q \in Hands : Running(q)' <=> Running(q)
      /\ OneRuns => OneRuns' /\ \A q \in Hands \ {p} : run[q].pc = "idle"
      /\ Cardinality(Sending') = Cardinality(Sending)
  BY <1>1, <1>2, RunsOn
<1>4. mark' \in BOOLEAN BY <1>1 DEF SchedulingInv, NoticeTypes
<1>5. NoticeTypes' BY <1>1, <1>3, <1>4 DEF SchedulingInv, NoticeTypes
<1>6. ClaimsCounted' BY <1>1, <1>3 DEF SchedulingInv, ClaimsCounted
<1>7. RecordsTrue' BY <1>1, <1>3 DEF SchedulingInv, RecordsTrue
<1>8. ASSUME OneRuns, SentByStep PROVE SentByStep'
  <2>1. link[p] BY <1>1, <1>8 DEF SchedulingInv, RecordsTrue, OneRuns
  <2>2. mark' = TRUE BY <1>1, <2>1
  <2>3. digests = 1 BY <1>1, <1>8 DEF SentByStep
  <2>4. \A q \in Hands : run'[q].pc \notin {"mark", "digest", "stamp", "tell"} BY <1>3, <1>8
  <2>5. \A q \in Hands : run[q].pc # "stamp" BY <1>1, <1>3, <1>8
  <2> QED BY <1>1, <1>8, <2>2, <2>3, <2>4, <2>5 DEF SentByStep
<1> QED BY <1>1, <1>3, <1>5, <1>6, <1>7, <1>8 DEF SchedulingInv

(* A run ends: it gives its token back if it still is its own. *)
LEMMA RunOver ==
    ASSUME SchedulingInv, NEW p \in Hands, S!Release(p) \/ S!Delete(p)
    PROVE  SchedulingInv'
<1>1. /\ run[p].pc \in {"release", "delete"} /\ Running(p)
      /\ UNCHANGED <<job, mode, link, once, mark, memMark, stamp, sent, told, digests, fell>>
  BY DEF S!Release, S!Delete, S!redis, S!counts, Running
<1>2. CASE S!Release(p) /\ run' # [run EXCEPT ![p] = S!Idle]
  <2>1. S!Goes(p, "delete") /\ UNCHANGED <<token, excused>>
    BY <1>2 DEF S!Release, S!Goes, S!redis
  <2>2. "delete" \in S!Steps \ {"idle"} BY DEF S!Steps
  <2>3. /\ run' \in RunType /\ run'[p].pc = "delete"
        /\ \A q \in Hands : q # p => run'[q] = run[q]
        /\ \A q \in Hands : Running(q)' <=> Running(q)
        /\ OneRuns => OneRuns'
        /\ Cardinality(Sending') = Cardinality(Sending)
    BY <1>1, <2>1, <2>2, RunsOn
  <2>4. NoticeTypes' BY <1>1, <2>1, <2>3 DEF SchedulingInv, NoticeTypes
  <2>5. ClaimsCounted' BY <1>1, <2>3 DEF SchedulingInv, ClaimsCounted
  <2>6. RecordsTrue' BY <1>1, <2>3 DEF SchedulingInv, RecordsTrue
  <2>7. SentByStep => SentByStep' BY <1>1, <2>3 DEF SentByStep
  <2> QED BY <2>1, <2>3, <2>4, <2>5, <2>6, <2>7 DEF SchedulingInv
<1>3. CASE run' = [run EXCEPT ![p] = S!Idle]
  <2>1. /\ run' \in RunType /\ run'[p] = S!Idle /\ \A q \in Hands : q # p => run'[q] = run[q]
    BY <1>3, IdleRun, RunSet DEF SchedulingInv, NoticeTypes
  <2>2. /\ token' \in [S!Shares -> Hands \cup {Nobody}] /\ excused' \in BOOLEAN
        /\ ~excused' => ~excused
    BY DEF S!Release, S!Delete, S!redis, SchedulingInv, NoticeTypes
  <2>3. NoticeTypes' BY <1>1, <2>1, <2>2 DEF SchedulingInv, NoticeTypes
  <2>4. ClaimsCounted'
    BY <1>1, <2>1, IdleRun, SendingMoves DEF SchedulingInv, NoticeTypes, ClaimsCounted
  <2>5. RecordsTrue' BY <1>1, <2>1, IdleRun DEF SchedulingInv, RecordsTrue, Running
  <2>6. ASSUME OneRuns, SentByStep PROVE OneRuns' /\ SentByStep'
    <3>1. \A q \in Hands : ~Running(q)'
      BY <1>1, <2>1, <2>6, IdleRun DEF OneRuns, Running
    <3>2. OneRuns' BY <3>1 DEF OneRuns
    <3>3. \A q \in Hands : run[q].pc \notin {"stamp", "tell", "mark", "digest"}
      BY <1>1, <2>6 DEF OneRuns, Running
    <3>4. \A q \in Hands : run'[q].pc \notin {"stamp", "tell", "mark", "digest"}
      BY <3>1 DEF Running
    <3> QED BY <1>1, <2>6, <3>2, <3>3, <3>4 DEF SentByStep
  <2> QED BY <2>2, <2>3, <2>4, <2>5, <2>6 DEF SchedulingInv
<1> QED BY <1>2, <1>3 DEF S!Delete

(* Every step of the scheduler keeps SchedulingInv. *)
LEMMA SchedulingStep ==
    ASSUME SchedulingInv, S!Next
    PROVE  SchedulingInv'
<1>1. ASSUME NEW p \in Hands, S!Boot(p) \/ S!LinkCut(p) \/ S!LinkBack(p) \/ S!Dies(p)
      PROVE  SchedulingInv'
  BY <1>1, LinkMoves, ProcessGone
<1>2. ASSUME NEW p \in Hands, S!ClaimOnce(p) \/ S!Send(p) \/ S!ReadDue(p) \/ S!Tell(p) \/ S!Stamp(p)
      PROVE  SchedulingInv'
  BY <1>2, ClaimMade, NoticeSent, DueRead, StatementTold, MemberStamped
<1>3. ASSUME NEW p \in Hands, S!CheckMarker(p) \/ S!SendDigest(p) \/ S!SetMarker(p)
      PROVE  SchedulingInv'
  BY <1>3, MarkerChecked, DigestSent, MarkerSet
<1>4. ASSUME NEW p \in Hands, S!StartJob(p) \/ S!Release(p) \/ S!Delete(p)
      PROVE  SchedulingInv'
  BY <1>4, JobStarts, RunOver
<1>5. ASSUME NEW v \in S!Shares, S!Lapse(v) PROVE SchedulingInv'
  BY <1>5, TokenLapses
<1> QED BY <1>1, <1>2, <1>3, <1>4, <1>5 DEF S!Next

(* The other parts leave the scheduler alone. *)
LEMMA SchedulingStutter ==
    ASSUME SchedulingInv, UNCHANGED schedulingVars
    PROVE  SchedulingInv'
BY DEF schedulingVars, SchedulingInv, NoticeTypes, ClaimsCounted, Sending, RecordsTrue, OneRuns,
       SentByStep, Running

(* lib/cache.ts, claimOnce and withDistributedLock, and scheduler.ts: a claimed notice
   goes out once, a statement and a digest once as long as nothing failed that the
   lock relies on, and nothing is recorded as sent that was not. *)
THEOREM NoticesOnce == CollectionsSpec => []NoticesGoOutOnce
<1>1. CollectionsInit => SchedulingInv
  BY SchedulingInit DEF CollectionsInit
<1>2. SchedulingInv /\ [CollectionsNext]_collectionsVars => SchedulingInv'
  BY SchedulingStep, SchedulingStutter DEF CollectionsNext, collectionsVars
<1>3. SchedulingInv => NoticesGoOutOnce
  <2> SUFFICES ASSUME SchedulingInv PROVE NoticesGoOutOnce OBVIOUS
  <2>1. Cardinality(Sending) \in Nat
    BY CollectionsAssumption, FS_Subset, FS_CardinalityType DEF Sending
  <2>2. sent <= fell + (IF once THEN 1 ELSE 0)
    BY <2>1 DEF SchedulingInv, ClaimsCounted, NoticeTypes
  <2>3. ~excused => told <= 1 /\ digests <= 1
    BY DEF SchedulingInv, SentByStep, NoticeTypes
  <2> QED
    BY <2>2, <2>3
      DEF SchedulingInv, RecordsTrue, NoticeTypes, NoticesGoOutOnce, S!NoticesGoOutOnce
<1> QED BY <1>1, <1>2, <1>3, PTL DEF CollectionsSpec

-----------------------------------------------------------------------------
(* Payroll deductions *)

LEMMA SumOfBatch == \A f, X : D!Sum(f, X) = SumFunctionOnSet(f, X)
BY DEF D!Sum, D!SumFunctionOnSet, D!FoldFunctionOnSet, D!MapThenFoldSet,
       SumFunctionOnSet, FoldFunctionOnSet, MapThenFoldSet

Makers == Admins \cup Supers
BatchRow == [status : D!BatchStatus, by : Makers \cup {Nobody}, total : Nat, reconciled : Nat]
ItemRow == [status : {"none", "pending", "credited", "rolled"}, amount : Nat]
Schedule == [D!Lines -> ItemRow]
Handling == {"submit", "cheque", "reconcile", "credit", "reject"}
BatchHandRow == [pc : Handling \cup {"idle", "approve"}, who : Makers \cup {Nobody},
                 b : Batches \cup {0}, amount : Nat, pending : SUBSET D!Lines, budget : Nat]

PayrollTypes ==
    /\ batch \in [Batches -> BatchRow]
    /\ item \in [Batches -> Schedule]
    /\ short \in [Batches -> [Members -> Nat]]
    /\ waived \subseteq Members /\ loan \in [Members -> 0..Balance0]
    /\ hand \in [Hands -> BatchHandRow]
    /\ used \in [Batches -> Nat] /\ given \in [Batches -> Nat]
    /\ checker \in [Batches -> Supers \cup {Nobody}]
    /\ overtaken \subseteq Batches

\* What a schedule asks for.
Asked(s) == SumFunctionOnSet([l \in D!Lines |-> s[l].amount], D!Lines)

\* A batch says what its items add up to, and who made it.
TotalsAddUp ==
    \A b \in Batches :
        /\ batch[b].total = Asked(item[b])
        /\ batch[b].status # "none" => batch[b].by # Nobody

\* A handler works on a batch that was made. One that approves has seen every item that
\* is pending, for only drafts grow; and it is not the maker's.
HandKnows(h) ==
    /\ hand[h].pc # "idle" => hand[h].b \in Batches /\ batch[hand[h].b].status # "none"
    /\ hand[h].pc = "approve" =>
        /\ batch[hand[h].b].status # "draft"
        /\ hand[h].who \in Supers /\ hand[h].who # batch[hand[h].b].by
        /\ D!Pending(hand[h].b) \subseteq hand[h].pending

\* Money of a batch is used when it is approved, and only then.
UsedFits(b) ==
    /\ b \notin overtaken => used[b] <= batch[b].total
    /\ b \notin overtaken /\ batch[b].status # "approved" => used[b] = 0
    /\ batch[b].status \in {"none", "draft"} => used[b] = 0
    /\ given[b] <= used[b]
    /\ used[b] > 0 => checker[b] \notin {Nobody, batch[b].by}
    /\ batch[b].status = "approved" => D!Pending(b) = {}

PayrollInv ==
    /\ PayrollTypes
    /\ TotalsAddUp
    /\ \A h \in Hands : HandKnows(h)
    /\ \A b \in Batches : UsedFits(b)

LEMMA LinesFinite == IsFiniteSet(D!Lines) /\ D!Lines = Members \X {"savings", "loan"}
<1>1. IsFiniteSet({"savings", "loan"})
  <2>1. IsFiniteSet({"savings"} \cup {"loan"}) BY FS_Singleton, FS_AddElement
  <2>2. {"savings", "loan"} = {"savings"} \cup {"loan"} OBVIOUS
  <2> QED BY <2>1, <2>2
<1> QED BY <1>1, CollectionsAssumption, FS_Product DEF D!Lines, D!Kinds

LEMMA PayrollInit ==
    ASSUME D!Init PROVE PayrollInv
<1>0. D!NoItem \in ItemRow /\ D!NoItem.amount = 0 /\ D!NoItem.status = "none" BY DEF D!NoItem, ItemRow
<1>1. D!NoBatch \in BatchRow /\ D!NoBatch.status = "none" /\ D!NoBatch.total = 0
  BY DEF D!NoBatch, BatchRow, D!BatchStatus
<1>2. D!IdleHand \in BatchHandRow /\ D!IdleHand.pc = "idle" BY DEF D!IdleHand, BatchHandRow
<1> HIDE DEF D!NoItem, D!NoBatch, D!IdleHand
<1>3. PayrollTypes
  BY <1>0, <1>1, <1>2, CollectionsAssumption DEF D!Init, PayrollTypes, Schedule
<1>4. TotalsAddUp
  <2> SUFFICES ASSUME NEW b \in Batches PROVE batch[b].total = Asked(item[b]) /\ batch[b].status = "none"
    BY DEF TotalsAddUp
  <2> DEFINE f == [l \in D!Lines |-> item[b][l].amount]
  <2>1. \A l \in D!Lines : f[l] = 0 BY <1>0 DEF D!Init
  <2> HIDE DEF f
  <2>2. {} \in SUBSET D!Lines OBVIOUS
  <2>3. SumFunctionOnSet(f, D!Lines) = SumFunctionOnSet(f, {}) BY <2>1, <2>2, LinesFinite, SumSupport
  <2>4. Asked(item[b]) = 0 BY <2>3, SumEmpty DEF Asked, f
  <2> QED BY <1>1, <2>4 DEF D!Init
<1>5. \A h \in Hands : HandKnows(h) BY <1>2 DEF HandKnows, D!Init
<1>6. \A b \in Batches : UsedFits(b) BY <1>1 DEF UsedFits, D!Init
<1> QED BY <1>3, <1>4, <1>5, <1>6 DEF PayrollInv

(* A step that leaves the schedules, the totals and what was used. *)
LEMMA PayrollFrame ==
    ASSUME PayrollInv, PayrollTypes', UNCHANGED <<item, used, given, checker>>,
           overtaken \subseteq overtaken',
           \A b \in Batches :
               /\ batch'[b].by = batch[b].by /\ batch'[b].total = batch[b].total
               /\ batch[b].status = "none" <=> batch'[b].status = "none"
               /\ batch'[b].status = "draft" => batch[b].status = "draft"
               /\ batch[b].status = "approved" => batch'[b].status = "approved" \/ b \in overtaken'
               /\ batch'[b].status = "approved" => D!Pending(b) = {},
           \A h \in Hands : hand'[h] = hand[h] \/ HandKnows(h)'
    PROVE  PayrollInv'
<1>1. TotalsAddUp' BY DEF PayrollInv, TotalsAddUp
<1>2. \A b \in Batches : D!Pending(b)' = D!Pending(b) BY DEF D!Pending
<1>3. ASSUME NEW h \in Hands PROVE HandKnows(h)'
  <2>1. CASE hand'[h] = hand[h] BY <1>2, <2>1 DEF PayrollInv, HandKnows
  <2> QED BY <2>1
<1>4. ASSUME NEW b \in Batches PROVE UsedFits(b)'
  BY <1>2 DEF PayrollInv, UsedFits
<1> QED BY <1>1, <1>3, <1>4 DEF PayrollInv

LEMMA MembersCounted == D!Cardinality(Members) \in Nat
<1>1. D!Cardinality(Members) = Cardinality(Members) BY DEF D!Cardinality, Cardinality
<1> QED BY <1>1, CollectionsAssumption, FS_CardinalityType

LEMMA LessLeft ==
    \A budget, x, y \in Nat : D!Minus(budget, x) - D!Minus(budget, x + y) \in Nat
BY DEF D!Minus

LEMMA SmallerFits ==
    \A x, y \in Nat : D!Smaller(x, y) \in Nat /\ D!Smaller(x, y) <= x /\ D!Smaller(x, y) <= y
BY DEF D!Smaller

(* deductions.ts, approveBatch: whatever the turn, a line gets no more than it asks. *)
LEMMA PortionFits ==
    ASSUME PayrollTypes, NEW b \in Batches, NEW budget \in Nat, NEW order \in D!Orders
    PROVE  \A l \in D!Lines : /\ D!Portions(b, budget, order)[l] \in Nat
                              /\ D!Portions(b, budget, order)[l] <= item[b][l].amount
<1> DEFINE want == [i \in DOMAIN order |-> D!Minus(D!MemberTotal(b, order[i]), short[b][order[i]])]
           sum(i) == SumFunctionOnSet(want, 1..i)
           left(i) == D!Minus(budget, D!Sum(want, 1..i))
           place(m) == CHOOSE i \in DOMAIN order : order[i] = m
           share(m) == left(place(m) - 1) - left(place(m))
           toLoan(m) == D!Smaller(item[b][<<m, "loan">>].amount, share(m))
<1>1. DOMAIN order = 1..D!Cardinality(Members) /\ \A i \in DOMAIN order : order[i] \in Members
  BY DEF D!Orders
<1>2. \A m \in Members : place(m) \in DOMAIN order BY DEF D!Orders
<1>3. \A m \in Members : /\ <<m, "loan">> \in D!Lines /\ item[b][<<m, "loan">>].amount \in Nat
                         /\ <<m, "savings">> \in D!Lines /\ item[b][<<m, "savings">>].amount \in Nat
  BY LinesFinite DEF PayrollTypes, Schedule, ItemRow
<1>4. \A i \in DOMAIN order : want[i] \in Nat
  <2> SUFFICES ASSUME NEW i \in DOMAIN order
               PROVE  D!Minus(D!MemberTotal(b, order[i]), short[b][order[i]]) \in Nat
    OBVIOUS
  <2>1. D!MemberTotal(b, order[i]) \in Nat BY <1>1, <1>3 DEF D!MemberTotal
  <2>2. short[b][order[i]] \in Nat BY <1>1 DEF PayrollTypes
  <2> QED BY <2>1, <2>2 DEF D!Minus
<1> HIDE DEF want
<1>5. \A i \in 0..D!Cardinality(Members) : sum(i) \in Nat
  <2> SUFFICES ASSUME NEW i \in 0..D!Cardinality(Members) PROVE sum(i) \in Nat OBVIOUS
  <2>1. 1..i \in SUBSET (DOMAIN order) BY <1>1, MembersCounted
  <2>2. \A x \in 1..i : want[x] \in Nat BY <1>4, <2>1
  <2>3. i \in Nat BY MembersCounted
  <2>4. IsFiniteSet(1..i) BY <2>3, FS_Interval
  <2> QED BY <2>2, <2>4, SumNat
<1>6. \A i \in DOMAIN order : left(i - 1) - left(i) \in Nat
  <2> SUFFICES ASSUME NEW i \in DOMAIN order PROVE left(i - 1) - left(i) \in Nat OBVIOUS
  <2>1. i \in Nat /\ 1 <= i /\ i - 1 \in 0..D!Cardinality(Members) /\ i \in 0..D!Cardinality(Members)
    BY <1>1, MembersCounted
  <2>2. 1..i \in SUBSET (DOMAIN order) /\ IsFiniteSet(1..i)
    <3>1. IsFiniteSet(1..i) BY <2>1, FS_Interval
    <3>2. 1..i \in SUBSET (DOMAIN order) BY <1>1, <2>1, MembersCounted
    <3> QED BY <3>1, <3>2
  <2>3. \A x \in 1..i : want[x] \in Int BY <1>4, <2>2
  <2>4. i \in 1..i /\ (1..i) \ {i} = 1..(i - 1) BY <2>1
  <2>5. sum(i) = want[i] + sum(i - 1) BY <2>2, <2>3, <2>4, SumRemove
  <2>6. sum(i - 1) \in Nat /\ want[i] \in Nat BY <1>4, <1>5, <2>1
  <2>7. left(i - 1) = D!Minus(budget, sum(i - 1)) /\ left(i) = D!Minus(budget, sum(i - 1) + want[i])
    BY <2>5, <2>6, SumOfBatch
  <2> HIDE DEF sum, left
  <2> QED BY <2>6, <2>7, LessLeft
<1>7. \A m \in Members : share(m) \in Nat BY <1>2, <1>6
<1>8. \A l \in D!Lines : D!Portions(b, budget, order)[l] =
        IF l[2] = "loan" THEN toLoan(l[1]) ELSE D!Smaller(item[b][l].amount, share(l[1]) - toLoan(l[1]))
  BY DEF D!Portions, want
<1> HIDE DEF share
<1>9. TAKE l \in D!Lines
<1>10. l = <<l[1], l[2]>> /\ l[1] \in Members /\ item[b][l].amount \in Nat
  <2>1. l \in Members \X {"savings", "loan"} BY LinesFinite
  <2>2. item[b][l].amount \in Nat BY DEF PayrollTypes, Schedule, ItemRow
  <2> QED BY <2>1, <2>2
<1>11. toLoan(l[1]) \in Nat /\ toLoan(l[1]) <= share(l[1]) /\ toLoan(l[1]) <= item[b][<<l[1], "loan">>].amount
  <2>1. share(l[1]) \in Nat /\ item[b][<<l[1], "loan">>].amount \in Nat BY <1>3, <1>7, <1>10
  <2> QED BY <2>1, SmallerFits
<1>12. CASE l[2] = "loan"
  <2>1. l = <<l[1], "loan">> BY <1>10, <1>12
  <2> HIDE DEF toLoan
  <2> QED BY <1>8, <1>11, <1>12, <2>1
<1>13. CASE l[2] # "loan"
  <2>1. share(l[1]) - toLoan(l[1]) \in Nat BY <1>7, <1>10, <1>11
  <2> HIDE DEF toLoan
  <2> QED BY <1>8, <1>10, <1>13, <2>1 DEF D!Smaller
<1> QED BY <1>12, <1>13

(* Sums over schedules *)

LEMMA AskedNat == \A s \in Schedule : Asked(s) \in Nat
<1> SUFFICES ASSUME NEW s \in Schedule PROVE Asked(s) \in Nat OBVIOUS
<1> DEFINE f == [l \in D!Lines |-> s[l].amount]
<1>1. \A l \in D!Lines : f[l] \in Nat BY DEF Schedule, ItemRow
<1> HIDE DEF f
<1>2. SumFunctionOnSet(f, D!Lines) \in Nat BY <1>1, LinesFinite, SumNat
<1> QED BY <1>2 DEF Asked, f

(* What is not asked on the lines of a set is not asked at all outside it. *)
LEMMA AskedOn ==
    ASSUME NEW s \in Schedule, NEW f, NEW lines \in SUBSET D!Lines,
           \A l \in lines : f[l] = s[l].amount,
           \A l \in D!Lines \ lines : s[l].amount = 0
    PROVE  Asked(s) = SumFunctionOnSet(f, lines)
<1> DEFINE g == [l \in D!Lines |-> s[l].amount]
<1>1. /\ \A l \in D!Lines : g[l] \in Int
      /\ \A l \in D!Lines \ lines : g[l] = 0
      /\ \A l \in lines : g[l] = f[l]
  BY DEF Schedule, ItemRow
<1> HIDE DEF g
<1>2. SumFunctionOnSet(g, D!Lines) = SumFunctionOnSet(g, lines) BY <1>1, LinesFinite, SumSupport
<1>3. IsFiniteSet(lines) BY LinesFinite, FS_Subset
<1>4. SumFunctionOnSet(g, lines) = SumFunctionOnSet(f, lines) BY <1>1, <1>3, SumSame
<1> QED BY <1>2, <1>4 DEF Asked, g

LEMMA AskedMore ==
    ASSUME NEW s \in Schedule, NEW t \in Schedule, NEW rest \in [D!Lines -> Nat],
           NEW rolled \in SUBSET D!Lines,
           \A l \in D!Lines : t[l].amount = s[l].amount + rest[l],
           \A l \in D!Lines \ rolled : rest[l] = 0
    PROVE  Asked(t) = Asked(s) + SumFunctionOnSet(rest, rolled)
<1> DEFINE f == [l \in D!Lines |-> s[l].amount]
           g == [l \in D!Lines |-> t[l].amount]
<1>1. \A l \in D!Lines : f[l] \in Int /\ rest[l] \in Int /\ g[l] = f[l] + rest[l]
  BY DEF Schedule, ItemRow
<1> HIDE DEF f, g
<1>2. SumFunctionOnSet(g, D!Lines) = SumFunctionOnSet(f, D!Lines) + SumFunctionOnSet(rest, D!Lines)
  BY <1>1, LinesFinite, SumAdd
<1>3. SumFunctionOnSet(rest, D!Lines) = SumFunctionOnSet(rest, rolled)
  BY <1>1, LinesFinite, SumSupport
<1> QED BY <1>2, <1>3 DEF Asked, f, g

LEMMA AskedSame ==
    ASSUME NEW s \in Schedule, NEW t \in Schedule, \A l \in D!Lines : t[l].amount = s[l].amount
    PROVE  Asked(t) = Asked(s)
<1> DEFINE f == [l \in D!Lines |-> s[l].amount]
           g == [l \in D!Lines |-> t[l].amount]
<1>1. \A l \in D!Lines : f[l] = g[l] OBVIOUS
<1> HIDE DEF f, g
<1>2. SumFunctionOnSet(f, D!Lines) = SumFunctionOnSet(g, D!Lines) BY <1>1, LinesFinite, SumSame
<1> QED BY <1>2 DEF Asked, f, g

(* Parts of what a schedule asks for add up to no more than it asks. *)
LEMMA PartsFit ==
    ASSUME NEW s \in Schedule, NEW f, NEW lines \in SUBSET D!Lines,
           \A l \in lines : f[l] \in Nat /\ f[l] <= s[l].amount
    PROVE  SumFunctionOnSet(f, lines) \in Nat /\ SumFunctionOnSet(f, lines) <= Asked(s)
<1> DEFINE g == [l \in D!Lines |-> IF l \in lines THEN f[l] ELSE 0]
           h == [l \in D!Lines |-> s[l].amount]
<1>1. /\ \A l \in D!Lines : g[l] \in Int /\ h[l] \in Int /\ g[l] <= h[l]
      /\ \A l \in D!Lines \ lines : g[l] = 0
      /\ \A l \in lines : g[l] = f[l]
  BY DEF Schedule, ItemRow
<1> HIDE DEF g, h
<1>2. IsFiniteSet(lines) BY LinesFinite, FS_Subset
<1>3. SumFunctionOnSet(g, D!Lines) <= SumFunctionOnSet(h, D!Lines) BY <1>1, LinesFinite, SumLess
<1>4. SumFunctionOnSet(g, D!Lines) = SumFunctionOnSet(g, lines) BY <1>1, LinesFinite, SumSupport
<1>5. SumFunctionOnSet(g, lines) = SumFunctionOnSet(f, lines) BY <1>1, <1>2, SumSame
<1>6. SumFunctionOnSet(f, lines) \in Nat BY <1>2, SumNat
<1> QED BY <1>3, <1>4, <1>5, <1>6 DEF Asked, h

-----------------------------------------------------------------------------
(* The handlers *)

LEMMA IdleRow == D!IdleHand \in BatchHandRow /\ D!IdleHand.pc = "idle"
BY DEF D!IdleHand, BatchHandRow

LEMMA LineAmount == ASSUME PayrollTypes PROVE \A l \in D!Lines : D!Amount(l) \in Nat
<1>1. TAKE l \in D!Lines
<1>2. l[1] \in Members
  <2>1. l \in Members \X {"savings", "loan"} BY LinesFinite
  <2> QED BY <2>1
<1>3. loan[l[1]] \in Nat BY <1>2 DEF PayrollTypes
<1> QED BY <1>3, CollectionsAssumption DEF D!Amount, D!Smaller

LEMMA ScheduleBuilt ==
    ASSUME PayrollInv, NEW a \in Makers, NEW b \in Batches, D!BuildBatch(a, b)
    PROVE  PayrollInv'
<1>1. PICK savers \in SUBSET Members : LET
        due == {l \in D!Lines : l[1] \notin waived /\ D!Amount(l) > 0}
        lines == {l \in due : l[2] = "savings" => l[1] \in savers} IN
        /\ item' = [item EXCEPT ![b] = [l \in D!Lines |->
                IF l \in lines THEN [status |-> "pending", amount |-> D!Amount(l)] ELSE D!NoItem]]
        /\ batch' = [batch EXCEPT ![b] =
                [status |-> "draft", by |-> a, reconciled |-> 0,
                 total |-> D!Sum([l \in lines |-> D!Amount(l)], lines)]]
  BY DEF D!BuildBatch
<1> DEFINE due == {l \in D!Lines : l[1] \notin waived /\ D!Amount(l) > 0}
           lines == {l \in due : l[2] = "savings" => l[1] \in savers}
           s == [l \in D!Lines |->
                   IF l \in lines THEN [status |-> "pending", amount |-> D!Amount(l)] ELSE D!NoItem]
           f == [l \in lines |-> D!Amount(l)]
           row == [status |-> "draft", by |-> a, reconciled |-> 0, total |-> SumFunctionOnSet(f, lines)]
<1>2. lines \in SUBSET D!Lines OBVIOUS
<1>3. item' = [item EXCEPT ![b] = s] /\ batch' = [batch EXCEPT ![b] = row]
  BY <1>1, SumOfBatch
<1> HIDE DEF lines
<1>4. s \in Schedule
  <2>1. D!NoItem \in ItemRow BY DEF D!NoItem, ItemRow
  <2>2. \A l \in D!Lines : [status |-> "pending", amount |-> D!Amount(l)] \in ItemRow
    BY LineAmount DEF ItemRow, PayrollInv
  <2> HIDE DEF D!NoItem, D!Amount, ItemRow
  <2> QED BY <2>1, <2>2 DEF Schedule
<1>5. /\ \A l \in lines : f[l] = s[l].amount
      /\ \A l \in D!Lines \ lines : s[l].amount = 0
  BY <1>2 DEF D!NoItem
<1> HIDE DEF s, f
<1>6. Asked(s) = SumFunctionOnSet(f, lines) BY <1>2, <1>4, <1>5, AskedOn
<1>7. /\ row \in BatchRow /\ row.status = "draft" /\ row.by # Nobody
      /\ row.total = Asked(s) /\ row.total \in Nat
  BY <1>4, <1>6, AskedNat, CollectionsAssumption DEF BatchRow, D!BatchStatus, Makers
<1> HIDE DEF row
<1>8. batch[b].status = "none" BY DEF D!BuildBatch, D!Unmade
<1>9. UNCHANGED <<short, waived, loan, hand, used, given, checker, overtaken>>
  BY DEF D!BuildBatch, D!history
<1>10. \A d \in Batches :
        IF d = b THEN batch'[d] = row /\ item'[d] = s ELSE batch'[d] = batch[d] /\ item'[d] = item[d]
  BY <1>3 DEF PayrollInv, PayrollTypes
<1>11. PayrollTypes'
  BY <1>3, <1>4, <1>7, <1>9 DEF PayrollInv, PayrollTypes
<1>12. TotalsAddUp' BY <1>7, <1>10 DEF PayrollInv, TotalsAddUp
<1>13. \A d \in Batches : d # b => D!Pending(d)' = D!Pending(d) BY <1>10 DEF D!Pending
<1>14. ASSUME NEW h \in Hands PROVE HandKnows(h)'
  BY <1>8, <1>9, <1>10, <1>13 DEF PayrollInv, HandKnows
<1>15. ASSUME NEW d \in Batches PROVE UsedFits(d)'
  <2>1. CASE d = b
    <3>1. used[b] = 0 /\ given[b] \in Nat /\ given[b] <= used[b]
      BY <1>8 DEF PayrollInv, PayrollTypes, UsedFits
    <3> QED BY <1>7, <1>9, <1>10, <2>1, <3>1 DEF UsedFits
  <2>2. CASE d # b BY <1>9, <1>10, <1>13, <2>2 DEF PayrollInv, UsedFits
  <2> QED BY <2>1, <2>2
<1> QED BY <1>11, <1>12, <1>14, <1>15 DEF PayrollInv

(* A handler that has only begun leaves everything but itself. *)
LEMMA HandSet ==
    ASSUME PayrollInv, NEW h \in Hands, NEW row \in BatchHandRow,
           hand' = [hand EXCEPT ![h] = row],
           UNCHANGED <<batch, item, short, waived, loan, used, given, checker, overtaken>>,
           row.pc # "idle" => row.b \in Batches /\ batch[row.b].status # "none",
           row.pc = "approve" =>
               /\ batch[row.b].status # "draft"
               /\ row.who \in Supers /\ row.who # batch[row.b].by
               /\ D!Pending(row.b) \subseteq row.pending
    PROVE  PayrollInv'
<1>1. PayrollTypes' BY DEF PayrollInv, PayrollTypes
<1>2. \A b : D!Pending(b)' = D!Pending(b) BY DEF D!Pending
<1>3. \A k \in Hands : hand'[k] = IF k = h THEN row ELSE hand[k]
  BY DEF PayrollInv, PayrollTypes
<1>4. HandKnows(h)' BY <1>2, <1>3 DEF HandKnows
<1>5. \A k \in Hands : hand'[k] = hand[k] \/ HandKnows(k)' BY <1>3, <1>4
<1>6. \A b \in Batches : batch[b].status = "approved" => D!Pending(b) = {}
  BY DEF PayrollInv, UsedFits
<1> QED BY <1>1, <1>5, <1>6, PayrollFrame

LEMMA BatchRead ==
    ASSUME PayrollInv, NEW h \in Hands, NEW s \in Makers, NEW b \in Batches,
           NEW pc \in Handling, D!ReadBatch(h, pc, s, b)
    PROVE  PayrollInv'
<1>1. PICK amount \in (IF pc = "reconcile" THEN Amounts ELSE {0}) : D!Begin(h, pc, s, b, amount)
  BY DEF D!ReadBatch
<1> DEFINE row == [D!IdleHand EXCEPT !.pc = pc, !.who = s, !.b = b, !.amount = amount]
<1>2. row \in BatchHandRow /\ row.pc = pc /\ row.b = b /\ row.pc # "approve"
  <2>1. amount \in Nat BY CollectionsAssumption
  <2>2. pc \in Handling \cup {"idle", "approve"} /\ pc # "approve" BY DEF Handling
  <2>3. s \in Makers \cup {Nobody} /\ b \in Batches \cup {0} OBVIOUS
  <2> QED BY <2>1, <2>2, <2>3 DEF D!IdleHand, BatchHandRow
<1>3. batch[b].status # "none"
  BY DEF D!ReadBatch, D!Handlers, D!Step, Handling
<1>4. hand' = [hand EXCEPT ![h] = row] BY <1>1 DEF D!Begin
<1>5. UNCHANGED <<batch, item, short, waived, loan, used, given, checker, overtaken>>
  BY <1>1 DEF D!Begin, D!history
<1> HIDE DEF row
<1> QED BY <1>2, <1>3, <1>4, <1>5, HandSet

LEMMA CreditRead ==
    ASSUME PayrollInv, NEW h \in Hands, NEW b \in Batches, D!ReadCredit(h, b)
    PROVE  PayrollInv'
<1> DEFINE row == [D!IdleHand EXCEPT !.pc = "credit", !.who = Nobody, !.b = b, !.amount = batch[b].total]
<1>1. batch[b].total \in Nat BY DEF PayrollInv, PayrollTypes, BatchRow
<1>2. row \in BatchHandRow /\ row.pc = "credit" /\ row.b = b
  BY <1>1 DEF D!IdleHand, BatchHandRow, Handling
<1>3. batch[b].status # "none" BY DEF D!ReadCredit, D!Handlers, D!Step
<1>4. hand' = [hand EXCEPT ![h] = row] BY DEF D!ReadCredit, D!Begin
<1>5. UNCHANGED <<batch, item, short, waived, loan, used, given, checker, overtaken>>
  BY DEF D!ReadCredit, D!Begin, D!history
<1> HIDE DEF row
<1> QED BY <1>2, <1>3, <1>4, <1>5, HandSet

LEMMA ApprovalRead ==
    ASSUME PayrollInv, NEW h \in Hands, NEW s \in Makers, NEW b \in Batches, D!ReadApproval(h, s, b)
    PROVE  PayrollInv'
<1> DEFINE row == [D!IdleHand EXCEPT !.pc = "approve", !.who = s, !.b = b,
                        !.pending = D!Pending(b), !.budget = D!Budget(b)]
           settled == {l \in D!Lines : item[b][l].status = "credited"}
           f == [l \in settled |-> item[b][l].amount]
<1>1. D!Budget(b) \in Nat
  <2>1. settled \in SUBSET D!Lines OBVIOUS
  <2>2. IsFiniteSet(settled) BY <2>1, LinesFinite, FS_Subset
  <2>3. \A l \in settled : f[l] \in Nat BY DEF PayrollInv, PayrollTypes, Schedule, ItemRow
  <2>4. batch[b].reconciled \in Nat BY DEF PayrollInv, PayrollTypes, BatchRow
  <2>5. D!Budget(b) = D!Minus(batch[b].reconciled, SumFunctionOnSet(f, settled))
    BY SumOfBatch DEF D!Budget
  <2> HIDE DEF f, settled
  <2>6. SumFunctionOnSet(f, settled) \in Nat BY <2>2, <2>3, SumNat
  <2> QED BY <2>4, <2>5, <2>6 DEF D!Minus
<1>2. D!Pending(b) \in SUBSET D!Lines BY DEF D!Pending
<1>3. /\ row \in BatchHandRow /\ row.pc = "approve" /\ row.b = b /\ row.who = s
      /\ row.pending = D!Pending(b)
  BY <1>1, <1>2 DEF D!IdleHand, BatchHandRow
<1>4. s \in Supers /\ s # batch[b].by /\ batch[b].status \notin {"none", "draft"} BY DEF D!ReadApproval
<1>5. hand' = [hand EXCEPT ![h] = row] BY DEF D!ReadApproval
<1>6. UNCHANGED <<batch, item, short, waived, loan, used, given, checker, overtaken>>
  BY DEF D!ReadApproval, D!history
<1> HIDE DEF row
<1> QED BY <1>3, <1>4, <1>5, <1>6, HandSet

LEMMA ShortfallAttributed ==
    ASSUME PayrollInv, NEW b \in Batches, NEW m \in Members, D!AttributeShortfall(b, m)
    PROVE  PayrollInv'
<1> DEFINE gap == D!Minus(batch[b].total, batch[b].reconciled)
<1>1. UNCHANGED <<batch, item, waived, loan, hand, used, given, checker, overtaken>>
  BY DEF D!AttributeShortfall, D!history
<1>2. gap \in Nat BY DEF PayrollInv, PayrollTypes, BatchRow, D!Minus
<1>3. PICK amount \in {0, gap} : short' = [short EXCEPT ![b][m] = amount]
  BY DEF D!AttributeShortfall
<1>4. amount \in Nat BY <1>2
<1>5. short' \in [Batches -> [Members -> Nat]] BY <1>3, <1>4 DEF PayrollInv, PayrollTypes
<1>6. PayrollTypes' BY <1>1, <1>5 DEF PayrollInv, PayrollTypes
<1>7. \A c \in Batches : batch[c].status = "approved" => D!Pending(c) = {}
  BY DEF PayrollInv, UsedFits
<1> QED BY <1>1, <1>6, <1>7, PayrollFrame

LEMMA MemberMoves ==
    ASSUME PayrollInv, NEW m \in Members, D!WaiveMonth(m) \/ D!RepaidElsewhere(m)
    PROVE  PayrollInv'
<1>1. UNCHANGED <<batch, item, short, hand, used, given, checker, overtaken>>
  BY DEF D!WaiveMonth, D!RepaidElsewhere, D!history
<1>2. waived' \subseteq Members
  BY DEF D!WaiveMonth, D!RepaidElsewhere, PayrollInv, PayrollTypes
<1>3. loan' \in [Members -> 0..Balance0]
  <2>1. CASE D!WaiveMonth(m) BY <2>1 DEF D!WaiveMonth, PayrollInv, PayrollTypes
  <2>2. CASE D!RepaidElsewhere(m)
    <3>1. loan[m] - D!Smaller(Installment, loan[m]) \in 0..Balance0
      BY CollectionsAssumption DEF D!Smaller, PayrollInv, PayrollTypes
    <3>2. loan' = [loan EXCEPT ![m] = loan[m] - D!Smaller(Installment, loan[m])]
      BY <2>2 DEF D!RepaidElsewhere
    <3> QED BY <3>1, <3>2 DEF PayrollInv, PayrollTypes
  <2> QED BY <2>1, <2>2
<1>4. PayrollTypes' BY <1>1, <1>2, <1>3 DEF PayrollInv, PayrollTypes
<1>5. \A c \in Batches : batch[c].status = "approved" => D!Pending(c) = {}
  BY DEF PayrollInv, UsedFits
<1> QED BY <1>1, <1>4, <1>5, PayrollFrame

(* A status that is written from an older read may reopen an approved batch: then the
   batch is overtaken. *)
LEMMA BatchWritten ==
    ASSUME PayrollInv, NEW h \in Hands, D!WriteBatch(h)
    PROVE  PayrollInv'
<1> DEFINE b == hand[h].b
           to == D!Handlers[hand[h].pc].to
           money == IF hand[h].pc \in {"reconcile", "credit"} THEN hand[h].amount ELSE batch[b].reconciled
<1>1. hand[h].pc \in Handling BY DEF D!WriteBatch, D!Handlers, Handling
<1>2. b \in Batches /\ batch[b].status # "none"
  BY <1>1 DEF PayrollInv, HandKnows, Handling
<1>3. to \in {"submitted", "cheque_received", "reconciled", "rejected"}
  BY <1>1 DEF D!Handlers, D!Step, Handling
<1>4. money \in Nat BY <1>2 DEF PayrollInv, PayrollTypes, BatchRow, BatchHandRow
<1>5. /\ batch' = [batch EXCEPT ![b].status = to, ![b].reconciled = money]
      /\ overtaken' = IF batch[b].status = "approved" THEN overtaken \cup {b} ELSE overtaken
      /\ hand' = [hand EXCEPT ![h] = D!IdleHand]
      /\ UNCHANGED <<item, short, waived, loan, used, given, checker>>
  BY <1>2 DEF D!WriteBatch, D!End, PayrollInv, PayrollTypes
<1> HIDE DEF to, money
<1>6. batch[b] \in BatchRow BY <1>2 DEF PayrollInv, PayrollTypes
<1>7. /\ batch'[b] \in BatchRow
      /\ batch'[b].status = to /\ batch'[b].by = batch[b].by /\ batch'[b].total = batch[b].total
  <2>1. batch'[b] = [batch[b] EXCEPT !.status = to, !.reconciled = money]
    BY <1>2, <1>5 DEF PayrollInv, PayrollTypes
  <2>2. to \in D!BatchStatus BY <1>3 DEF D!BatchStatus
  <2> QED BY <1>4, <1>6, <2>1, <2>2 DEF BatchRow
<1>8. \A d \in Batches : d # b => batch'[d] = batch[d]
  BY <1>5 DEF PayrollInv, PayrollTypes
<1>9. PayrollTypes'
  <2>1. batch' \in [Batches -> BatchRow] BY <1>5, <1>7, <1>8 DEF PayrollInv, PayrollTypes
  <2>2. hand' \in [Hands -> BatchHandRow] BY <1>5, IdleRow DEF PayrollInv, PayrollTypes
  <2>3. overtaken' \subseteq Batches BY <1>2, <1>5 DEF PayrollInv, PayrollTypes
  <2> QED BY <1>5, <2>1, <2>2, <2>3 DEF PayrollInv, PayrollTypes
<1>10. ASSUME NEW k \in Hands PROVE hand'[k] = hand[k] \/ HandKnows(k)'
  BY <1>5, IdleRow DEF PayrollInv, PayrollTypes, HandKnows
<1>11. ASSUME NEW d \in Batches
       PROVE  /\ batch'[d].by = batch[d].by /\ batch'[d].total = batch[d].total
              /\ batch[d].status = "none" <=> batch'[d].status = "none"
              /\ batch'[d].status = "draft" => batch[d].status = "draft"
              /\ batch[d].status = "approved" => batch'[d].status = "approved" \/ d \in overtaken'
              /\ batch'[d].status = "approved" => D!Pending(d) = {}
  <2>1. CASE d = b BY <1>2, <1>3, <1>5, <1>7, <2>1
  <2>2. CASE d # b BY <1>8, <2>2 DEF PayrollInv, UsedFits
  <2> QED BY <2>1, <2>2
<1>12. overtaken \subseteq overtaken' BY <1>5
<1> QED BY <1>5, <1>9, <1>10, <1>11, <1>12, PayrollFrame

LEMMA NothingApproved ==
    ASSUME PayrollInv, NEW h \in Hands, D!ApproveNothing(h)
    PROVE  PayrollInv'
<1> DEFINE b == hand[h].b
<1>1. /\ b \in Batches /\ batch[b].status \notin {"none", "draft"}
      /\ D!Pending(b) \subseteq hand[h].pending
  BY DEF PayrollInv, HandKnows, D!ApproveNothing
<1>2. /\ hand' = [hand EXCEPT ![h] = D!IdleHand]
      /\ UNCHANGED <<item, short, waived, loan, used, given, checker, overtaken>>
  BY DEF D!ApproveNothing, D!End, D!history
<1>3. \A k \in Hands : hand'[k] = hand[k] \/ HandKnows(k)'
  BY <1>2, IdleRow DEF PayrollInv, PayrollTypes, HandKnows
<1>4. hand' \in [Hands -> BatchHandRow] BY <1>2, IdleRow DEF PayrollInv, PayrollTypes
<1>5. \A d \in Batches : batch[d].status = "approved" => D!Pending(d) = {}
  BY DEF PayrollInv, UsedFits
<1>6. CASE UNCHANGED batch
  <2>1. PayrollTypes' BY <1>2, <1>4, <1>6 DEF PayrollInv, PayrollTypes
  <2> QED BY <1>2, <1>3, <1>5, <1>6, <2>1, PayrollFrame
<1>7. CASE /\ D!Claimable(b) /\ hand[h].pending = {}
           /\ batch' = [batch EXCEPT ![b].status = "approved"]
  <2>1. batch[b] \in BatchRow BY <1>1 DEF PayrollInv, PayrollTypes
  <2>2. /\ batch'[b] \in BatchRow /\ batch'[b].status = "approved"
        /\ batch'[b].by = batch[b].by /\ batch'[b].total = batch[b].total
    <3>1. batch'[b] = [batch[b] EXCEPT !.status = "approved"]
      BY <1>1, <1>7 DEF PayrollInv, PayrollTypes
    <3> QED BY <2>1, <3>1 DEF BatchRow, D!BatchStatus
  <2>3. \A d \in Batches : d # b => batch'[d] = batch[d]
    BY <1>7 DEF PayrollInv, PayrollTypes
  <2>4. batch' \in [Batches -> BatchRow] BY <1>7, <2>2, <2>3 DEF PayrollInv, PayrollTypes
  <2>5. PayrollTypes' BY <1>2, <1>4, <2>4 DEF PayrollInv, PayrollTypes
  <2>6. D!Pending(b) = {} BY <1>1, <1>7
  <2>7. ASSUME NEW d \in Batches
        PROVE  /\ batch'[d].by = batch[d].by /\ batch'[d].total = batch[d].total
               /\ batch[d].status = "none" <=> batch'[d].status = "none"
               /\ batch'[d].status = "draft" => batch[d].status = "draft"
               /\ batch[d].status = "approved" => batch'[d].status = "approved" \/ d \in overtaken'
               /\ batch'[d].status = "approved" => D!Pending(d) = {}
    <3>1. CASE d = b BY <1>1, <2>2, <2>6, <3>1
    <3>2. CASE d # b BY <1>5, <2>3, <3>2
    <3> QED BY <3>1, <3>2
  <2> QED BY <1>2, <1>3, <2>5, <2>7, PayrollFrame
<1> QED BY <1>6, <1>7 DEF D!ApproveNothing

(* What an approval of batch b does to the items, when "rest" is left of the lines that
   are "pending", and those "rolled" go to batch c. *)
ItemsAre(b, c, pending, rest, rolled) ==
    item' = [item EXCEPT
    ![b] = [l \in D!Lines |->
        IF l \in rolled THEN [item[b][l] EXCEPT !.status = "rolled"]
        ELSE IF l \in pending
             THEN [item[b][l] EXCEPT !.status = "credited"] ELSE item[b][l]],
    ![c] = [l \in D!Lines |->
        IF l \in rolled
        THEN [status |-> "pending", amount |-> item[c][l].amount + rest[l]]
        ELSE IF c = b /\ l \in pending
             THEN [item[b][l] EXCEPT !.status = "credited"] ELSE item[c][l]]]

(* What an approval of batch b that rolls the lines of "rolled" into batch c does to the
   items: none of those it settles is pending any more, and c asks for what was left. *)
ItemsFollow(b, c, pending, rest) ==
    /\ item' \in [Batches -> Schedule]
    /\ \A l \in D!Lines : item'[b][l].amount = item[b][l].amount
    /\ \A l \in D!Lines : IF l \in pending THEN item'[b][l].status # "pending"
                          ELSE item'[b][l] = item[b][l]
    /\ c # b => \A l \in D!Lines : item'[c][l].amount = item[c][l].amount + rest[l]
    /\ \A d \in Batches : d \notin {b, c} => item'[d] = item[d]

LEMMA ItemsSettled ==
    ASSUME PayrollTypes, NEW b \in Batches, NEW c \in Batches,
           NEW pending \in SUBSET D!Lines, NEW rest \in [D!Lines -> Nat],
           NEW rolled, rolled = {l \in D!Lines : rest[l] > 0},
           \A l \in D!Lines \ pending : rest[l] = 0,
           rolled = {} => c = b, rolled # {} => c # b,
           ItemsAre(b, c, pending, rest, rolled)
    PROVE  ItemsFollow(b, c, pending, rest)
<1> DEFINE row == [l \in D!Lines |->
                    IF l \in rolled THEN [item[b][l] EXCEPT !.status = "rolled"]
                    ELSE IF l \in pending
                         THEN [item[b][l] EXCEPT !.status = "credited"] ELSE item[b][l]]
           new == [l \in D!Lines |->
                    IF l \in rolled
                    THEN [status |-> "pending", amount |-> item[c][l].amount + rest[l]]
                    ELSE IF c = b /\ l \in pending
                         THEN [item[b][l] EXCEPT !.status = "credited"] ELSE item[c][l]]
<1>1. \A d \in Batches, l \in D!Lines : item[d][l] \in ItemRow
  BY DEF PayrollTypes, Schedule
<1>2. \A l \in D!Lines, x \in {"rolled", "credited"} :
        /\ [item[b][l] EXCEPT !.status = x] \in ItemRow
        /\ [item[b][l] EXCEPT !.status = x].status = x
        /\ [item[b][l] EXCEPT !.status = x].amount = item[b][l].amount
  BY <1>1 DEF ItemRow
<1>3. \A l \in D!Lines : [status |-> "pending", amount |-> item[c][l].amount + rest[l]] \in ItemRow
  BY <1>1 DEF ItemRow
<1>4. rolled \subseteq pending OBVIOUS
<1>5. /\ \A l \in D!Lines : row[l] \in ItemRow /\ row[l].amount = item[b][l].amount
      /\ \A l \in D!Lines : IF l \in pending THEN row[l].status # "pending" ELSE row[l] = item[b][l]
  BY <1>1, <1>2, <1>4
<1>6. \A l \in D!Lines : new[l] \in ItemRow BY <1>1, <1>2, <1>3
<1>7. c # b => \A l \in D!Lines : new[l].amount = item[c][l].amount + rest[l]
  <2> SUFFICES ASSUME c # b, NEW l \in D!Lines PROVE new[l].amount = item[c][l].amount + rest[l]
    OBVIOUS
  <2>1. item[c][l].amount \in Nat BY <1>1 DEF ItemRow
  <2>2. CASE l \in rolled BY <2>2
  <2>3. CASE l \notin rolled BY <2>1, <2>3
  <2> QED BY <2>2, <2>3
<1>8. c = b => new = row
  <2> SUFFICES ASSUME c = b, rolled = {} PROVE new = row OBVIOUS
  <2>1. \A l \in D!Lines : new[l] = row[l] OBVIOUS
  <2> QED BY <2>1
<1>9. row \in Schedule /\ new \in Schedule BY <1>5, <1>6 DEF Schedule
<1> HIDE DEF row, new
<1>10. item' = [item EXCEPT ![b] = row, ![c] = new] BY DEF ItemsAre, row, new
<1>11. item' \in [Batches -> Schedule] BY <1>9, <1>10 DEF PayrollTypes
<1>12. item'[b] = row /\ item'[c] = new /\ \A d \in Batches : d \notin {b, c} => item'[d] = item[d]
  BY <1>8, <1>10 DEF PayrollTypes
<1> QED BY <1>5, <1>7, <1>11, <1>12 DEF ItemsFollow

(* deductions.ts, approveBatch: the claim wants a batch that is not approved, so its money
   is used once; each line gets no more than its item, and the loan takes no more of it. *)
LEMMA BatchApproved ==
    ASSUME PayrollInv, NEW h \in Hands, D!ApproveBatch(h)
    PROVE  PayrollInv'
<1> DEFINE b == hand[h].b
           pending == hand[h].pending
           budget == hand[h].budget
<1>1. PICK c \in Batches, order \in D!Orders :
        LET portion == D!Portions(b, budget, order)
            rest == [l \in D!Lines |-> IF l \in pending THEN item[b][l].amount - portion[l] ELSE 0]
            rolled == {l \in D!Lines : rest[l] > 0}
            applied == [l \in pending |-> D!Applied(l, portion[l])] IN
        /\ IF rolled = {} THEN c = b ELSE c # b /\ D!Draft(b, c)
        /\ item' = [item EXCEPT
                ![b] = [l \in D!Lines |->
                    IF l \in rolled THEN [item[b][l] EXCEPT !.status = "rolled"]
                    ELSE IF l \in pending
                         THEN [item[b][l] EXCEPT !.status = "credited"] ELSE item[b][l]],
                ![c] = [l \in D!Lines |->
                    IF l \in rolled
                    THEN [status |-> "pending", amount |-> item[c][l].amount + rest[l]]
                    ELSE IF c = b /\ l \in pending
                         THEN [item[b][l] EXCEPT !.status = "credited"] ELSE item[c][l]]]
        /\ batch' = [batch EXCEPT
                ![c] = IF rolled = {} THEN @
                       ELSE [status |-> "draft", reconciled |-> 0,
                             by |-> IF @.by = Nobody THEN batch[b].by ELSE @.by,
                             total |-> @.total + D!Sum(rest, rolled)],
                ![b].status = "approved"]
        /\ loan' = [m \in Members |-> loan[m] -
                IF <<m, "loan">> \in pending THEN applied[<<m, "loan">>] ELSE 0]
        /\ used' = [used EXCEPT ![b] = @ + D!Sum(portion, pending)]
        /\ given' = [given EXCEPT ![b] = @ + D!Sum(applied, pending)]
        /\ short' = [short EXCEPT ![b] = [m \in Members |->
                IF \E l \in rolled : l[1] = m THEN 0 ELSE @[m]]]
  BY ZenonT(60) DEF D!ApproveBatch
<1> DEFINE portion == D!Portions(b, budget, order)
           rest == [l \in D!Lines |-> IF l \in pending THEN item[b][l].amount - portion[l] ELSE 0]
           rolled == {l \in D!Lines : rest[l] > 0}
           applied == [l \in pending |-> D!Applied(l, portion[l])]
           more == SumFunctionOnSet(rest, rolled)
           use == SumFunctionOnSet(portion, pending)
           give == SumFunctionOnSet(applied, pending)
           row == [batch[b] EXCEPT !.status = "approved"]
           new == [status |-> "draft", reconciled |-> 0,
                   by |-> IF batch[c].by = Nobody THEN batch[b].by ELSE batch[c].by,
                   total |-> batch[c].total + more]
<1>2. /\ b \in Batches /\ batch[b].status \notin {"none", "draft"}
      /\ hand[h].who \in Supers /\ hand[h].who # batch[b].by
      /\ D!Pending(b) \subseteq pending
  BY DEF PayrollInv, HandKnows, D!ApproveBatch
<1>3. pending \in SUBSET D!Lines /\ budget \in Nat
  BY DEF PayrollInv, PayrollTypes, BatchHandRow
<1>4. /\ hand' = [hand EXCEPT ![h] = D!IdleHand] /\ UNCHANGED <<waived, overtaken>>
      /\ checker' = [checker EXCEPT ![b] = hand[h].who] /\ D!Claimable(b)
  BY DEF D!ApproveBatch, D!End
<1>5. PayrollTypes BY DEF PayrollInv
<1>6. \A l \in D!Lines : portion[l] \in Nat /\ portion[l] <= item[b][l].amount
  BY <1>2, <1>3, <1>5, PortionFits
<1>7. \A l \in D!Lines : item[b][l].amount \in Nat
  BY <1>2, <1>5 DEF PayrollTypes, Schedule, ItemRow
<1>8. ItemsAre(b, c, pending, rest, rolled) BY <1>1 DEF ItemsAre
<1>80. /\ rolled = {} => c = b
       /\ rolled # {} => c # b /\ D!Draft(b, c)
  BY <1>1
<1>9. /\ batch' = [batch EXCEPT ![c] = IF rolled = {} THEN batch[c] ELSE new, ![b].status = "approved"]
      /\ used' = [used EXCEPT ![b] = used[b] + use]
      /\ given' = [given EXCEPT ![b] = given[b] + give]
  BY <1>1, <1>5, SumOfBatch DEF PayrollTypes
<1>10. /\ loan' = [m \in Members |-> loan[m] -
                IF <<m, "loan">> \in pending THEN applied[<<m, "loan">>] ELSE 0]
       /\ short' = [short EXCEPT ![b] = [m \in Members |->
                IF \E l \in rolled : l[1] = m THEN 0 ELSE short[b][m]]]
  BY <1>1, <1>2, <1>5 DEF PayrollTypes
<1> HIDE DEF b, pending, budget, portion
<1>11. /\ rest \in [D!Lines -> Nat]
       /\ \A l \in D!Lines \ pending : rest[l] = 0
       /\ rolled \in SUBSET D!Lines /\ \A l \in D!Lines \ rolled : rest[l] = 0
  <2>1. \A l \in D!Lines : rest[l] \in Nat BY <1>6, <1>7
  <2> QED BY <2>1
<1>12. rolled = {l \in D!Lines : rest[l] > 0} OBVIOUS
<1> HIDE DEF rest, rolled
<1>130. ItemsFollow(b, c, pending, rest)
  BY <1>2, <1>3, <1>5, <1>8, <1>80, <1>11, <1>12, ItemsSettled
<1>13. /\ item' \in [Batches -> Schedule]
       /\ \A l \in D!Lines : item'[b][l].amount = item[b][l].amount
       /\ \A l \in D!Lines : IF l \in pending THEN item'[b][l].status # "pending"
                             ELSE item'[b][l] = item[b][l]
       /\ c # b => \A l \in D!Lines : item'[c][l].amount = item[c][l].amount + rest[l]
       /\ \A d \in Batches : d \notin {b, c} => item'[d] = item[d]
  BY <1>130 DEF ItemsFollow
<1>14. \A l \in pending : /\ applied[l] \in Nat /\ applied[l] <= portion[l]
                          /\ l[2] = "loan" => applied[l] <= loan[l[1]]
  <2> SUFFICES ASSUME NEW l \in pending
               PROVE  /\ D!Applied(l, portion[l]) \in Nat /\ D!Applied(l, portion[l]) <= portion[l]
                      /\ l[2] = "loan" => D!Applied(l, portion[l]) <= loan[l[1]]
    OBVIOUS
  <2>1. l[1] \in Members
    <3>1. l \in Members \X {"savings", "loan"} BY <1>3, LinesFinite
    <3> QED BY <3>1
  <2>2. loan[l[1]] \in Nat BY <1>5, <2>1 DEF PayrollTypes
  <2>3. portion[l] \in Nat BY <1>3, <1>6
  <2>4. /\ D!Smaller(portion[l], loan[l[1]]) \in Nat
        /\ D!Smaller(portion[l], loan[l[1]]) <= portion[l]
        /\ D!Smaller(portion[l], loan[l[1]]) <= loan[l[1]]
    BY <2>2, <2>3, SmallerFits
  <2> QED BY <2>3, <2>4 DEF D!Applied
<1>15. use \in Nat /\ use <= Asked(item[b])
  <2>1. item[b] \in Schedule BY <1>2, <1>5 DEF PayrollTypes
  <2>2. \A l \in pending : portion[l] \in Nat /\ portion[l] <= item[b][l].amount BY <1>3, <1>6
  <2> QED BY <1>3, <2>1, <2>2, PartsFit
<1>16. give \in Nat /\ give <= use
  <2>1. IsFiniteSet(pending) BY <1>3, LinesFinite, FS_Subset
  <2>2. \A l \in pending : applied[l] \in Nat /\ portion[l] \in Int /\ applied[l] <= portion[l]
    BY <1>3, <1>6, <1>14
  <2> HIDE DEF applied
  <2>3. give \in Nat BY <2>1, <2>2, SumNat
  <2>4. give <= use BY <2>1, <2>2, SumLess
  <2> QED BY <2>3, <2>4
<1>17. more \in Nat /\ (c # b => Asked(item'[c]) = Asked(item[c]) + more)
  <2>1. IsFiniteSet(rolled) /\ \A l \in rolled : rest[l] \in Nat BY <1>11, LinesFinite, FS_Subset
  <2>2. more \in Nat BY <2>1, SumNat
  <2>3. item[c] \in Schedule /\ item'[c] \in Schedule BY <1>5, <1>13 DEF PayrollTypes
  <2>4. ASSUME c # b PROVE Asked(item'[c]) = Asked(item[c]) + more
    BY <1>11, <1>13, <2>3, <2>4, AskedMore
  <2> QED BY <2>2, <2>4
<1>18. Asked(item'[b]) = Asked(item[b])
  <2>1. item[b] \in Schedule /\ item'[b] \in Schedule BY <1>2, <1>5, <1>13 DEF PayrollTypes
  <2> QED BY <1>13, <2>1, AskedSame
<1>19. loan' \in [Members -> 0..Balance0]
  <2> SUFFICES ASSUME NEW m \in Members
               PROVE  (loan[m] - IF <<m, "loan">> \in pending THEN applied[<<m, "loan">>] ELSE 0) \in 0..Balance0
    BY <1>10
  <2>1. loan[m] \in 0..Balance0 BY <1>5 DEF PayrollTypes
  <2>2. <<m, "loan">> \in pending => /\ applied[<<m, "loan">>] \in Nat
                                     /\ applied[<<m, "loan">>] <= loan[m]
    BY <1>14
  <2> HIDE DEF applied
  <2> QED BY <2>1, <2>2, CollectionsAssumption
<1> HIDE DEF use, give, more, applied
<1>20. short' \in [Batches -> [Members -> Nat]]
  <2>1. [m \in Members |-> IF \E l \in rolled : l[1] = m THEN 0 ELSE short[b][m]] \in [Members -> Nat]
    BY <1>2, <1>5 DEF PayrollTypes
  <2> QED BY <1>5, <1>10, <2>1 DEF PayrollTypes
<1>21. batch[b] \in BatchRow /\ batch[c] \in BatchRow BY <1>2, <1>5 DEF PayrollTypes
<1>22. batch[b].by # Nobody /\ batch[b].by \in Makers BY <1>2, <1>21 DEF PayrollInv, TotalsAddUp, BatchRow
<1>23. /\ row \in BatchRow /\ row.status = "approved"
       /\ row.by = batch[b].by /\ row.total = batch[b].total
  BY <1>21 DEF BatchRow, D!BatchStatus
<1>24. /\ new \in BatchRow /\ new.status = "draft" /\ new.by # Nobody
       /\ new.total = batch[c].total + more
  BY <1>17, <1>21, <1>22 DEF BatchRow, D!BatchStatus
<1> HIDE DEF row, new
<1>25. \A d \in Batches : batch'[d] = IF d = b THEN row ELSE IF d = c THEN new ELSE batch[d]
  BY <1>2, <1>5, <1>80, <1>9 DEF PayrollTypes, row
<1>26. PayrollTypes'
  <2>1. batch' \in [Batches -> BatchRow]
    <3>1. \A d \in Batches : batch'[d] \in BatchRow BY <1>5, <1>23, <1>24, <1>25 DEF PayrollTypes
    <3>2. batch' = [d \in Batches |-> batch'[d]] BY <1>5, <1>9 DEF PayrollTypes
    <3> QED BY <3>1, <3>2
  <2>2. hand' \in [Hands -> BatchHandRow] BY <1>4, <1>5, IdleRow DEF PayrollTypes
  <2>3. used' \in [Batches -> Nat] /\ given' \in [Batches -> Nat]
    BY <1>2, <1>5, <1>9, <1>15, <1>16 DEF PayrollTypes
  <2>4. checker' \in [Batches -> Supers \cup {Nobody}] BY <1>2, <1>4, <1>5 DEF PayrollTypes
  <2> QED BY <1>4, <1>5, <1>13, <1>19, <1>20, <2>1, <2>2, <2>3, <2>4 DEF PayrollTypes
<1>27. TotalsAddUp'
  <2> SUFFICES ASSUME NEW d \in Batches
               PROVE  batch'[d].total = Asked(item'[d]) /\ (batch'[d].status # "none" => batch'[d].by # Nobody)
    BY DEF TotalsAddUp, Asked
  <2>0. /\ batch[d].total = Asked(item[d]) /\ (batch[d].status # "none" => batch[d].by # Nobody)
    BY DEF PayrollInv, TotalsAddUp
  <2>1. CASE d = b BY <1>18, <1>22, <1>23, <1>25, <2>0, <2>1
  <2>2. CASE d = c /\ d # b BY <1>17, <1>24, <1>25, <2>0, <2>2
  <2>3. CASE d \notin {b, c} BY <1>13, <1>25, <2>0, <2>3
  <2> QED BY <2>1, <2>2, <2>3
<1>28. c # b => batch[c].status \in {"none", "draft"}
  BY <1>80 DEF D!Draft, D!Unmade
<1>29. \A d \in Batches : d = b => D!Pending(d)' = {}
  BY <1>2, <1>13 DEF D!Pending
<1>30. \A d \in Batches : d \notin {b, c} => D!Pending(d)' = D!Pending(d)
  BY <1>13 DEF D!Pending
<1>31. ASSUME NEW k \in Hands PROVE HandKnows(k)'
  <2>1. CASE k = h
    BY <1>4, <1>5, <2>1, IdleRow DEF PayrollTypes, HandKnows
  <2>2. CASE k # h
    <3>1. hand'[k] = hand[k] /\ HandKnows(k) BY <1>4, <1>5, <2>2 DEF PayrollInv, PayrollTypes
    <3>2. CASE hand[k].pc = "idle" BY <3>1, <3>2 DEF HandKnows
    <3>3. CASE hand[k].pc # "idle" /\ hand[k].b = b
      BY <1>2, <1>23, <1>25, <1>29, <3>1, <3>3 DEF HandKnows
    <3>4. CASE hand[k].pc # "idle" /\ hand[k].b = c /\ c # b
      BY <1>24, <1>25, <1>28, <3>1, <3>4 DEF HandKnows
    <3>5. CASE hand[k].pc # "idle" /\ hand[k].b \notin {b, c}
      BY <1>25, <1>30, <3>1, <3>5 DEF HandKnows
    <3> QED BY <3>2, <3>3, <3>4, <3>5
  <2> QED BY <2>1, <2>2
<1>32. ASSUME NEW d \in Batches PROVE UsedFits(d)'
  <2>0. UsedFits(d) /\ used[d] \in Nat /\ given[d] \in Nat /\ batch[d].total = Asked(item[d])
    BY DEF PayrollInv, PayrollTypes, TotalsAddUp
  <2>1. CASE d = b
    <3>1. used'[d] = used[d] + use /\ given'[d] = given[d] + give /\ checker'[d] = hand[h].who
      BY <1>2, <1>4, <1>5, <1>9, <2>1 DEF PayrollTypes
    <3>2. d \notin overtaken => used[d] = 0
      BY <1>4, <2>0, <2>1 DEF UsedFits, D!Claimable
    <3>3. batch'[d].total = Asked(item[b]) /\ batch'[d].status = "approved" /\ batch'[d].by = batch[b].by
      BY <1>23, <1>25, <2>0, <2>1
    <3>4. given'[d] <= used'[d] BY <1>15, <1>16, <2>0, <3>1 DEF UsedFits
    <3>5. hand[h].who # Nobody BY <1>2, CollectionsAssumption
    <3>6. d \notin overtaken' => used'[d] <= batch'[d].total
      BY <1>4, <1>15, <3>1, <3>2, <3>3
    <3> QED BY <1>2, <1>29, <2>1, <3>1, <3>3, <3>4, <3>5, <3>6 DEF UsedFits
  <2>2. CASE d = c /\ d # b
    <3>1. used'[d] = used[d] /\ given'[d] = given[d] BY <1>2, <1>5, <1>9, <2>2 DEF PayrollTypes
    <3>2. used[d] = 0 BY <1>28, <2>0, <2>2 DEF UsedFits
    <3>3. batch'[d].total \in Nat /\ batch'[d].status = "draft"
      BY <1>24, <1>25, <2>2 DEF BatchRow
    <3> QED BY <2>0, <3>1, <3>2, <3>3 DEF UsedFits
  <2>3. CASE d \notin {b, c}
    <3>1. used'[d] = used[d] /\ given'[d] = given[d] /\ checker'[d] = checker[d]
      BY <1>2, <1>4, <1>5, <1>9, <2>3 DEF PayrollTypes
    <3> QED BY <1>4, <1>25, <1>30, <2>0, <2>3, <3>1 DEF UsedFits
  <2> QED BY <2>1, <2>2, <2>3
<1> QED BY <1>26, <1>27, <1>31, <1>32 DEF PayrollInv

(* Every step of the payroll deductions keeps PayrollInv. *)
LEMMA PayrollStep ==
    ASSUME PayrollInv, D!Next
    PROVE  PayrollInv'
<1>1. ASSUME NEW a \in Makers, NEW b \in Batches, D!BuildBatch(a, b) PROVE PayrollInv'
  BY <1>1, ScheduleBuilt
<1>2. ASSUME NEW m \in Members, D!WaiveMonth(m) \/ D!RepaidElsewhere(m) PROVE PayrollInv'
  BY <1>2, MemberMoves
<1>3. ASSUME NEW h \in Hands, NEW s \in Makers, NEW pc \in Handling, NEW b \in Batches,
             D!ReadBatch(h, pc, s, b)
      PROVE  PayrollInv'
  BY <1>3, BatchRead
<1>4. ASSUME NEW h \in Hands, NEW s \in Makers, NEW b \in Batches, D!ReadApproval(h, s, b)
      PROVE  PayrollInv'
  BY <1>4, ApprovalRead
<1>5. ASSUME NEW h \in Hands, D!WriteBatch(h) \/ D!ApproveBatch(h) \/ D!ApproveNothing(h)
      PROVE  PayrollInv'
  BY <1>5, BatchWritten, BatchApproved, NothingApproved
<1>6. ASSUME NEW h \in Hands, NEW b \in Batches, D!ReadCredit(h, b) PROVE PayrollInv'
  BY <1>6, CreditRead
<1>7. ASSUME NEW b \in Batches, NEW m \in Members, D!AttributeShortfall(b, m) PROVE PayrollInv'
  BY <1>7, ShortfallAttributed
<1>8. DOMAIN D!Handlers = Handling BY DEF D!Handlers, Handling
<1> QED BY <1>1, <1>2, <1>3, <1>4, <1>5, <1>6, <1>7, <1>8 DEF D!Next, Makers

(* The other parts leave the deductions alone. *)
LEMMA PayrollStutter ==
    ASSUME PayrollInv, UNCHANGED deductionsVars
    PROVE  PayrollInv'
BY DEF deductionsVars, PayrollInv, PayrollTypes, TotalsAddUp, Asked, HandKnows, UsedFits, D!Pending

(* deductions.ts, approveBatch: for any number of batches, members, lines and handlers,
   a payroll batch is credited once, with no more than its items and by a super admin
   other than its maker, unless a status written from an older read has reopened it. *)
THEOREM BatchesCreditedOnce == CollectionsSpec => []BatchCreditedOnce
<1>1. CollectionsInit => PayrollInv
  BY PayrollInit DEF CollectionsInit
<1>2. PayrollInv /\ [CollectionsNext]_collectionsVars => PayrollInv'
  BY PayrollStep, PayrollStutter DEF CollectionsNext, collectionsVars
<1>3. PayrollInv => BatchCreditedOnce
  BY DEF PayrollInv, UsedFits, BatchCreditedOnce, D!BatchCreditedOnce
<1> QED BY <1>1, <1>2, <1>3, PTL DEF CollectionsSpec

-----------------------------------------------------------------------------
(* Types *)

LEMMA MandateTypes ==
    ASSUME TypeOK, Next PROVE TypeOK'
<1>1. ASSUME NEW m \in Mandates,
             CreateMandate(m) \/ CancelMandate(m) \/ PauseMandate(m) \/ ResumeMandate(m) \/ ApplyMandateStatus(m)
      PROVE  TypeOK'
  <2>1. UNCHANGED <<next, debit, moneyVars, tick, retry, writing>>
    BY <1>1 DEF CreateMandate, CancelMandate, PauseMandate, ResumeMandate, ApplyMandateStatus, SetMandate
  <2>2. mandate' \in [Mandates -> {"none", "pending", "active", "paused", "cancelled"}]
    BY <1>1 DEF CreateMandate, CancelMandate, PauseMandate, ResumeMandate, ApplyMandateStatus, SetMandate, TypeOK
  <2>3. authorized' \subseteq Mandates
    BY <1>1 DEF CreateMandate, CancelMandate, PauseMandate, ResumeMandate, ApplyMandateStatus, TypeOK
  <2> QED BY <2>1, <2>2, <2>3 DEF TypeOK, moneyVars
<1>2. CASE CreateDebits
  <2>1. UNCHANGED <<mandateVars, moneyVars, retry, writing>> /\ tick' = New BY <1>2 DEF CreateDebits
  <2>2. New \subseteq References
    BY CollectionsAssumption DEF New, DueRefs, IsDue, References, TypeOK
  <2>3. debit' \in [References -> {"none", "pending", "failed", "due", "successful", "skipped"}]
    BY <1>2 DEF CreateDebits, TypeOK
  <2>4. next' \in [Mandates -> 1..MaxDue + 1]
    <3>1. \A m \in Mandates : IsDue(m) => next[m] + 1 \in 1..MaxDue + 1
      BY CollectionsAssumption DEF IsDue, TypeOK
    <3> QED BY <1>2, <3>1 DEF CreateDebits, TypeOK
  <2> QED BY <2>1, <2>2, <2>3, <2>4 DEF TypeOK, moneyVars, mandateVars
<1>3. CASE TickAborted
  <2>1. New \subseteq References
    BY CollectionsAssumption DEF New, DueRefs, IsDue, References, TypeOK
  <2> QED BY <1>3, <2>1 DEF TickAborted, TypeOK, moneyVars, mandateVars
<1>4. CASE ProcessDies BY <1>4 DEF ProcessDies, TypeOK, moneyVars, mandateVars
<1>5. ASSUME NEW r \in References, DispatchDebit(r) \/ DispatchFails(r) PROVE TypeOK'
  <2>1. charge' \in [References -> {"none", "asked", "taken", "declined"}]
    BY <1>5 DEF DispatchDebit, DispatchFails, Ask, TypeOK
  <2>2. debit' \in [References -> {"none", "pending", "failed", "due", "successful", "skipped"}]
    BY <1>5 DEF DispatchDebit, DispatchFails, TypeOK
  <2>3. tick' \subseteq References
    BY <1>5 DEF DispatchDebit, DispatchFails, TypeOK
  <2>4. UNCHANGED <<mandateVars, next, events, journal, credited, retry, writing>>
    BY <1>5 DEF DispatchDebit, DispatchFails
  <2> QED BY <2>1, <2>2, <2>3, <2>4 DEF TypeOK, mandateVars
<1>6. ASSUME NEW r \in References,
             DayPasses(r) \/ ClaimRetry(r) \/ RetryRefused(r) \/ MarkRetried(r) \/ ReconcileStale(r)
      PROVE  TypeOK'
  <2>1. debit' \in [References -> {"none", "pending", "failed", "due", "successful", "skipped"}]
    BY <1>6 DEF DayPasses, ClaimRetry, RetryRefused, MarkRetried, ReconcileStale, TypeOK
  <2>2. retry' \subseteq References \X {"call", "accepted"}
    BY <1>6 DEF DayPasses, ClaimRetry, RetryRefused, MarkRetried, ReconcileStale, TypeOK
  <2>3. UNCHANGED <<mandateVars, next, moneyVars, tick, writing>>
    BY <1>6 DEF DayPasses, ClaimRetry, RetryRefused, MarkRetried, ReconcileStale
  <2> QED BY <2>1, <2>2, <2>3 DEF TypeOK, mandateVars, moneyVars
<1>7. ASSUME NEW r \in References, CallRetry(r) PROVE TypeOK'
  <2>1. charge' \in [References -> {"none", "asked", "taken", "declined"}]
    BY <1>7 DEF CallRetry, Ask, TypeOK
  <2>2. retry' \subseteq References \X {"call", "accepted"} BY <1>7 DEF CallRetry, TypeOK
  <2> QED BY <1>7, <2>1, <2>2 DEF CallRetry, TypeOK, mandateVars
<1>8. ASSUME NEW r \in References, Collect(r) PROVE TypeOK'
  <2>1. charge' \in [References -> {"none", "asked", "taken", "declined"}]
    BY <1>8 DEF Collect, TypeOK
  <2> QED BY <1>8, <2>1 DEF Collect, TypeOK, mandateVars
<1>9. ASSUME NEW r \in References, SettleSuccessful(r) \/ SettleIgnored(r) PROVE TypeOK'
  <2>1. debit' \in [References -> {"none", "pending", "failed", "due", "successful", "skipped"}]
    BY <1>9 DEF SettleSuccessful, SettleIgnored, TypeOK
  <2>2. events' \subseteq References \X {"failed", "successful"}
    BY <1>9 DEF SettleSuccessful, SettleIgnored, Processed, TypeOK
  <2>3. journal' \subseteq References /\ credited' \in [References -> Nat]
    BY <1>9 DEF SettleSuccessful, SettleIgnored, TypeOK
  <2>4. next' \in [Mandates -> 1..MaxDue + 1]
    <3>1. CASE UNCHANGED next BY <3>1 DEF TypeOK
    <3>2. CASE next[r[1]] = r[2] /\ next' = [next EXCEPT ![r[1]] = @ + 1]
      <4>1. r[1] \in Mandates /\ r[2] \in 1..MaxDue BY DEF References
      <4>2. next[r[1]] + 1 \in 1..MaxDue + 1 BY <3>2, <4>1, CollectionsAssumption
      <4> QED BY <3>2, <4>1, <4>2 DEF TypeOK
    <3> QED BY <1>9, <3>1, <3>2 DEF SettleSuccessful, SettleIgnored
  <2>5. UNCHANGED <<mandateVars, charge, tick, retry, writing>>
    BY <1>9 DEF SettleSuccessful, SettleIgnored
  <2> QED BY <2>1, <2>2, <2>3, <2>4, <2>5 DEF TypeOK, mandateVars
<1>10. ASSUME NEW r \in References, SkipDebit(r) \/ SettleFailed(r) PROVE TypeOK'
  <2>1. writing' \subseteq References \X DOMAIN Outcome
    BY <1>10 DEF SkipDebit, SettleFailed, Outcome, TypeOK
  <2>2. events' \subseteq References \X {"failed", "successful"}
    BY <1>10 DEF SkipDebit, SettleFailed, Processed, moneyVars, TypeOK
  <2>3. UNCHANGED <<mandateVars, next, debit, charge, journal, credited, tick, retry>>
    BY <1>10 DEF SkipDebit, SettleFailed, moneyVars
  <2> QED BY <2>1, <2>2, <2>3 DEF TypeOK, mandateVars
<1>11. ASSUME NEW r \in References, NEW w \in DOMAIN Outcome, WriteDebit(r, w) PROVE TypeOK'
  <2>1. Outcome[w] \in {"failed", "skipped"} BY DEF Outcome
  <2>2. debit' \in [References -> {"none", "pending", "failed", "due", "successful", "skipped"}]
    BY <1>11, <2>1 DEF WriteDebit, TypeOK
  <2>3. events' \subseteq References \X {"failed", "successful"}
    BY <1>11 DEF WriteDebit, Processed, TypeOK
  <2>4. writing' \subseteq References \X DOMAIN Outcome BY <1>11 DEF WriteDebit, TypeOK
  <2> QED BY <1>11, <2>2, <2>3, <2>4 DEF WriteDebit, TypeOK, mandateVars
<1> QED BY <1>1, <1>2, <1>3, <1>4, <1>5, <1>6, <1>7, <1>8, <1>9, <1>10, <1>11 DEF Next

-----------------------------------------------------------------------------
LEMMA FineGrows == \A x \in 0..MaxLate : Fine * x \in 0..Fine * MaxLate
<1>1. TAKE x \in 0..MaxLate
<1>2. x \in Nat /\ (MaxLate - x) \in Nat BY CollectionsAssumption
<1>3. Fine * (MaxLate - x) \in Nat /\ Fine * x \in Nat BY <1>2, CollectionsAssumption
<1>4. Fine * MaxLate = Fine * x + Fine * (MaxLate - x) BY <1>2, CollectionsAssumption, Distribute
<1> QED BY <1>3, <1>4

PayerRow == [pc : {"idle", "repay"}, principal : Int, interest : 0..1, fine : 0..Fine * MaxLate]

LEMMA RunTypes ==
    ASSUME P!TypeOK, NEW r \in Hands, P!Recovers(r) \/ P!RunFails(r) PROVE P!TypeOK'
<1>1. RunTyped BY DEF P!TypeOK, RunTyped, RunPc, P!Executing
<1>2. recovery[r].seen \in SUBSET Guarantors BY <1>1 DEF RunTyped
<1>3. /\ UNCHANGED <<balance, status, late, wallet, payer, booked>>
      /\ \E pc \in RunPc, seen \in SUBSET Guarantors : P!Goes(r, pc, seen)
  BY <1>2 DEF P!Recovers, P!ScanGuarantorDefaults, P!ReadNotices, P!SendNotices, P!ReadPending,
         P!ReadDueDeductions, P!CancelNotices, P!DeductGuarantors, P!RunFails, P!loanVars,
         P!Scanned, RunPc
<1>4. RunTyped' BY <1>1, <1>3, RunMoves
<1>5. notice' \in [Guarantors -> {"none", "notified", "due", "deducted", "cancelled"}]
  BY DEF P!Recovers, P!ScanGuarantorDefaults, P!ReadNotices, P!SendNotices, P!ReadPending,
         P!ReadDueDeductions, P!CancelNotices, P!DeductGuarantors, P!RunFails, P!TypeOK
<1>6. crossed' \subseteq Guarantors
  <2>1. \A gs \in SUBSET Guarantors : P!Crosses(r, gs) => crossed' \subseteq Guarantors
    BY DEF P!Crosses, P!TypeOK
  <2>2. \/ UNCHANGED crossed
        \/ \E gs \in SUBSET Guarantors : P!Crosses(r, gs)
    BY DEF P!Recovers, P!ScanGuarantorDefaults, P!ReadNotices, P!SendNotices, P!ReadPending,
           P!ReadDueDeductions, P!CancelNotices, P!DeductGuarantors, P!RunFails
  <2> QED BY <2>1, <2>2 DEF P!TypeOK
<1>7. savings' \in [Guarantors -> 0..Savings0] /\ charged' \in [Guarantors -> Nat]
  <2>1. CASE P!DeductGuarantors(r)
    <3> DEFINE pay == {g \in recovery[r].seen : savings[g] >= Share}
    <3>1. /\ savings' = [g \in Guarantors |-> savings[g] - IF g \in pay THEN Share ELSE 0]
          /\ charged' = [g \in Guarantors |-> charged[g] + IF g \in pay THEN 1 ELSE 0]
      BY <2>1 DEF P!DeductGuarantors
    <3>2. \A g \in Guarantors : savings[g] - (IF g \in pay THEN Share ELSE 0) \in 0..Savings0
      BY CollectionsAssumption DEF P!TypeOK
    <3> QED BY <3>1, <3>2 DEF P!TypeOK
  <2>2. CASE ~P!DeductGuarantors(r)
    BY <2>2 DEF P!Recovers, P!ScanGuarantorDefaults, P!ReadNotices, P!SendNotices, P!ReadPending,
           P!ReadDueDeductions, P!CancelNotices, P!RunFails, P!TypeOK, P!chargeVars
  <2> QED BY <2>1, <2>2
<1> QED BY <1>3, <1>4, <1>5, <1>6, <1>7 DEF P!TypeOK, RunTyped, RunPc, P!Executing

LEMMA RepaymentTypes ==
    ASSUME P!TypeOK, P!Next PROVE P!TypeOK'
<1>0. P!IdleHand \in PayerRow
  <2>1. 0 \in 0..MaxLate /\ Fine * 0 = 0 BY CollectionsAssumption
  <2>2. 0 \in 0..Fine * MaxLate BY <2>1, FineGrows
  <2> QED BY <2>2 DEF P!IdleHand, PayerRow
<1>1. CASE P!MonthPasses
  BY <1>1, CollectionsAssumption DEF P!MonthPasses, P!TypeOK, P!guaranteeVars
<1>2. CASE P!DeductInstallment
  BY <1>2, CollectionsAssumption DEF P!DeductInstallment, P!Smaller, P!TypeOK, P!guaranteeVars
<1>4. ASSUME NEW h \in Hands, P!RepayLoan(h) \/ P!RepayByMandate(h) PROVE P!TypeOK'
  <2>1. P!Due \in PayerRow
    <3>1. Fine * late \in 0..Fine * MaxLate BY FineGrows DEF P!TypeOK
    <3>2. P!Interest \in 0..1 BY DEF P!Interest
    <3>3. P!Smaller(LoanInstallment - P!Interest, balance) \in Int
      BY <3>2, CollectionsAssumption DEF P!Smaller, P!TypeOK
    <3> QED BY <3>1, <3>2, <3>3 DEF P!Due, PayerRow
  <2>2. payer' = [payer EXCEPT ![h] = P!Due] /\ UNCHANGED <<P!loanVars, wallet, booked, P!guaranteeVars>>
    BY <1>4 DEF P!RepayLoan, P!RepayByMandate, P!ReadRepayment
  <2>3. payer' \in [Hands -> PayerRow] BY <2>1, <2>2 DEF P!TypeOK, PayerRow
  <2> QED BY <2>2, <2>3 DEF P!TypeOK, P!loanVars, P!guaranteeVars, PayerRow
<1>5. ASSUME NEW h \in Hands, P!CommitRepayment(h) PROVE P!TypeOK'
  <2> DEFINE d == payer[h]
  <2>1. d \in PayerRow BY DEF P!TypeOK, PayerRow
  <2>2. /\ d.principal \in Int /\ d.interest \in Nat /\ d.fine \in Nat
    <3>1. Fine * MaxLate \in Nat BY CollectionsAssumption
    <3> QED BY <2>1, <3>1 DEF PayerRow
  <2> HIDE DEF d
  <2>3. payer' \in [Hands -> PayerRow] /\ UNCHANGED P!guaranteeVars
    BY <1>0, <1>5 DEF P!CommitRepayment, P!TypeOK, PayerRow
  <2>4. CASE wallet >= P!Debit(d)
    <3>1. /\ wallet' = wallet - P!Debit(d)
          /\ balance' = balance - d.principal
          /\ booked' = booked + P!Larger(d.principal, 0) + d.interest + d.fine
          /\ \/ status' = "paid" /\ UNCHANGED late
             \/ late' = (IF late > 0 THEN late - 1 ELSE 0) /\ UNCHANGED status
      BY <1>5, <2>4 DEF P!CommitRepayment, d
    <3>2. P!Debit(d) \in Nat BY <2>2, CollectionsAssumption DEF P!Debit
    <3>3. wallet' \in 0..Wallet0 BY <2>4, <3>1, <3>2, CollectionsAssumption DEF P!TypeOK
    <3>4. balance' \in Int BY <2>2, <3>1 DEF P!TypeOK
    <3>5. P!Larger(d.principal, 0) \in Nat BY <2>2 DEF P!Larger
    <3>6. booked' \in Nat BY <2>2, <3>1, <3>5 DEF P!TypeOK
    <3>7. late' \in 0..MaxLate /\ status' \in {"disbursed", "paid"}
      BY <3>1, CollectionsAssumption DEF P!TypeOK
    <3> QED BY <2>3, <3>3, <3>4, <3>6, <3>7 DEF P!TypeOK, P!guaranteeVars, PayerRow
  <2>5. CASE ~(wallet >= P!Debit(d))
    <3>1. UNCHANGED <<wallet, booked, P!loanVars>> BY <1>5, <2>5 DEF P!CommitRepayment, d
    <3> QED BY <2>3, <3>1 DEF P!TypeOK, P!loanVars, P!guaranteeVars, PayerRow
  <2> QED BY <2>4, <2>5
<1>6. ASSUME NEW g \in Guarantors, P!NoticeExpires(g) PROVE P!TypeOK'
  <2>1. notice' \in [Guarantors -> {"none", "notified", "due", "deducted", "cancelled"}]
    BY <1>6 DEF P!NoticeExpires, P!TypeOK
  <2> QED BY <1>6, <2>1 DEF P!NoticeExpires, P!TypeOK, P!loanVars, P!chargeVars
<1>7. ASSUME NEW r \in Hands, P!Recovers(r) \/ P!RunFails(r) PROVE P!TypeOK'
  BY <1>7, RunTypes
<1> QED BY <1>1, <1>2, <1>4, <1>5, <1>6, <1>7 DEF P!Next, P!Works

-----------------------------------------------------------------------------
\* Runs that are at one of these steps.
At(steps) == {p \in Hands : run[p].pc \in steps}

(* Each run sends a claimed notice, a statement and a digest once at most: what was sent,
   and what the runs may still send, is at most the runs that were started. *)
CountInv ==
    /\ run \in RunType
    /\ memo \subseteq Hands
    /\ sent \in Nat /\ told \in Nat /\ digests \in Nat /\ fell \in Nat /\ starts \in 0..MaxStarts
    /\ fell + Cardinality(At({"claim"})) <= starts
    /\ sent + Cardinality(At({"claim", "send"})) <= starts
    /\ told + Cardinality(At({"claim", "send", "look", "tell"})) <= starts
    /\ digests + Cardinality(At({"check", "digest"})) <= starts

One(x, set) == IF x \in set THEN 1 ELSE 0

LEMMA AtCounted == \A steps : IsFiniteSet(At(steps)) /\ Cardinality(At(steps)) \in Nat
BY CollectionsAssumption, FS_Subset, FS_CardinalityType DEF At

\* One process moves.
LEMMA AtMoves ==
    ASSUME NEW p \in Hands, \A q \in Hands : q # p => run'[q] = run[q], NEW steps
    PROVE  /\ Cardinality(At(steps)) \in Nat /\ Cardinality(At(steps)') \in Nat
           /\ Cardinality(At(steps)') =
                Cardinality(At(steps)) - One(run[p].pc, steps) + One(run'[p].pc, steps)
<1>1. IsFiniteSet(At(steps)) /\ IsFiniteSet(At(steps)')
  BY CollectionsAssumption, FS_Subset DEF At
<1>2. At(steps) \ {p} = At(steps)' \ {p} BY DEF At
<1>3. /\ Cardinality(At(steps) \ {p}) = Cardinality(At(steps)) - One(p, At(steps))
      /\ Cardinality(At(steps)' \ {p}) = Cardinality(At(steps)') - One(p, At(steps)')
      /\ Cardinality(At(steps)) \in Nat /\ Cardinality(At(steps)') \in Nat
  BY <1>1, FS_RemoveElement, FS_CardinalityType DEF One
<1>4. One(p, At(steps)) = One(run[p].pc, steps) /\ One(p, At(steps)') = One(run'[p].pc, steps)
  BY DEF At, One
<1>5. One(p, At(steps)) \in Int /\ One(p, At(steps)') \in Int BY DEF One
<1>6. Cardinality(At(steps) \ {p}) = Cardinality(At(steps)' \ {p}) BY <1>2
<1> HIDE DEF One
<1> QED BY <1>3, <1>4, <1>5, <1>6

\* What a move of one process does to the counts.
Counted(p, pc) ==
    /\ fell' + One(pc, {"claim"}) - One(run[p].pc, {"claim"}) <= fell + (starts' - starts)
    /\ sent' + One(pc, {"claim", "send"}) - One(run[p].pc, {"claim", "send"})
        <= sent + (starts' - starts)
    /\ told' + One(pc, {"claim", "send", "look", "tell"})
             - One(run[p].pc, {"claim", "send", "look", "tell"}) <= told + (starts' - starts)
    /\ digests' + One(pc, {"check", "digest"}) - One(run[p].pc, {"check", "digest"})
        <= digests + (starts' - starts)

LEMMA CountMoves ==
    ASSUME CountInv, NEW p \in Hands, NEW row \in RunRow, run' = [run EXCEPT ![p] = row],
           memo' \subseteq Hands, sent' \in Nat, told' \in Nat, digests' \in Nat, fell' \in Nat,
           starts' \in 0..MaxStarts, Counted(p, row.pc)
    PROVE  CountInv'
<1>1. run' \in RunType /\ run'[p] = row /\ \A q \in Hands : q # p => run'[q] = run[q]
  BY DEF CountInv, RunType
<1>2. starts \in Int /\ starts' \in Int BY CollectionsAssumption DEF CountInv
<1>3. ASSUME NEW steps, NEW x \in Int, NEW y \in Int, x + Cardinality(At(steps)) <= starts,
             y + One(row.pc, steps) - One(run[p].pc, steps) <= x + (starts' - starts)
      PROVE  y + Cardinality(At(steps)') <= starts'
  <2>1. /\ Cardinality(At(steps)) \in Nat /\ Cardinality(At(steps)') \in Nat
        /\ Cardinality(At(steps)') = Cardinality(At(steps)) - One(run[p].pc, steps) + One(row.pc, steps)
    BY <1>1, AtMoves
  <2>2. One(run[p].pc, steps) \in Int /\ One(row.pc, steps) \in Int BY DEF One
  <2> QED BY <1>2, <1>3, <2>1, <2>2
<1>4. fell' + Cardinality(At({"claim"})') <= starts' BY <1>3 DEF CountInv, Counted
<1>5. sent' + Cardinality(At({"claim", "send"})') <= starts' BY <1>3 DEF CountInv, Counted
<1>6. told' + Cardinality(At({"claim", "send", "look", "tell"})') <= starts'
  BY <1>3 DEF CountInv, Counted
<1>7. digests' + Cardinality(At({"check", "digest"})') <= starts' BY <1>3 DEF CountInv, Counted
<1> QED BY <1>1, <1>4, <1>5, <1>6, <1>7 DEF CountInv

LEMMA CountStill ==
    ASSUME CountInv, UNCHANGED <<run, sent, told, digests, fell, starts>>, memo' \subseteq Hands
    PROVE  CountInv'
BY DEF CountInv, At

LEMMA RowFits == \A p \in Hands : run \in RunType => run[p] \in RunRow
BY DEF RunType

LEMMA GoesRow ==
    ASSUME run \in RunType, NEW p \in Hands, NEW pc \in S!Steps, S!Goes(p, pc)
    PROVE  \E row \in RunRow : row.pc = pc /\ run' = [run EXCEPT ![p] = row]
<1> DEFINE row == [run[p] EXCEPT !.pc = pc]
<1>1. run[p] \in RunRow BY RowFits
<1>2. row \in RunRow /\ row.pc = pc BY <1>1 DEF RunRow
<1>3. run' = [run EXCEPT ![p] = row] BY DEF S!Goes
<1> QED BY <1>2, <1>3

(* A run that goes on to step pc. *)
LEMMA CountGoes ==
    ASSUME CountInv, NEW p \in Hands, NEW pc \in S!Steps, S!Goes(p, pc),
           memo' \subseteq Hands, sent' \in Nat, told' \in Nat, digests' \in Nat, fell' \in Nat,
           UNCHANGED starts, Counted(p, pc)
    PROVE  CountInv'
<1>1. run \in RunType BY DEF CountInv
<1>2. PICK row \in RunRow : row.pc = pc /\ run' = [run EXCEPT ![p] = row] BY <1>1, GoesRow
<1>3. starts' \in 0..MaxStarts BY DEF CountInv
<1> QED BY <1>2, <1>3, CountMoves

LEMMA ClaimCounts == ASSUME CountInv, NEW p \in Hands, S!ClaimOnce(p) PROVE CountInv'
<1>1. run[p].pc = "claim" /\ UNCHANGED starts BY DEF S!ClaimOnce
<1>2. {"send", "look"} \subseteq S!Steps BY DEF S!Steps
<1>3. CASE UNCHANGED <<memo, S!counts>> /\ (S!Goes(p, "send") \/ S!Goes(p, "look"))
  <2>1. Counted(p, "send") /\ Counted(p, "look")
    BY <1>1, <1>3, CollectionsAssumption DEF Counted, One, CountInv, S!counts
  <2>2. memo' \subseteq Hands /\ sent' \in Nat /\ told' \in Nat /\ digests' \in Nat /\ fell' \in Nat
    BY <1>3 DEF CountInv, S!counts
  <2> QED BY <1>1, <1>2, <1>3, <2>1, <2>2, CountGoes
<1>4. CASE /\ memo' = memo \cup {p} /\ fell' = fell + 1 /\ S!Goes(p, "send")
           /\ UNCHANGED <<sent, told, digests>>
  <2>1. Counted(p, "send")
    BY <1>1, <1>4, CollectionsAssumption DEF Counted, One, CountInv
  <2>2. memo' \subseteq Hands /\ sent' \in Nat /\ told' \in Nat /\ digests' \in Nat /\ fell' \in Nat
    BY <1>4 DEF CountInv
  <2> QED BY <1>1, <1>2, <1>4, <2>1, <2>2, CountGoes
<1> QED BY <1>3, <1>4 DEF S!ClaimOnce

LEMMA TickCounts ==
    ASSUME CountInv, NEW p \in Hands, S!Send(p) \/ S!ReadDue(p) \/ S!Tell(p) \/ S!Stamp(p)
    PROVE  CountInv'
<1>1. UNCHANGED <<starts, memo>> BY DEF S!Send, S!ReadDue, S!Tell, S!Stamp
<1>2. {"look", "tell", "release", "stamp"} \subseteq S!Steps BY DEF S!Steps
<1>3. sent' \in Nat /\ told' \in Nat /\ digests' \in Nat /\ fell' \in Nat
  BY DEF S!Send, S!ReadDue, S!Tell, S!Stamp, S!counts, CountInv
<1>4. memo' \subseteq Hands BY <1>1 DEF CountInv
<1>5. PICK pc \in {"look", "tell", "release", "stamp"} : S!Goes(p, pc) /\ Counted(p, pc)
  <2>1. CASE S!Send(p)
    <3>1. S!Goes(p, "look") BY <2>1 DEF S!Send
    <3>2. Counted(p, "look")
      BY <1>1, <2>1, CollectionsAssumption DEF S!Send, Counted, One, CountInv
    <3> QED BY <3>1, <3>2
  <2>2. CASE S!ReadDue(p)
    <3>1. S!Goes(p, "release") \/ S!Goes(p, "tell") BY <2>2 DEF S!ReadDue
    <3>2. Counted(p, "release") /\ Counted(p, "tell")
      BY <1>1, <2>2, CollectionsAssumption DEF S!ReadDue, Counted, One, CountInv, S!counts
    <3> QED BY <3>1, <3>2
  <2>3. CASE S!Tell(p)
    <3>1. S!Goes(p, "stamp") BY <2>3 DEF S!Tell
    <3>2. Counted(p, "stamp")
      BY <1>1, <2>3, CollectionsAssumption DEF S!Tell, Counted, One, CountInv
    <3> QED BY <3>1, <3>2
  <2>4. CASE S!Stamp(p)
    <3>1. S!Goes(p, "release") BY <2>4 DEF S!Stamp
    <3>2. Counted(p, "release")
      BY <1>1, <2>4, CollectionsAssumption DEF S!Stamp, Counted, One, CountInv, S!counts
    <3> QED BY <3>1, <3>2
  <2> QED BY <2>1, <2>2, <2>3, <2>4
<1> QED BY <1>1, <1>2, <1>3, <1>4, <1>5, CountGoes

LEMMA DigestCounts ==
    ASSUME CountInv, NEW p \in Hands, S!CheckMarker(p) \/ S!SendDigest(p) \/ S!SetMarker(p)
    PROVE  CountInv'
<1>1. UNCHANGED <<starts, memo>> BY DEF S!CheckMarker, S!SendDigest, S!SetMarker
<1>2. {"digest", "mark", "release"} \subseteq S!Steps BY DEF S!Steps
<1>3. sent' \in Nat /\ told' \in Nat /\ digests' \in Nat /\ fell' \in Nat
  BY DEF S!CheckMarker, S!SendDigest, S!SetMarker, S!counts, CountInv
<1>4. memo' \subseteq Hands BY <1>1 DEF CountInv
<1>5. PICK pc \in {"digest", "mark", "release"} : S!Goes(p, pc) /\ Counted(p, pc)
  <2>1. CASE S!CheckMarker(p)
    <3>1. S!Goes(p, "release") \/ S!Goes(p, "digest") BY <2>1 DEF S!CheckMarker
    <3>2. Counted(p, "release") /\ Counted(p, "digest")
      BY <1>1, <2>1, CollectionsAssumption DEF S!CheckMarker, Counted, One, CountInv, S!counts
    <3> QED BY <3>1, <3>2
  <2>2. CASE S!SendDigest(p)
    <3>1. S!Goes(p, "mark") \/ S!Goes(p, "release") BY <2>2 DEF S!SendDigest
    <3>2. Counted(p, "mark") /\ Counted(p, "release")
      BY <1>1, <2>2, CollectionsAssumption DEF S!SendDigest, Counted, One, CountInv
    <3> QED BY <3>1, <3>2
  <2>3. CASE S!SetMarker(p)
    <3>1. S!Goes(p, "release") BY <2>3 DEF S!SetMarker
    <3>2. Counted(p, "release")
      BY <1>1, <2>3, CollectionsAssumption DEF S!SetMarker, Counted, One, CountInv, S!counts
    <3> QED BY <3>1, <3>2
  <2> QED BY <2>1, <2>2, <2>3
<1> QED BY <1>1, <1>2, <1>3, <1>4, <1>5, CountGoes

LEMMA StartCounts == ASSUME CountInv, NEW p \in Hands, S!StartJob(p) PROVE CountInv'
<1>1. PICK via \in S!Shares \cup {"alone"} : S!Starts(p, via) /\ ~S!Running(p)
  BY DEF S!StartJob
<1> DEFINE row == [pc |-> S!First, via |-> via]
<1>2. row \in RunRow /\ row.pc \in {"claim", "check"}
  BY DEF RunRow, S!First, S!Steps
<1>3. /\ run' = [run EXCEPT ![p] = row] /\ starts' = starts + 1 /\ starts < MaxStarts
      /\ UNCHANGED <<memo, sent, told, digests, fell>>
  BY <1>1 DEF S!Starts, S!counts
<1> HIDE DEF row
<1>4. run[p].pc = "idle" BY <1>1 DEF S!Running
<1>5. Counted(p, row.pc)
  BY <1>2, <1>3, <1>4, CollectionsAssumption DEF Counted, One, CountInv
<1>6. starts' \in 0..MaxStarts BY <1>3, CollectionsAssumption DEF CountInv
<1>7. /\ memo' \subseteq Hands
      /\ sent' \in Nat /\ told' \in Nat /\ digests' \in Nat /\ fell' \in Nat
  BY <1>3 DEF CountInv
<1> QED BY <1>2, <1>3, <1>5, <1>6, <1>7, CountMoves

LEMMA EndCounts ==
    ASSUME CountInv, NEW p \in Hands, S!Release(p) \/ S!Delete(p) \/ S!Dies(p)
    PROVE  CountInv'
<1>1. /\ UNCHANGED <<starts, sent, told, digests, fell>> /\ memo' \subseteq Hands
  BY DEF S!Release, S!Delete, S!Dies, S!counts, CountInv
<1>2. PICK row \in RunRow : run' = [run EXCEPT ![p] = row] /\ row.pc \in {"idle", "delete"}
  <2>1. run[p] \in RunRow BY RowFits DEF CountInv
  <2>2. [run[p] EXCEPT !.pc = "delete"] \in RunRow /\ [run[p] EXCEPT !.pc = "delete"].pc = "delete"
    BY <2>1 DEF RunRow, S!Steps
  <2>3. CASE run' = [run EXCEPT ![p] = S!Idle] BY <2>3, IdleRun
  <2>4. CASE run' = [run EXCEPT ![p] = [run[p] EXCEPT !.pc = "delete"]] BY <2>2, <2>4
  <2>5. run' = [run EXCEPT ![p] = S!Idle] \/ run' = [run EXCEPT ![p] = [run[p] EXCEPT !.pc = "delete"]]
    BY DEF S!Release, S!Delete, S!Dies, CountInv, RunType
  <2> QED BY <2>3, <2>4, <2>5
<1>3. Counted(p, row.pc)
  BY <1>1, <1>2, CollectionsAssumption DEF Counted, One, CountInv
<1>4. starts' \in 0..MaxStarts /\ sent' \in Nat /\ told' \in Nat /\ digests' \in Nat /\ fell' \in Nat
  BY <1>1 DEF CountInv
<1> QED BY <1>1, <1>2, <1>3, <1>4, CountMoves

(* Every step of the scheduler keeps CountInv. *)
LEMMA CountStep == ASSUME CountInv, S!Next PROVE CountInv'
<1>1. ASSUME NEW p \in Hands, S!Boot(p) \/ S!LinkCut(p) \/ S!LinkBack(p) PROVE CountInv'
  <2>1. UNCHANGED <<run, sent, told, digests, fell, starts, memo>>
    BY <1>1 DEF S!Boot, S!LinkCut, S!LinkBack, S!counts
  <2> QED BY <2>1, CountStill DEF CountInv
<1>2. ASSUME NEW v \in S!Shares, S!Lapse(v) PROVE CountInv'
  <2>1. UNCHANGED <<run, sent, told, digests, fell, starts, memo>> BY <1>2 DEF S!Lapse, S!counts
  <2> QED BY <2>1, CountStill DEF CountInv
<1> QED BY <1>1, <1>2, ClaimCounts, TickCounts, DigestCounts, StartCounts, EndCounts DEF S!Next

LEMMA CountInit == ASSUME S!Init PROVE CountInv
<1>1. run = [p \in Hands |-> S!Idle] /\ \A p \in Hands : run[p].pc = "idle" BY IdleRun DEF S!Init
<1>2. run \in RunType BY <1>1, IdleRun DEF RunType
<1>3. \A steps : "idle" \notin steps => At(steps) = {} BY <1>1 DEF At
<1>4. /\ Cardinality(At({"claim"})) = 0 /\ Cardinality(At({"claim", "send"})) = 0
      /\ Cardinality(At({"claim", "send", "look", "tell"})) = 0
      /\ Cardinality(At({"check", "digest"})) = 0
  BY <1>3, FS_EmptySet
<1> QED BY <1>2, <1>4, CollectionsAssumption DEF CountInv, S!Init

-----------------------------------------------------------------------------
\* What the parts keep, whichever part runs.
AllTyped ==
    /\ part \in Parts
    /\ TypeOK /\ P!TypeOK
    /\ PayrollInv
    /\ SchedulingInv /\ CountInv

LEMMA TypesInit == ASSUME CollectionsInit PROVE AllTyped
<1>1. TypeOK
  BY CollectionsAssumption DEF CollectionsInit, Init, TypeOK
<1>2. P!TypeOK
  <2>1. 0 \in 0..MaxLate /\ Fine * 0 = 0 BY CollectionsAssumption
  <2>2. 0 \in 0..Fine * MaxLate BY <2>1, FineGrows
  <2>3. P!IdleHand \in PayerRow BY <2>2 DEF P!IdleHand, PayerRow
  <2>4. payer \in [Hands -> PayerRow] BY <2>3 DEF CollectionsInit, P!Init
  <2>5. savings \in [Guarantors -> 0..Savings0]
    <3>1. {0, Savings0} \subseteq 0..Savings0 BY CollectionsAssumption
    <3> QED BY <3>1 DEF CollectionsInit, P!Init
  <2>6. /\ balance = LoanBalance /\ status = "disbursed" /\ late = 0 /\ wallet = Wallet0 /\ booked = 0
        /\ notice = [g \in Guarantors |-> "none"] /\ charged = [g \in Guarantors |-> 0]
        /\ crossed = {} /\ recovery = [r \in Hands |-> P!IdleRun]
    BY DEF CollectionsInit, P!Init
  <2>8. recovery \in [Hands -> [pc : {"idle", "scan", "notify", "found"} \cup P!Executing,
                                seen : SUBSET Guarantors]]
    BY <2>6 DEF P!IdleRun
  <2>7. balance \in Int /\ late \in 0..MaxLate /\ wallet \in 0..Wallet0 /\ booked \in Nat
    BY <2>6, CollectionsAssumption
  <2> QED BY <2>4, <2>5, <2>6, <2>7, <2>8 DEF P!TypeOK, PayerRow
<1> QED BY <1>1, <1>2, PayrollInit, SchedulingInit, CountInit DEF AllTyped, CollectionsInit

LEMMA TypesStep == ASSUME AllTyped, [CollectionsNext]_collectionsVars PROVE AllTyped'
<1>1. part' = part BY DEF CollectionsNext, collectionsVars
<1>2. TypeOK'
  <2>1. CASE Next BY <2>1, MandateTypes DEF AllTyped
  <2>2. CASE UNCHANGED vars
    BY <2>2 DEF AllTyped, TypeOK, vars, mandateVars, moneyVars
  <2> QED BY <2>1, <2>2 DEF CollectionsNext, collectionsVars
<1>3. P!TypeOK'
  <2>1. CASE P!Next BY <2>1, RepaymentTypes DEF AllTyped
  <2>2. CASE UNCHANGED repaymentsVars BY <2>2 DEF AllTyped, P!TypeOK, repaymentsVars
  <2> QED BY <2>1, <2>2 DEF CollectionsNext, collectionsVars
<1>4. PayrollInv'
  BY PayrollStep, PayrollStutter DEF AllTyped, CollectionsNext, collectionsVars
<1>5. SchedulingInv' /\ CountInv'
  <2>1. CASE S!Next BY <2>1, SchedulingStep, CountStep DEF AllTyped
  <2>2. CASE UNCHANGED schedulingVars
    <3>1. CountInv' BY <2>2, CountStill DEF AllTyped, schedulingVars, CountInv
    <3> QED BY <2>2, <3>1, SchedulingStutter DEF AllTyped
  <2> QED BY <2>1, <2>2 DEF CollectionsNext, collectionsVars
<1> QED BY <1>1, <1>2, <1>3, <1>4, <1>5 DEF AllTyped

(* Every part keeps its types, and the scheduler sends no more than it starts runs, for
   any number of processes, mandates, guarantors, members and batches. *)
THEOREM CollectionsTypes == CollectionsSpec => []TypesOK
<1>1. AllTyped => TypesOK
  <2> SUFFICES ASSUME AllTyped PROVE TypesOK OBVIOUS
  <2>1. D!TypeOK
    <3>1. \A b \in Batches : batch[b] \in BatchRow /\ used[b] \in Nat /\ given[b] \in Nat
      BY DEF AllTyped, PayrollInv, PayrollTypes
    <3>2. \A b \in Batches, l \in D!Lines : item[b][l] \in ItemRow
      BY DEF AllTyped, PayrollInv, PayrollTypes, Schedule
    <3>3. \A h \in Hands : hand[h].pc \in DOMAIN D!Handlers \cup {"idle", "approve"}
      <4>1. DOMAIN D!Handlers = Handling BY DEF D!Handlers, Handling
      <4> QED BY <4>1 DEF AllTyped, PayrollInv, PayrollTypes, BatchHandRow
    <3>4. \A b \in Batches : {batch[b].total, batch[b].reconciled, used[b], given[b]} \subseteq Nat
      BY <3>1 DEF BatchRow
    <3> QED BY <3>1, <3>2, <3>3, <3>4
      DEF AllTyped, PayrollInv, PayrollTypes, D!TypeOK, BatchRow, ItemRow, Makers
  <2>2. S!TypeOK
    <3>1. {sent, told, digests, fell, starts} \subseteq 0..MaxStarts
      <4>1. \A x \in Nat, k \in Nat : x + k <= starts => x \in 0..MaxStarts
        BY CollectionsAssumption DEF AllTyped, CountInv
      <4> QED BY <4>1, AtCounted DEF AllTyped, CountInv
    <3> QED BY <3>1 DEF AllTyped, SchedulingInv, NoticeTypes, CountInv, RunType, RunRow, S!TypeOK
  <2>3. part \in {"mandates", "repayments", "deductions", "scheduling"}
    BY CollectionsAssumption DEF AllTyped
  <2> QED BY <2>1, <2>2, <2>3 DEF AllTyped, TypesOK
<1> QED BY <1>1, TypesInit, TypesStep, PTL DEF CollectionsSpec
=============================================================================
