----------------------------- MODULE Deductions -----------------------------
(* Payroll deduction batches (services/deductions.ts, services/deduction-ingest.ts):
   an admin builds a batch and submits it, a super admin records the employer's
   cheque, reconciles it and approves, and what was short is rolled into a
   draft. Handlers are transactions that read in one step and write in another. *)
EXTENDS Integers, FiniteSets, Functions

CONSTANTS
    Admins, Supers,  \* who builds; Supers also reconcile and approve
    Members,
    Batches,         \* 1..n, in the order in which they are made
    Hands,           \* concurrent handlers
    Saving,          \* Member.monthlyDeduction
    Installment, Balance0,
    Amounts,         \* what the employer may pay
    Nobody

VARIABLES
    batch,     \* DeductionBatch: status, createdById, totalAmount, reconciledAmount
    item,      \* DeductionItem by batch, member and kind: status and amount
    short,     \* DeductionShortfall: open amount by batch and member
    waived,    \* members with a DeductionWaiver for the period
    loan,      \* balance of the member's loan, 0 when it is paid
    hand,      \* handlers between read and commit, with what they read
    used,      \* history: what an approval took of the reconciled money, by batch
    given,     \* history: what of it reached a wallet or a loan, by batch
    checker,   \* history: who approved the batch
    overtaken  \* history: approved batches that a write based on an older read reopened

vars == <<batch, item, short, waived, loan, hand, used, given, checker, overtaken>>
history == <<used, given, checker, overtaken>>

Kinds == {"savings", "loan"}
Lines == Members \X Kinds
NoItem == [status |-> "none", amount |-> 0]
NoBatch == [status |-> "none", by |-> Nobody, total |-> 0, reconciled |-> 0]
IdleHand == [pc |-> "idle", who |-> Nobody, b |-> 0, amount |-> 0,
             pending |-> {}, budget |-> 0]

Init ==
    /\ batch = [b \in Batches |-> NoBatch]
    /\ item = [b \in Batches |-> [l \in Lines |-> NoItem]]
    /\ short = [b \in Batches |-> [m \in Members |-> 0]]
    /\ waived = {}
    /\ loan = [m \in Members |-> Balance0]
    /\ hand = [h \in Hands |-> IdleHand]
    /\ used = [b \in Batches |-> 0]
    /\ given = [b \in Batches |-> 0]
    /\ checker = [b \in Batches |-> Nobody]
    /\ overtaken = {}

Sum(f, lines) == SumFunctionOnSet(f, lines)
Smaller(a, b) == IF a <= b THEN a ELSE b
Minus(a, b) == IF a >= b THEN a - b ELSE 0
Amount(l) == IF l[2] = "savings" THEN Saving ELSE Smaller(Installment, loan[l[1]])
Unmade(b) == batch[b].status = "none" /\ \A c \in Batches : c < b => batch[c].status # "none"

-----------------------------------------------------------------------------
(* Building and submitting; nothing asks whether the period has a batch already *)

\* buildBatch, and buildBatchFromRows for an uploaded schedule: "savers" have agreed to a
\* monthly deduction, or are in the file with an amount.
BuildBatch(a, b) ==
    /\ Unmade(b)
    /\ \E savers \in SUBSET Members : LET
        due == {l \in Lines : l[1] \notin waived /\ Amount(l) > 0}
        lines == {l \in due : l[2] = "savings" => l[1] \in savers} IN
        /\ lines # {}
        /\ item' = [item EXCEPT ![b] = [l \in Lines |->
                IF l \in lines THEN [status |-> "pending", amount |-> Amount(l)] ELSE NoItem]]
        /\ batch' = [batch EXCEPT ![b] =
                [status |-> "draft", by |-> a, reconciled |-> 0,
                 total |-> Sum([l \in lines |-> Amount(l)], lines)]]
    /\ UNCHANGED <<short, waived, loan, hand, history>>

WaiveMonth(m) ==
    /\ m \notin waived
    /\ waived' = waived \cup {m}
    /\ UNCHANGED <<batch, item, short, loan, hand, history>>

\* Read, then written without a guard.
Step(from, to) == [from |-> from, to |-> to]
Handlers ==
    [submit    |-> Step({"draft"}, "submitted"),
     cheque    |-> Step({"submitted"}, "cheque_received"),
     reconcile |-> Step({"cheque_received", "reconciled", "partially_approved"}, "reconciled"),
     credit    |-> Step({"cheque_received"}, "reconciled"),
     reject    |-> Step({"submitted"}, "rejected")]

Begin(h, pc, s, b, amount) ==
    /\ hand' = [hand EXCEPT ![h] = [IdleHand EXCEPT !.pc = pc, !.who = s, !.b = b,
                                                    !.amount = amount]]
    /\ UNCHANGED <<batch, item, short, waived, loan, history>>

\* One message of a person at a time.
Free(h, s) == hand[h].pc = "idle" /\ \A k \in Hands : hand[k].who # s

End(h) == hand' = [hand EXCEPT ![h] = IdleHand]

ReadBatch(h, pc, s, b) ==
    /\ batch[b].status \in Handlers[pc].from
    /\ IF pc = "submit" THEN s = batch[b].by ELSE s \in Supers
    /\ \E amount \in IF pc = "reconcile" THEN Amounts ELSE {0} : Begin(h, pc, s, b, amount)

\* reconcileFromWebhook and reconcileFromStatement: a credit of exactly the total.
ReadCredit(h, b) ==
    /\ hand[h].pc = "idle"
    /\ batch[b].status \in Handlers.credit.from
    /\ Begin(h, "credit", Nobody, b, batch[b].total)

\* submitBatch, recordCheque, reconcileBatch, reconcileFromWebhook, rejectBatch
WriteBatch(h) ==
    /\ hand[h].pc \in DOMAIN Handlers
    /\ LET pc == hand[h].pc
           b == hand[h].b IN
        /\ batch' = [batch EXCEPT ![b].status = Handlers[pc].to,
                                  ![b].reconciled = IF pc \in {"reconcile", "credit"}
                                                    THEN hand[h].amount ELSE @]
        /\ overtaken' = IF batch[b].status = "approved" THEN overtaken \cup {b} ELSE overtaken
    /\ End(h)
    /\ UNCHANGED <<item, short, waived, loan, used, given, checker>>

\* Who was short: one member gets it all, or it is waived.
AttributeShortfall(b, m) ==
    /\ Minus(batch[b].total, batch[b].reconciled) > 0
    /\ batch[b].status = "reconciled"
    /\ \E amount \in {0, Minus(batch[b].total, batch[b].reconciled)} :
        short' = [short EXCEPT ![b][m] = amount]
    /\ UNCHANGED <<batch, item, waived, loan, hand, history>>

-----------------------------------------------------------------------------
(* Approval *)

Pending(b) == {l \in Lines : item[b][l].status = "pending"}
Budget(b) ==
    LET credited == {l \in Lines : item[b][l].status = "credited"} IN
    Minus(batch[b].reconciled, Sum([l \in credited |-> item[b][l].amount], credited))

ReadApproval(h, s, b) ==
    /\ s \in Supers
    /\ batch[b].status \in {"reconciled", "partially_approved"}
    /\ s # batch[b].by
    /\ Pending(b) # {} => Budget(b) > 0
    /\ hand' = [hand EXCEPT ![h] = [IdleHand EXCEPT !.pc = "approve", !.who = s, !.b = b,
                        !.pending = Pending(b), !.budget = Budget(b)]]
    /\ UNCHANGED <<batch, item, short, waived, loan, history>>

\* Mutant: a batch that was approved meanwhile is claimed again.
ClaimableAgain(b) == batch[b].status \in {"reconciled", "partially_approved", "approved"}

Claimable(b) == batch[b].status \in {"reconciled", "partially_approved"}

(* The money goes to the members in turn; what a member was short of is left out;
   his loan comes before his savings. *)
MemberTotal(b, m) == item[b][<<m, "savings">>].amount + item[b][<<m, "loan">>].amount

Portions(b, budget, order) ==
    LET want == [i \in DOMAIN order |-> Minus(MemberTotal(b, order[i]), short[b][order[i]])]
        left(i) == Minus(budget, Sum(want, 1..i))
        share(m) == LET i == CHOOSE i \in DOMAIN order : order[i] = m IN left(i - 1) - left(i)
        toLoan(m) == Smaller(item[b][<<m, "loan">>].amount, share(m))
    IN  [l \in Lines |-> IF l[2] = "loan" THEN toLoan(l[1])
                         ELSE Smaller(item[b][l].amount, share(l[1]) - toLoan(l[1]))]

Orders == {f \in [1..Cardinality(Members) -> Members] : {f[i] : i \in DOMAIN f} = Members}

\* Mutant: the loan is decremented by the whole portion.
AppliedWhole(l, portion) == portion

\* An item on a loan is credited for what the loan still takes of it.
Applied(l, portion) == IF l[2] = "loan" THEN Smaller(portion, loan[l[1]]) ELSE portion

\* What is left of an item goes to a draft, or to a new batch of the same maker.
Draft(b, c) ==
    \/ batch[c].status = "draft"
    \/ (~\E d \in Batches : batch[d].status = "draft") /\ Unmade(c)

(* A line that another approval has settled since it was read may be settled again
   only if it is a loan's and fully paid: a savings credit has a unique reference and
   rollForwardItem wants a pending item, so either throws. *)
Repeatable(b, pending, rolled) ==
    \A l \in pending : item[b][l].status # "pending" => l[2] = "loan" /\ l \notin rolled

(* approveBatch: claim, credits, roll-overs and the final status. *)
ApproveBatch(h) ==
    /\ hand[h].pc = "approve"
    /\ LET b == hand[h].b IN
        /\ Claimable(b)
        /\ hand[h].pending # {}
        /\ \E c \in Batches, order \in Orders :
            LET portion == Portions(b, hand[h].budget, order)
                rest == [l \in Lines |-> IF l \in hand[h].pending
                                         THEN item[b][l].amount - portion[l] ELSE 0]
                rolled == {l \in Lines : rest[l] > 0}
                applied == [l \in hand[h].pending |-> Applied(l, portion[l])] IN
            /\ Repeatable(b, hand[h].pending, rolled)
            /\ IF rolled = {} THEN c = b ELSE c # b /\ Draft(b, c)
            /\ item' = [item EXCEPT
                    ![b] = [l \in Lines |->
                        IF l \in rolled THEN [item[b][l] EXCEPT !.status = "rolled"]
                        ELSE IF l \in hand[h].pending
                             THEN [item[b][l] EXCEPT !.status = "credited"] ELSE item[b][l]],
                    ![c] = [l \in Lines |->
                        IF l \in rolled
                        THEN [status |-> "pending", amount |-> item[c][l].amount + rest[l]]
                        ELSE IF c = b /\ l \in hand[h].pending
                             THEN [item[b][l] EXCEPT !.status = "credited"] ELSE item[c][l]]]
            /\ batch' = [batch EXCEPT
                    ![c] = IF rolled = {} THEN @
                           ELSE [status |-> "draft", reconciled |-> 0,
                                 by |-> IF @.by = Nobody THEN batch[b].by ELSE @.by,
                                 total |-> @.total + Sum(rest, rolled)],
                    ![b].status = "approved"]
            /\ loan' = [m \in Members |-> loan[m] -
                    IF <<m, "loan">> \in hand[h].pending
                    THEN applied[<<m, "loan">>] ELSE 0]
            /\ used' = [used EXCEPT ![b] = @ + Sum(portion, hand[h].pending)]
            /\ given' = [given EXCEPT ![b] = @ + Sum(applied, hand[h].pending)]
            /\ short' = [short EXCEPT ![b] = [m \in Members |->
                    IF \E l \in rolled : l[1] = m THEN 0 ELSE @[m]]]
        /\ checker' = [checker EXCEPT ![b] = hand[h].who]
    /\ End(h)
    /\ UNCHANGED <<waived, overtaken>>

\* The batch was claimed by another approval, the transaction failed, or nothing is
\* pending in it.
ApproveNothing(h) ==
    /\ hand[h].pc = "approve"
    /\ \/ UNCHANGED batch
       \/ /\ Claimable(hand[h].b) /\ hand[h].pending = {}
          /\ batch' = [batch EXCEPT ![hand[h].b].status = "approved"]
    /\ End(h)
    /\ UNCHANGED <<item, short, waived, loan, history>>

\* The member repays the loan by himself.
RepaidElsewhere(m) ==
    /\ loan[m] > 0
    /\ loan' = [loan EXCEPT ![m] = @ - Smaller(Installment, @)]
    /\ UNCHANGED <<batch, item, short, waived, hand, history>>

Next ==
    \/ \E a \in Admins \cup Supers, b \in Batches : BuildBatch(a, b)
    \/ \E m \in Members : WaiveMonth(m) \/ RepaidElsewhere(m)
    \/ \E h \in Hands, s \in Admins \cup Supers :
        /\ Free(h, s)
        /\ \/ \E pc \in DOMAIN Handlers \ {"credit"}, b \in Batches : ReadBatch(h, pc, s, b)
           \/ \E b \in Batches : ReadApproval(h, s, b)
    \/ \E h \in Hands : WriteBatch(h) \/ ApproveBatch(h) \/ ApproveNothing(h)
    \/ \E h \in Hands, b \in Batches : ReadCredit(h, b)
    \/ \E b \in Batches, m \in Members : AttributeShortfall(b, m)

Spec == Init /\ [][Next]_vars

-----------------------------------------------------------------------------
(* Properties *)

BatchStatus == {"none", "draft", "submitted", "cheque_received", "reconciled", "approved", "rejected"}

TypeOK ==
    /\ \A b \in Batches : /\ batch[b].status \in BatchStatus
                          /\ batch[b].by \in Admins \cup Supers \cup {Nobody}
                          /\ {batch[b].total, batch[b].reconciled, used[b], given[b]} \subseteq Nat
    /\ \A b \in Batches, l \in Lines : item[b][l].status \in {"none", "pending", "credited", "rolled"}
    /\ waived \subseteq Members /\ overtaken \subseteq Batches /\ loan \in [Members -> 0..Balance0]
    /\ \A h \in Hands : hand[h].pc \in DOMAIN Handlers \cup {"idle", "approve"}

(* A batch is credited at most once, by a super admin other than its maker, and never
   with more than its items: two approvals that race pay one schedule, unless a status
   written from an older read has reopened the batch between them. *)
BatchCreditedOnce ==
    \A b \in Batches :
        /\ b \notin overtaken => used[b] <= batch[b].total
        /\ given[b] <= used[b]
        /\ used[b] > 0 => checker[b] \notin {Nobody, batch[b].by}
        /\ batch[b].status = "approved" => Pending(b) = {}

(* deductions.ts, approveBatch: what the employer paid for an item reaches the member:
   nothing of the reconciled money is used up without a credit. *)
MoneyReachesMembers == \A b \in Batches : given[b] = used[b]

\* deductions.ts, rejectBatch: "rejected": no money of a rejected batch is credited.
RejectedStays == [][\A b \in Batches : batch[b].status = "rejected" => batch'[b].status = "rejected"]_vars
=============================================================================
