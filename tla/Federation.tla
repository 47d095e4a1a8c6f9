----------------------------- MODULE Federation -----------------------------
(* Lending between cooperatives (services/federation). A cooperative moves its
   reserve into its federation fund and from there into the pool; it borrows from
   the pool, on a lender's stake or on none, and repays. Every move is booked in the
   cooperative's journal and, converted and rounded, in the federation's ledger.

   The operations run inside the transaction of the chat handler that calls them.
   conversation.ts answers an error of fund, contribute, borrow and repay and so
   commits what was written before it; an error of approveloan rolls back. *)
EXTENDS Integers, FiniteSetsExt

CONSTANTS
    Coops,
    Foreign,       \* cooperatives of another currency than the federation's
    Rate,          \* how much of it makes one of the base currency
    Loans,         \* FederationLoan rows that may come to exist
    Hands,         \* concurrent handlers
    Reserve0,      \* what has been allocated to each reserve at the start
    MaxReserve,    \* bound: what may be allocated to each in all
    MaxRepairs,    \* bound: repairs of a reserveFundBalance
    MaxAmount,     \* bound: what one command may name
    MaxInterest,   \* bound: computeInterest, by how long the loan was out
    NoCoop, NoLoan

VARIABLES
    coop,     \* reserve and fund; in its journal federation:receivable (with what of it
              \* is earmarked as :loan_receivable) and :payable; allocated, the sum of its
              \* ReserveAllocations; how often its reserve was repaired
    ledger,   \* FederationPosting: the position of each cooperative
    pool,     \* assets:bank in the ledger
    loan,     \* FederationLoan; what was paid out, and the charges of interest
    hand      \* a handler between its reads and its commit

vars == <<coop, ledger, pool, loan, hand>>

NoLoanYet == [status |-> "none", by |-> NoCoop, lender |-> NoCoop, principal |-> 0,
              repaid |-> 0, out |-> 0, charges |-> 0, interest |-> 0]
Idle == [pc |-> "idle", by |-> NoCoop, lender |-> NoCoop, loan |-> NoLoan, amount |-> 0]

Init ==
    /\ coop = [c \in Coops |-> [reserve |-> Reserve0[c], allocated |-> Reserve0[c], fund |-> 0,
                               receivable |-> 0, payable |-> 0, repairs |-> 0]]
    /\ ledger = [c \in Coops |-> [stake |-> 0, owed |-> 0]]
    /\ pool = 0
    /\ loan = [l \in Loans |-> NoLoanYet]
    /\ hand = [h \in Hands |-> Idle]

\* Math.round(amount * rate): half is rounded up, and a small amount is nothing.
Base(c, a) == IF c \in Foreign THEN (2 * a + Rate) \div (2 * Rate) ELSE a

\* getPosition: what of a lender's stake no loan is backed by yet.
Earmarked(c) ==
    MapThenSumSet(LAMBDA l : Base(loan[l].by, loan[l].principal),
        {l \in Loans : loan[l].lender = c /\ loan[l].status \in {"pending", "active", "defaulted"}})
Available(c) == ledger[c].stake - Earmarked(c)

\* A loan whose row another transaction has written and not committed.
RowLocked(l) == \E h \in Hands : hand[h].pc = "approve" /\ hand[h].loan = l

Take(h, pc, c, k, l, a) ==
    /\ hand[h].pc = "idle"
    /\ hand' = [hand EXCEPT ![h] = [pc |-> pc, by |-> c, lender |-> k, loan |-> l, amount |-> a]]
    /\ UNCHANGED <<coop, ledger, pool, loan>>

Done(h) == hand' = [hand EXCEPT ![h] = Idle]

-----------------------------------------------------------------------------
(* Funding *)

FundFederation(c, a) ==
    /\ coop[c].reserve >= a
    /\ coop' = [coop EXCEPT ![c].reserve = @ - a, ![c].fund = @ + a]
    /\ UNCHANGED <<ledger, pool, loan, hand>>

\* POST /api/admin/funds/reserve/allocate writes a sum of what it read; the amount
\* it read is kept in the handler.
AllocateRead(h, c) ==
    /\ coop[c].allocated < MaxReserve[c]
    /\ Take(h, "allocate", c, NoCoop, NoLoan, coop[c].reserve + 1)

AllocateReserve(h) ==
    /\ hand[h].pc = "allocate" /\ coop[hand[h].by].allocated < MaxReserve[hand[h].by]
    /\ coop' = [coop EXCEPT ![hand[h].by].reserve = hand[h].amount, ![hand[h].by].allocated = @ + 1]
    /\ Done(h)
    /\ UNCHANGED <<ledger, pool, loan>>

\* getFundBalances, of the reports and of the reconciliation, repairs a balance that
\* is off the sum of the allocations by more than one.
GetFundBalances(c) ==
    /\ coop[c].reserve - coop[c].allocated \notin -1..1
    /\ coop[c].repairs < MaxRepairs
    /\ coop' = [coop EXCEPT ![c].reserve = coop[c].allocated, ![c].repairs = @ + 1]
    /\ UNCHANGED <<ledger, pool, loan, hand>>

\* An amount that converts to nothing makes an unbalanced entry: the error comes
\* after the debit of the fund, and is answered in the chat.
Contribute(c, a) ==
    /\ coop[c].fund >= a
    /\ coop' = [coop EXCEPT ![c].fund = @ - a, ![c].receivable = @ + a]
    /\ ledger' = [ledger EXCEPT ![c].stake = @ + Base(c, a)]
    /\ pool' = pool + Base(c, a)
    /\ UNCHANGED <<loan, hand>>

-----------------------------------------------------------------------------
(* Borrowing *)

\* The lender's stake is read before the loan is written. An applicant may name
\* any member cooperative, and nobody asks it.
BorrowRead(h, c, k, a) ==
    /\ k # NoCoop => Available(k) >= Base(c, a)
    /\ Take(h, "borrow", c, k, NoLoan, a)

Borrow(h, l) ==
    /\ hand[h].pc = "borrow"
    /\ loan[l].status = "none"
    /\ loan' = IF Base(hand[h].by, hand[h].amount) > pool THEN loan
               ELSE [loan EXCEPT ![l] = [NoLoanYet EXCEPT !.status = "pending", !.by = hand[h].by,
                                             !.lender = hand[h].lender, !.principal = hand[h].amount]]
    /\ Done(h)
    /\ UNCHANGED <<coop, ledger, pool>>

\* updateMany ... where status is pending: the first of two approvals.
ApprovableAny(l) == loan[l].status \in {"pending", "active"}
Approvable(l) == loan[l].status = "pending"

ApproveRead(h, l) ==
    /\ Approvable(l) /\ ~RowLocked(l)
    /\ Base(loan[l].by, loan[l].principal) \in 1..pool
    /\ Take(h, "approve", loan[l].by, NoCoop, l, loan[l].principal)

ApproveLoan(h) ==
    /\ hand[h].pc = "approve"
    /\ LET c == hand[h].by
           a == hand[h].amount
       IN  /\ coop' = [coop EXCEPT ![c].fund = @ + a, ![c].payable = @ + a]
           /\ ledger' = [ledger EXCEPT ![c].owed = @ + Base(c, a)]
           /\ pool' = pool - Base(c, a)
           /\ loan' = [loan EXCEPT ![hand[h].loan].status = "active", ![hand[h].loan].out = @ + a]
    /\ Done(h)

-----------------------------------------------------------------------------
(* Repaying *)

RepayRead(h, l, a) ==
    /\ loan[l].status = "active"
    /\ Take(h, "repay", loan[l].by, NoCoop, l, a)

\* The repayment that closes the loan charges interest, as far as the fund goes.
ClosesAgain(l, a) == loan[l].repaid + a >= loan[l].principal
Closes(l, a) == loan[l].status = "active" /\ loan[l].repaid + a >= loan[l].principal

\* The first write locks the cooperative's row: repayments follow each other. One
\* that found the loan active may come second, when it is repaid or in default.
Repay(h) ==
    /\ hand[h].pc = "repay" /\ ~RowLocked(hand[h].loan)
    /\ LET l == hand[h].loan
           c == hand[h].by
           a == hand[h].amount
       IN  \/ coop[c].fund < a /\ UNCHANGED <<coop, ledger, pool, loan>>
           \/ /\ coop[c].fund >= a /\ Base(c, a) = 0
              /\ coop' = [coop EXCEPT ![c].fund = @ - a, ![c].payable = @ - a]
              /\ UNCHANGED <<ledger, pool, loan>>
           \/ /\ coop[c].fund >= a /\ Base(c, a) > 0
              /\ \E due \in IF Closes(l, a) THEN 0..MaxInterest ELSE {0} :
                    LET i == Min({due, coop[c].fund - a})
                    IN  /\ coop' = [coop EXCEPT ![c].fund = @ - a - i, ![c].payable = @ - a - i]
                        /\ ledger' = [ledger EXCEPT ![c].owed = @ - Base(c, a)]
                        /\ pool' = pool + Base(c, a) + Base(c, i)
                        /\ loan' = [loan EXCEPT ![l].repaid = @ + a, ![l].interest = @ + i,
                              ![l].charges = @ + (IF i > 0 THEN 1 ELSE 0),
                              ![l].status = IF Closes(l, a) /\ @ = "active" THEN "repaid" ELSE @]
    /\ Done(h)

\* federation default <id>, of a loan in any state.
MarkDefaulted(l) ==
    /\ loan[l].status # "none" /\ ~RowLocked(l)
    /\ loan' = [loan EXCEPT ![l].status = "defaulted"]
    /\ UNCHANGED <<coop, ledger, pool, hand>>

\* The handler's transaction fails or times out: nothing of it stays.
RollBack(h) ==
    /\ hand[h].pc # "idle" /\ Done(h)
    /\ UNCHANGED <<coop, ledger, pool, loan>>

Next ==
    \/ \E c \in Coops, a \in 1..MaxAmount : FundFederation(c, a) \/ Contribute(c, a)
    \/ \E h \in Hands : ApproveLoan(h) \/ Repay(h) \/ RollBack(h) \/ AllocateReserve(h)
    \/ \E h \in Hands, c \in Coops : AllocateRead(h, c)
    \/ \E c \in Coops : GetFundBalances(c)
    \/ \E h \in Hands, c \in Coops, k \in Coops \cup {NoCoop}, a \in 1..MaxAmount : BorrowRead(h, c, k, a)
    \/ \E h \in Hands, l \in Loans : Borrow(h, l) \/ ApproveRead(h, l)
    \/ \E h \in Hands, l \in Loans, a \in 1..MaxAmount : RepayRead(h, l, a)
    \/ \E l \in Loans : MarkDefaulted(l)

-----------------------------------------------------------------------------
(* Properties *)

TypeOK ==
    /\ \A c \in Coops : coop[c].reserve \in Nat /\ coop[c].fund \in Nat
    /\ \A l \in Loans : loan[l].status \in {"none", "pending", "active", "repaid", "defaulted"}
    /\ \A h \in Hands : hand[h].pc \in {"idle", "allocate", "borrow", "approve", "repay"}

\* A loan is paid out once, and never before it is approved; interest is charged
\* once, by the repayment that closes the loan.
LentOnce ==
    \A l \in Loans :
        /\ loan[l].out \in {0, loan[l].principal}
        /\ loan[l].status \in {"active", "repaid"} => loan[l].out = loan[l].principal
        /\ loan[l].repaid > 0 => loan[l].out > 0
        /\ loan[l].status = "repaid" => loan[l].repaid >= loan[l].principal
        /\ loan[l].charges <= 1
        /\ loan[l].charges = 1 => loan[l].repaid >= loan[l].principal

\* Both books tell the same of a cooperative in the base currency: its stake, and
\* what it owes but for the interest it has paid.
BooksAgree ==
    \A c \in Coops \ Foreign :
        /\ ledger[c].stake = coop[c].receivable
        /\ ledger[c].owed = coop[c].payable
              + SumFunction([l \in Loans |-> IF loan[l].by = c THEN loan[l].interest ELSE 0])

\* index.ts: whatever approvals, repayments and defaults cross, each loan is lent
\* once and the journals of the cooperatives agree with the federation's ledger.
FederationAddsUp == LentOnce /\ BooksAgree

-----------------------------------------------------------------------------
(* What the repository's words say of this code, and the code does not do. *)

\* federation/index.ts:67: "so the pool can never lend out more cash than it
\* actually holds". Two loans are approved from the same read.
PoolCovers == pool >= 0

\* federation/index.ts:12: "a `false` rolls the whole surrounding transaction back".
\* The chat answers the error, and the debit of the fund is committed.
NothingHalfBooked ==
    \A c \in Coops : coop[c].receivable > 0 => ledger[c].stake > 0

\* federation/index.ts:103: "Guarded so the reserve can never go negative". The
\* repair gives back what was moved into the fund, which has no allocation.
ReserveMovedOnce ==
    \A c \in Coops : coop[c].fund + coop[c].receivable - coop[c].payable <= coop[c].allocated
=============================================================================
