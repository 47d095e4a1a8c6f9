-------------------------------- MODULE Shop --------------------------------
(* The cooperative's shop (services/shop.ts): a member orders an item, an admin
   approves and dispatches it, and the dispatch makes an interest-free loan that
   the daily job, the member's "repay" (services/loans.ts) or both pay back.

   One item. Chat handlers are transactions: a step that reads and a step that
   commits. The job commits every statement on its own and may die in between. *)
EXTENDS Integers, FiniteSetsExt

CONSTANTS
    Members,
    Orders,       \* ShopOrder rows that may come to exist
    Clerks,       \* concurrent handlers of admins
    Stock0,       \* stockQty
    Price,        \* cashPrice
    Installment,  \* monthlyKobo
    InterestDue,  \* calculateInterestPortion of a balance, which no loan of the shop is spared
    Wallet0,
    MaxDays,      \* bound: due dates that come
    NoOne, NoOrder

VARIABLES
    stock,     \* ShopItem.stockQty
    listed,    \* ShopItem.active
    order,     \* ShopOrder: status and member; the Loan of its dispatch, with the day paid
    loans,     \* history: loans made for an order
    portfolio, \* debits of assets:loan_portfolio in the journal less its credits
    wallet,
    clerk, payer, \* handlers of admins, and repayments of members, before their commit
    job,       \* runShopInstallments
    days,
    corrected  \* history: a repayment has found a balance below zero and put it back up

vars == <<stock, listed, order, loans, portfolio, wallet, clerk, payer, job, days, corrected>>
goods == <<stock, listed, loans>>
money == <<portfolio, wallet, payer, job, days, corrected>>

NoLoan == "none"
Unplaced == [status |-> "none", by |-> NoOne, loan |-> NoLoan, balance |-> 0, due |-> FALSE, paidToday |-> FALSE]
Idle == [pc |-> "idle", for |-> NoOrder, amount |-> 0, full |-> FALSE]

Init ==
    /\ stock = Stock0 /\ listed = TRUE
    /\ order = [o \in Orders |-> Unplaced]
    /\ loans = [o \in Orders |-> 0]
    /\ portfolio = 0
    /\ wallet = [m \in Members |-> Wallet0]
    /\ clerk = [c \in Clerks |-> Idle]
    /\ payer = [m \in Members |-> Idle]
    /\ job = Idle
    /\ days = 0 /\ corrected = FALSE

-----------------------------------------------------------------------------
(* Orders *)

InProgress(o) == order[o].status \in {"pending", "approved", "dispatched"}
InArrears(o) == order[o].loan = "disbursed" /\ order[o].balance > 0 /\ order[o].due

\* shopEligibility, with the half of the savings above the price.
Eligible(m) == ~\E o \in Orders : order[o].by = m /\ (InProgress(o) \/ InArrears(o))

\* The order is placed on what the item was; only a dispatch takes stock.
CreateShopOrder(m, o) ==
    /\ order[o].status = "none" /\ payer[m] = Idle
    /\ listed /\ stock > 0 /\ Eligible(m)
    /\ order' = [order EXCEPT ![o].status = "pending", ![o].by = m]
    /\ UNCHANGED <<goods, money, clerk>>

CloseShopItem == listed /\ listed' = FALSE /\ UNCHANGED <<stock, order, loans, money, clerk>>

ClerkRead(c, pc, o, status) ==
    /\ clerk[c] = Idle /\ order[o].status = status
    /\ clerk' = [clerk EXCEPT ![c] = [Idle EXCEPT !.pc = pc, !.for = o]]
    /\ UNCHANGED <<goods, money, order>>

Decides(c, pc) == clerk[c].pc = pc /\ clerk' = [clerk EXCEPT ![c] = Idle]

\* Approval and rejection update the row whatever it has become.
ApproveShopOrder(c) ==
    /\ Decides(c, "approve")
    /\ order' = [order EXCEPT ![clerk[c].for].status = "approved"]
    /\ UNCHANGED <<goods, money>>

RejectShopOrder(c) ==
    /\ Decides(c, "reject")
    /\ order' = [order EXCEPT ![clerk[c].for].status = "rejected"]
    /\ UNCHANGED <<goods, money>>

\* Mutant: the entry has no reference of the order.
DispatchedAny(o) == FALSE

\* The journal has an entry shop-dispatch:<order>: a second one fails, and with it
\* the transaction.
Dispatched(o) == loans[o] > 0

DispatchShopOrder(c) ==
    /\ Decides(c, "dispatch")
    /\ LET o == clerk[c].for
       IN  IF stock > 0 /\ ~Dispatched(o)
           THEN /\ stock' = stock - 1
                /\ order' = [order EXCEPT ![o].status = "dispatched", ![o].loan = "disbursed",
                                          ![o].balance = Price, ![o].due = FALSE]
                /\ loans' = [loans EXCEPT ![o] = @ + 1]
                /\ portfolio' = portfolio + Price
           ELSE UNCHANGED <<stock, order, loans, portfolio>>
    /\ UNCHANGED <<listed, wallet, payer, job, days, corrected>>

-----------------------------------------------------------------------------
(* The days: a due date comes; what was paid is of another day. *)

DueDateComes(o) ==
    /\ days < MaxDays /\ order[o].loan = "disbursed" /\ ~order[o].due
    /\ days' = days + 1
    /\ order' = [order EXCEPT ![o].due = TRUE, ![o].paidToday = FALSE]
    /\ UNCHANGED <<goods, clerk, portfolio, wallet, payer, job, corrected>>

NextDay ==
    /\ days < MaxDays /\ days' = days + 1
    /\ order' = [o \in Orders |-> [order[o] EXCEPT !.paidToday = FALSE]]
    /\ UNCHANGED <<goods, clerk, portfolio, wallet, payer, job, corrected>>

Smaller(a, b) == IF a <= b THEN a ELSE b

\* runShopInstallments takes a loan that is due and has no payment of today.
JobTakes(o) ==
    LET owed == Smaller(Installment, order[o].balance)
        has == wallet[order[o].by]
    IN  /\ job.pc = "idle" /\ InArrears(o) /\ ~order[o].paidToday
        /\ job' = [pc |-> "debit", for |-> o, amount |-> Smaller(owed, has), full |-> has >= owed]
        /\ UNCHANGED <<goods, clerk, order, portfolio, wallet, payer, days, corrected>>

\* The debit is guarded by the wallet, the loan's decrement by nothing. The entry is
\* a recordLedger of type balance_sheet, which DEBITS the portfolio (ledger.ts:76-82)
\* as the one of the dispatch does.
JobDebits ==
    /\ job.pc = "debit"
    /\ LET o == job.for
           m == order[o].by
           n == job.amount
       IN  IF n > 0 /\ wallet[m] >= n
           THEN /\ wallet' = [wallet EXCEPT ![m] = @ - n]
                /\ order' = [order EXCEPT ![o].balance = @ - n, ![o].paidToday = TRUE]
                /\ portfolio' = portfolio + n
           ELSE UNCHANGED <<wallet, order, portfolio>>
    /\ job' = [job EXCEPT !.pc = "settle"]
    /\ UNCHANGED <<goods, clerk, payer, days, corrected>>

\* The balance is read again: the loan is paid, or its date moves.
JobSettles ==
    /\ job.pc = "settle"
    /\ LET o == job.for
       IN  IF order[o].balance <= 0
           THEN order' = [order EXCEPT ![o].loan = "paid"] /\ job' = [job EXCEPT !.pc = "complete"]
           ELSE order' = [order EXCEPT ![o].due = FALSE] /\ job' = Idle
    /\ UNCHANGED <<goods, clerk, portfolio, wallet, payer, days, corrected>>

JobCompletes ==
    /\ job.pc = "complete" /\ job' = Idle
    /\ order' = [order EXCEPT ![job.for].status = "completed"]
    /\ UNCHANGED <<goods, clerk, portfolio, wallet, payer, days, corrected>>

JobDies == job # Idle /\ job' = Idle /\ UNCHANGED <<goods, clerk, order, portfolio, wallet, payer, days, corrected>>

-----------------------------------------------------------------------------
(* repayLoan of a member: an installment, of which the interest is not principal. *)

Principal(balance) == Smaller(Installment - Smaller(InterestDue, balance), balance)

RepayRead(m, o) ==
    /\ payer[m] = Idle /\ order[o].by = m /\ order[o].loan = "disbursed"
    /\ wallet[m] >= Installment
    /\ payer' = [payer EXCEPT ![m] = [Idle EXCEPT !.pc = "repay", !.for = o,
                                                  !.amount = Principal(order[o].balance)]]
    /\ UNCHANGED <<goods, clerk, order, portfolio, wallet, job, days, corrected>>

\* Nothing of it looks for a shop order. The principal is booked as the job books it.
RepayLoan(m) ==
    /\ payer[m].pc = "repay"
    /\ LET o == payer[m].for
           left == order[o].balance - payer[m].amount
       IN  IF wallet[m] >= Installment
           THEN /\ wallet' = [wallet EXCEPT ![m] = @ - Installment]
                /\ order' = [order EXCEPT ![o].balance = left, ![o].paidToday = TRUE, ![o].due = FALSE,
                                          ![o].loan = IF left <= 0 THEN "paid" ELSE @]
                /\ portfolio' = IF payer[m].amount > 0 THEN portfolio + payer[m].amount ELSE portfolio
                /\ corrected' = (corrected \/ payer[m].amount < 0)
           ELSE UNCHANGED <<wallet, order, portfolio, corrected>>
    /\ payer' = [payer EXCEPT ![m] = Idle]
    /\ UNCHANGED <<goods, clerk, job, days>>

Next ==
    \/ \E m \in Members, o \in Orders : CreateShopOrder(m, o) \/ RepayRead(m, o)
    \/ \E m \in Members : RepayLoan(m)
    \/ CloseShopItem
    \/ \E c \in Clerks, o \in Orders :
          \/ ClerkRead(c, "approve", o, "pending")
          \/ ClerkRead(c, "reject", o, "pending")
          \/ ClerkRead(c, "dispatch", o, "approved")
    \/ \E c \in Clerks : ApproveShopOrder(c) \/ RejectShopOrder(c) \/ DispatchShopOrder(c)
    \/ \E o \in Orders : DueDateComes(o) \/ JobTakes(o)
    \/ NextDay \/ JobDebits \/ JobSettles \/ JobCompletes \/ JobDies

Spec == Init /\ [][Next]_vars

-----------------------------------------------------------------------------
(* Properties *)

\* The records keep to the columns of the schema, and stock and wallets are not negative.
TypeOK ==
    /\ stock \in Nat /\ wallet \in [Members -> Nat]
    /\ order \in [Orders -> [status : {"none", "pending", "approved", "dispatched", "completed", "rejected"},
                             by : Members \cup {NoOne}, loan : {"none", "disbursed", "paid"},
                             balance : Int, due : BOOLEAN, paidToday : BOOLEAN]]

\* What the journal should hold of the loans of the shop when a dispatch and every
\* repayment is an entry of its own that debits the portfolio.
Debits == 2 * Price * SumFunction(loans) - SumFunction([o \in Orders |-> order[o].balance])

(* shop.ts:307: "shop-dispatch:<order>". Stale approvals put a dispatched order
   back to approved, and two admins may dispatch one order: still every order
   takes one unit and makes one loan. And whatever the job and the member pay at
   the same time, the entries of the journal are the prices of the loans and what
   was taken off them since. Both may pay one installment too many, and the balance
   is below zero: the repayment that then puts it back up (loans.ts:855) has no
   entry, and from there on the entries are no less than that. *)
GoodsMatchLoans ==
    /\ stock + SumFunction(loans) = Stock0
    /\ \A o \in Orders : loans[o] = (IF order[o].loan = NoLoan THEN 0 ELSE 1)
    /\ portfolio >= Debits
    /\ ~corrected => portfolio = Debits

(* loans.ts:904: "It reduces the outstanding loan asset on the balance sheet". Not
   so: a repayment debits the asset like the loan did, and the journal's portfolio
   grows with what is paid back. *)
PortfolioIsOwed == ~corrected => portfolio = SumFunction([o \in Orders |-> order[o].balance])

(* Design of the shop: "Completion: balance === 0 -> loan paid, order completed".
   repay pays the loan and leaves the order, and its member may not order again. *)
PaidIsCompleted ==
    \A o \in Orders : order[o].loan = "paid" /\ job = Idle => order[o].status = "completed"
=============================================================================
