------------------------------- MODULE Books -------------------------------
(* The books of a cooperative beside its wallets: cash taken by a field collector
   (services/thrift-collector.ts), shares (shares.ts), loans paid out and repaid as
   the journal sees them (ledger.ts), the monthly loan-loss provision
   (provisioning.ts) and the reconciliation of wallets with the bank account
   (reconciliation.ts), which reads one table after the other.

   A loan is repaid without interest here; Repayments has it. *)
EXTENDS Integers, FiniteSetsExt

CONSTANTS
    Members, Loans,
    Hands,        \* concurrent handlers
    MaxWallet,    \* bound: kobo on a wallet
    MaxBank,      \* bound: deposits
    MaxCash,      \* bound: collections of cash
    MaxShares,    \* maxShares of the cooperative; a share costs 1
    Principal,
    Periods,      \* the months that may come, from 1
    NoMember

VARIABLES
    wallet,
    shares,     \* ShareAccount.shares; totalPaid is the same number
    journal,    \* balances of the accounts
    cash,       \* what collectors have taken
    loan,       \* status, balance, and the bucket of its age
    month,
    run,        \* ProvisionRun.totalProvision of a month; -1 if there is none
    allowance,  \* loanLossProvisionBalance
    hand,       \* a handler between its reads and its commit
    report      \* the last ReconciliationLog

vars == <<wallet, shares, journal, cash, loan, month, run, allowance, hand, report>>

NoLoan == [status |-> "none", balance |-> 0, bucket |-> 0]
Idle == [pc |-> "idle", who |-> NoMember, month |-> 0, sum |-> 0]

Init ==
    /\ wallet = [m \in Members |-> 0]
    /\ shares = [m \in Members |-> 0]
    /\ journal = [bank |-> 0, wallets |-> 0, portfolio |-> 0, income |-> 0, capital |-> 0,
                  loss |-> 0, provision |-> 0]
    /\ cash = 0
    /\ loan = [l \in Loans |-> NoLoan]
    /\ month = 1
    /\ run = [p \in Periods |-> -1]
    /\ allowance = 0
    /\ hand = [h \in Hands |-> Idle]
    /\ report = "none"

Take(h, pc, m, p, n) ==
    /\ hand[h].pc = "idle"
    /\ hand' = [hand EXCEPT ![h] = [pc |-> pc, who |-> m, month |-> p, sum |-> n]]
    /\ UNCHANGED <<wallet, shares, journal, cash, loan, month, run, allowance, report>>

Done(h) == hand' = [hand EXCEPT ![h] = Idle]

\* Accounts that grow by debits; the others grow by credits.
Assets == {"bank", "portfolio", "loss"}

\* postJournal with two legs.
PostJournal(debit, credit, n) ==
    journal' = [journal EXCEPT ![debit] = IF debit \in Assets THEN @ + n ELSE @ - n,
                               ![credit] = IF credit \in Assets THEN @ - n ELSE @ + n]

\* recordLedger: income debits the counter account, and a movement on the balance
\* sheet debits the account that is its category.
RecordIncome(counter, n) == PostJournal(counter, "income", n)
RecordMovement(category, counter, n) == PostJournal(category, counter, n)

-----------------------------------------------------------------------------
(* Money of members *)

TopUp(m) ==
    /\ wallet[m] < MaxWallet /\ journal.bank < MaxBank
    /\ wallet' = [wallet EXCEPT ![m] = @ + 1]
    /\ PostJournal("bank", "wallets", 1)
    /\ UNCHANGED <<shares, cash, loan, month, run, allowance, hand, report>>

\* An income whose counter account is the wallet: the wallet's account is debited.
CollectCashDeposit(m) ==
    /\ wallet[m] < MaxWallet /\ cash < MaxCash
    /\ wallet' = [wallet EXCEPT ![m] = @ + 1]
    /\ RecordIncome("wallets", 1)
    /\ cash' = cash + 1
    /\ UNCHANGED <<shares, loan, month, run, allowance, hand, report>>

\* The limit is checked on a row read before the purchase.
BuyRead(h, m) ==
    /\ wallet[m] > 0 /\ shares[m] < MaxShares
    /\ Take(h, "buy", m, 0, 1)

BuyShares(h) ==
    /\ hand[h].pc = "buy"
    /\ LET m == hand[h].who
       IN  IF wallet[m] > 0
           THEN /\ wallet' = [wallet EXCEPT ![m] = @ - 1]
                /\ shares' = [shares EXCEPT ![m] = @ + 1]
                /\ PostJournal("wallets", "capital", 1)
           ELSE UNCHANGED <<wallet, shares, journal>>
    /\ Done(h)
    /\ UNCHANGED <<cash, loan, month, run, allowance, report>>

-----------------------------------------------------------------------------
(* Loans *)

PayOutLoan(l) ==
    /\ loan[l].status = "none"
    /\ loan' = [loan EXCEPT ![l] = [status |-> "disbursed", balance |-> Principal, bucket |-> 0]]
    /\ RecordMovement("portfolio", "bank", Principal)
    /\ UNCHANGED <<wallet, shares, cash, month, run, allowance, hand, report>>

\* The due date moves on by a month. The principal is booked as it was when it was
\* lent: the portfolio is debited.
RepayLoan(m, l) ==
    /\ loan[l].balance > 0 /\ wallet[m] > 0
    /\ wallet' = [wallet EXCEPT ![m] = @ - 1]
    /\ RecordMovement("portfolio", "wallets", 1)
    /\ loan' = [loan EXCEPT ![l].balance = @ - 1, ![l].bucket = Max({@ - 1, 0}),
                            ![l].status = IF loan[l].balance = 1 THEN "paid" ELSE @]
    /\ UNCHANGED <<shares, cash, month, run, allowance, hand, report>>

-----------------------------------------------------------------------------
(* Provisioning *)

\* A month passes, and with it the due date of a loan.
NextMonth ==
    /\ month + 1 \in Periods /\ month' = month + 1
    /\ loan' = [l \in Loans |-> IF loan[l].balance > 0 /\ loan[l].bucket < 2
                                THEN [loan[l] EXCEPT !.bucket = @ + 1] ELSE loan[l]]
    /\ UNCHANGED <<wallet, shares, journal, cash, run, allowance, hand, report>>

\* computeProvision: nothing for what is not overdue, and by the cooperative's rates,
\* here half and all, for two of the buckets.
Loss(l) == CASE loan[l].bucket = 0 -> 0
             [] loan[l].bucket = 1 -> loan[l].balance \div 2
             [] loan[l].bucket = 2 -> loan[l].balance
ComputeProvision == SumFunction([l \in Loans |-> Loss(l)])

ProvisionRead(h) ==
    /\ run[month] = -1
    /\ Take(h, "provision", NoMember, month, ComputeProvision)

\* The run of a month is unique: a second insert fails, and its handler with it.
NotRunRead(p) == TRUE
NotRun(p) == run[p] = -1

RunProvision(h) ==
    /\ hand[h].pc = "provision"
    /\ LET p == hand[h].month
           n == hand[h].sum
       IN  IF NotRun(p)
           THEN /\ run' = [run EXCEPT ![p] = n]
                /\ PostJournal("loss", "provision", n)
                /\ allowance' = allowance + n
           ELSE UNCHANGED <<run, journal, allowance>>
    /\ Done(h)
    /\ UNCHANGED <<wallet, shares, cash, loan, month, report>>

-----------------------------------------------------------------------------
(* Reconciliation *)

ReconcileWallets(h) ==
    Take(h, "bank", NoMember, 0, SumFunction(wallet))

ReconcileBank(h) ==
    /\ hand[h].pc = "bank"
    /\ hand' = [hand EXCEPT ![h].pc = "loans", ![h].sum = journal.bank - @]
    /\ UNCHANGED <<wallet, shares, journal, cash, loan, month, run, allowance, report>>

\* Bank less wallets less outstanding loans.
Reconcile(h) ==
    /\ hand[h].pc = "loans"
    /\ report' = IF hand[h].sum = SumFunction([l \in Loans |-> loan[l].balance])
                 THEN "ok" ELSE "discrepancy"
    /\ Done(h)
    /\ UNCHANGED <<wallet, shares, journal, cash, loan, month, run, allowance>>

Next ==
    \/ \E m \in Members : TopUp(m) \/ CollectCashDeposit(m)
    \/ \E h \in Hands, m \in Members : BuyRead(h, m)
    \/ \E h \in Hands : BuyShares(h) \/ ProvisionRead(h) \/ RunProvision(h)
    \/ \E h \in Hands : ReconcileWallets(h) \/ ReconcileBank(h) \/ Reconcile(h)
    \/ \E l \in Loans : PayOutLoan(l)
    \/ \E m \in Members, l \in Loans : RepayLoan(m, l)
    \/ NextMonth

-----------------------------------------------------------------------------
(* Properties *)

TypeOK ==
    /\ wallet \in [Members -> 0..MaxWallet]
    /\ \A m \in Members : shares[m] \in Nat
    /\ \A l \in Loans : loan[l].status \in {"none", "disbursed", "paid"} /\ loan[l].balance \in Nat
    /\ \A h \in Hands : hand[h].pc \in {"idle", "buy", "provision", "bank", "loans"}
    /\ report \in {"none", "ok", "discrepancy"}

\* The allowance and its journal account are the sum of one run per month; every
\* share is paid for; and no kobo comes to or leaves the wallets but by a deposit,
\* a collection, a share and a repayment.
BooksAddUp ==
    LET lent == Cardinality({l \in Loans : loan[l].status # "none"}) * Principal
        owed == SumFunction([l \in Loans |-> loan[l].balance])
    IN  /\ allowance = SumFunction([p \in Periods |-> Max({run[p], 0})])
        /\ allowance = journal.provision /\ journal.loss = journal.provision
        /\ journal.capital = SumFunction(shares)
        /\ SumFunction(wallet) + journal.capital + (lent - owed)
              = (journal.bank + lent) + cash

-----------------------------------------------------------------------------
(* What the repository's words say of this code, and the code does not do. *)

\* ledger.ts:38: the counter account is "The account the money actually moved
\* to/from". A collection takes from the wallet's account what it puts on the
\* wallet, a repayment gives back to it what it takes.
WalletsAreBooked == journal.wallets = SumFunction(wallet)

\* reconciliation.ts:58: "money lent out reduces bank but is still owed", and is
\* added to what the bank should hold: a loan makes a discrepancy of twice its size.
OrderIsReported == report = "discrepancy" => cash > 0 \/ ~WalletsAreBooked

\* shares.ts: "You can hold at most" maxShares; two handlers read the same holding.
HoldsAtMost == \A m \in Members : shares[m] <= MaxShares
=============================================================================
