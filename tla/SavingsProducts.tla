-------------------------- MODULE SavingsProducts --------------------------
(* Fixed, goal, seasonal and junior savings (services/savings-products.ts). An
   account is worked by one member only, its guardian if it has one, else its
   holder; the mutex of the phone lets a member have one handler at a time. A
   handler is one transaction: a step that reads and a step that commits, between
   which the handlers of other members run. *)
EXTENDS Integers, FiniteSetsExt

CONSTANTS
    Members,
    Phoneless,   \* minors entered without a phone: they never write
    Accounts,    \* SavingsAccount rows that may come to exist
    Kinds,       \* types of product that an admin created
    Wallet0,     \* kobo in the wallet of a member with a phone
    Rate,        \* interestRate of every product, in percent
    NoOne, NoAccount

VARIABLES
    account,     \* SavingsAccount: product, holder, guardian, maturesAt, status, balance
    wallet,      \* Wallet.balance
    booked,      \* balance of liability:savings_product:<account> in the journal
    interest,    \* what expense:savings_interest paid to an account
    hand         \* the handler of a member, between its reads and its commit

vars == <<account, wallet, booked, interest, hand>>

Unopened == [status |-> "none", kind |-> "goal", term |-> "none",
             holder |-> NoOne, guardian |-> NoOne, balance |-> 0]
Idle == [pc |-> "idle", acct |-> NoAccount, amount |-> 0]

Init ==
    /\ account = [a \in Accounts |-> Unopened]
    /\ wallet = [m \in Members |-> IF m \in Phoneless THEN 0 ELSE Wallet0]
    /\ booked = [a \in Accounts |-> 0]
    /\ interest = [a \in Accounts |-> 0]
    /\ hand = [m \in Members |-> Idle]

-----------------------------------------------------------------------------
(* Mutant: a minor with a phone of his own works his account as well. *)
ControlsAny(a, m) == m \in {account[a].guardian, account[a].holder}

\* canControl
Controls(a, m) ==
    m = IF account[a].guardian # NoOne THEN account[a].guardian ELSE account[a].holder

IsTerm(a) == account[a].kind \in {"fixed", "seasonal"}
Locked(a) == account[a].term = "running"
Interest(a, n) == IF IsTerm(a) THEN (2 * n * Rate + 100) \div 200 ELSE 0

-----------------------------------------------------------------------------
(* Opening. A product with a term gives the account a date to mature. *)

OpenAs(a, kind, holder, guardian) ==
    /\ account[a].status = "none"
    /\ \E term \in {"none", "running"} :
          account' = [account EXCEPT ![a] =
                        [status |-> "active", kind |-> kind, term |-> term,
                         holder |-> holder, guardian |-> guardian, balance |-> 0]]
    /\ UNCHANGED <<wallet, booked, interest, hand>>

OpenProduct(m, a, kind) ==
    hand[m] = Idle /\ m \notin Phoneless /\ OpenAs(a, kind, m, NoOne)

\* The minor is the member with that phone, or a new one.
OpenJuniorAccount(m, a, minor) ==
    hand[m] = Idle /\ m \notin Phoneless /\ "junior" \in Kinds /\ OpenAs(a, "junior", minor, m)

TermEnds(a) ==
    /\ Locked(a)
    /\ account' = [account EXCEPT ![a].term = "over"]
    /\ UNCHANGED <<wallet, booked, interest, hand>>

-----------------------------------------------------------------------------
(* The reads *)

Start(m, a, pc, n) ==
    /\ hand[m] = Idle /\ m \notin Phoneless
    /\ Controls(a, m) /\ account[a].status = "active"
    /\ hand' = [hand EXCEPT ![m] = [pc |-> pc, acct |-> a, amount |-> n]]
    /\ UNCHANGED <<account, wallet, booked, interest>>

DepositRead(m, a, n) == wallet[m] >= n /\ Start(m, a, "deposit", n)

WithdrawRead(m, a, n) ==
    ~(IsTerm(a) /\ Locked(a)) /\ n <= account[a].balance /\ Start(m, a, "withdraw", n)

\* The principal and the interest are those of the balance read here.
MatureRead(m, a) ==
    /\ IsTerm(a) => account[a].term = "over"
    /\ account[a].balance > 0
    /\ Start(m, a, "mature", account[a].balance)

-----------------------------------------------------------------------------
(* The commits *)

Done(m) == hand' = [hand EXCEPT ![m] = Idle]

\* The wallet's debit is guarded by its balance, the account's credit by nothing.
DepositToProduct(m) ==
    /\ hand[m].pc = "deposit"
    /\ LET a == hand[m].acct
           n == hand[m].amount
       IN  IF wallet[m] >= n
           THEN /\ wallet' = [wallet EXCEPT ![m] = @ - n]
                /\ account' = [account EXCEPT ![a].balance = @ + n]
                /\ booked' = [booked EXCEPT ![a] = @ + n]
           ELSE UNCHANGED <<wallet, account, booked>>
    /\ Done(m) /\ UNCHANGED interest

\* The account's debit is guarded by its status and balance; the actor is paid.
WithdrawFromProduct(m) ==
    /\ hand[m].pc = "withdraw"
    /\ LET a == hand[m].acct
           n == hand[m].amount
       IN  IF account[a].status = "active" /\ account[a].balance >= n
           THEN /\ account' = [account EXCEPT ![a].balance = @ - n]
                /\ wallet' = [wallet EXCEPT ![m] = @ + n]
                /\ booked' = [booked EXCEPT ![a] = @ - n]
           ELSE UNCHANGED <<wallet, account, booked>>
    /\ Done(m) /\ UNCHANGED interest

\* Guarded by the status only: the balance becomes 0, the holder is paid what it
\* was at the read, with the interest on it.
MatureProduct(m) ==
    /\ hand[m].pc = "mature"
    /\ LET a == hand[m].acct
           n == hand[m].amount
       IN  IF account[a].status = "active"
           THEN /\ account' = [account EXCEPT ![a].status = "matured", ![a].balance = 0]
                /\ wallet' = [wallet EXCEPT ![account[a].holder] = @ + n + Interest(a, n)]
                /\ booked' = [booked EXCEPT ![a] = @ - n]
                /\ interest' = [interest EXCEPT ![a] = @ + Interest(a, n)]
           ELSE UNCHANGED <<wallet, account, booked, interest>>
    /\ Done(m)

Next ==
    \/ \E m \in Members, a \in Accounts :
          \/ \E k \in Kinds : OpenProduct(m, a, k)
          \/ \E minor \in Members : OpenJuniorAccount(m, a, minor)
          \/ \E n \in 1..Wallet0 : DepositRead(m, a, n) \/ WithdrawRead(m, a, n)
          \/ MatureRead(m, a)
    \/ \E m \in Members : DepositToProduct(m) \/ WithdrawFromProduct(m) \/ MatureProduct(m)
    \/ \E a \in Accounts : TermEnds(a)

Spec == Init /\ [][Next]_vars

-----------------------------------------------------------------------------
(* Properties *)

\* The records keep to the columns of the schema, and no balance is negative.
TypeOK ==
    /\ account \in [Accounts -> [status : {"none", "active", "matured"},
                                 kind : Kinds \cup {"goal"}, term : {"none", "running", "over"},
                                 holder : Members \cup {NoOne}, guardian : Members \cup {NoOne},
                                 balance : Nat]]
    /\ wallet \in [Members -> Nat]

(* savings-products.ts:439, 558, 694: every movement is posted in the transaction
   that makes it. Whatever holders, guardians and minors do at the same time, an
   account holds what the journal says it does, a matured one nothing, and the
   only money that appears is the interest, once per account and never on an open
   one: that a mature reads a principal it does not claim costs nobody anything. *)
ProductsAddUp ==
    /\ \A a \in Accounts : booked[a] = account[a].balance
    /\ \A a \in Accounts : account[a].status = "matured" => account[a].balance = 0
    /\ \A a \in Accounts : interest[a] > 0 => account[a].status = "matured" /\ IsTerm(a)
    /\ SumFunction(wallet) + SumFunction(booked)
         = Wallet0 * Cardinality(Members \ Phoneless) + SumFunction(interest)
=============================================================================
