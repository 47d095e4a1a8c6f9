---------------------------- MODULE MCFrontdesk ----------------------------
(* Small instances, side by side, of what members do by chat and of the books it
   ends in: the session of a phone, referrals, savings groups, savings products, the
   shop, the commodity schemes, the ballots, lending between cooperatives, insurance,
   the books of a cooperative and the screening of a member's money. Each behaviour is of one of them, "part". *)
EXTENDS Integers, FiniteSets, TLC

CONSTANTS
    NoOne, NoRow,
    Members,     \* members with a phone and a wallet
    Others,      \* a minor without a phone, a member without a wallet, a referrer
    Buyers,      \* of the shop and the schemes
    Voters, Suspended, Candidates, Yes, No,  \* of Ballots
    Unit, UnitCandidates,  \* the members of the unit that elects, its candidates
    Percent,     \* of the active members, for a quorum
    Rows,        \* withdrawals, accounts, orders or subscriptions
    One,         \* a scheme, a question
    Hands,       \* concurrent handlers
    Kobo,        \* in a wallet at the start
    Length,      \* of a savings group's cycle, in rounds
    Rate,        \* of a savings product, in percent
    Price, Installment,    \* of an item of the shop and of the loan it is sold on
    Premium      \* of an insurance policy

ASSUME FrontdeskAssumption ==
    /\ IsFiniteSet(Voters) /\ Unit \subseteq Voters /\ NoOne \notin Voters \cup Candidates
    /\ IsFiniteSet(Candidates) /\ UnitCandidates \subseteq Candidates /\ {Yes, No} \subseteq Candidates
    /\ NoRow \notin One \cup Rows /\ Percent \in Nat
    /\ IsFiniteSet(Members) /\ IsFiniteSet(Others) /\ IsFiniteSet(Buyers)
    /\ NoOne \notin Members \cup Others \cup Buyers
    /\ IsFiniteSet(Rows) /\ IsFiniteSet(One) /\ IsFiniteSet(Hands)
    /\ Kobo \in Nat /\ Rate \in Nat
    /\ {Length, Price, Installment, Premium} \subseteq Nat \ {0}

VARIABLES
    part,
    channel, state, data, aged, who, owed, ran,
    config, referral, payment, bonus, bonusOut, airwaves, savings,
    kind, open, seat, paidIn, paidOut, late, pot, wallet, hand,
    account, purse, booked, interest, saver,
    stock, listed, order, loans, portfolio, shopWallet, clerk, payer, job, days, corrected,
    scheme, sub, financed, batchOpen, buyer, staff,
    meeting, chair, question, ballots, voter, closer, admins, payments,
    coop, ledger, pool, lent, treasurer,
    insured, payable, entries, policy, claim, insuree, adjuster,
    balance, shares, journal, cash, debt, month, run, allowance, teller, report,
    stage, asked, screened, filing, accepted, checker, overlapped, due

sessionsVars == <<channel, state, data, aged, who, owed, ran>>
referralsVars == <<config, referral, payment, bonus, bonusOut, airwaves, savings>>
groupsVars == <<kind, open, seat, paidIn, paidOut, late, pot, wallet, hand>>
productsVars == <<account, purse, booked, interest, saver>>
shopVars == <<stock, listed, order, loans, portfolio, shopWallet, clerk, payer, job, days, corrected>>
commodityVars == <<scheme, sub, financed, batchOpen, buyer, staff>>
ballotsVars == <<meeting, chair, question, ballots, voter, closer, admins, payments>>
federationVars == <<coop, ledger, pool, lent, treasurer>>
insuranceVars == <<insured, payable, entries, policy, claim, insuree, adjuster>>
booksVars == <<balance, shares, journal, cash, debt, month, run, allowance, teller, report>>
amlVars == <<stage, asked, screened, filing, accepted, checker, overlapped, due>>
counterVars == <<federationVars, insuranceVars, booksVars, amlVars>>
vars == <<part, sessionsVars, referralsVars, groupsVars, productsVars, shopVars, commodityVars,
          ballotsVars, counterVars>>

S == INSTANCE Sessions WITH Channels <- {"whatsapp", "telegram"}
R == INSTANCE Referrals WITH Joiners <- Members, Referrers <- Others, Payments <- Hands,
        BonusIds <- Rows, Rewards <- {1, 2}, Caps <- {0, 1}, MaxConfigs <- 1, NoMember <- NoOne
G == INSTANCE Groups WITH Members <- Members \cup Others, Walletless <- Others, Wallet0 <- 1,
        MaxShares <- 2, Hands <- Hands \cup One
P == INSTANCE SavingsProducts WITH Members <- Members \cup Others, Phoneless <- Others,
        Accounts <- Rows, Kinds <- {"fixed", "goal", "junior"}, Wallet0 <- Kobo,
        NoAccount <- NoRow, wallet <- purse, hand <- saver
B == INSTANCE Shop WITH Members <- Buyers, Orders <- Rows, Clerks <- Hands, Stock0 <- 2,
        InterestDue <- 0, Wallet0 <- 3 * Kobo, MaxDays <- 2, NoOrder <- NoRow,
        wallet <- shopWallet
C == INSTANCE Commodity WITH Members <- Buyers, Schemes <- One, Subs <- Rows, Staff <- Hands,
        Units <- 2, MaxQty <- 1, Cap <- 2, Cash0 <- 1, Cost <- 1, NoScheme <- NoRow,
        loans <- financed
V == INSTANCE Ballots WITH Members <- Voters, InUnit <- Unit, Questions <- One,
        Options <- Candidates, UnitOptions <- UnitCandidates, Quorum <- Percent, Closers <- Hands,
        NoQuestion <- NoRow, seat <- chair
\* A cooperative of the base currency with a reserve, and one of another with none.
F == INSTANCE Federation WITH Coops <- Buyers \cup Others, Foreign <- Others, Rate <- 3,
        Loans <- One, Reserve0 <- [c \in Buyers \cup Others |-> IF c \in Others THEN 0 ELSE 1],
        MaxReserve <- [c \in Buyers \cup Others |-> IF c \in Others THEN 0 ELSE 2],
        MaxRepairs <- 1, MaxAmount <- 2, MaxInterest <- 1, NoCoop <- NoOne, NoLoan <- NoRow,
        loan <- lent, hand <- treasurer
I == INSTANCE Insurance WITH Members <- Buyers, Policies <- Rows, Claims <- One,
        Coverage <- 1, Wallet0 <- Kobo, NoMember <- NoOne, NoClaim <- NoRow,
        wallet <- insured, booked <- entries, buyer <- insuree, hand <- adjuster
K == INSTANCE Books WITH Members <- Buyers, Loans <- One, MaxWallet <- 2, MaxBank <- 2, MaxCash <- 1,
        MaxShares <- 1, Principal <- 2, Periods <- {1, 2}, NoMember <- NoOne,
        wallet <- balance, loan <- debt, hand <- teller
\* A withdrawal and a payment to an outsider; a loan and two deposits near the threshold.
O == INSTANCE Aml WITH Rows <- {"w", "e"}, Kind <- [w |-> "withdrawal", e |-> "external"],
        Amount <- [w |-> 1, e |-> 4], Round <- {1}, Near <- {4}, ReportingThreshold <- 5,
        Threshold <- 4, MaxReports <- 1, report <- filing, hand <- checker, owed <- due
D == INSTANCE Aml WITH Rows <- {"l", "d", "c"},
        Kind <- [l |-> "loan", d |-> "deposit", c |-> "deposit"],
        Amount <- [l |-> 3, d |-> 3, c |-> 3], Round <- {1}, Near <- {3}, ReportingThreshold <- 4,
        Threshold <- 4, MaxReports <- 2, report <- filing, hand <- checker, owed <- due

Symmetry == Permutations(Hands) \cup Permutations(Members) \cup Permutations(Rows)

\* The parts that do not run are in one of their initial states only.
Init ==
    /\ part \in {"sessions", "referrals", "groups", "products", "shop", "commodity", "ballots",
                "federation", "insurance", "books", "outflow", "inflow"}
    /\ S!Init /\ R!Init /\ G!Init /\ P!Init /\ B!Init /\ C!Init /\ V!Init
    /\ F!Init /\ I!Init /\ K!Init
    /\ IF part = "outflow" THEN O!Init ELSE D!Init
    /\ part # "sessions" => channel = "whatsapp" /\ ~who.joined
    /\ part # "groups" => kind = "rosca"

Next ==
    /\ UNCHANGED part
    /\ \/ /\ part = "sessions" /\ S!Next
          /\ UNCHANGED <<referralsVars, groupsVars, productsVars, shopVars, commodityVars, ballotsVars,
                         counterVars>>
       \/ /\ part = "referrals" /\ R!Next
          /\ UNCHANGED <<sessionsVars, groupsVars, productsVars, shopVars, commodityVars, ballotsVars,
                         counterVars>>
       \/ /\ part = "groups" /\ G!Next
          /\ UNCHANGED <<sessionsVars, referralsVars, productsVars, shopVars, commodityVars, ballotsVars,
                         counterVars>>
       \/ /\ part = "products" /\ P!Next
          /\ UNCHANGED <<sessionsVars, referralsVars, groupsVars, shopVars, commodityVars, ballotsVars,
                         counterVars>>
       \/ /\ part = "shop" /\ B!Next
          /\ UNCHANGED <<sessionsVars, referralsVars, groupsVars, productsVars, commodityVars, ballotsVars,
                         counterVars>>
       \/ /\ part = "commodity" /\ C!Next
          /\ UNCHANGED <<sessionsVars, referralsVars, groupsVars, productsVars, shopVars, ballotsVars,
                         counterVars>>
       \/ /\ part = "ballots" /\ V!Next
          /\ UNCHANGED <<sessionsVars, referralsVars, groupsVars, productsVars, shopVars, commodityVars,
                         counterVars>>
       \/ /\ part = "federation" /\ F!Next
          /\ UNCHANGED <<sessionsVars, referralsVars, groupsVars, productsVars, shopVars, commodityVars,
                         ballotsVars,
                         insuranceVars, booksVars, amlVars>>
       \/ /\ part = "insurance" /\ I!Next
          /\ UNCHANGED <<sessionsVars, referralsVars, groupsVars, productsVars, shopVars, commodityVars,
                         ballotsVars,
                         federationVars, booksVars, amlVars>>
       \/ /\ part = "books" /\ K!Next
          /\ UNCHANGED <<sessionsVars, referralsVars, groupsVars, productsVars, shopVars, commodityVars,
                         ballotsVars,
                         federationVars, insuranceVars, amlVars>>
       \/ /\ \/ part = "outflow" /\ O!Next
             \/ part = "inflow" /\ D!Next
          /\ UNCHANGED <<sessionsVars, referralsVars, groupsVars, productsVars, shopVars, commodityVars,
                         ballotsVars,
                         federationVars, insuranceVars, booksVars>>

Spec == Init /\ [][Next]_vars

-----------------------------------------------------------------------------
(* Properties of the parts *)

\* session.ts: an operation runs on what its own flow asked for.
RunsOnWhatWasAsked == S!TypeOK /\ S!RunsOnWhatWasAsked

\* referrals.ts, groups.ts, savings-products.ts, shop.ts, commodity-schemes.ts,
\* federation, insurance, ledger.ts, provisioning.ts and aml.ts: bonuses, pots, accounts,
\* claims, both books of the federation and the reports to the CBN add up; goods leave
\* once, and on a loan.
BooksMatch ==
    CASE part = "referrals" -> R!TypeOK /\ R!BonusAddsUp
      [] part = "groups" -> G!TypeOK /\ G!PotAddsUp
      [] part = "products" -> P!TypeOK /\ P!ProductsAddUp
      [] part = "shop" -> B!TypeOK /\ B!GoodsMatchLoans
      [] part = "commodity" -> C!TypeOK /\ C!HandedOverOnDebt
      [] part = "federation" -> F!TypeOK /\ F!FederationAddsUp
      [] part = "insurance" -> I!TypeOK /\ I!ClaimsAddUp
      [] part = "books" -> K!TypeOK /\ K!BooksAddUp
      [] part = "outflow" -> O!TypeOK /\ O!ReportsAddUp
      [] part = "inflow" -> D!TypeOK /\ D!ReportsAddUp
      [] OTHER -> TRUE

\* votes.ts, buypoll.ts, meetings.ts: one ballot each, and no decision without a quorum.
BallotsDecide == V!TypeOK /\ V!BallotsDecide
=============================================================================
