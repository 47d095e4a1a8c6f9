----------------------------- MODULE Dividends -----------------------------
(* Dividends (services/dividends.ts), the member vote on a rate
   (services/dividendvote.ts), and the commands paydividend, startvotediv and
   closedivid (services/admin.ts) with the confirmation state of a super
   admin's session (services/handlers/session.ts).

   A confirmed run is one transaction, the transfers to the members' banks
   included: the base is read in one step, everything is written in another. *)
EXTENDS BankTransfer, Integers, Functions

CONSTANTS
    Supers,     \* super admins; each has one chat session
    Runs,       \* Dividend rows that may come to exist
    Votes,      \* DividendVote rows that may come to exist
    Weight,     \* savings or shares: a sequence, its domain are the members
    Banked,     \* members with a bank account on file
    Profit,     \* net profit of the period
    Statutory,  \* what the statutory funds take of it
    Rates,      \* percentages a super admin may ask for
    Jump,       \* a change of the rate above this needs a vote
    RequiredYes, \* yes votes that pass
    MaxPreviews, MaxTransfers \* bounds of granted and landed

VARIABLES
    asking,     \* rate in state awaiting_dividend_confirm, 0 if the session is elsewhere
    lastRate,   \* CooperativeConfig.lastDividendRate, 0 before the first run
    vote,       \* DividendVote: status, rate and who voted yes and no
    run,        \* Dividend: status, rate, pool
    entry,      \* DividendEntry.status of each member
    bank,       \* the transfer DIV-PAY-<run>-<member>
    returned,   \* transfers the provider has sent back
    reversed,   \* members whose payout journal has a reversal
    taken,      \* how often the statutory funds were taken
    hand,       \* a confirmation between its reads and its commit
    granted,    \* history: previews that were shown
    landed      \* history: transfers the provider took, by member

vars == <<asking, lastRate, vote, run, entry, bank, returned, reversed, taken, hand,
          granted, landed>>

Savers == DOMAIN Weight
TotalWeight == SumFunction(Weight)

(* allocateShares: the floor of the exact share, and what is left, one kobo each,
   to the largest remainders; members with equal remainders keep their order. *)
Floor(pool, m) == (Weight[m] * pool) \div TotalWeight
Remainder(pool, m) == (Weight[m] * pool) % TotalWeight
Eligible == {m \in Savers : Weight[m] > 0}
Before(pool, m) ==
    {n \in Eligible : \/ Remainder(pool, n) > Remainder(pool, m)
                      \/ Remainder(pool, n) = Remainder(pool, m) /\ n < m}

\* Mutant: the remainder goes to everybody who has one.
AllocateSharesUp(pool) ==
    [m \in Savers |-> Floor(pool, m) + IF Remainder(pool, m) > 0 THEN 1 ELSE 0]

AllocateShares(pool) ==
    LET leftover == pool - SumFunction([m \in Savers |-> Floor(pool, m)])
    IN  [m \in Savers |->
            Floor(pool, m) + IF m \in Eligible /\ Cardinality(Before(pool, m)) < leftover
                             THEN 1 ELSE 0]

NoRun == [status |-> "none", rate |-> 0, pool |-> 0]
NoVote == [status |-> "none", rate |-> 0, yes |-> {}, no |-> {}]
IdleHand == [pc |-> "idle", rate |-> 0, remaining |-> 0, takes |-> FALSE]

Init ==
    /\ asking = [s \in Supers |-> 0]
    /\ lastRate = 0
    /\ vote = [v \in Votes |-> NoVote]
    /\ run = [r \in Runs |-> NoRun]
    /\ entry = [r \in Runs |-> [m \in Savers |-> "none"]]
    /\ bank = [r \in Runs |-> [m \in Savers |-> NoTransfer]]
    /\ returned = [r \in Runs |-> {}]
    /\ reversed = [r \in Runs |-> {}]
    /\ taken = 0
    /\ hand = [s \in Supers |-> IdleHand]
    /\ granted = 0
    /\ landed = [m \in Savers |-> 0]

money == <<run, entry, bank, returned, reversed, taken, landed>>

-----------------------------------------------------------------------------
(* The vote on a rate *)

Abs(n) == IF n < 0 THEN -n ELSE n
Near(rate) == lastRate # 0 /\ Abs(rate - lastRate) <= Jump
OpenVotes == {v \in Votes : vote[v].status = "open"}

StartDividendVote(v, rate) ==
    /\ vote[v].status = "none"
    /\ OpenVotes = {}
    /\ ~Near(rate)
    /\ vote' = [vote EXCEPT ![v] = [NoVote EXCEPT !.status = "open", !.rate = rate]]
    /\ UNCHANGED <<asking, lastRate, money, hand, granted>>

CastDividendVote(v, m, choice) ==
    /\ v \in OpenVotes
    /\ m \notin vote[v].yes \cup vote[v].no
    /\ vote' = IF choice = "yes" THEN [vote EXCEPT ![v].yes = @ \cup {m}]
                                 ELSE [vote EXCEPT ![v].no = @ \cup {m}]
    /\ UNCHANGED <<asking, lastRate, money, hand, granted>>

\* A ballot after the closing time closes the vote instead.
VoteExpires(v) ==
    /\ v \in OpenVotes
    /\ vote' = [vote EXCEPT ![v].status = "closed"]
    /\ UNCHANGED <<asking, lastRate, money, hand, granted>>

\* "approve" passes a vote whatever the ballots say, "reject" fails it.
CloseDividendVote(v, decision) ==
    /\ v \in OpenVotes
    /\ LET passed == \/ decision = "approve"
                     \/ decision = "count" /\ Cardinality(vote[v].yes) >= RequiredYes IN
        vote' = [vote EXCEPT ![v].status = IF passed THEN "approved" ELSE "rejected"]
    /\ UNCHANGED <<asking, lastRate, money, hand, granted>>

-----------------------------------------------------------------------------
(* A run *)

ApprovedFor(rate) == {v \in Votes : vote[v].status = "approved" /\ vote[v].rate = rate}
MayPay(rate) == lastRate = 0 \/ Near(rate) \/ ApprovedFor(rate) # {}

Pools == SumFunction([r \in Runs |-> run[r].pool])
NonNegative(n) == IF n < 0 THEN 0 ELSE n
Remaining == NonNegative(Profit - taken * Statutory - Pools)

Pool(h) ==
    LET distributable == NonNegative(h.remaining - IF h.takes THEN Statutory ELSE 0)
    IN  (2 * distributable * h.rate + 100) \div 200

\* previewDividendRun: there are members to share with, and something to share.
Previews(rate) ==
    /\ TotalWeight > 0
    /\ Pool([rate |-> rate, remaining |-> Remaining, takes |-> taken = 0]) > 0

\* paydividend: the rate is looked at here, and only here.
PayDividend(s, rate) ==
    /\ hand[s].pc = "idle"
    /\ granted < MaxPreviews
    /\ MayPay(rate) /\ Previews(rate)
    /\ asking' = [asking EXCEPT ![s] = rate]
    /\ granted' = granted + 1
    /\ UNCHANGED <<lastRate, vote, money, hand>>

\* Any other reply leaves the confirming state.
CancelDividend(s) ==
    /\ asking[s] # 0
    /\ hand[s].pc = "idle"
    /\ asking' = [asking EXCEPT ![s] = 0]
    /\ UNCHANGED <<lastRate, vote, money, hand, granted>>

\* CONFIRM <rate>: computeDividendBase and the checks before the transaction.
ReadBase(s) ==
    /\ asking[s] # 0
    /\ hand[s].pc = "idle"
    /\ TotalWeight > 0
    /\ hand' = [hand EXCEPT ![s] = [pc |-> "distribute", rate |-> asking[s],
                                    remaining |-> Remaining, takes |-> taken = 0]]
    /\ UNCHANGED <<asking, lastRate, vote, money, granted>>

Candidates(pool) == {m \in Banked : AllocateShares(pool)[m] > 0}
Held(pool) == {m \in Savers \ Banked : AllocateShares(pool)[m] > 0}

\* What the banks answer for a new run's transfers.
Answers(pool) == [Candidates(pool) -> SendToBank(NoTransfer)]

EntryStatus(answer) ==
    CASE answer = "successful" -> "settled"
      [] answer = "unsure" -> "processing"
      [] OTHER -> "failed"

Taken(o) == {m \in DOMAIN o : o[m].bank.sent}

(* distributeDividend and confirmDividendDistribution: the declaration, the
   payout of every candidate, the reversal of those refused, and the rate and
   the vote it used. *)
DistributeDividend(s, r) ==
    /\ hand[s].pc = "distribute"
    /\ run[r].status = "none"
    /\ LET h == hand[s]
           pool == Pool(h)
           held == Held(pool) IN
        /\ pool > 0
        /\ \A m \in Savers : landed[m] < MaxTransfers
        /\ \E o \in Answers(pool) :
            /\ run' = [run EXCEPT ![r] = [status |-> "distributed", rate |-> h.rate, pool |-> pool]]
            /\ entry' = [entry EXCEPT ![r] = [m \in Savers |->
                    IF m \in DOMAIN o THEN EntryStatus(o[m].answer)
                    ELSE IF m \in held THEN "pending" ELSE "none"]]
            /\ bank' = [bank EXCEPT ![r] = [m \in Savers |->
                    IF m \in DOMAIN o THEN o[m].bank ELSE NoTransfer]]
            /\ reversed' = [reversed EXCEPT ![r] = {m \in DOMAIN o : o[m].answer = "failed"}]
            /\ landed' = [m \in Savers |-> landed[m] + IF m \in Taken(o) THEN 1 ELSE 0]
        /\ taken' = IF h.takes THEN taken + 1 ELSE taken
        /\ lastRate' = h.rate
        /\ vote' = [v \in Votes |-> IF v \in ApprovedFor(h.rate)
                                    THEN [vote[v] EXCEPT !.status = "closed"] ELSE vote[v]]
    /\ hand' = [hand EXCEPT ![s] = IdleHand]
    /\ asking' = [asking EXCEPT ![s] = 0]
    /\ UNCHANGED <<returned, granted>>

\* Nothing left to distribute, or the bank float is too small.
RefuseRun(s) ==
    /\ hand[s].pc = "distribute"
    /\ hand' = [hand EXCEPT ![s] = IdleHand]
    /\ asking' = [asking EXCEPT ![s] = 0]
    /\ UNCHANGED <<lastRate, vote, money, granted>>

(* The transaction is over its time or the process dies: the transfers sent are
   gone from the database, the session still awaits its confirmation. *)
RunRolledBack(s) ==
    /\ hand[s].pc = "distribute"
    /\ Pool(hand[s]) > 0
    /\ \A m \in Savers : landed[m] < MaxTransfers
    /\ \E o \in Answers(Pool(hand[s])) :
        landed' = [m \in Savers |-> landed[m] + IF m \in Taken(o) THEN 1 ELSE 0]
    /\ hand' = [hand EXCEPT ![s] = IdleHand]
    /\ UNCHANGED <<asking, lastRate, vote, run, entry, bank, returned, reversed, taken, granted>>

-----------------------------------------------------------------------------
(* What the provider reports later (applyDividendPayoutUpdate, from the webhook
   or the poller); a payout row is linked to its entry only if it was settled. *)

ProviderReturns(r, m) ==
    /\ bank[r][m].row
    /\ returned' = [returned EXCEPT ![r] = @ \cup {m}]
    /\ UNCHANGED <<asking, lastRate, vote, run, entry, bank, reversed, taken, landed, hand, granted>>

ReportSuccess(r, m) ==
    /\ bank[r][m].row
    /\ entry[r][m] # "settled"
    /\ entry' = [entry EXCEPT ![r][m] = "settled"]
    /\ UNCHANGED <<asking, lastRate, vote, run, bank, returned, reversed, taken, landed, hand, granted>>

ReportFailure(r, m) ==
    /\ m \in returned[r]
    /\ entry[r][m] # "failed"
    /\ reversed' = [reversed EXCEPT ![r] = @ \cup {m}]
    /\ entry' = [entry EXCEPT ![r][m] = "failed"]
    /\ UNCHANGED <<asking, lastRate, vote, run, bank, returned, taken, landed, hand, granted>>

Next ==
    \/ \E v \in Votes, rate \in Rates : StartDividendVote(v, rate)
    \/ \E v \in Votes, m \in Savers, c \in {"yes", "no"} : CastDividendVote(v, m, c)
    \/ \E v \in Votes : VoteExpires(v)
    \/ \E v \in Votes, d \in {"approve", "reject", "count"} : CloseDividendVote(v, d)
    \/ \E s \in Supers, rate \in Rates : PayDividend(s, rate)
    \/ \E s \in Supers : CancelDividend(s)
    \/ \E s \in Supers : ReadBase(s)
    \/ \E s \in Supers, r \in Runs : DistributeDividend(s, r)
    \/ \E s \in Supers : RefuseRun(s)
    \/ \E s \in Supers : RunRolledBack(s)
    \/ \E r \in Runs, m \in Savers : ProviderReturns(r, m)
    \/ \E r \in Runs, m \in Savers : ReportSuccess(r, m)
    \/ \E r \in Runs, m \in Savers : ReportFailure(r, m)

Spec == Init /\ [][Next]_vars

-----------------------------------------------------------------------------
(* Properties *)

TypeOK ==
    /\ asking \in [Supers -> Rates \cup {0}]
    /\ lastRate \in Rates \cup {0}
    /\ vote \in [Votes -> [status : {"none", "open", "approved", "rejected", "closed"},
                           rate : Rates \cup {0}, yes : SUBSET Savers, no : SUBSET Savers]]
    /\ run \in [Runs -> [status : {"none", "distributed"}, rate : Rates \cup {0}, pool : 0..Profit]]
    /\ entry \in [Runs -> [Savers -> {"none", "pending", "processing", "settled", "failed"}]]
    /\ bank \in [Runs -> [Savers -> Transfers]]
    /\ returned \in [Runs -> SUBSET Savers] /\ reversed \in [Runs -> SUBSET Savers]
    /\ taken \in 0..Cardinality(Supers)
    /\ hand \in [Supers -> [pc : {"idle", "distribute"}, rate : Rates \cup {0},
                            remaining : 0..Profit, takes : BOOLEAN]]
    /\ granted \in Nat /\ landed \in [Savers -> Nat]

(* The shares of a run add up to its pool to the kobo, each within one kobo of the
   member's exact part; whoever has a share has an entry and no one else does;
   an entry is failed only with its payout journal reversed, and what the
   provider took and confirmed is not pending. *)
PoolIsShared ==
    \A r \in Runs : run[r].status = "distributed" =>
        LET share == AllocateShares(run[r].pool) IN
        /\ SumFunction(share) = run[r].pool
        /\ \A m \in Savers :
            /\ Abs(share[m] * TotalWeight - Weight[m] * run[r].pool) < TotalWeight
            /\ entry[r][m] = "none" <=> share[m] = 0
            /\ entry[r][m] = "failed" => m \in reversed[r]
            /\ bank[r][m].row => entry[r][m] \in {"settled", "failed"}

(* dividends.ts: "Statutory 20/2/5% is taken at most once per period". *)
StatutoryOnce == taken <= 1

(* session.ts, awaiting_dividend_confirm: "a malformed/again reply cannot
   re-trigger a payout": no member gets more transfers than previews were shown. *)
OneRunPerPreview == \A m \in Savers : landed[m] <= granted

(* admin.ts, paydividend: "Cooperative governance requires member approval for rate
   changes above 5%." *)
RateNeedsVote ==
    [][lastRate' # lastRate =>
        lastRate = 0 \/ Near(lastRate') \/ ApprovedFor(lastRate') # {}]_vars
=============================================================================
