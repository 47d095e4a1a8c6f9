---------------------------- MODULE Withdrawals ----------------------------
(***************************************************************************)
(* The member-withdrawal saga of one cooperative: services/withdrawals.ts, *)
(* the payout helper sendToBank/payOut of services/disbursements.ts and    *)
(* the withdrawal branch of services/statuspoller.ts.                      *)
(*                                                                         *)
(* A member asks for money, an admin approves, a super admin finalizes:    *)
(* the request is claimed, the wallet debited, the bank transfer sent with *)
(* the request's own reference, and the request settled.  Every super      *)
(* admin runs one finalize handler at a time; handlers interleave at their *)
(* database statements and at the provider call.                           *)
(*                                                                         *)
(* Ambient = TRUE is the deployed program: handleMessage runs the whole    *)
(* handler in one READ COMMITTED transaction, so its writes stay in its    *)
(* buffer (fields st and debit of fin[s]) until it returns, its rows stay  *)
(* locked and a crash or a transaction timeout discards them.              *)
(* Ambient = FALSE is the same service called outside a transaction, as    *)
(* the unit tests do: every statement commits at once.                     *)
(***************************************************************************)
EXTENDS Integers

CONSTANTS
    Members,      \* members whose wallets are modelled; they ask for money
    Admins,       \* ids of the cooperative's admins
    Supers,       \* ids of its super admins (a super may also be a member)
    Requests,     \* ids of withdrawal requests
    Sessions,     \* chat handlers that can run requestWithdrawal
    Amounts,      \* amounts a member asks for
    Balance0,     \* every wallet's first balance
    MaxBalance,   \* bound: external deposits stop here
    Nobody,       \* no actor
    NoRequest,    \* no request
    MaxAnomalies, \* bound: humans stop retrying a request over-refunded or
                  \* over-booked this often
    Events,       \* bound: which changes others make to a member's rows
    Ambient,      \* one transaction per handler, or one per statement
    Polling,      \* TRANSFER_POLL_MINUTES # 0
    Crashes,      \* processes die, transactions time out, statements fail
    LostReplies   \* the provider accepts a transfer but its answer is lost

ASSUME ConstantsAssumption ==
    /\ Amounts \subseteq Nat \ {0}
    /\ Events \subseteq {"override", "cooldown", "block", "credit", "debit"}
    /\ MaxAnomalies \in Nat
    /\ Balance0 \in Nat /\ MaxBalance \in Nat
    /\ {Ambient, Polling, Crashes, LostReplies} \subseteq BOOLEAN
    /\ NoRequest \notin Requests
    /\ Nobody \notin Admins \cup Supers \cup Members
    /\ Admins \cap Supers = {}

VARIABLES
    wd,       \* the WithdrawalRequest rows, as committed
    mem,      \* the Member and Wallet rows, as committed
    payouts,  \* requests with a committed Payout row
    prov,     \* the provider's record of reference TFR-WDR-<request>
    fin,      \* the finalize handler of each super admin
    ses,      \* the requestWithdrawal handler of each chat session
    poll      \* the status poller

vars == <<wd, mem, payouts, prov, fin, ses, poll>>

Statuses == {"none", "pending", "admin_approved", "processing", "aml_review",
             "investigating", "paid", "rejected"}
OpenStatuses == {"pending", "admin_approved", "processing"}

\* taken: what the request has taken from the wallet, debits minus refunds;
\* booked: how many ledger entries were posted for it.
NoRow == [status |-> "none", owner |-> Nobody, amount |-> 0, adminBy |-> Nobody,
          finalBy |-> Nobody, taken |-> 0, booked |-> 0]
IdleFin == [pc |-> "idle", r |-> NoRequest, ov |-> FALSE, covered |-> FALSE,
            res |-> "none", st |-> "none", debit |-> 0]
IdleSes == [pc |-> "idle", m |-> Nobody, max |-> 0, hot |-> FALSE, blocked |-> FALSE]
IdlePoll == [r |-> NoRequest, saw |-> "none"]

Init ==
    /\ wd = [r \in Requests |-> NoRow]
    /\ mem = [m \in Members |->
                [bal |-> Balance0, hot |-> FALSE, waived |-> FALSE, blocked |-> FALSE]]
    /\ payouts = {}
    /\ prov = [r \in Requests |-> "none"]
    /\ fin = [s \in Supers |-> IdleFin]
    /\ ses = [x \in Sessions |-> IdleSes]
    /\ poll = IdlePoll

-----------------------------------------------------------------------------
(* Row locks: a row written by an open transaction blocks other writers.   *)

RowLocked(r) == \E s \in Supers : fin[s].r = r /\ fin[s].st # "none"
WalletLocked(m) ==
    \E s \in Supers : fin[s].debit # 0 /\ wd[fin[s].r].owner = m

\* The status of handler s's request as its own statements see it.
Own(s) == IF fin[s].st = "none" THEN wd[fin[s].r].status ELSE fin[s].st
Owner(s) == wd[fin[s].r].owner
Amount(s) == wd[fin[s].r].amount

\* Commit: status st, claimed by b, and d more taken from the wallet.
Store(r, b, st, d) ==
    /\ wd' = [wd EXCEPT ![r].status = st, ![r].finalBy = b, ![r].taken = @ + d]
    /\ mem' = [mem EXCEPT ![wd[r].owner].bal = @ - d]

\* finalizedById after a statement that does not assign it: the handler's own
\* claim when that is still in its buffer, the committed one otherwise.
Claimer(s) == IF Ambient THEN s ELSE wd[fin[s].r].finalBy

\* One statement of handler s in the middle of its work; f is its next control
\* state.  Buffered in the ambient transaction, committed at once without one.
Statement(s, f, b, st, d) ==
    IF Ambient
    THEN /\ fin' = [fin EXCEPT ![s] = [f EXCEPT !.st = st, !.debit = @ + d]]
         /\ UNCHANGED <<wd, mem>>
    ELSE /\ fin' = [fin EXCEPT ![s] = f]
         /\ Store(f.r, b, st, d)

\* The handler's last statement: it returns and its transaction commits.
Finish(s, b, st, d) ==
    /\ fin' = [fin EXCEPT ![s] = IdleFin]
    /\ Store(fin[s].r, b, st, fin[s].debit + d)

\* updateMany(where: status "processing") sets st only when the guard holds.
IfProcessing(s, st) == IF Own(s) = "processing" THEN st ELSE Own(s)

Goto(s, pc) == fin' = [fin EXCEPT ![s].pc = pc]

-----------------------------------------------------------------------------
(* requestWithdrawal: the member row is read, then locked, then used.      *)

\* floor(balance * WITHDRAW_LIMIT_RATIO)
Limit(b) == (b * 45) \div 100

\* Mutant: an approved request no longer counts as open.
HasOpenPending(m) ==
    \E r \in Requests : wd[r].owner = m /\ wd[r].status \in {"pending", "processing"}

HasOpen(m) == \E r \in Requests : wd[r].owner = m /\ wd[r].status \in OpenStatuses

RequestRead(x, m) ==
    /\ ses[x].pc = "idle"
    /\ ses' = [ses EXCEPT ![x] =
                 [pc |-> "lock", m |-> m, max |-> Limit(mem[m].bal),
                  hot |-> mem[m].hot /\ ~mem[m].waived, blocked |-> mem[m].blocked]]
    /\ UNCHANGED <<wd, mem, payouts, prov, fin, poll>>

\* SELECT .. FOR UPDATE, the open-request query, the checks on the row read
\* before the lock, the insert.
RequestCreate(x, r, a) ==
    LET m == ses[x].m IN
    /\ ses[x].pc = "lock"
    /\ wd[r].status = "none"
    /\ ~HasOpen(m) /\ ~ses[x].blocked /\ ~ses[x].hot
    /\ a <= ses[x].max
    /\ wd' = [wd EXCEPT ![r] = [NoRow EXCEPT !.status = "pending", !.owner = m, !.amount = a]]
    /\ ses' = [ses EXCEPT ![x] = IdleSes]
    /\ UNCHANGED <<mem, payouts, prov, fin, poll>>

RequestRefused(x) ==
    /\ ses[x].pc = "lock"
    /\ \/ HasOpen(ses[x].m) \/ ses[x].blocked \/ ses[x].hot
       \/ \E a \in Amounts : a > ses[x].max
    /\ ses' = [ses EXCEPT ![x] = IdleSes]
    /\ UNCHANGED <<wd, mem, payouts, prov, fin, poll>>

-----------------------------------------------------------------------------
(* The humans around the saga.                                             *)

AdminApprove(a, r) ==
    /\ a # wd[r].owner
    /\ wd[r].status = "pending" /\ ~RowLocked(r)
    /\ wd' = [wd EXCEPT ![r].status = "admin_approved", ![r].adminBy = a]
    /\ UNCHANGED <<mem, payouts, prov, fin, ses, poll>>

\* Mutant: reject by id, trusting the status read before.
RejectUnguarded(r) ==
    /\ wd[r].status # "none" /\ ~RowLocked(r)
    /\ wd' = [wd EXCEPT ![r].status = "rejected"]
    /\ UNCHANGED <<mem, payouts, prov, fin, ses, poll>>

Reject(r) ==
    /\ wd[r].status \in {"pending", "admin_approved", "aml_review"} /\ ~RowLocked(r)
    /\ wd' = [wd EXCEPT ![r].status = "rejected"]
    /\ UNCHANGED <<mem, payouts, prov, fin, ses, poll>>

OverrideRule(m) ==
    /\ "override" \in Events /\ ~mem[m].waived
    /\ mem' = [mem EXCEPT ![m].waived = TRUE]
    /\ UNCHANGED <<wd, payouts, prov, fin, ses, poll>>

\* Time passes until withdrawalCooldownMonths after the last payout.
CooldownEnds(m) ==
    /\ "cooldown" \in Events /\ mem[m].hot
    /\ mem' = [mem EXCEPT ![m].hot = FALSE]
    /\ UNCHANGED <<wd, payouts, prov, fin, ses, poll>>

\* A self-freeze, a supervisory freeze, a revocation or a death claim, and
\* its lifting.
SetBlocked(m, b) ==
    /\ "block" \in Events /\ mem[m].blocked # b
    /\ mem' = [mem EXCEPT ![m].blocked = b]
    /\ UNCHANGED <<wd, payouts, prov, fin, ses, poll>>

\* The wallet's other movements: savings in, and guarded debits elsewhere.
OtherCredit(m) ==
    /\ "credit" \in Events /\ mem[m].bal < MaxBalance /\ ~WalletLocked(m)
    /\ mem' = [mem EXCEPT ![m].bal = @ + 1]
    /\ UNCHANGED <<wd, payouts, prov, fin, ses, poll>>

OtherDebit(m) ==
    /\ "debit" \in Events /\ mem[m].bal > 0 /\ ~WalletLocked(m)
    /\ mem' = [mem EXCEPT ![m].bal = @ - 1]
    /\ UNCHANGED <<wd, payouts, prov, fin, ses, poll>>

-----------------------------------------------------------------------------
(* finalizeWithdrawal                                                      *)

\* Mutant: a super finalizes a withdrawal of their own.
MayFinalizeOwn(s, r, ov) ==
    /\ wd[r].status \notin {"none", "paid", "rejected", "processing"}
    /\ wd[r].status = "aml_review" => ov

\* The checks before the claim, on the row as first read.
MayFinalize(s, r, ov) ==
    /\ wd[r].status \notin {"none", "paid", "rejected", "processing"}
    /\ wd[r].status = "aml_review" => ov
    /\ wd[r].owner # s

BeginFinalize(s, r, ov) ==
    /\ fin[s].pc = "idle"
    /\ MayFinalize(s, r, ov) 
    /\ wd[r].taken >= -MaxAnomalies /\ wd[r].booked <= MaxAnomalies
    /\ fin' = [fin EXCEPT ![s] = [IdleFin EXCEPT !.pc = "claim", !.r = r, !.ov = ov]]
    /\ UNCHANGED <<wd, mem, payouts, prov, ses, poll>>

\* approvewithdraw by a super admin goes straight to finalizeWithdrawal.
SuperApprove(s, r) ==
    /\ wd[r].status \in {"pending", "admin_approved"}
    /\ BeginFinalize(s, r, FALSE)

\* Mutant: the hold is checked on the first read only.
ClaimableHeld(ov) == {"pending", "admin_approved", "aml_review"}

Claimable(ov) == {"pending", "admin_approved"} \cup (IF ov THEN {"aml_review"} ELSE {})

\* Mutant: the row is claimed by id, trusting the status read before.
ClaimUnguarded(s) ==
    /\ fin[s].pc = "claim" /\ ~RowLocked(fin[s].r)
    /\ Statement(s, [fin[s] EXCEPT !.pc = "gate"], s, "processing", 0)
    /\ UNCHANGED <<payouts, prov, ses, poll>>

\* STEP 1: the guarded update waits for the row's lock, then looks again.
Claim(s) ==
    /\ fin[s].pc = "claim" /\ ~RowLocked(fin[s].r)
    /\ IF wd[fin[s].r].status \in Claimable(fin[s].ov)
       THEN Statement(s, [fin[s] EXCEPT !.pc = "gate"], s, "processing", 0)
       ELSE fin' = [fin EXCEPT ![s] = IdleFin] /\ UNCHANGED <<wd, mem>>
    /\ UNCHANGED <<payouts, prov, ses, poll>>

\* The wallet is read; the AML check (if not overridden) lets the payout go on.
AmlPass(s) ==
    /\ fin[s].pc = "gate"
    /\ fin' = [fin EXCEPT ![s].pc = "debit", 
                          ![s].covered = mem[Owner(s)].bal >= Amount(s)]
    /\ UNCHANGED <<wd, mem, payouts, prov, ses, poll>>

\* A suspicious pattern: held for a human.
AmlHold(s) ==
    /\ fin[s].pc = "gate" /\ ~fin[s].ov
    /\ Finish(s, Claimer(s), IfProcessing(s, "aml_review"), 0)
    /\ UNCHANGED <<payouts, prov, ses, poll>>

\* Mutant: the decrement trusts the balance read earlier.
DebitUnguarded(s) ==
    /\ fin[s].pc = "debit" /\ ~WalletLocked(Owner(s))
    /\ IF fin[s].covered
       THEN Statement(s, [fin[s] EXCEPT !.pc = "send"], Claimer(s), Own(s), Amount(s))
       ELSE Finish(s, Claimer(s), IfProcessing(s, "rejected"), 0)
    /\ UNCHANGED <<payouts, prov, ses, poll>>

\* STEP 2: the balance read earlier, then the guarded decrement.
Debit(s) ==
    LET a == Amount(s) IN
    /\ fin[s].pc = "debit"
    /\ \/ /\ fin[s].covered /\ mem[Owner(s)].bal >= a /\ ~WalletLocked(Owner(s))
          /\ Statement(s, [fin[s] EXCEPT !.pc = "send", !.covered = FALSE], Claimer(s), Own(s), a)
       \/ /\ ~fin[s].covered \/ (mem[Owner(s)].bal < a /\ ~WalletLocked(Owner(s)))
          /\ Finish(s, Claimer(s), IfProcessing(s, "rejected"), 0)
    /\ UNCHANGED <<payouts, prov, ses, poll>>

\* sendToBank / payOut up to the provider call: an account that does not
\* resolve, another name, a screening hit, a Payout row with this reference.
HoldPayout(s) ==
    /\ fin[s].pc = "send"
    /\ fin' = [fin EXCEPT ![s].pc = "settle", ![s].res = "failed"]
    /\ UNCHANGED <<wd, mem, payouts, prov, ses, poll>>

ReadyToPay(s) ==
    /\ fin[s].pc = "send" /\ fin[s].r \notin payouts
    /\ Goto(s, "call")
    /\ UNCHANGED <<wd, mem, payouts, prov, ses, poll>>

\* The provider's answer to one transfer request: what it records under the
\* reference (p) and what payOut is told (res).  A reference it holds already
\* is refused as a duplicate.
Answers(r) ==
    IF prov[r] \in {"none", "failed"}
    THEN {[p |-> "accepted", res |-> "ok"], [p |-> "accepted", res |-> "unsure"],
          [p |-> "failed", res |-> "failed"]}
         \cup (IF LostReplies THEN {[p |-> "accepted", res |-> "failed"]} ELSE {})
    ELSE {[p |-> prov[r], res |-> "failed"]}

CallProvider(s) ==
    /\ fin[s].pc = "call"
    /\ \E ans \in Answers(fin[s].r) :
        /\ prov' = [prov EXCEPT ![fin[s].r] = ans.p]
        /\ fin' = [fin EXCEPT ![s].pc = IF ans.res = "ok" THEN "record" ELSE "settle",
                              ![s].res = ans.res]
    /\ UNCHANGED <<wd, mem, payouts, ses, poll>>

\* The Payout row.  A duplicate key is reported as a failure; inside an
\* ambient transaction it aborts the transaction instead (Crash).
RecordPayout(s) ==
    /\ fin[s].pc = "record"
    /\ fin[s].r \in payouts => ~Ambient
    /\ fin' = [fin EXCEPT ![s].pc = "settle",
                          ![s].res = IF fin[s].r \in payouts THEN "failed" ELSE "ok"]
    /\ payouts' = IF Ambient THEN payouts ELSE payouts \cup {fin[s].r}
    /\ UNCHANGED <<wd, mem, prov, ses, poll>>

\* The transfer's outcome is unconfirmed: by id, whatever the status is now.
SettleUnsure(s) ==
    /\ fin[s].pc = "settle" /\ fin[s].res = "unsure"
    /\ Finish(s, Claimer(s), "investigating", 0)
    /\ UNCHANGED <<payouts, prov, ses, poll>>

\* Mutants: handed back without the refund; handed back in an unknown status.
SettleFailedKeeps(s) ==
    /\ fin[s].pc = "settle" /\ fin[s].res = "failed"
    /\ Finish(s, Claimer(s), "admin_approved", 0)
    /\ UNCHANGED <<payouts, prov, ses, poll>>
SettleFailedUnknown(s) ==
    /\ fin[s].pc = "settle" /\ fin[s].res = "failed"
    /\ Finish(s, Claimer(s), "approved", -Amount(s))
    /\ UNCHANGED <<payouts, prov, ses, poll>>

\* STEP 4b: refund and hand back, by id, whatever the status is now.
SettleFailed(s) ==
    /\ fin[s].pc = "settle" /\ fin[s].res = "failed"
    /\ Finish(s, Claimer(s), "admin_approved", -Amount(s))
    /\ UNCHANGED <<payouts, prov, ses, poll>>

\* STEP 4a: paid, the cooldown restarts, the books (best effort: outside a
\* transaction a failing entry is skipped).
SettlePaid(s) ==
    LET r == fin[s].r
        own == Own(s) = "processing"
        posted == IF Ambient THEN {1} ELSE {0, 1}
    IN
    /\ fin[s].pc = "settle" /\ fin[s].res = "ok"
    /\ \E n \in posted :
         wd' = [wd EXCEPT ![r].status = IfProcessing(s, "paid"),
                          ![r].finalBy = IF own THEN s ELSE @,
                          ![r].taken = @ + fin[s].debit,
                          ![r].booked = @ + n]
    /\ mem' = [mem EXCEPT ![Owner(s)].bal = @ - fin[s].debit,
                          ![Owner(s)].hot = TRUE, ![Owner(s)].waived = FALSE]
    /\ payouts' = payouts \cup {r}
    /\ fin' = [fin EXCEPT ![s] = IdleFin]
    /\ UNCHANGED <<prov, ses, poll>>

\* The process dies, or the 20 s transaction timeout or a failed statement
\* ends the ambient transaction: nothing the buffer holds is committed.
Crash(s) ==
    /\ Crashes /\ fin[s].pc # "idle"
    /\ fin' = [fin EXCEPT ![s] = IdleFin]
    /\ UNCHANGED <<wd, mem, payouts, prov, ses, poll>>

\* The transaction times out under a handler that goes on to the provider:
\* the failed screening insert is swallowed and payOut calls provider.payout.
Expire(s) ==
    /\ Ambient /\ Crashes /\ fin[s].pc = "call"
    /\ fin' = [fin EXCEPT ![s] = [IdleFin EXCEPT !.pc = "orphan", !.r = fin[s].r]]
    /\ UNCHANGED <<wd, mem, payouts, prov, ses, poll>>

OrphanCall(s) ==
    /\ fin[s].pc = "orphan"
    /\ \E ans \in Answers(fin[s].r) : prov' = [prov EXCEPT ![fin[s].r] = ans.p]
    /\ fin' = [fin EXCEPT ![s] = IdleFin]
    /\ UNCHANGED <<wd, mem, payouts, ses, poll>>

\* Outside a transaction a statement that throws reaches the outer catch, or
\* payOut's own when the transfer was already submitted.
StatementThrows(s) ==
    /\ ~Ambient /\ Crashes
    /\ \/ /\ fin[s].pc \in {"debit", "send", "settle"}
          /\ Finish(s, Claimer(s), "investigating", 0)
       \/ /\ fin[s].pc = "record"
          /\ fin' = [fin EXCEPT ![s].pc = "settle", ![s].res = "unsure"]
          /\ UNCHANGED <<wd, mem>>
    /\ UNCHANGED <<payouts, prov, ses, poll>>

-----------------------------------------------------------------------------
(* The provider (external) and the status poller.                          *)

\* An accepted transfer lands or fails at the bank.
ProviderSettles(r) ==
    /\ prov[r] = "accepted"
    /\ \E p \in {"sent", "failed"} : prov' = [prov EXCEPT ![r] = p]
    /\ UNCHANGED <<wd, mem, payouts, fin, ses, poll>>

\* Mutant: only successful transfers are settled.
PollerAskSent(r) ==
    /\ Polling /\ poll = IdlePoll
    /\ wd[r].status = "processing" /\ prov[r] = "sent"
    /\ poll' = [r |-> r, saw |-> prov[r]]
    /\ UNCHANGED <<wd, mem, payouts, prov, fin, ses>>

\* The stuck-row query and getTransferStatus; pending and unknown are left
\* alone.  The row's age is its request's, so any processing row may be old.
PollerAsk(r) ==
    /\ Polling /\ poll = IdlePoll
    /\ wd[r].status = "processing" /\ prov[r] \in {"sent", "failed"}
    /\ poll' = [r |-> r, saw |-> prov[r]]
    /\ UNCHANGED <<wd, mem, payouts, prov, fin, ses>>

PollerPaid ==
    LET r == poll.r
        claimed == wd[r].status = "processing"
    IN
    /\ poll.saw = "sent" /\ ~RowLocked(r)
    /\ wd' = IF claimed THEN [wd EXCEPT ![r].status = "paid", ![r].booked = @ + 1] ELSE wd
    /\ mem' = [mem EXCEPT ![wd[r].owner].hot = TRUE, ![wd[r].owner].waived = FALSE]
    /\ poll' = IdlePoll
    /\ UNCHANGED <<payouts, prov, fin, ses>>

PollerRefund ==
    LET r == poll.r
        claimed == wd[r].status = "processing"
    IN
    /\ poll.saw = "failed" /\ ~RowLocked(r)
    /\ IF claimed THEN Store(r, wd[r].finalBy, "admin_approved", -wd[r].amount)
                  ELSE UNCHANGED <<wd, mem>>
    /\ poll' = IdlePoll
    /\ UNCHANGED <<payouts, prov, fin, ses>>

-----------------------------------------------------------------------------
Handler(s) ==
    \/ Claim(s) \/ AmlPass(s) \/ AmlHold(s) \/ Debit(s)
    \/ HoldPayout(s) \/ ReadyToPay(s) \/ CallProvider(s) \/ RecordPayout(s)
    \/ SettleUnsure(s) \/ SettleFailed(s) \/ SettlePaid(s)
    \/ Crash(s) \/ Expire(s) \/ OrphanCall(s) \/ StatementThrows(s)

MemberRow(m) ==
    \/ OverrideRule(m) \/ CooldownEnds(m) \/ OtherCredit(m) \/ OtherDebit(m)
    \/ \E b \in BOOLEAN : SetBlocked(m, b)

\* Every step but those of the finalize handlers.
Outside ==
    \/ \E x \in Sessions :
         \/ \E m \in Members : RequestRead(x, m)
         \/ \E r \in Requests, a \in Amounts : RequestCreate(x, r, a)
         \/ RequestRefused(x)
    \/ \E a \in Admins, r \in Requests : AdminApprove(a, r)
    \/ \E r \in Requests : Reject(r) \/ ProviderSettles(r) \/ PollerAsk(r)
    \/ \E m \in Members : MemberRow(m)
    \/ PollerPaid \/ PollerRefund

Next ==
    \/ Outside
    \/ \E s \in Supers, r \in Requests :
         SuperApprove(s, r) \/ \E ov \in BOOLEAN : BeginFinalize(s, r, ov)
    \/ \E s \in Supers : Handler(s)

Spec == Init /\ [][Next]_vars

\* Liveness: the event loop runs every live handler on, the provider settles
\* what it accepted, and the poller's timer fires every TRANSFER_POLL_MINUTES.
HandlerRuns(s) ==
    \/ Claim(s) \/ AmlPass(s) \/ AmlHold(s) \/ Debit(s)
    \/ HoldPayout(s) \/ ReadyToPay(s) \/ CallProvider(s) \/ RecordPayout(s)
    \/ SettleUnsure(s) \/ SettleFailed(s) \/ SettlePaid(s)

Fairness ==
    /\ \A s \in Supers : WF_vars(HandlerRuns(s))
    /\ \A r \in Requests : WF_vars(ProviderSettles(r)) /\ WF_vars(PollerAsk(r))
    /\ WF_vars(PollerPaid) /\ WF_vars(PollerRefund)

FairSpec == Spec /\ Fairness

-----------------------------------------------------------------------------
(* Properties                                                              *)

FinPcs == {"idle", "claim", "gate", "debit", "send", "call", "record", "settle", "orphan"}
Actors == Admins \cup Supers \cup {Nobody}

WdRow == [status : Statuses, owner : Members \cup {Nobody}, amount : Nat,
          adminBy : Actors, finalBy : Actors, taken : Int, booked : Nat]
MemRow == [bal : Int, hot : BOOLEAN, waived : BOOLEAN, blocked : BOOLEAN]
FinRow == [pc : FinPcs, r : Requests \cup {NoRequest}, ov : BOOLEAN, covered : BOOLEAN,
           res : {"none", "ok", "failed", "unsure"}, st : Statuses, debit : Int]
SesRow == [pc : {"idle", "lock"}, m : Members \cup {Nobody}, max : Int, hot : BOOLEAN,
           blocked : BOOLEAN]

TypeOK ==
    /\ wd \in [Requests -> WdRow]
    /\ mem \in [Members -> MemRow]
    /\ payouts \subseteq Requests
    /\ prov \in [Requests -> {"none", "accepted", "sent", "failed"}]
    /\ fin \in [Supers -> FinRow]
    /\ ses \in [Sessions -> SesRow]
    /\ poll \in [r : Requests \cup {NoRequest}, saw : {"none", "sent", "failed"}]

\* Dual control (approveWithdrawal, finalizeWithdrawal): nobody approves or
\* finalizes a withdrawal of their own, and only a super admin's claim pays.
DualControl ==
    \A r \in Requests :
        /\ wd[r].adminBy # Nobody => wd[r].adminBy # wd[r].owner
        /\ wd[r].finalBy # Nobody => wd[r].finalBy \in Supers \ {wd[r].owner}
        /\ wd[r].status \in {"paid", "investigating"} => wd[r].finalBy # Nobody

\* The wallet pays each request exactly once and only for money that may have
\* left: a paid request or one under investigation holds its amount, any other
\* has been refunded in full.  Steps 2, 4a and 4b of finalizeWithdrawal.
TakenMatchesStatus ==
    \A r \in Requests :
        wd[r].taken = IF wd[r].status \in {"paid", "investigating"} THEN wd[r].amount ELSE 0

\* The guarded decrement: concurrent payouts and other debits never overdraw.
\* What open transactions are about to take is counted as gone.
Solvent ==
    \A m \in Members :
        /\ mem[m].bal >= 0
        /\ \A s \in Supers : (fin[s].debit # 0 /\ Owner(s) = m) => mem[m].bal >= fin[s].debit

\* The atomic claim: between claim and settlement a request belongs to one
\* handler.
Working(s) == fin[s].pc \notin {"idle", "claim", "orphan"}
OneFinalizer ==
    \A s, t \in Supers : s # t /\ Working(s) /\ Working(t) => fin[s].r # fin[t].r

\* The books: one ledger entry for each paid request and none for the others.
BookedOnce ==
    \A r \in Requests : wd[r].booked = IF wd[r].status = "paid" THEN 1 ELSE 0

\* A request held for AML review leaves the hold by a rejection or by the
\* handler of a super admin who gave the override, never by a finalize that
\* read the row before it was held.
AmlHoldNeedsOverride ==
    [][\A r \in Requests :
          wd[r].status = "aml_review" /\ wd'[r].status \notin {"aml_review", "rejected"}
          => \E s \in Supers : fin[s].r = r /\ fin[s].ov /\ fin'[s] # fin[s]]_vars

\* Paid and rejected are final: no late handler, poll or reject overwrites them.
DecidedIsFinal ==
    [][\A r \in Requests :
          wd[r].status \in {"paid", "rejected"} => wd'[r].status = wd[r].status]_vars

\* A row left in processing by a dead handler, whose transfer the provider
\* took, is settled by the poller (or by the handler, if it lives after all).
StuckRowsSettle ==
    \A r \in Requests :
        (wd[r].status = "processing" /\ prov[r] \in {"accepted", "sent"})
            ~> wd[r].status # "processing"

\* The committed rows of the deployed program change only as the contract
\* says: inside one transaction the saga's claim, debit, settlement and refund
\* are a single decision.
Contract == INSTANCE WithdrawalContract WITH rows <- wd, accounts <- mem
ImplementsContract == Contract!CSpec

-----------------------------------------------------------------------------
(* What the repository's words say of this code, and the code does not do.  *)

\* statuspoller.ts: a handler that dies between the provider call and the
\* settlement leaves its row in processing, for the poller to find.
DeadHandlerLeavesProcessing ==
    [][\A s \in Supers :
          fin[s].pc \in {"record", "settle"} /\ Crash(s) => wd'[fin[s].r].status = "processing"]_vars

\* README: at most once every 6 months, unless an admin waives the window.
OncePerWindow ==
    [][\A r \in Requests :
          wd[r].status # "paid" /\ wd'[r].status = "paid"
          => ~mem[wd[r].owner].hot \/ mem[wd[r].owner].waived]_vars
=============================================================================
