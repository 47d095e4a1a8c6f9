# Formal models of coop-whatsapp

TLA+ specifications of the cooperative's money and control flows, their TLC
instances, and theorems proved with TLAPS. Paths are relative to the repository.

## 1. The system

A Node process serves WhatsApp and Telegram messages, an admin API, payment-provider
webhooks and timers. State is in PostgreSQL (Prisma), in Redis when there is one, and at
the payment providers. Several processes may run at once.

Three facts shape every model:

* **One transaction per chat handler.** `handleMessage` (services/conversation.ts) and
  `withTenant` (routes/admin.ts) run the whole handler in one READ COMMITTED transaction
  (lib/tenant-context.ts, lib/prisma.ts), even when it calls a payment provider half way.
  Nested `$transaction` and `withTxBatch` calls join it. Its writes are seen by nobody
  until it returns, its rows stay locked, and a crash, a failed statement or the 20 s
  timeout discards them, whatever the provider did meanwhile.
* **Guarded updates.** Concurrency is controlled by `updateMany` with the expected status
  in its `where`; the count tells who won. Reads before it may be stale.
* **References.** A provider keys transfers by a reference derived from the row's id;
  a second transfer under it is refused.

### Components

| component | state | operations | what must hold | module |
|---|---|---|---|---|
| withdrawals | `WithdrawalRequest`, `Wallet`, `Payout`, ledger | request, approve, finalize, reject, override | one debit per payout, refund exactly when the money stayed, dual control, once per window | Withdrawals, WithdrawalContract |
| pay-anyone | `ExternalPayment`, `Payout` | request, three approvals, pay, reject | three distinct approvers, paid once, daily ceiling | PayAnyone |
| disbursements | `Payout` | `sendToBank`, `disburseLoan` | one transfer per reference | BankTransfer, and inside Withdrawals, PayAnyone, Loans |
| status poller | rows in `processing` | poll, settle, refund | stuck rows end | Withdrawals, Dividends |
| loans, guarantors, committees | `Loan`, `Guarantor`, `CommitteeVote` | apply, approve in stages, disburse, substitute | stage order, disbursed once | Guarantees, Loans |
| repayments, recovery | `Loan.balance`, `GuarantorDeduction` | repay, fine, warn, deduct | a guarantor pays once, balance never below zero | Repayments |
| refunds, ombudsman | `RefundRequest`, `OmbudsmanCase` | recommend, approve, reject, remedy | dual control, paid once | Refunds |
| manual credits | `ManualCredit` | ask, approve by another, reject | credited once, by two | ManualCredits |
| death claims | `DeathClaim`, `DeathValidation`, `DeathClaimApproval` | report, validate, confirm, approve, pay | savings leave once, under all conditions | DeathClaims |
| dividends | `Dividend`, `DividendEntry`, `DividendVote` | vote, preview, confirm, distribute | shares add up to the pool, each member paid once | Dividends |
| inbound pipeline | `ProcessedInbound`, `WebhookFailure`, Redis mutex | receive, claim, lock, handle, fail | a message is handled at most once, one per phone at a time, a failure leaves a trace | Inbound |
| payment webhooks, top-ups | `WebhookEvent`, `Contribution`, `JournalEntry`, `Wallet` | receive, dedupe, credit, retry | each payment credited exactly once, none acknowledged and lost | TopUp |
| mandates | `Mandate`, `MandateDebit` | authorize, debit, retry, age, settle | a charge is credited once | Mandates |
| payroll deductions | `DeductionBatch`, `DeductionItem`, `DeductionShortfall` | build, submit, reconcile, approve, roll over | a batch is credited once | Deductions |
| scheduler, queue, cache | Redis keys, stamps on rows | start a job, lock, claim, send, mark | a notice goes out once | Scheduling |
| conversation | `Session.state`, `Session.data` | ask, answer, escape, expire, run | an operation runs on what its flow asked | Sessions |
| referrals | `Referral`, `ReferralWithdrawal` | record, qualify, withdraw a bonus | a bonus adds up | Referrals |
| groups | `GroupCycle`, `GroupContribution` | join, contribute, close | the pot equals what was paid in | Groups |
| savings products | `SavingsAccount` | open, deposit, withdraw, mature | an account equals its books | SavingsProducts |
| shop, commodity schemes | `ShopOrder`, `CommoditySubscription`, `Loan` | order, approve, dispatch, convert, collect | goods leave once, on a loan | Shop, Commodity |
| votes, polls, meetings | `Vote`, `PurchasePoll`, `Motion` and their ballots | open, vote, close | one ballot each, no outcome without a quorum | Ballots |
| federation | `FederationLoan`, two ledgers | fund, contribute, borrow, approve, repay | both ledgers agree | Federation |
| insurance | `InsurancePolicy`, `InsuranceClaim` | buy, renew, claim, pay | a claim is credited once | Insurance |
| ledger, shares, collectors, provisions, reconciliation | entries by reference, `ShareAccount`, `ProvisionRun` | post, buy, collect, provide, compare | the books add up | Books, TopUp |
| regulator filings | `RegulatorProfile`, `RegulatorReport` | configure, make a pack, file it, remind | what is filed stays filed, one reminder a day | Filings |
| screening, AML | `STR`, and the rows of withdrawals, payouts and deposits | screen, report, hold, alert | a report filed is one the central bank has, a large row is in a report, an alert goes out once a day | Aml |
| admin API, providers, messaging, AI, exports, dashboards, sandbox, backups | external, read-only or front ends | | see PROJECT.json | |

Components interact by calls inside one transaction (handler → service → `sendToBank` → adapter),
by rows that another process polls (poller, scheduler), by webhooks, by jobs queued for after a commit, and by the
`Wallet` row, which most of them debit or credit.

The hard behaviours: two approvers on one row; a read that is stale when it is used; the
provider's answer lost or late while the transaction that asked for it rolls back; redelivered
webhooks and messages; a poller, a webhook and a retry that settle the same transfer;
limits computed from sums of rows that are still uncommitted; a session that remembers an earlier flow; several
processes that start the same job. They are listed, each at its line, under `hazards` in PROJECT.json.

## 2. Plan

The order was that of the money at risk, and all of it is modelled: withdrawals and pay-anyone; inbound messages and
transfers; loans; the officers' decisions; collections and the jobs that make them; the front desk and the books.
Small components are checked side by side in one run, in which each behaviour is of one component (`part`): they share
no state, and one instance of each is explored in full. `MCDecisions`, `MCCollections` and `MCFrontdesk` compose them with `INSTANCE`.

Left: the provider side of the
reconciliation; the hash chain of the audit; the monthly pilot cap and the limits on PINs and codes; memberships of the federation.

## 3. Withdrawals

`Withdrawals.tla` models services/withdrawals.ts, `payOut` of services/disbursements.ts and
the withdrawal branch of services/statuspoller.ts.

| variable | code |
|---|---|
| `wd` | committed `WithdrawalRequest` rows; `taken` and `booked` are history: net wallet debit and ledger entries of the request |
| `mem` | committed `Member` and `Wallet` rows: balance, whether the 6-month window is running (`hot`) or waived, whether a freeze, death claim or revocation blocks the member |
| `payouts` | requests with a committed `Payout` row |
| `prov` | what the provider recorded under `TFR-WDR-<id>` |
| `fin[s]` | super admin s's `finalizeWithdrawal`: program counter, what it read, the provider's answer, and, in the ambient transaction, its uncommitted status and debit |
| `ses[x]` | a `requestWithdrawal` handler between its read and its insert |
| `poll` | the poller between its status query and its update |

One action per stretch of code between two points where another process can be seen: a
database statement or a provider call. `Statement` and `Finish` hide the difference between
the two ways the service is run:

* `Ambient = TRUE`: the deployed program. Writes are buffered, commit with the handler's
  return, and are lost with `Crash`. `Expire` is the 20 s timeout under a handler that
  goes on to the provider all the same (`OrphanCall`).
* `Ambient = FALSE`: every statement commits, as when the service is called from a job
  or a test. Only here does the poller find rows in processing.

`WithdrawalContract.tla` is the promise: on the committed rows a request is asked, approved, turned down
or decided, and a decision moves status, claimant, wallet and books in one step.
`ImplementsContract` says the deployed saga implements it.

| run | question | result |
|---|---|---|
| wd_deployed | deployed program, crashes, timeouts, lost answers, 2 requests, 2 supers | types, `TakenMatchesStatus`, `BookedOnce`, `AmlHoldNeedsOverride`, `DecidedIsFinal`, `ImplementsContract` hold |
| wd_roles | the owners are an admin and a super admin, other flows credit and debit their wallets | `DualControl`, `Solvent` hold |
| wd_poller | no transaction, poller on, fairness | `StuckRowsSettle` holds |

Disagreements the model shows: "a process that dies leaves its row in processing" (`DeadHandlerLeavesProcessing`: the deployed
transaction rolls the claim back); "at most once every 6 months" (`OncePerWindow`: a held request does not count as
open); a lost answer or a duplicate
reference is refunded as "confirmed not sent" (withdrawals.ts:547); `requestWithdrawal` is said to use a
serializable transaction (withdrawals.ts:117) but has the default isolation and reads the member before it
locks the row; finalize does not look at a freeze (README.md:133 "blocks all money-out"); no operation
leaves `investigating`. With `Ambient = FALSE` and the poller on, a stale provider status can
refund an attempt twice; the deployed mode never commits `processing`, so it cannot happen there.

Bounds. Two requests and two supers are the smallest instance where a handler, a second handler
on the same row and another row of the same wallet meet. Amount 1 and balance 3 let both be
paid and leave room for one external debit. `MaxAnomalies = 1` stops humans from retrying
a request forever after the books are already wrong (outside the deployed mode), `MaxBalance` stops deposits, `Events` selects
the outside changes a run needs. Requests and supers that hold no wallet are symmetric.

Fairness (`FairSpec`): weak fairness of a live handler's steps (the event loop runs them), of the
provider's settlement, and of the poller (its timer re-arms itself every
`TRANSFER_POLL_MINUTES`). No fairness is assumed of people or of crashes.

## 4. PayAnyone

`PayAnyone.tla` models services/payanyone.ts and the daily ceiling of services/fraud.ts.

| variable | code |
|---|---|
| `pay` | committed `ExternalPayment` rows; `hot`: less than the cool-off since `lastApprovedAt`; `booked`: the `Payout` row and ledger entry |
| `prov` | the provider's record of `PAYANY-<id>` |
| `fin[s]` | super admin s's `approveExternalPayment`: what it read, whether it took the third slot, whether it has the row's lock |

A handler that only approves commits at once. The third approval, and a retry of it, keeps the row
locked from its first write to its return, so `processing` is never a committed status here and the
poller's branch for pay-anyone never finds a row; it is left out. The velocity
check (`TooFast`) and the account-name and screening verdicts are nondeterministic.

| run | question | result |
|---|---|---|
| decisions, part payments | two payments, a ceiling for one, 3 supers, crashes and timeouts | types, `SlotsMatchStatus`, `ThreeApprovers`, `BookedOnce`, `DecidedIsFinal` hold |

Disagreements: "another super can retry the final approval" (`AnotherSuperCanRetry`: the slot stays taken); the daily cap
(README.md:511) is checked against committed payments, so two open transactions
that do not see each other's payment can exceed it; a pending or lost answer is settled as "nothing moved" (payanyone.ts:387); a paid payment is
in two of the sums the ceiling adds (fraud.ts:67), so approvers are blocked below it; the cool-off is checked on a
stale row and a slot given back leaves it running (README.md:514).

Bounds. Three supers are needed to pay; an admin may ask. One amount and a
ceiling of one payment meet the limit exactly. The model is one day and one month.

## 5. Decisions

What officers decide over money besides section 4, and what they file with the regulator. `MCDecisions` runs the components side by side with PayAnyone.
`BankTransfer.tla` holds what all of them share: the outcomes of `sendToBank` for a reference (refused, paid, taken but
unconfirmed, taken with the answer lost, refused as a duplicate) and what a roll-back leaves at the provider.

| module | code | state |
|---|---|---|
| Refunds | services/refunds.ts, services/ombudsman.ts | `refund` (`RefundRequest` with maker and checker; `unsure`: stored as failed, the money may have left), `bank`, `clerk` (a super's handler between read and commit), `case` (`OmbudsmanCase`), `desk` (an ombudsman's handler, statement by statement) |
| ManualCredits | services/manualcredit.ts | `credit` (`ManualCredit`), `credited` (wallet increments with their entry), `clerk` |
| DeathClaims | services/deathclaims.ts, services/loan-protection.ts | `claim`, `valid`, `appr` (claim, validations, approvals), `wallet`, `debt`, `fund`, `writtenOff`, `bank`, `hand` |
| Dividends | services/dividends.ts, services/dividendvote.ts, three commands of services/admin.ts, the confirmation of handlers/session.ts | `asking` (a session that waits for CONFIRM), `vote`, `run`, `entry`, `bank`, `returned` and `reversed` (transfers the provider sends back), `taken`, `hand` |
| Filings | services/regulator-reporting.ts, the job of services/scheduler.ts | `regulator` (the active `RegulatorProfile` rows), `pack` (`RegulatorReport`, with the day on which its data were read), `clerk` (an admin's handler), `job` (a run of the tick's job), `claimed` (Redis keys), `reminded`; `crossed` and `mishaps` are history |

A handler is a step that reads and a step that commits, the transfer included; `Lose...` rolls it back after the transfer.
The ombudsman belongs to no cooperative, so his handler has no transaction: its statements are seen one at a time, those of
a refusal too (read the refund, cancel it, give the case's claim back), and any of them may throw.
A claim of a refund compares what the row stores (refunds.ts:190-193), and an unsure refund is stored as failed: only the
read before the claim looks at the reason (`Approvable`), so a handler that read "failed" may claim what became unsure meanwhile.
`AllocateShares` is the largest-remainder rule of dividends.ts on integers.

| run | question | result |
|---|---|---|
| decisions | 1 refund with 2 handlers and 2 desks; elsewhere 2 rows, 2 officers, 2 handlers; two members with savings 2:1, rates 10 and 20, 2 previews, 2 transfers | types, `PaidMatchesBooks`, `CreditedOnceByTwo`, `SavingsLeaveOnce`, `PoolIsShared`, `FilingsStand` hold (and those of section 4) |
| dividend_again | "a malformed/again reply cannot re-trigger a payout" (session.ts:2404) | violated (`OneRunPerPreview`): the roll-back of a run rolls back the end of its session |

Disagreements the model shows, with the property that states each:

* a super admin who recommended a refund may approve it (`TwoPeople`; README.md:365-385 has two people);
* an unsure refund is said to stay blocked until a human reconciles it (refunds.ts:166-168, `UnsureStaysBlocked`), and is
  approved again by whoever read it while it was only failed; the provider's refusal of the duplicate keeps the books right (`PaidMatchesBooks`);
* one case's remedy can be paid twice, by two desks that both saw it open (`RemedyPaysOnce`);
* a manual credit may be rejected by one handler while another credits it (`RejectedMovedNothing`);
* a claim that becomes complete after every super admin has approved it can be approved by nobody any more (`CompleteCanProceed`), and two handlers can write one protected loan off twice (`WrittenOffOnce`);
* two confirmations of previews shown earlier each take the statutory funds (`StatutoryOnce`), and each was checked against the rate before the other (`RateNeedsVote`).

Filings are made, filed and configured by handlers that read a row and write it by its id without looking again, and made by a
job that reads which packs exist before it makes the first of them. So a pack can be filed twice, go back to older data, be made by
the job although it exists, and a cooperative can have two first profiles. `FilingsStand` says that this happens to nothing but
what two of them were busy with at the same time (`crossed`); that a pack that is made again stays filed on the day it was filed
(regulator-reporting.ts:832); and that a reminder goes out once for a pack and day (`claimOnce`, scheduler.ts:1242). One pack is enough, for the
property is per row; the second day is the one on which it is due, and on which data, filings and reminders are later
than those of the first. Periods do not change within a run. Left out: what a pack contains, its upload and its mail, and `claimOnce`
without Redis, which is in Scheduling.

Bounds. Two officers are dual control; two rows and two handlers let one officer's stale read meet another's commit on the same
row and on a row of the same member. Of refunds there is one, because each is claimed by its own row and a second one shares nothing with it but the
case: two clerks and two desks cross on it between any two statements, and section 10 has any number of them. (`RemedyPaysOnce` needs two to fail.) Weights 2:1 leave a remainder at both rates. The dead member has a protected loan or none: without one the
payment is made on the balance that was read, and its guarded debit can fail. Two previews are needed for two runs; two transfers to
one member are one too many.

## 6. Inbound and TopUp

The two ways in: a member's chat messages and bank transfers. They share no state; `MCIntake` explores
one of them in each behaviour (`part`), with the actions of both in its next-state relation.

`Inbound.tla` models lib/inbound-dedupe.ts, lib/redis-mutex.ts, lib/webhook-failures.ts and the two places that
use them, routes/webhook.ts and services/telegram-bot.ts. The messages are those of one member, so there is one mutex.

| variable | code |
|---|---|
| `claimed` | committed `ProcessedInbound` rows |
| `lock` | the token under `mutex:user:<phone>`: of a live task, of a dead one (`"ghost"`), or none |
| `task[k]` | one handling of a delivery: find the claim, create it, wait for the mutex, run, release, fail; `lost` once its lease ran out |
| `done`, `orphans` | history: committed handlings; messages whose process died or whose failure left no trace |
| `failed` | messages with a `WebhookFailure` row |

`Receive` is always possible: providers repeat deliveries at will. A text's error leaves `withMutex` before
`failInbound`, a document's is handled inside it; `InsideMutex` is that difference. `LeaseLost` is a lease that
runs out under a live handler: its event loop stood still for 30 s, or Redis refused every renewal (`renew` swallows
its errors). Two handlers of one phone can then run together; `RunnerHoldsLease` says this is the only way.

`TopUp.tla` models the credit branch of `processPaymentWebhook` (services/webhooks.ts),
`handlePaymentNotification` (services/payments/topup.ts) and what they use of services/journal.ts and services/audit.ts.

| variable | code |
|---|---|
| `event` | `WebhookEvent.status` of each transaction |
| `account` | whether the member's virtual account still exists |
| `credits` | committed credits: the journal entry, the contribution and the wallet increment, one transaction |
| `hook[h]` | one webhook request; in `credit` and `audit` its open transaction holds the entry's unique key, in `audit` the wallet row too |
| `job` | another transaction of the cooperative that audits (and so holds the advisory lock of the audit chain) before it wants the same wallet, as `executeDueDeductions` does from its second guarantor on |
| `acked`, `dropped`, `silent` | history: answered 200; ignored (unknown account, wrong currency, nothing to credit); rolled back without an error |

Transactions are serialized by what PostgreSQL serializes them by: the unique `txRef` (`EntryPending`), the wallet row
(`WalletFree`) and the advisory lock.

| run | question | result |
|---|---|---|
| intake | messages: 1 text, 1 document, 2 tasks; transfers: 1 that credits, 1 that does not, 2 requests, 2 faults | `HandledOnce`, `ClaimIsExclusive`, `RunnerHoldsLease`, `TextIsAnswered`, `CreditedOnce`, `AckedIsSettled`, `TransfersSettle` and the types (`TypesOK`) hold |
| intake_lost | "otherwise we'd acknowledge-and-lose real funds that never credited" (webhooks.ts:359) | violated: a failed audit write inside the credit's transaction turns its commit into a silent rollback |

`ClaimIsExclusive` settles a note in the code: the race described at inbound-dedupe.ts:28-31 (a concurrent retry
claims the id before the failing task frees it) cannot happen, because while the failing task has its claim the
retry is refused. What the code does lose: a message whose process dies after the claim, and a document that gets no mutex within
10 s (webhook.ts:149 only logs it and keeps the claim). `TextIsAnswered` says exactly who is exempt.

Bounds. Two tasks on one message are the smallest race on a claim; a third cannot do more than a second delivery that
comes later, which `Receive` allows. Two faults let a first attempt fail and its repair fail too. `MaxFaults`
bounds only the number of faults.

Fairness. Tasks and requests are run by the event loop (weak for tasks, strong for requests, which wait for locks
that PostgreSQL grants in order); a job that waits gets its lock, or is the victim of a deadlock; the
provider delivers a transfer again until it is answered 200. People, deaths and expiries are not fair.

Left out: a commit whose acknowledgement is lost (the code would give the message back and handle it twice; the
top-up is protected by its journal entry); the pruning of claims after 30 days; Telegram without Redis, which runs
unlocked in one process, and its PIN callbacks, which are not claimed; a stranger's first messages, which run outside a transaction.

## 7. Guarantees and Loans

`Guarantees.tla` models loan applications (`applyForLoan`, and `applyGroupLoan` of services/groups.ts),
services/guarantors.ts and services/guarantor-substitution.ts. `Loans.tla` extends it with `approveLoan`,
`finalizeLoanApproval` and the rejections of services/loans.ts, the `cvote` command of services/admin.ts, the votes and
seats of services/committees.ts, and `disburseLoan` of services/disbursements.ts.

| variable | code |
|---|---|
| `loan` | committed `Loan` rows: status, borrower, who gave each of the four approvals, `disbursementStatus`; `joint`: a group's loan; `booked`: history, how often its disbursement was entered in the ledger |
| `gua` | status of each member's `Guarantor` row on each loan |
| `swap` | `GuarantorSubstitution` rows |
| `hand[k]` | a handler at work: who it serves, which loan and request, the status it read, the vote it casts, what the tally or the bank said |
| `seats`, `dec`, `votes` | active `CommitteeMember` rows, `CommitteeDecision` and `CommitteeVote` rows of the credit committee |
| `prov` | what the provider recorded under `TFR-LOAN-<id>` |

A handler is one step where everything it reads is still true when it commits, or nothing depends on it; otherwise it is
a step that reads (`ReadCode`, `ReadForSwap`, `ReadForApproval`, ...) and one or more that write. A guarded update sees
the committed row after it waited for its lock (`Still`); an unguarded one overwrites (`ConfirmGuarantee`,
`RejectPending`, `AcceptSwap`, `DeclineSwap`). A finalizer's row is locked from its claim to its commit (`Locked`), with the call to the
bank in between, and what it wrote is lost with `Lose`: the bank's record stays.

Assumed: a person has one handler at a time (the mutex of section 6; the dashboard has none, but a second handler of one
person can only matter if the loan comes back to the status it read within the transaction's 20 s). Account officers are a constant:
no code creates an `AccountOfficerAssignment`. Bank details, name mismatch, screening, the 20 members and the rate
ceiling are nondeterministic (`Held`, `FinalizeRefused`).

| run | question | result |
|---|---|---|
| lending | one loan, one exchange of guarantors, two handlers, a committee of three | types, `OneRoleEach`, `PaidByMandate`, `KeepsGuarantors`, `BookedOnce` hold |

`KeepsGuarantors` is not obvious: `approveSubstitution` checks neither that the request is still open nor that the old
guarantor still is one when it writes. It holds because the unique key (loan, member) of `Guarantor` lets a new guarantor be
inserted once, so each release is paired with a fresh confirmation. The same key is why a member released from a loan can
never guarantee it again, although `checkNewGuarantor` lets him be asked: the approval fails every time
(`SwapCollides`).

`BookedOnce` holds though a released guarantor can send a disbursed loan back to guaranteed with his old code: the second
`disburseLoan` finds `disbursementStatus` successful. The loan is then left approved, with its balance set back to
the full amount.

Disagreements the model shows: "Rejection is terminal - loan cannot be revived" (loans.ts:1107, `RejectionIsTerminal`: a guarantor's
confirmation does not look at the status); "a loan can never strand waiting for votes" (committees.ts:348, `NeverStrands`: a closed
decision and a loan that still waits for it); two guarantors who confirm at the same time leave the loan pending for
good (guarantors.ts:220 "Once all required guarantors confirm, the loan becomes approvable"); a disbursement that failed is called retryable
(disbursements.ts:422) and nothing retries it; a transfer whose answer is lost, or whose handler dies after it, is refused as a duplicate
when another super admin approves again; the status poller's branch for loans looks for `approved` rows in `processing`, which are never
committed. `rejectLoan`'s stages other than officer and `approveLoanByAccountOfficer` have no caller and are left out.

Bounds. Two handlers are the smallest race; each hazard of this code is between two. Two admins who are officers and three super admins can take a loan
through the approvals, send it back and take it through again as far as the chain allows. Two guarantors are needed by the one
ordinary member, one by a manager. The two parts of `MCLending` split what does not interact: guarantors leave the loan before the
committee sees it, and a group's loan has none. One loan is enough for these properties, which are per loan; the limit on a
guarantor's loans is then either met by that loan or not at all.

## 8. Collections

What is collected from members, and the jobs that do it. `MCCollections` extends Mandates and runs the others beside it.

| module | code | state |
|---|---|---|
| Mandates | services/mandates.ts, the debit, retry and ageing jobs of services/scheduler.ts, the debit notifications | `mandate`, `next` (what is due), `debit` (`MandateDebit` by reference), `charge` and `events` (the provider), `journal`, `credited`, `tick` and `retry` (a job between its transaction and its provider calls), `writing` (a read debit about to be written by its id) |
| Repayments | `repayLoan` and the fines of services/loans.ts, services/guarantordeduction.ts, its jobs | `balance`, `status`, `late` of the loan, `wallet`, `hand`, `notice` (`GuarantorDeduction`), `run` (a run of the recovery: where it is, whom it has read), `savings`; `charged`, `crossed` are history |
| Deductions | services/deductions.ts, services/deduction-ingest.ts | `batch`, `item`, `short`, `waived`, `loan`, `hand`; `used`, `given`, `checker` are history |
| Scheduling | the boot of index.ts, lib/queue.ts, `withDistributedLock` and `claimOnce` of lib/cache.ts, the sending jobs of services/scheduler.ts | `mode`, `link`, `run` per process, `token` (queue or lock), `once`, `memo`, `mark`, `memMark` (claims and markers in Redis and in memory), `stamp` |

A mandate's debit is known by the reference of its obligation; everything after the provider's answer is idempotent by it. A skip and a failed
notification read the debit and write it by its id in a later statement (`SkipDebit`, `SettleFailed`, then `WriteDebit`).
Runs of the recovery overlap (two processes, or a tick that outlives its lock): nothing in guarantordeduction.ts keeps a second run from
reading the same due notices, and the debit looks at the savings only.
In Scheduling a process is a BullMQ worker or runs loops, as Redis was there or not when it booted; `Release` reads the
lock and deletes it in two calls and may delete another's.

| run | question | result |
|---|---|---|
| collections | the four parts | types, `CreditedOncePerCharge`, `GuarantorChargedOnce`, `BatchCreditedOnce`, `NoticesGoOutOnce` hold |
| debit_orphan | a provider is asked only for debits that have a row (scheduler.ts:150) | violated (`AskedHasRow`): a unique violation caught inside the transaction undoes the rows, not the dispatches |
| deduction_waits | "If day 10 arrives ... the deduction executes automatically" (README.md:632) | violated (`DueIsDeducted`): executed only in a tick that warns some guarantor anew |

`GuarantorChargedOnce` has two parts. A guarantor whose notice no two runs had in hand at once (`crossed`) has paid exactly if it says deducted, and
once; and every charge, of overlapping runs too, follows a notice that was due and a loan in default when its run looked. Two runs that had one notice in
hand do charge it twice (`OneChargeWhatever`: the ledger entry of a recovery has no unique reference, guarantordeduction.ts:178-191).

Other disagreements: resuming makes a mandate active that still waits for its authorization (`ActiveIsAuthorized`); two repayments of one
loan can take the balance below zero and book less than they took (`NeverOverpaid`, loans.ts:853; `DebitIsBooked`,
loans.ts:858); of a reconciled payroll batch an amount can be used up without reaching a member (`MoneyReachesMembers`), and a
rejected batch can be opened again (`RejectedStays`); "exactly one runs the tick" (index.ts:191, `ExactlyOneRuns`) fails when a lock expires
under a slow run, a process has lost Redis and runs locally, workers and loops are mixed, or BullMQ takes a stalled job again.
a payroll batch whose approval is under way can be opened again by a reconciliation that read it before (deductions.ts:404-430 writes the
status unconditionally), and a second approval then applies it again, unless an insert fails: savings go by a unique reference of the
contribution (deductions.ts:805) and a shortfall can be rolled forward once (deductions.ts:633), so a fully funded batch of loan
lines is what is left. `BatchCreditedOnce` leaves batches that were overtaken in this way out of its first part (`overtaken`).
`NoticesGoOutOnce` says what of this matters: outside of the excused cases, which it names, nothing is sent twice. Also in the code: an answer
of `SET NX` that is lost and repeated by the client makes the claim look taken, and the notice is never sent; stamps are
written in one transaction for a cooperative, whose timeout rolls all of them back after they were sent; one
cooperative's failure ends the job for those after it; a failed backup or digest in loops mode is an unhandled
rejection, which shuts the process down (index.ts:64-76).

Bounds. Two obligations of one mandate let a late settlement meet the next debit. Two hands are two repayments, two ticks or two supers;
a mandate's debits have one date each (`MaxDue`). Two runs of the recovery are the overlap; one guarantor, with savings for two charges or with none, is
enough, since what a run does to one does not depend on another. A balance of 2 and an installment of 2 leave no interest-free rest, so that
two repayments that read one balance take it below zero. Two batches are one and the draft its shortfall rolls into. Scheduling is one cooperative, one member, one
period, two processes and three runs: the third is one after both have claimed.

Fairness (`FairSpec`, deduction_waits): the scheduler's days pass, so every step of a run of the recovery (`Recovers`) and the passing of ten days
are weakly fair, and no run fails. The violation is found in spite of them.

## 9. Front desk and books

What members do by chat, and the books it ends in. `MCFrontdesk` runs eleven components side by side.

| module | code | state |
|---|---|---|
| Sessions | the dispatch of services/conversation.ts, handlers/session.ts, money.ts, join.ts, admin-actions.ts | `state`, `data` (each field given now, or left from an earlier flow), `aged` (the state is older than its time to live), `who`, `owed`, `ran` |
| Referrals | services/referrals.ts, payments/vtu.ts | `referral`, `payment`, `bonus`, `bonusOut`, `airwaves` (the provider), `savings` |
| Groups | services/groups.ts | `open` (the cycle), `seat`, `paidIn`, `paidOut` (by round and member: the references of the payouts), `pot`, `wallet`, `hand`; `late` is history |
| SavingsProducts | services/savings-products.ts | `account`, `wallet`, `booked`, `interest`, `hand` |
| Shop | services/shop.ts | `stock`, `order`, `loans`, `portfolio`, `wallet`, `clerk`, `payer`, `job`; `corrected` is history |
| Commodity | services/commodity-schemes.ts, commodity-credit.ts | `scheme`, `sub`, `loans`, `batchOpen`, `buyer`, `staff` |
| Ballots | services/votes.ts, buypoll.ts, meetings.ts | `meeting`, `seat`, `question`, `ballots`, `voter`, `closer`, `admins`, `payments` |
| Federation | services/federation | `coop` (one cooperative's books), `ledger`, `pool` (the federation's), `loan`, `hand` |
| Insurance | services/insurance | `wallet`, `payable`, `booked`, `policy`, `claim`, `buyer`, `hand` |
| Aml | services/aml.ts, as withdrawals, payments, loans and deposits call it | `stage`, `asked` (how old a row and its request are), `report` (`STR` rows), `accepted` (what the central bank has), `hand`; `screened`, `overlapped`, `owed` are history |
| Books | services/thrift-collector.ts, shares.ts, ledger.ts, provisioning.ts, reconciliation.ts | `wallet`, `shares`, `journal`, `cash`, `loan`, `run`, `allowance`, `hand`, `report` |

| run | question | result |
|---|---|---|
| frontdesk | the eleven components, Aml with outflows and with deposits, with two members, two rows and two handlers where there are handlers | `RunsOnWhatWasAsked`, `BooksMatch`, `BallotsDecide` hold |

`BooksMatch` is one property per part: `BonusAddsUp`, `PotAddsUp`, `ProductsAddUp`, `GoodsMatchLoans`, `HandedOverOnDebt`,
`FederationAddsUp`, `ClaimsAddUp`, `BooksAddUp`, `ReportsAddUp`. `RunsOnWhatWasAsked` names the two leftovers that are used:
`withdrawAccount` and `pendingGuarantors` survive the flow they were given in (money.ts:118-121, 167-169;
session.ts:1391-1400); everywhere else an operation gets what its own flow asked for.

Disagreements the model shows, or met while it was written:

* Sessions: every fifth message renews a state that had expired (conversation.ts:692-711); "Reply *resend*" (session.ts:885) and "Reply
  *changephone*" (phone-change.ts:108-114) cannot be answered in the states that say so; insurance, dividends and
  loans ask for no PIN; `awaiting_save_*` and `awaiting_reset_pin` are reached by nothing; the consent is kept
  by the Telegram branch only (`ConsentOnRecord`, session.ts:789, 1089).
* Referrals and Commodity: a cap is counted before a concurrent addition is committed (`CapHolds`, README.md:621-625).
* Groups: a contribution that commits after the close has read its round stays in the pot (`WholePotDistributed`, README.md:783). A share-out
  is known by cycle and member (groups.ts:463), and after the last round no next cycle is inserted that would stop a second close: when a VSLA takes a late
  contribution from a member who had no share-out, an admin who had read the round as open shares it out to him once more. `PotAddsUp` names
  that round as the only one that pays out more than it took (`SharedAgain`).
* Shop: a member's `repay` and the installment job compute the principal from one balance (loans.ts:855): it falls below zero, and the
  repayment that brings it back up has no entry. And a repayment debits assets:loan_portfolio as the disbursement did (ledger.ts:76-82;
  loans.ts:909, shop.ts:465), so the account grows with what is paid back, though loans.ts:904-906 says that it "reduces the outstanding loan asset"
  (`PortfolioIsOwed`). `GoodsMatchLoans` therefore says what the entries are: the prices of the loans and whatever was taken off them since, exactly until a
  repayment without an entry (`corrected`), and no less after it.
* Shop: `repay` pays the loan and leaves its order dispatched (`PaidIsCompleted`), and an interest-free loan is charged interest when its
  member uses `repay` (shop.ts:370). Commodity: a subscription may be converted twice (`ConvertedOnce`).
* Ballots: in a unit without an active member the quorum is nobody, and closing its election makes the only candidate the admin
  without a ballot (the exception in `BallotsDecide`); a motion's outcome is written from a tally that missed ballots (`CarriedByMajority`, README.md:760); candidates are
  added by admins only (README.md:734); suspended members vote; a winner's other role is overwritten; two closers of a poll
  raise two payments; a proxy needs no consent; a late `openmeeting` opens a closed meeting again.
* Federation: what came before an answered error is committed (`NothingHalfBooked`, index.ts:12; conversation.ts:899, 991); the
  pool can be lent beyond what it holds by two loans (`PoolCovers`, index.ts:67); a repair of the reserve gives back
  what was moved into the fund (`ReserveMovedOnce`, index.ts:103), and its allocation is an absolute write (routes/admin.ts:1336); a stake is earmarked
  twice, and an earmark in another currency is never released; a defaulted loan cannot be repaid.
* Insurance: the attempt after a refunded one finds its charge in the journal and gets a policy unpaid (`PolicyIsPaid`, index.ts:127); `renew`, `cancel` and `submitClaim` are called by
  tests only; a paid claim may be rejected; a late renewal leaves two active policies; a notification whose process dies
  after its dedupe marker is lost.
* Aml: each rule adds up `WithdrawalRequest` and `Payout`, and a paid withdrawal is in both, so two withdrawals count as four (aml.ts:93-109,
  125-140); the row under screening is in the sums for a payment to an outsider and not for a withdrawal (withdrawals.ts:454), so the withdrawal
  that crosses a threshold is found by the next one; a report the webhook took is lost here when its handler rolls back (aml.ts:511-530);
  `str`, called a read path (aml.ts:381), makes and sends reports; two screenings that overlap make two reports for a day.
* Books: a collection takes from the journal's wallets what it puts on a wallet (`WalletsAreBooked`, ledger.ts:38) and counts as income; a provision is added
  in full every month; the reconciliation reports a loan as a discrepancy of twice its size (`OrderIsReported`, reconciliation.ts:58); the
  limit on shares is read before the purchase (`HoldsAtMost`, shares.ts:61).

* Commodity: the daily job reads which windows are over and closes each by its id (commodity-schemes.ts:692-709), so that a scheme that was bought or converted
  meanwhile is closed again.

Bounds. Two rows and two handlers are one race; a group has a third handler, for the contribution that comes between a close and its repetition, and wallets
of one; handlers, members and rows are symmetric. A third actor of each kind (a minor without a phone, a member without a
wallet, a suspended voter outside the unit, a cooperative of another currency) is one constant each. Amounts are as small as they can be told
apart: two kobos at a rate of one half leave a floor of one, a price of three in installments of two leaves a last one of one, a
premium is one. `Length` 2 closes a cycle that is not the
last. A federation loan, a claim and a scheme are one each: their properties are per row. Aml has a withdrawal and a payment out, where one report of a
type is enough, and a loan and two deposits near the threshold, where a second STR of a day could be made; time is the ten minutes, the day,
midnight and the deadline of a report.

## 10. Proofs

Every theorem is about all values of the constants.

**WithdrawalsProofs.** `TypeInv` strengthens `TypeOK` with the references that types do not
express (a handler past idle points at an existing request, its owner is a member). `DualInv` adds
what a handler's claim implies about its owner: the check happens before the claim, so the invariant
carries "the handler's super is not the owner" through all program counters and through the
buffer. `TypeCorrect` and `DualControlHolds` follow.

Its second part assumes `Ambient`, one transaction per handler. `DeployedInv` adds four parts: committed rows are never in
processing and match their status (`RowsSettled`); a working handler's row is unsettled and no other handler
works on it (`LocksHeld`); the buffered debit is the amount exactly after the debit step (`DebitState`);
a debited wallet is locked and covers it (`Funded`). None is inductive alone: settling pays from the buffer,
which needs `DebitState`; the debit needs the row to be the handler's own, which needs `LocksHeld`; solvency at commit needs
`Funded`. `HoldInv` adds that a handler that works on a held request was given the override: the claim looks again under the lock,
and while it works nobody else can hold the row. From them: `DeployedTaken`, `DeployedBooked`, `DeployedOneFinalizer`, `DeployedSolvent`, the
action properties `DeployedHold` and `DeployedFinal`, and `DeployedImplements`, the step simulation of `WithdrawalContract`.

**IntakeProofs.** For Inbound the invariant adds that a working task's claim exists (`ClaimsHeld`), that a handled message
keeps its claim with nobody working on it (`HandledIsClosed`), and that whoever fails with the mutex in hand will
still release it (`FailsInside`). `HandledOnce` alone is not inductive: a second handling is refused only because the claim outlives
the first. For TopUp it adds that one open transaction at most has inserted a transfer's entry, and none once it is committed
(`EntryIsUnique`), and that an event is marked only when its transfer is settled (`MarksSettled`). From them:
`MessagesHandledOnce`, `ClaimsAreExclusive`, `RunnersHoldTheirLease`, `TransfersCreditedOnce`,
`AcknowledgedTransfersAreSettled`, and `IntakeTypes` about the composition of the two.

**LoansProofs.** `Base` adds to the types that handlers and requests refer to rows that exist and that a person has one
handler at a time (`OneAtATime`, the mutex per phone). On it rest three arguments. Signatures: whoever may sign when he reads may
still sign when he writes, for only his own handler could sign for him meanwhile (`SignersMay`). Disbursement: a row
has one finalizer at a time (`OneLocker`) and stays as it was locked (`RowStays`), so that a payment seen unpaid
is still unpaid when it is booked (`Answered`), a first signature seen is still there (`PaidRow`), and a majority
counted is still one, since nobody else votes in a voter's name and votes only grow (`Unvoted`, `Tallied`). Guarantors: an
exchange confirms one guarantor before it releases another and never one whose confirmation is under way
(`BackersKeep`, with cardinalities of finite sets), so a count made by a confirmation still holds when it is written
(`CountedEnough`). From them: `TypeCorrect`, `RolesDiffer`, `LedgerOnce`, `DisbursedByMandate`, `StaysGuaranteed`.

**DecisionsProofs.** One invariant per part over its own variables; a step of another part leaves them alone. `RefundInv`: a
handler that may approve saw a refund that can be approved (`ClerkSaw`); an ombudsman's desk works on a refund of its own
(`DeskRefund`) and between two of its statements still knows what it must (`DeskKnows`: approved and not booked before
the transfer, after it booked exactly when the bank said so, and of a refusal nothing, for its writes are conditional or harmless); whatever is
booked was sent (`RowIsSent`). It holds though an unsure refund can be claimed: what may be claimed has no row.
`CreditInv`: a handler refers to a credit that exists, its super is not the maker (`ApproversDiffer`, from the check at its
read, since a maker never changes), an undecided credit is not on the wallet. `ClaimInv`: the people a handler saw are still
there and it is not one of them, so that one more makes two (`HandRelies`, with cardinalities of finite sets); a validated
claim has two validators; the savings are there in full or gone (`WholeSavings`), so that the guarded debit of a second payout
fails. `DividendInv`: the statutory funds are taken once for each officer who read them untaken (`TakenByEach`), a run that distributes has
weights (`Weighted`, the code's own check), transfers belong to runs (`RowsOfRuns`), and entries, reversals and the bank agree
(`EntriesMatch`). That the shares add up is a fact about the algorithm, not about the runs (`SharesAddUp`): the floors leave fewer kobos than
there are members with a remainder (`LeftoverBound`, for the remainders add up to the leftover times the total weight and each is
smaller than it), the order by remainder and place is total, so that ranks are distinct (`RankLess`) and exactly as many members stand in the
first places as there are kobos left (`FavouredCount`). `FilingInv`: what a handler or the job has read of something that
nobody crossed still holds, and it is the only one with that in hand (`SingleHanded`, `StillTrue`), so that a mishap has a crossing; a
claim belongs to one run, which has not reminded yet (`ClaimsApart`), and what is to be reminded of exists (`MakersKnow`); data, days read and days
claimed are never later than today. For payments to outsiders the invariant follows an approval from the read to the commit: what a handler
saw of the other approvals still holds (`SeenHolds`), since slots are only written while empty and a locked row stays
in approved2 (`Locks`). From them `RefundsMatchBooks`, `CreditedByTwo`, `SavingsLeaveOnceTheorem`,
`PoolSharedTheorem`, `FilingsAlwaysStand` and `DecisionsTypes`, and of PayAnyone's own specification `TypeCorrect`, `SlotsCorrect`,
`ThreeApproversAlways`, `BookedOnceAlways` and the action property `DecidedStays`. `DecisionsAssumption`: the names of the parts; amounts are
natural numbers; rates are 1 to 25 (dividends.ts:48); due days and the bound on days are positive; officers and rows can be counted; the
configuration and "no pack" are not packs.

**CollectionsProofs.** `MoneyInv`: a retry may set a settled debit back to pending, so its status does not know what was
credited; the journal does (`JournalTells`: credited exactly when the reference is in it, and then once). `RecoveryInv`: of a
guarantor that no two runs of the recovery had in hand at once, the run that is about to charge still finds his notice due, a scan that has read
him finds none that is due, and what may be taken back was not acted upon (`Apart`). `SchedulingInv` counts: notices
sent, plus processes about to send one, are at most the claims made in Redis and in memories (`ClaimsCounted`); what is stamped or marked was
sent (`RecordsTrue`); and unless a run was excused, one process runs and holds the token it shares with the others
(`OneRuns`), and it may still send only what was not sent (`SentByStep`). `PayrollInv`: a total is what the items add up to (`TotalsAddUp`), across
drafts that grow by what an approval leaves; a handler that approves saw every item that is still pending and is not the maker
(`HandKnows`, since only drafts grow and nothing becomes a draft again); money of a batch that was not reopened is used only
by the approval that closes it (`UsedFits`). That an approval takes no more than the items ask rests on `PortionFits`: whatever the
turn, what is left after a member is no more than what was left before him. `CountInv` bounds what a run of the scheduler may still send by
the runs started. From them `ChargesCreditedOnce`, `GuarantorsChargedOnce`
(an invariant and an action property), `NoticesOnce`, `BatchesCreditedOnce` and `CollectionsTypes`, under `CollectionsAssumption` (finitely many processes and
members, none of which is "nobody"; amounts and bounds are natural numbers).

**BooksProofs.** The books of the parts that keep sums. `ReferralInv`: a bonus and the withdrawals taken from it make up the rewards given
(`BonusesAdd`), and money has left exactly as far as the row of a withdrawal and its handler have come (`SentLawful`). `GroupInv`: the pot is what
the rounds hold after what they paid out, and with the wallets it is what the members began with, and only a VSLA's last round that took a late
contribution pays out more than it took (`MoneyStays`); nothing is paid out of a round that is open (`Rotation`); a handler that closes a round
read no more than was paid into it (`TurnKnows`), and a rosca takes one share a round of a member (`OncePerRound`). `ProductInv`: an account is what
its journal adds up to (`AccountLawful`), a handler works an active account that its member controls, and nobody else does (`SaverKnows`);
wallets and accounts together hold what they began with and the interest (`SavedInAll`). `ShopInv`: goods are in stock or under a loan
(`UnitsLeft`); what the portfolio was debited with is the prices of the loans and what was taken off them, until a balance that fell below zero is corrected (`PortfolioBooked`). `CommodityInv`:
what is financed was bought, what is collected was dispatched (`SubLawful`); a buyer whose credit is read has nothing reserved of the scheme
(`BuyerKnows`), so that he reserves it once (`ReservedOnce`).

**FrontdeskProofs** extends it. `FederationInv`: an approval, which holds the loan's row, works alone on it
(`ApprovesAlone`), so what it read of the loan still holds (`TreasurerKnows`); a cooperative's stake and debt are the same in both ledgers, up to
the interest, which only one of them books (`BothBooks`). `InsuranceInv`: a claim is credited exactly when its reference is in the journal
(`ClaimLawful`), refunds are of charges (`RefundsAreOfCharges`), and the premiums are what left the wallets (`PremiumsKept`). `BookInv`: the
allowance is what the runs provided (`ProvisionBooked`), the capital is the members' shares (`SharesBooked`), and what the members have is
at the bank, with the collector or lent (`NoKoboLost`). `AmlInv`, for outflows and for deposits, with any rows, amounts and number of
reports of a type: a report is in one handler until it has its row (`MadeOnce`); a large row that was screened has its CTR made, or in the hand of who
screened it (`CtrFollows`); while no two screenings overlap, a day has one report of a type (`OneScreens`); what is filed the central
bank has (`FiledTaken`); an alert is sent by one job, and what is due has somebody left to send it (`AlertsDue`). With BooksProofs
they give `BooksAlwaysMatch`, one theorem for the ten parts of `BooksMatch`.

`BallotInv` follows a ballot from the read to the row: what a voter read of his unit, his seat and the question
still holds when he writes, since a question never reopens and seats are only added (`VoterKnows`), and a closer who saw a quorum
saw voters who are all still there (`CloserKnows`). Numbers of voters are compared as cardinalities of sets of ballots, each of another
voter (`VotersAreBallots`). `SessionInv` says for every state of the chat which fields have been asked for since the command that
began the flow (`Asked`, `Sound`): a state that several flows share (the bank account, the airtime choice) depends on the marks the flow
left in the session, which is why `StartBankFlow` must clear the marks of the others, and a command that only sets the state must not lead to a
state that has asked for anything. A payment queued for after the commit carries the same guarantee (`Proper(owed)`). From them `BallotsAlwaysDecide` and
`RunsOnlyAsked`. `FrontdeskAssumption`: finitely many voters, candidates, members, buyers, rows and handlers, none of whom is
"nobody"; the unit and its candidates are among the voters; yes and no are options; the quorum, amounts and the rate are natural numbers;
a cycle's length, a price, an installment and a premium are positive.

**Sums** proves what both need of `SumFunctionOnSet`, which the community module defines by a recursion over an arbitrary choice of
elements: the sum is the same in any order (`SumRemove`), adds, scales, keeps order, and leaves out zeros. It avoids the
library's induction theorems: a property of all subsets of a finite set is proved by a smallest subset that lacks it (`SmallestSubset`).

The invariants were checked with TLC on the instances of sections 3 to 9 before they were proved.

All developments first state what each update does to a row, field by field, with the update named by an
opaque operator (`Is...`, `RowIs`); the step lemmas never expand an `EXCEPT`.

Every invariant and every action property of the passing runs, and the refinement, is stated by a theorem. Only model-checked: liveness
(`StuckRowsSettle`, `TextIsAnswered`, `TransfersSettle`), everything about
fairness, and the violation runs (`DueIsDeducted` among them). Liveness under fairness, `ENABLED` and
induction over data are outside what the prover supports. `TypesOK` of Repayments says of the balance only that it is a number: with n handlers that read one balance it falls as far below zero as n - 1
installments (section 8, `NeverOverpaid`).

## 11. Not modelled

PROJECT.json says for every component what is left out and why. In short: the payment, bank, airtime and insurance providers are
external, modelled by the answers the code can get; the matching of names with the screening lists is a verdict; reports,
statements, exports and receipts only read; the language model proposes a command that then runs as if typed; dashboards are front ends
of the API; the admin API's own handlers repeat the chat commands; rate limits and lockouts delay but decide nothing about money;
the audit's hash chain is sequential once its advisory lock is held; provisioning of cooperatives, backups, the sandbox and start-up scripts change no
state of a running cooperative.

## 12. Running

    tlc -config wd_deployed.cfg MCWithdrawals.tla
    tlapm WithdrawalsProofs.tla

Each run's module and configuration are in PROJECT.json, as are the mutants: one changed definition
for each property of a passing run, under which the property fails.
