------------------------------- MODULE TopUp -------------------------------
(* Incoming bank transfers of one member: the provider's webhook deliveries,
   the WebhookEvent row that dedupes them (services/webhooks.ts), and the
   transaction that credits the wallet (services/payments/topup.ts,
   services/journal.ts, services/audit.ts).

   Each delivery is served by a hook, a request handler of some process. Hooks
   meet in the event rows, in the unique txRef of the journal, in the member's
   wallet row and, as does every other transaction of the cooperative, in the
   advisory lock of the audit chain. The provider redelivers until it is
   answered 200, and may deliver again after that. *)
EXTENDS Naturals

CONSTANTS
    Txns,        \* the provider's transactions
    Creditable,  \* those that succeeded, in the cooperative's currency, above zero
    Hooks,       \* concurrent webhook requests
    NoTxn,       \* the transaction of an idle hook
    MaxFaults    \* bound on crashes, failed statements and deadlocks

ASSUME TopUpConstants ==
    /\ NoTxn \notin Txns
    /\ Creditable \subseteq Txns
    /\ MaxFaults \in Nat

VARIABLES
    event,       \* WebhookEvent.status, "none" without a row
    account,     \* the member's virtual account: "live", or "gone" once it expired
    credits,     \* how often a transaction was added to the wallet
    hook,        \* per request: pc and the transaction it serves
    job,         \* another transaction of the cooperative: "audited" once it holds the
                 \* audit chain, "wants" the wallet, "paid" when it has both
    acked,       \* transactions answered 200
    dropped,     \* history: transactions that were ignored: unknown account, wrong currency
    silent,      \* history: transactions whose credit was rolled back without an error
    faults       \* history: bounded by MaxFaults

topUpVars == <<event, account, credits, hook, job, acked, dropped, silent, faults>>

IdleHook == [pc |-> "idle", t |-> NoTxn]

TopUpInit ==
    /\ event = [t \in Txns |-> "none"]
    /\ account = "live"
    /\ credits = [t \in Txns |-> 0]
    /\ hook = [h \in Hooks |-> IdleHook]
    /\ job = "idle"
    /\ acked = {}
    /\ dropped = {}
    /\ silent = {}
    /\ faults = 0

In(h, pc) == hook[h].pc = pc
Move(h, pc) == hook' = [hook EXCEPT ![h].pc = pc]
Done(h) == hook' = [hook EXCEPT ![h] = IdleHook]

(* The committed journal has the transaction's entry, TOPUP-<provider>-<id>. *)
Booked(t) == credits[t] > 0

(* A hook's open transaction has inserted the entry and nothing else yet, or
   also updated the wallet row. *)
HoldsEntry(h) == hook[h].pc \in {"credit", "audit"}
WalletFree == job # "paid" /\ \A h \in Hooks : ~In(h, "audit")

Fault ==
    /\ faults < MaxFaults
    /\ faults' = faults + 1

-----------------------------------------------------------------------------
(* processPaymentWebhook *)

Deliver(h, t) ==
    /\ In(h, "idle")
    /\ hook' = [hook EXCEPT ![h] = [pc |-> "record", t |-> t]]
    /\ UNCHANGED <<event, account, credits, job, acked, dropped, silent, faults>>

(* Mutant: the event is processed before it is recorded. *)
RecordEventLate(h) ==
    /\ In(h, "record")
    /\ Move(h, IF event[hook[h].t] = "none" THEN "process" ELSE "seen")
    /\ UNCHANGED <<event, account, credits, job, acked, dropped, silent, faults>>

(* Mutant: the row is written as processed before anything is done. *)
RecordEventDone(h) ==
    /\ In(h, "record")
    /\ IF event[hook[h].t] = "none"
       THEN /\ event' = [event EXCEPT ![hook[h].t] = "processed"]
            /\ Move(h, "process")
       ELSE /\ UNCHANGED event
            /\ Move(h, "seen")
    /\ UNCHANGED <<account, credits, job, acked, dropped, silent, faults>>

(* The insert of the event row comes first; its unique id shows a delivery that
   was seen before. *)
RecordEvent(h) ==
    /\ In(h, "record")
    /\ IF event[hook[h].t] = "none"
       THEN /\ event' = [event EXCEPT ![hook[h].t] = "received"]
            /\ Move(h, "process")
       ELSE /\ UNCHANGED event
            /\ Move(h, "seen")
    /\ UNCHANGED <<account, credits, job, acked, dropped, silent, faults>>

(* The row cannot be written: 500. *)
RecordFails(h) ==
    /\ In(h, "record")
    /\ Fault
    /\ Done(h)
    /\ UNCHANGED <<event, account, credits, job, acked, dropped, silent>>

(* Mutant: any event row makes a delivery a duplicate. *)
IsDuplicateAny(t) == event[t] # "none"

(* Only a processed event makes a delivery a duplicate. *)
IsDuplicate(t) == event[t] = "processed"

SeenBefore(h) ==
    /\ In(h, "seen")
    /\ IF IsDuplicate(hook[h].t)
       THEN /\ acked' = acked \cup {hook[h].t}
            /\ Done(h)
       ELSE /\ UNCHANGED acked
            /\ Move(h, "process")
    /\ UNCHANGED <<event, account, credits, job, dropped, silent, faults>>

-----------------------------------------------------------------------------
(* handlePaymentNotification *)

(* Nobody to credit: the notification is ignored, which counts as processed. *)
Ignore(h) ==
    /\ In(h, "process")
    /\ account = "gone" \/ hook[h].t \notin Creditable
    /\ dropped' = dropped \cup {hook[h].t}
    /\ Move(h, "mark")
    /\ UNCHANGED <<event, account, credits, job, acked, silent, faults>>

(* The read that keeps a replay from violating the unique constraint. *)
ReadJournal(h) ==
    /\ In(h, "process")
    /\ account = "live"
    /\ hook[h].t \in Creditable
    /\ Move(h, IF Booked(hook[h].t) THEN "mark" ELSE "insert")
    /\ UNCHANGED <<event, account, credits, job, acked, dropped, silent, faults>>

(* Another open transaction has inserted the same txRef: the insert waits. *)
EntryPending(h) ==
    \E g \in Hooks \ {h} : HoldsEntry(g) /\ hook[g].t = hook[h].t

(* Mutant: the txRef is not unique. *)
InsertEntryAgain(h) ==
    /\ In(h, "insert")
    /\ Move(h, "credit")
    /\ UNCHANGED <<event, account, credits, job, acked, dropped, silent, faults>>

(* The insert. A duplicate that was committed meanwhile is swallowed by
   postJournal; nothing else is written and the aborted transaction ends. *)
InsertEntry(h) ==
    /\ In(h, "insert")
    /\ ~EntryPending(h)
    /\ Move(h, IF Booked(hook[h].t) THEN "mark" ELSE "credit")
    /\ UNCHANGED <<event, account, credits, job, acked, dropped, silent, faults>>

(* The contribution and the wallet increment; the wallet row is locked from
   here to the end of the transaction. *)
CreditWallet(h) ==
    /\ In(h, "credit")
    /\ WalletFree
    /\ Move(h, "audit")
    /\ UNCHANGED <<event, account, credits, job, acked, dropped, silent, faults>>

(* Referral, AML flag, balance read; then the audit entry, under the chain's
   advisory lock, and the commit. *)
Commit(h) ==
    /\ In(h, "audit")
    /\ job = "idle"
    /\ credits' = [credits EXCEPT ![hook[h].t] = @ + 1]
    /\ Move(h, "mark")
    /\ UNCHANGED <<event, account, job, acked, dropped, silent, faults>>

(* PostgreSQL breaks a deadlock between this transaction, which has the wallet
   and waits for the chain, and one that has the chain and waits for the
   wallet, at this one's expense. audit() swallows the error, and the COMMIT of
   the aborted transaction is a ROLLBACK that reports no error. *)
DeadlockVictim(h) ==
    /\ In(h, "audit")
    /\ job = "wants"
    /\ Fault
    /\ silent' = silent \cup {hook[h].t}
    /\ Move(h, "mark")
    /\ UNCHANGED <<event, account, credits, job, acked, dropped>>

(* Any other failure leaves the transaction with an error: a lost connection,
   the timeout, or a side effect whose own error is swallowed but makes the
   next statement fail. *)
CreditFails(h) ==
    /\ hook[h].pc \in {"process", "insert", "credit", "audit"}
    /\ Fault
    /\ Move(h, "failed")
    /\ UNCHANGED <<event, account, credits, job, acked, dropped, silent>>

-----------------------------------------------------------------------------
(* processPaymentWebhook, after the credit *)

MarkProcessed(h) ==
    /\ In(h, "mark")
    /\ event' = [event EXCEPT ![hook[h].t] = "processed"]
    /\ acked' = acked \cup {hook[h].t}
    /\ Done(h)
    /\ UNCHANGED <<account, credits, job, dropped, silent, faults>>

MarkFails(h) ==
    /\ In(h, "mark")
    /\ Fault
    /\ Move(h, "failed")
    /\ UNCHANGED <<event, account, credits, job, acked, dropped, silent>>

(* The event is marked failed whatever it is by now, and the answer is 500. *)
MarkFailed(h) ==
    /\ In(h, "failed")
    /\ event' = [event EXCEPT ![hook[h].t] = "failed"]
    /\ Done(h)
    /\ UNCHANGED <<account, credits, job, acked, dropped, silent, faults>>

(* The update that marks it failed is lost as well. *)
MarkFailedLost(h) ==
    /\ In(h, "failed")
    /\ Fault
    /\ Done(h)
    /\ UNCHANGED <<event, account, credits, job, acked, dropped, silent>>

HookDies(h) ==
    /\ ~In(h, "idle")
    /\ Fault
    /\ Done(h)
    /\ UNCHANGED <<event, account, credits, job, acked, dropped, silent>>

-----------------------------------------------------------------------------
(* Other transactions of the cooperative *)

(* cleanupExpiredVirtualAccounts *)
AccountExpires ==
    /\ account = "live"
    /\ account' = "gone"
    /\ UNCHANGED <<event, credits, hook, job, acked, dropped, silent, faults>>

(* A job that works through members in one transaction, like
   executeDueDeductions: it audits after each wallet and keeps the chain while it
   goes on to the next wallet. *)
JobAudits ==
    /\ job = "idle"
    /\ job' = "audited"
    /\ UNCHANGED <<event, account, credits, hook, acked, dropped, silent, faults>>

JobWantsWallet ==
    /\ job = "audited"
    /\ job' = "wants"
    /\ UNCHANGED <<event, account, credits, hook, acked, dropped, silent, faults>>

JobTakesWallet ==
    /\ job = "wants"
    /\ WalletFree
    /\ job' = "paid"
    /\ UNCHANGED <<event, account, credits, hook, acked, dropped, silent, faults>>

JobCommits ==
    /\ job \in {"audited", "paid"}
    /\ job' = "idle"
    /\ UNCHANGED <<event, account, credits, hook, acked, dropped, silent, faults>>

(* The deadlock is broken at the job's expense. *)
JobIsVictim ==
    /\ job = "wants"
    /\ ~WalletFree
    /\ job' = "idle"
    /\ UNCHANGED <<event, account, credits, hook, acked, dropped, silent, faults>>

-----------------------------------------------------------------------------
HookStep(h) ==
    \/ RecordEvent(h)
    \/ SeenBefore(h)
    \/ Ignore(h)
    \/ ReadJournal(h)
    \/ InsertEntry(h)
    \/ CreditWallet(h)
    \/ Commit(h)
    \/ MarkProcessed(h)
    \/ MarkFailed(h)

HookFault(h) ==
    \/ RecordFails(h)
    \/ DeadlockVictim(h)
    \/ CreditFails(h)
    \/ MarkFails(h)
    \/ MarkFailedLost(h)
    \/ HookDies(h)

JobStep == JobWantsWallet \/ JobTakesWallet \/ JobCommits \/ JobIsVictim

TopUpNext ==
    \/ \E h \in Hooks, t \in Txns : Deliver(h, t)
    \/ \E h \in Hooks : HookStep(h) \/ HookFault(h)
    \/ AccountExpires
    \/ JobAudits
    \/ JobStep

TopUpSpec == TopUpInit /\ [][TopUpNext]_topUpVars

(* A delivery the provider owes: it has no 200 for the transaction yet. *)
Redeliver(t) == t \notin acked /\ \E h \in Hooks : Deliver(h, t)

-----------------------------------------------------------------------------
(* Properties *)

EventStatuses == {"none", "received", "processed", "failed"}
HookPcs == {"idle", "record", "seen", "process", "insert", "credit", "audit", "mark", "failed"}
HookType == [pc : HookPcs, t : Txns \cup {NoTxn}]

(* Types: a hook serves a transaction exactly while it works, and one that is
   past the insert of the event row finds the row there. *)
TopUpTypeOK ==
    /\ event \in [Txns -> EventStatuses]
    /\ account \in {"live", "gone"}
    /\ credits \in [Txns -> Nat]
    /\ hook \in [Hooks -> HookType]
    /\ \A h \in Hooks : In(h, "idle") <=> hook[h].t = NoTxn
    /\ \A h \in Hooks : ~In(h, "idle") /\ ~In(h, "record") => event[hook[h].t] # "none"
    /\ job \in {"idle", "audited", "wants", "paid"}
    /\ acked \subseteq Txns
    /\ dropped \subseteq Txns
    /\ silent \subseteq Txns
    /\ faults \in 0 .. MaxFaults

(* The wallet gets a transfer at most once, whatever is redelivered, repeated at
   the same time, retried after a failure or interrupted (topup.ts, journal.ts). *)
CreditedOnce == \A t \in Txns : credits[t] <= 1

(* What has become of a transaction for good. *)
Settled(t) == credits[t] = 1 \/ t \in dropped \/ t \in silent

(* The provider is told 200, and the event is processed, only once the transfer
   was credited or ignored: the one way to lose it is the silent rollback
   (webhooks.ts:356-360, topup.ts:261-276). *)
AckedIsSettled ==
    \A t \in Txns : event[t] = "processed" \/ t \in acked => Settled(t)

(* As long as the provider redelivers, every transfer that was recorded is settled
   in the end, whatever failed on the way: a received or failed event is
   processed again. *)
TransfersSettle == \A t \in Txns : event[t] # "none" ~> Settled(t)

(* "Otherwise we'd acknowledge-and-lose real funds that never credited"
   (webhooks.ts:356-359): a transfer the provider was told 200 for is in the
   wallet unless there was nobody to credit. *)
AckedIsCredited == \A t \in acked : credits[t] = 1 \/ t \in dropped
=============================================================================
