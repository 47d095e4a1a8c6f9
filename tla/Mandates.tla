------------------------------ MODULE Mandates ------------------------------
(* Direct-debit mandates (services/mandates.ts) and the jobs that collect with
   them (services/scheduler.ts): the hourly debits, the retries, the ageing of
   debits that were never settled, and the provider's notifications.

   A debit is known by its reference <<mandate, n>>: the n-th obligation of the
   mandate, a savings date or a loan's due date. *)
EXTENDS Naturals, FiniteSets

CONSTANTS
    Savings, Loans, \* mandates: what they are collected for
    MaxDue          \* bound on the obligations of a mandate

VARIABLES
    mandate,    \* Mandate.status; "none" before it exists
    authorized, \* history: the member has authorized it at his bank
    next,       \* the obligation that is due, or will be (autoSaveNextDue, dueDate)
    debit,      \* MandateDebit.status by reference; "none": no row
                \* "due": failed, and nextRetryAt has passed
    charge,     \* at the provider: "none", "asked", "taken" or "declined"
    events,     \* notifications the webhook has processed
    journal,    \* references with a settlement in the journal
    credited,   \* how often the wallet was credited for a reference
    tick,       \* runMandateDebits between its transaction and its provider calls
    retry,      \* runMandateRetries, likewise
    writing     \* handlers that have read a pending debit: what they make of it

mandateVars == <<mandate, authorized>>
moneyVars == <<charge, events, journal, credited>>
vars == <<mandateVars, next, debit, moneyVars, tick, retry, writing>>

Mandates == Savings \cup Loans
References == Mandates \X (1..MaxDue)

Init ==
    /\ mandate = [m \in Mandates |-> "none"]
    /\ authorized = {}
    /\ next = [m \in Mandates |-> 1]
    /\ debit = [r \in References |-> "none"]
    /\ charge = [r \in References |-> "none"]
    /\ events = {}
    /\ journal = {}
    /\ credited = [r \in References |-> 0]
    /\ tick = {}
    /\ retry = {}
    /\ writing = {}

-----------------------------------------------------------------------------
(* The mandate *)

SetMandate(m, from, to) ==
    /\ mandate[m] \in from
    /\ mandate' = [mandate EXCEPT ![m] = to]
    /\ UNCHANGED <<next, debit, moneyVars, tick, retry, writing>>

CreateMandate(m) == SetMandate(m, {"none"}, "pending") /\ UNCHANGED authorized
CancelMandate(m) ==
    SetMandate(m, {"pending", "active", "paused"}, "cancelled") /\ authorized' = authorized \ {m}
PauseMandate(m) == SetMandate(m, {"active", "paused"}, "paused") /\ UNCHANGED authorized

\* Whatever is not cancelled is made active, one that still waits for its authorization too.
ResumeMandate(m) == SetMandate(m, {"pending", "active", "paused"}, "active") /\ UNCHANGED authorized

\* applyMandateStatus writes what the provider says, whatever the status is.
ApplyMandateStatus(m) ==
    SetMandate(m, {"pending", "active", "paused", "cancelled"}, "active")
        /\ authorized' = authorized \cup {m}

-----------------------------------------------------------------------------
(* runMandateDebits *)

IsDue(m) == mandate[m] = "active" /\ next[m] <= MaxDue
DueRefs == {<<m, next[m]>> : m \in {m \in Mandates : IsDue(m)}}
New == {r \in DueRefs : debit[r] = "none"}

(* All rows of a tick are inserted in one transaction, and the schedule of a
   savings mandate advances with its row. *)
CreateDebits ==
    /\ tick = {} /\ DueRefs # {}
    /\ New = DueRefs
    /\ debit' = [r \in References |-> IF r \in New THEN "pending" ELSE debit[r]]
    /\ next' = [m \in Mandates |->
                    IF m \in Savings /\ IsDue(m) THEN next[m] + 1 ELSE next[m]]
    /\ tick' = New
    /\ UNCHANGED <<mandateVars, moneyVars, retry, writing>>

(* A loan that is due until its debit is settled has its row already: the second
   insert violates the unique reference, which aborts the transaction. Every
   row of the tick is undone, the dispatches collected before it are kept. *)
TickAborted ==
    /\ tick = {}
    /\ New # DueRefs
    /\ \E before \in SUBSET New : tick' = before
    /\ UNCHANGED <<mandateVars, next, debit, moneyVars, retry, writing>>

Ask(r) == charge' = [charge EXCEPT ![r] = IF @ = "taken" THEN @ ELSE "asked"]

\* The provider collects, later; a reference it has collected is refused.
DispatchDebit(r) ==
    /\ r \in tick
    /\ Ask(r)
    /\ tick' = tick \ {r}
    /\ UNCHANGED <<mandateVars, next, debit, events, journal, credited, retry, writing>>

\* The request is refused or its answer lost; without a row the update throws and the
\* rest of the tick is not dispatched.
DispatchFails(r) ==
    /\ r \in tick
    /\ Ask(r) \/ UNCHANGED charge
    /\ debit' = IF debit[r] = "none" THEN debit ELSE [debit EXCEPT ![r] = "failed"]
    /\ tick' = IF debit[r] = "none" THEN {} ELSE tick \ {r}
    /\ UNCHANGED <<mandateVars, next, events, journal, credited, retry, writing>>

ProcessDies ==
    /\ tick # {} \/ retry # {}
    /\ tick' = {} /\ retry' = {}
    /\ UNCHANGED <<mandateVars, next, debit, moneyVars, writing>>

-----------------------------------------------------------------------------
(* runMandateRetries, reconcileStaleMandateDebits, skipDebit *)

DayPasses(r) ==
    /\ debit[r] = "failed"
    /\ debit' = [debit EXCEPT ![r] = "due"]
    /\ UNCHANGED <<mandateVars, next, moneyVars, tick, retry, writing>>

ClaimRetry(r) ==
    /\ debit[r] = "due"
    /\ mandate[r[1]] = "active"
    /\ debit' = [debit EXCEPT ![r] = "failed"]
    /\ retry' = retry \cup {<<r, "call">>}
    /\ UNCHANGED <<mandateVars, next, moneyVars, tick, writing>>

CallRetry(r) ==
    /\ <<r, "call">> \in retry
    /\ charge[r] # "taken"
    /\ Ask(r)
    /\ retry' = (retry \ {<<r, "call">>}) \cup {<<r, "accepted">>}
    /\ UNCHANGED <<mandateVars, next, debit, events, journal, credited, tick, writing>>

RetryRefused(r) ==
    /\ <<r, "call">> \in retry
    /\ retry' = retry \ {<<r, "call">>}
    /\ UNCHANGED <<mandateVars, next, debit, moneyVars, tick, writing>>

\* The row is pending again, whatever a notification has made of it meanwhile.
MarkRetried(r) ==
    /\ <<r, "accepted">> \in retry
    /\ debit' = [debit EXCEPT ![r] = "pending"]
    /\ retry' = retry \ {<<r, "accepted">>}
    /\ UNCHANGED <<mandateVars, next, moneyVars, tick, writing>>

ReconcileStale(r) ==
    /\ debit[r] = "pending"
    /\ debit' = [debit EXCEPT ![r] = "failed"]
    /\ UNCHANGED <<mandateVars, next, moneyVars, tick, retry, writing>>

\* An event that was processed is acknowledged and not looked at again.
Fresh(r, status) == <<r, status>> \notin events
Processed(r, status) == events' = events \cup {<<r, status>>}

(* skipDebit and a failed settleDebit find the debit pending, and write it by id,
   whatever it has become by then. *)
Outcome == [skip |-> "skipped", fail |-> "failed"]

SkipDebit(r) ==
    /\ debit[r] = "pending"
    /\ writing' = writing \cup {<<r, "skip">>}
    /\ UNCHANGED <<mandateVars, next, debit, moneyVars, tick, retry>>

WriteDebit(r, w) ==
    /\ <<r, w>> \in writing
    /\ debit' = [debit EXCEPT ![r] = Outcome[w]]
    /\ writing' = writing \ {<<r, w>>}
    /\ IF w = "fail" THEN Processed(r, "failed") ELSE UNCHANGED events
    /\ UNCHANGED <<mandateVars, next, charge, journal, credited, tick, retry>>

-----------------------------------------------------------------------------
(* The provider collects and notifies; settleDebit *)

Collect(r) ==
    /\ charge[r] = "asked"
    /\ \E c \in {"taken", "declined"} : charge' = [charge EXCEPT ![r] = c]
    /\ UNCHANGED <<mandateVars, next, debit, events, journal, credited, tick, retry, writing>>

\* A failure moves a debit that is pending; of another one it is ignored.
SettleFailed(r) ==
    /\ charge[r] = "declined"
    /\ Fresh(r, "failed")
    /\ \/ debit[r] = "pending" /\ writing' = writing \cup {<<r, "fail">>} /\ UNCHANGED events
       \/ debit[r] # "pending" /\ Processed(r, "failed") /\ UNCHANGED writing
    /\ UNCHANGED <<mandateVars, next, debit, charge, journal, credited, tick, retry>>

\* Mutant: the settlement is journalled again.
SettleableAgain(r) == debit[r] \in {"pending", "failed", "due"}

Settleable(r) == debit[r] \in {"pending", "failed", "due"} /\ r \notin journal

(* The journal, the wallet and the debit in one transaction, and then the loan's
   installment, which moves its due date. The provider may notify again. *)
SettleSuccessful(r) ==
    /\ charge[r] = "taken"
    /\ Settleable(r)
    /\ journal' = journal \cup {r}
    /\ credited' = [credited EXCEPT ![r] = @ + 1]
    /\ debit' = [debit EXCEPT ![r] = "successful"]
    /\ \/ Processed(r, "successful")
       \/ UNCHANGED events
    /\ \/ r[1] \in Loans /\ next[r[1]] = r[2] /\ next' = [next EXCEPT ![r[1]] = @ + 1]
       \/ UNCHANGED next
    /\ UNCHANGED <<mandateVars, charge, tick, retry, writing>>

\* A reference without a row, or a row that is skipped or settled: nothing to do.
SettleIgnored(r) ==
    /\ charge[r] = "taken"
    /\ Fresh(r, "successful")
    /\ debit[r] \notin {"pending", "failed", "due"}
    /\ Processed(r, "successful")
    /\ UNCHANGED <<mandateVars, next, debit, charge, journal, credited, tick, retry, writing>>

Next ==
    \/ CreateDebits \/ TickAborted \/ ProcessDies
    \/ \E m \in Mandates :
        \/ CreateMandate(m) \/ CancelMandate(m) \/ PauseMandate(m)
        \/ ResumeMandate(m) \/ ApplyMandateStatus(m)
    \/ \E r \in References :
        \/ DispatchDebit(r) \/ DispatchFails(r)
        \/ DayPasses(r) \/ ClaimRetry(r) \/ CallRetry(r) \/ RetryRefused(r) \/ MarkRetried(r)
        \/ ReconcileStale(r) \/ SkipDebit(r) \/ \E w \in DOMAIN Outcome : WriteDebit(r, w)
        \/ Collect(r) \/ SettleFailed(r) \/ SettleSuccessful(r) \/ SettleIgnored(r)

Spec == Init /\ [][Next]_vars

-----------------------------------------------------------------------------
(* Properties *)

TypeOK ==
    /\ mandate \in [Mandates -> {"none", "pending", "active", "paused", "cancelled"}]
    /\ authorized \subseteq Mandates
    /\ next \in [Mandates -> 1..MaxDue + 1]
    /\ debit \in [References -> {"none", "pending", "failed", "due", "successful", "skipped"}]
    /\ charge \in [References -> {"none", "asked", "taken", "declined"}]
    /\ events \subseteq References \X {"failed", "successful"}
    /\ {journal, tick} \subseteq SUBSET References
    /\ credited \in [References -> Nat]
    /\ retry \subseteq References \X {"call", "accepted"}
    /\ writing \subseteq References \X DOMAIN Outcome

(* The wallet is credited at most once for a reference, and only with money the
   provider took, whatever retries, ageing, skips and repeated notifications
   race for the debit. *)
CreditedOncePerCharge ==
    \A r \in References :
        /\ credited[r] <= 1
        /\ credited[r] = 1 => charge[r] = "taken"
        /\ debit[r] = "successful" => credited[r] = 1

(* scheduler.ts, runMandateDebits: "if the tx aborted after the provider accepted,
   the providerRef row would roll back and the next tick would charge the member
   again": the provider is asked to collect nothing that has no row. *)
AskedHasRow == \A r \in References : charge[r] # "none" => debit[r] # "none"

(* mandates.ts, cancelMandate: "Mandate cancelled. No further debits will be
   collected.": only a mandate the member has authorized is active. *)
ActiveIsAuthorized == \A m \in Mandates : mandate[m] = "active" => m \in authorized
=============================================================================
