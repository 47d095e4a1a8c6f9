----------------------------- MODULE MCIntake ------------------------------
(* What comes from outside: a member's chat messages (Inbound) and bank
   transfers (TopUp). The two share no state, so an instance explores one of
   them in each behaviour: the initial state says which. *)
EXTENDS Inbound, TopUp, TLC

VARIABLE part

vars == <<inboundVars, topUpVars, part>>

Init ==
    /\ InboundInit
    /\ TopUpInit
    /\ part \in {"messages", "transfers"}

Talk == part = "messages" /\ UNCHANGED <<topUpVars, part>>
Pay == part = "transfers" /\ UNCHANGED <<inboundVars, part>>

Next ==
    \/ \E k \in Tasks, m \in Msgs : Receive(k, m) /\ Talk
    \/ \E k \in Tasks :
        \/ FindClaim(k) /\ Talk
        \/ CreateClaim(k) /\ Talk
        \/ ClaimThrows(k) /\ Talk
        \/ Acquire(k) /\ Talk
        \/ AcquireFails(k) /\ Talk
        \/ Handle(k) /\ Talk
        \/ HandlerThrows(k) /\ Talk
        \/ Release(k) /\ Talk
        \/ FailInbound(k) /\ Talk
        \/ Dies(k) /\ Talk
        \/ LeaseLost(k) /\ Talk
    \/ TokenExpires /\ Talk
    \/ \E h \in Hooks, t \in Txns : Deliver(h, t) /\ Pay
    \/ \E h \in Hooks :
        \/ RecordEvent(h) /\ Pay
        \/ RecordFails(h) /\ Pay
        \/ SeenBefore(h) /\ Pay
        \/ Ignore(h) /\ Pay
        \/ ReadJournal(h) /\ Pay
        \/ InsertEntry(h) /\ Pay
        \/ CreditWallet(h) /\ Pay
        \/ Commit(h) /\ Pay
        \/ DeadlockVictim(h) /\ Pay
        \/ CreditFails(h) /\ Pay
        \/ MarkProcessed(h) /\ Pay
        \/ MarkFails(h) /\ Pay
        \/ MarkFailed(h) /\ Pay
        \/ MarkFailedLost(h) /\ Pay
        \/ HookDies(h) /\ Pay
    \/ AccountExpires /\ Pay
    \/ JobAudits /\ Pay
    \/ JobWantsWallet /\ Pay
    \/ JobTakesWallet /\ Pay
    \/ JobCommits /\ Pay
    \/ JobIsVictim /\ Pay

(* The event loop runs every task and request on; PostgreSQL serves those who
   wait for a lock in order; the provider redelivers until it has a 200. *)
Spec ==
    /\ Init
    /\ [][Next]_vars
    /\ \A k \in Tasks : WF_vars(TaskStep(k) /\ Talk)
    /\ \A h \in Hooks : SF_vars(HookStep(h) /\ Pay)
    /\ WF_vars(JobStep /\ Pay)
    /\ \A t \in Txns : SF_vars(Redeliver(t) /\ Pay)

\* What comes in keeps its types: messages, claims and tasks, events and requests.
TypesOK == InboundTypeOK /\ TopUpTypeOK
=============================================================================
