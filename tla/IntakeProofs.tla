---------------------------- MODULE IntakeProofs ----------------------------
(* Safety of Inbound and TopUp for any number of messages, tasks, transfers and
   requests. *)
EXTENDS MCIntake, TLAPS

-----------------------------------------------------------------------------
(* Inbound *)

(* Whoever works on the strength of a claim has it, and the claim of a handled
   message stays, with nobody working on it any more. *)
ClaimsHeld == \A k \in Tasks : Claiming(k) => task[k].m \in claimed

HandledIsClosed ==
    \A m \in Msgs : done[m] # 0 =>
        /\ m \in claimed
        /\ \A k \in Tasks : task[k].m = m => ~Claiming(k)

(* Who fails with the mutex in hand is inside withMutex, and still releases it. *)
FailsInside == \A k \in Tasks : At(k, "fail") /\ Holds(k) => InsideMutex(k)

InboundInv ==
    /\ InboundTypeOK
    /\ FailsInside
    /\ ClaimsHeld
    /\ ClaimIsExclusive
    /\ HandledIsClosed
    /\ HandledOnce
    /\ RunnerHoldsLease

LEMMA InboundInitInv == ASSUME InboundInit PROVE InboundInv
BY InboundConstants
   DEF InboundInit, InboundInv, InboundTypeOK, IdleTask, TaskType, TaskPcs, ClaimsHeld, ClaimIsExclusive,
       HandledIsClosed, HandledOnce, RunnerHoldsLease, FailsInside, InsideMutex, Claiming, At, Holds

(* Task k becomes the given row and the other tasks stay as they are. *)
TaskIs(k, pc, m, lost) ==
    /\ task' \in [Tasks -> TaskType]
    /\ task'[k].pc = pc
    /\ task'[k].m = m
    /\ task'[k].lost = lost
    /\ \A l \in Tasks \ {k} : task'[l] = task[l]

(* What each kind of update of the task table does to the rows. *)
LEMMA EndsTask ==
    ASSUME task \in [Tasks -> TaskType], NEW k \in Tasks, End(k)
    PROVE  TaskIs(k, "idle", NoMsg, FALSE)
<1>1. IdleTask \in TaskType /\ IdleTask.pc = "idle" /\ IdleTask.m = NoMsg /\ IdleTask.lost = FALSE
  BY DEF IdleTask, TaskType, TaskPcs
<1>2. task' = [task EXCEPT ![k] = IdleTask]
  BY DEF End
<1>. QED BY <1>1, <1>2 DEF TaskIs

LEMMA MovesTask ==
    ASSUME task \in [Tasks -> TaskType], NEW k \in Tasks, NEW pc \in TaskPcs, Goto(k, pc)
    PROVE  TaskIs(k, pc, task[k].m, task[k].lost)
<1>. DEFINE row == [task[k] EXCEPT !.pc = pc]
<1>1. row \in TaskType /\ row.pc = pc /\ row.m = task[k].m /\ row.lost = task[k].lost
  BY DEF TaskType
<1>2. task' = [task EXCEPT ![k] = row]
  BY DEF Goto
<1>. HIDE DEF row
<1>. QED BY <1>1, <1>2 DEF TaskIs

LEMMA LosesLease ==
    ASSUME task \in [Tasks -> TaskType], NEW k \in Tasks, task' = [task EXCEPT ![k].lost = TRUE]
    PROVE  TaskIs(k, task[k].pc, task[k].m, TRUE)
<1>. DEFINE row == [task[k] EXCEPT !.lost = TRUE]
<1>1. row \in TaskType /\ row.pc = task[k].pc /\ row.m = task[k].m /\ row.lost = TRUE
  BY DEF TaskType
<1>2. task' = [task EXCEPT ![k] = row]
  OBVIOUS
<1>. HIDE DEF row
<1>. QED BY <1>1, <1>2 DEF TaskIs

LEMMA StartsTask ==
    ASSUME task \in [Tasks -> TaskType], NEW k \in Tasks, NEW m \in Msgs,
           task' = [task EXCEPT ![k] = [IdleTask EXCEPT !.pc = "find", !.m = m]]
    PROVE  TaskIs(k, "find", m, FALSE)
<1>. DEFINE row == [IdleTask EXCEPT !.pc = "find", !.m = m]
<1>1. row \in TaskType /\ row.pc = "find" /\ row.m = m /\ row.lost = FALSE
  BY DEF TaskType, TaskPcs, IdleTask
<1>2. task' = [task EXCEPT ![k] = row]
  OBVIOUS
<1>. HIDE DEF row
<1>. QED BY <1>1, <1>2 DEF TaskIs

LEMMA InboundStepInv == ASSUME InboundInv, [InboundNext]_inboundVars PROVE InboundInv'
<1>. USE InboundConstants
<1>. USE DEF InboundInv, InboundTypeOK, ClaimsHeld, ClaimIsExclusive, HandledIsClosed, HandledOnce,
       RunnerHoldsLease, FailsInside, InsideMutex, Claiming, At, Holds
<1>0. {"find", "create", "wait", "run", "unlock", "unwind", "fail"} \subseteq TaskPcs
  BY DEF TaskPcs
<1>1. ASSUME NEW k \in Tasks, NEW m \in Msgs, Receive(k, m) PROVE InboundInv'
  <2>1. TaskIs(k, "find", m, FALSE) /\ task[k].pc = "idle"
    BY <1>1, StartsTask DEF Receive
  <2>2. UNCHANGED <<claimed, lock, done, failed, orphans>>
    BY <1>1 DEF Receive
  <2>. QED BY <2>1, <2>2 DEF TaskIs
<1>2. ASSUME NEW k \in Tasks, FindClaim(k) PROVE InboundInv'
  <2>1. \/ TaskIs(k, "idle", NoMsg, FALSE)
        \/ TaskIs(k, "create", task[k].m, task[k].lost)
    BY <1>2, <1>0, MovesTask, EndsTask DEF FindClaim
  <2>2. task[k].pc = "find" /\ UNCHANGED <<claimed, lock, done, failed, orphans>>
    BY <1>2 DEF FindClaim
  <2>. QED BY <2>1, <2>2 DEF TaskIs
<1>3. ASSUME NEW k \in Tasks, CreateClaim(k) PROVE InboundInv'
  <2>1. /\ task[k].pc = "create"
        /\ claimed' = claimed \cup {task[k].m}
        /\ UNCHANGED <<lock, done, failed, orphans>>
    BY <1>3 DEF CreateClaim
  <2>2. CASE task[k].m \in claimed
    <3>1. TaskIs(k, "idle", NoMsg, FALSE)
      BY <1>3, <2>2, EndsTask DEF CreateClaim
    <3>. QED BY <2>1, <2>2, <3>1 DEF TaskIs
  <2>3. CASE task[k].m \notin claimed
    <3>1. TaskIs(k, "wait", task[k].m, task[k].lost)
      BY <1>3, <2>3, <1>0, MovesTask DEF CreateClaim
    <3>2. task[k].m \in Msgs
      BY <2>1 DEF TaskType
    <3>3. done[task[k].m] = 0 /\ \A l \in Tasks : Claiming(l) => task[l].m # task[k].m
      BY <2>3, <3>2
    <3>4. InboundTypeOK'
      BY <2>1, <3>1, <3>2 DEF TaskIs
    <3>5. ClaimsHeld' /\ ClaimIsExclusive' /\ RunnerHoldsLease' /\ FailsInside'
      BY <2>1, <3>1, <3>3 DEF TaskIs
    <3>6. HandledIsClosed' /\ HandledOnce'
      BY <2>1, <3>1, <3>3 DEF TaskIs
    <3>. QED BY <3>4, <3>5, <3>6
  <2>. QED BY <2>2, <2>3
<1>4. ASSUME NEW k \in Tasks, ClaimThrows(k) PROVE InboundInv'
  <2>1. TaskIs(k, "idle", NoMsg, FALSE)
    BY <1>4, EndsTask DEF ClaimThrows
  <2>2. task[k].pc \in {"find", "create"} /\ UNCHANGED <<claimed, lock, done, failed, orphans>>
    BY <1>4 DEF ClaimThrows
  <2>. QED BY <2>1, <2>2 DEF TaskIs
<1>5. ASSUME NEW k \in Tasks, Acquire(k) PROVE InboundInv'
  <2>1. TaskIs(k, "run", task[k].m, task[k].lost)
    BY <1>5, <1>0, MovesTask DEF Acquire
  <2>2. /\ task[k].pc = "wait" /\ lock = "free" /\ lock' = k
        /\ UNCHANGED <<claimed, done, failed, orphans>>
    BY <1>5 DEF Acquire
  <2>. QED BY <2>1, <2>2 DEF TaskIs
<1>6. ASSUME NEW k \in Tasks, AcquireFails(k) PROVE InboundInv'
  <2>1. \/ TaskIs(k, "idle", NoMsg, FALSE)
        \/ TaskIs(k, "fail", task[k].m, task[k].lost)
    BY <1>6, <1>0, MovesTask, EndsTask DEF AcquireFails
  <2>2. task[k].pc = "wait" /\ UNCHANGED <<claimed, lock, done, failed, orphans>>
    BY <1>6 DEF AcquireFails
  <2>. QED BY <2>1, <2>2 DEF TaskIs
<1>7. ASSUME NEW k \in Tasks, Handle(k) PROVE InboundInv'
  <2>1. TaskIs(k, "unlock", task[k].m, task[k].lost)
    BY <1>7, <1>0, MovesTask DEF Handle
  <2>2. /\ task[k].pc = "run" /\ done' = [done EXCEPT ![task[k].m] = @ + 1]
        /\ UNCHANGED <<claimed, lock, failed, orphans>>
    BY <1>7 DEF Handle
  <2>3. task[k].m \in Msgs /\ done[task[k].m] = 0
    BY <2>2 DEF TaskType
  <2>4. done' \in [Msgs -> Nat] /\ done'[task[k].m] = 1
    BY <2>2, <2>3
  <2>5. \A m \in Msgs \ {task[k].m} : done'[m] = done[m]
    BY <2>2
  <2>6. HandledOnce'
    BY <2>3, <2>4, <2>5
  <2>7. \A m \in Msgs : done'[m] # 0 => m = task[k].m \/ done[m] # 0
    BY <2>5
  <2>8. HandledIsClosed'
    BY <2>1, <2>2, <2>7 DEF TaskIs
  <2>. QED BY <2>1, <2>2, <2>4, <2>6, <2>8 DEF TaskIs
<1>8. ASSUME NEW k \in Tasks, HandlerThrows(k) PROVE InboundInv'
  <2>1. \/ TaskIs(k, "unwind", task[k].m, task[k].lost)
        \/ TaskIs(k, "fail", task[k].m, task[k].lost) /\ task[k].m \in Documents
    BY <1>8, <1>0, MovesTask DEF HandlerThrows, Msgs, TaskType
  <2>2. task[k].pc = "run" /\ UNCHANGED <<claimed, lock, done, failed, orphans>>
    BY <1>8 DEF HandlerThrows
  <2>. QED BY <2>1, <2>2 DEF TaskIs
<1>9. ASSUME NEW k \in Tasks, Release(k) PROVE InboundInv'
  <2>1. \/ TaskIs(k, "idle", NoMsg, FALSE) /\ task[k].pc = "unlock"
        \/ TaskIs(k, "fail", task[k].m, task[k].lost) /\ task[k].pc = "unwind"
    BY <1>9, <1>0, MovesTask, EndsTask DEF Release
  <2>2. /\ lock' = IF lock = k THEN "free" ELSE lock
        /\ UNCHANGED <<claimed, done, failed, orphans>>
    BY <1>9 DEF Release, FreeOwn
  <2>. QED BY <2>1, <2>2 DEF TaskIs
<1>10. ASSUME NEW k \in Tasks, FailInbound(k) PROVE InboundInv'
  <2>1. \/ TaskIs(k, "unlock", task[k].m, task[k].lost) /\ InsideMutex(k)
        \/ TaskIs(k, "idle", NoMsg, FALSE) /\ ~InsideMutex(k)
    BY <1>10, <1>0, MovesTask, EndsTask DEF FailInbound
  <2>2. /\ task[k].pc = "fail"
        /\ claimed' = claimed \/ claimed' = claimed \ {task[k].m}
        /\ failed' \subseteq Msgs /\ orphans' \subseteq Msgs
        /\ UNCHANGED <<lock, done>>
    BY <1>10 DEF FailInbound, TaskType
  <2>3. /\ task[k].m \in Msgs /\ done[task[k].m] = 0
        /\ \A l \in Tasks : Claiming(l) /\ task[l].m = task[k].m => l = k
    BY <2>2 DEF TaskType
  <2>4. ~Claiming(k)' /\ \A l \in Tasks : Claiming(l)' => Claiming(l) /\ task'[l] = task[l] /\ l # k
    BY <2>1 DEF TaskIs
  <2>5. \A m \in Msgs : m \in claimed /\ m # task[k].m => m \in claimed'
    BY <2>2
  <2>6. InboundTypeOK'
    <3>1. lock' = k => lock = k
      BY <2>2
    <3>2. lock = k => task'[k].pc \in {"run", "unlock", "unwind", "fail"}
      BY <2>1, <2>2 DEF TaskIs
    <3>. QED BY <2>1, <2>2, <2>3, <3>2 DEF TaskIs
  <2>7. ClaimsHeld' /\ ClaimIsExclusive'
    BY <2>3, <2>4, <2>5
  <2>8. HandledIsClosed' /\ HandledOnce'
    BY <2>1, <2>2, <2>3, <2>4, <2>5 DEF TaskIs
  <2>9. RunnerHoldsLease'
    BY <2>1, <2>2 DEF TaskIs
  <2>10. FailsInside'
    BY <2>1, <2>2 DEF TaskIs
  <2>. QED BY <2>6, <2>7, <2>8, <2>9, <2>10
<1>11. ASSUME NEW k \in Tasks, Dies(k) PROVE InboundInv'
  <2>1. TaskIs(k, "idle", NoMsg, FALSE)
    BY <1>11, EndsTask DEF Dies
  <2>2. /\ lock' = IF lock = k THEN "ghost" ELSE lock
        /\ orphans' \subseteq Msgs
        /\ UNCHANGED <<claimed, done, failed>>
    BY <1>11 DEF Dies, TaskType
  <2>. QED BY <2>1, <2>2 DEF TaskIs
<1>12. ASSUME NEW k \in Tasks, LeaseLost(k) PROVE InboundInv'
  <2>1. TaskIs(k, task[k].pc, task[k].m, TRUE)
    BY <1>12, LosesLease DEF LeaseLost
  <2>2. lock = k /\ lock' = "free" /\ UNCHANGED <<claimed, done, failed, orphans>>
    BY <1>12 DEF LeaseLost
  <2>. QED BY <2>1, <2>2 DEF TaskIs
<1>13. ASSUME TokenExpires PROVE InboundInv'
  BY <1>13 DEF TokenExpires
<1>14. ASSUME UNCHANGED inboundVars PROVE InboundInv'
  BY <1>14 DEF inboundVars
<1>. QED
  BY <1>1, <1>2, <1>3, <1>4, <1>5, <1>6, <1>7, <1>8, <1>9, <1>10, <1>11, <1>12, <1>13, <1>14
     DEF InboundNext, TaskStep

(* However often a message is delivered, retried and failed, its handler commits
   at most once (claimInboundMessage, failInbound). *)
THEOREM MessagesHandledOnce == InboundSpec => []HandledOnce
<1>1. InboundInv => HandledOnce
  BY DEF InboundInv
<1>. QED BY <1>1, InboundInitInv, InboundStepInv, PTL DEF InboundSpec

(* Two tasks never work on the strength of one claim, so failInbound only ever
   deletes the claim of its own task. *)
THEOREM ClaimsAreExclusive == InboundSpec => []ClaimIsExclusive
<1>1. InboundInv => ClaimIsExclusive
  BY DEF InboundInv
<1>. QED BY <1>1, InboundInitInv, InboundStepInv, PTL DEF InboundSpec

(* A task that runs the handler owns the mutex unless its own lease ran out. *)
THEOREM RunnersHoldTheirLease == InboundSpec => []RunnerHoldsLease
<1>1. InboundInv => RunnerHoldsLease
  BY DEF InboundInv
<1>. QED BY <1>1, InboundInitInv, InboundStepInv, PTL DEF InboundSpec

-----------------------------------------------------------------------------
(* TopUp *)

(* The unique txRef: one open transaction at most holds the entry of a transfer,
   and none while the entry is committed. *)
EntryIsUnique ==
    /\ \A g, h \in Hooks : HoldsEntry(g) /\ HoldsEntry(h) /\ hook[g].t = hook[h].t => g = h
    /\ \A h \in Hooks : HoldsEntry(h) => credits[hook[h].t] = 0

(* A hook marks an event processed only when its transfer is settled. *)
MarksSettled == \A h \in Hooks : In(h, "mark") => Settled(hook[h].t)

TopUpInv ==
    /\ TopUpTypeOK
    /\ EntryIsUnique
    /\ MarksSettled
    /\ CreditedOnce
    /\ AckedIsSettled

LEMMA TopUpInitInv == ASSUME TopUpInit PROVE TopUpInv
BY TopUpConstants
   DEF TopUpInit, TopUpInv, TopUpTypeOK, IdleHook, HookType, HookPcs, EventStatuses, EntryIsUnique,
       HoldsEntry, MarksSettled, CreditedOnce, AckedIsSettled, Settled, In

(* Hook h becomes the given row and the other hooks stay as they are. *)
HookIs(h, pc, t) ==
    /\ hook' \in [Hooks -> HookType]
    /\ hook'[h].pc = pc
    /\ hook'[h].t = t
    /\ \A g \in Hooks \ {h} : hook'[g] = hook[g]

LEMMA EndsHook ==
    ASSUME hook \in [Hooks -> HookType], NEW h \in Hooks, Done(h)
    PROVE  HookIs(h, "idle", NoTxn)
<1>1. IdleHook \in HookType /\ IdleHook.pc = "idle" /\ IdleHook.t = NoTxn
  BY DEF IdleHook, HookType, HookPcs
<1>2. hook' = [hook EXCEPT ![h] = IdleHook]
  BY DEF Done
<1>. QED BY <1>1, <1>2 DEF HookIs

LEMMA MovesHook ==
    ASSUME hook \in [Hooks -> HookType], NEW h \in Hooks, NEW pc \in HookPcs, Move(h, pc)
    PROVE  HookIs(h, pc, hook[h].t)
<1>. DEFINE row == [hook[h] EXCEPT !.pc = pc]
<1>1. row \in HookType /\ row.pc = pc /\ row.t = hook[h].t
  BY DEF HookType
<1>2. hook' = [hook EXCEPT ![h] = row]
  BY DEF Move
<1>. HIDE DEF row
<1>. QED BY <1>1, <1>2 DEF HookIs

LEMMA StartsHook ==
    ASSUME hook \in [Hooks -> HookType], NEW h \in Hooks, NEW t \in Txns,
           hook' = [hook EXCEPT ![h] = [pc |-> "record", t |-> t]]
    PROVE  HookIs(h, "record", t)
<1>. DEFINE row == [pc |-> "record", t |-> t]
<1>1. row \in HookType /\ row.pc = "record" /\ row.t = t
  BY DEF HookType, HookPcs
<1>2. hook' = [hook EXCEPT ![h] = row]
  OBVIOUS
<1>. HIDE DEF row
<1>. QED BY <1>1, <1>2 DEF HookIs

(* A fault only counts. *)
LEMMA FaultCounts ==
    ASSUME faults \in 0 .. MaxFaults, Fault PROVE faults' \in 0 .. MaxFaults
BY TopUpConstants DEF Fault

LEMMA TopUpStepInv == ASSUME TopUpInv, [TopUpNext]_topUpVars PROVE TopUpInv'
<1>. USE TopUpConstants
<1>. USE DEF TopUpInv, TopUpTypeOK, EntryIsUnique, HoldsEntry, MarksSettled, CreditedOnce,
       AckedIsSettled, Settled, In
<1>0. HookPcs = {"idle", "record", "seen", "process", "insert", "credit", "audit", "mark", "failed"}
  BY DEF HookPcs
<1>1. ASSUME NEW h \in Hooks, NEW t \in Txns, Deliver(h, t) PROVE TopUpInv'
  <2>1. HookIs(h, "record", t) /\ hook[h].pc = "idle"
    BY <1>1, StartsHook DEF Deliver
  <2>2. UNCHANGED <<event, account, credits, job, acked, dropped, silent, faults>>
    BY <1>1 DEF Deliver
  <2>. QED BY <2>1, <2>2 DEF HookIs
<1>2. ASSUME NEW h \in Hooks, RecordEvent(h) PROVE TopUpInv'
  <2>1. \/ HookIs(h, "process", hook[h].t) /\ event[hook[h].t] = "none"
           /\ event' = [event EXCEPT ![hook[h].t] = "received"]
        \/ HookIs(h, "seen", hook[h].t) /\ event[hook[h].t] # "none" /\ event' = event
    BY <1>2, <1>0, MovesHook DEF RecordEvent
  <2>2. hook[h].pc = "record" /\ UNCHANGED <<account, credits, job, acked, dropped, silent, faults>>
    BY <1>2 DEF RecordEvent
  <2>3. hook[h].t \in Txns
    BY <2>2 DEF HookType
  <2>4. /\ event' \in [Txns -> EventStatuses]
        /\ \A t \in Txns : event'[t] = "processed" => event[t] = "processed"
        /\ \A t \in Txns : event[t] # "none" => event'[t] # "none"
        /\ event'[hook[h].t] # "none"
    BY <2>1, <2>3 DEF EventStatuses
  <2>5. HookIs(h, "process", hook[h].t) \/ HookIs(h, "seen", hook[h].t)
    BY <2>1
  <2>6. \A g \in Hooks : hook[g].pc # "idle" => hook[g].t \in Txns
    BY DEF HookType
  <2>. QED BY <2>2, <2>3, <2>4, <2>5, <2>6 DEF HookIs
<1>3. ASSUME NEW h \in Hooks, RecordFails(h) PROVE TopUpInv'
  <2>1. HookIs(h, "idle", NoTxn)
    BY <1>3, <1>0, MovesHook, EndsHook DEF RecordFails
  <2>2. hook[h].pc = "record" /\ faults' \in 0 .. MaxFaults
        /\ UNCHANGED <<event, account, credits, job, acked, dropped, silent>>
    BY <1>3, FaultCounts DEF RecordFails
  <2>. QED BY <2>1, <2>2 DEF HookIs
<1>4. ASSUME NEW h \in Hooks, CreditFails(h) PROVE TopUpInv'
  <2>1. HookIs(h, "failed", hook[h].t)
    BY <1>4, <1>0, MovesHook, EndsHook DEF CreditFails
  <2>2. hook[h].pc \in {"process", "insert", "credit", "audit"} /\ faults' \in 0 .. MaxFaults
        /\ UNCHANGED <<event, account, credits, job, acked, dropped, silent>>
    BY <1>4, FaultCounts DEF CreditFails
  <2>. QED BY <2>1, <2>2 DEF HookIs
<1>5. ASSUME NEW h \in Hooks, MarkFails(h) PROVE TopUpInv'
  <2>1. HookIs(h, "failed", hook[h].t)
    BY <1>5, <1>0, MovesHook, EndsHook DEF MarkFails
  <2>2. hook[h].pc = "mark" /\ faults' \in 0 .. MaxFaults
        /\ UNCHANGED <<event, account, credits, job, acked, dropped, silent>>
    BY <1>5, FaultCounts DEF MarkFails
  <2>. QED BY <2>1, <2>2 DEF HookIs
<1>6. ASSUME NEW h \in Hooks, MarkFailedLost(h) PROVE TopUpInv'
  <2>1. HookIs(h, "idle", NoTxn)
    BY <1>6, <1>0, MovesHook, EndsHook DEF MarkFailedLost
  <2>2. hook[h].pc = "failed" /\ faults' \in 0 .. MaxFaults
        /\ UNCHANGED <<event, account, credits, job, acked, dropped, silent>>
    BY <1>6, FaultCounts DEF MarkFailedLost
  <2>. QED BY <2>1, <2>2 DEF HookIs
<1>7. ASSUME NEW h \in Hooks, HookDies(h) PROVE TopUpInv'
  <2>1. HookIs(h, "idle", NoTxn)
    BY <1>7, <1>0, MovesHook, EndsHook DEF HookDies
  <2>2. hook[h].pc # "idle" /\ faults' \in 0 .. MaxFaults
        /\ UNCHANGED <<event, account, credits, job, acked, dropped, silent>>
    BY <1>7, FaultCounts DEF HookDies
  <2>. QED BY <2>1, <2>2 DEF HookIs
<1>8. ASSUME NEW h \in Hooks, SeenBefore(h) PROVE TopUpInv'
  <2>1. \/ HookIs(h, "idle", NoTxn) /\ event[hook[h].t] = "processed" /\ acked' = acked \cup {hook[h].t}
        \/ HookIs(h, "process", hook[h].t) /\ acked' = acked
    BY <1>8, <1>0, MovesHook, EndsHook DEF SeenBefore, IsDuplicate
  <2>2. hook[h].pc = "seen"
        /\ UNCHANGED <<event, account, credits, job, dropped, silent, faults>>
    BY <1>8 DEF SeenBefore
  <2>3. hook[h].t \in Txns
    BY <2>2 DEF HookType
  <2>. QED BY <2>1, <2>2, <2>3 DEF HookIs
<1>9. ASSUME NEW h \in Hooks, Ignore(h) PROVE TopUpInv'
  <2>1. HookIs(h, "mark", hook[h].t)
    BY <1>9, <1>0, MovesHook, EndsHook DEF Ignore
  <2>2. hook[h].pc = "process" /\ dropped' = dropped \cup {hook[h].t}
        /\ UNCHANGED <<event, account, credits, job, acked, silent, faults>>
    BY <1>9 DEF Ignore
  <2>3. hook[h].t \in Txns
    BY <2>2 DEF HookType
  <2>. QED BY <2>1, <2>2, <2>3 DEF HookIs
<1>10. ASSUME NEW h \in Hooks, ReadJournal(h) PROVE TopUpInv'
  <2>1. \/ HookIs(h, "mark", hook[h].t) /\ Booked(hook[h].t)
        \/ HookIs(h, "insert", hook[h].t)
    BY <1>10, <1>0, MovesHook, EndsHook DEF ReadJournal
  <2>2. hook[h].pc = "process"
        /\ UNCHANGED <<event, account, credits, job, acked, dropped, silent, faults>>
    BY <1>10 DEF ReadJournal
  <2>3. hook[h].t \in Txns /\ (Booked(hook[h].t) <=> credits[hook[h].t] # 0)
    BY <2>2 DEF HookType, Booked
  <2>4. Booked(hook[h].t) => credits[hook[h].t] = 1
    BY <2>3
  <2>. QED BY <2>1, <2>2, <2>3, <2>4 DEF HookIs
<1>11. ASSUME NEW h \in Hooks, InsertEntry(h) PROVE TopUpInv'
  <2>1. \/ HookIs(h, "mark", hook[h].t) /\ Booked(hook[h].t)
        \/ HookIs(h, "credit", hook[h].t) /\ ~Booked(hook[h].t)
    BY <1>11, <1>0, MovesHook, EndsHook DEF InsertEntry
  <2>2. hook[h].pc = "insert" /\ ~EntryPending(h)
        /\ UNCHANGED <<event, account, credits, job, acked, dropped, silent, faults>>
    BY <1>11 DEF InsertEntry
  <2>3. hook[h].t \in Txns /\ (Booked(hook[h].t) <=> credits[hook[h].t] # 0)
    BY <2>2 DEF HookType, Booked
  <2>4. Booked(hook[h].t) => credits[hook[h].t] = 1
    BY <2>3
  <2>5. \A g \in Hooks \ {h} : HoldsEntry(g) => hook[g].t # hook[h].t
    BY <2>2 DEF EntryPending
  <2>. QED BY <2>1, <2>2, <2>3, <2>4, <2>5 DEF HookIs
<1>12. ASSUME NEW h \in Hooks, CreditWallet(h) PROVE TopUpInv'
  <2>1. HookIs(h, "audit", hook[h].t)
    BY <1>12, <1>0, MovesHook, EndsHook DEF CreditWallet
  <2>2. hook[h].pc = "credit"
        /\ UNCHANGED <<event, account, credits, job, acked, dropped, silent, faults>>
    BY <1>12 DEF CreditWallet
  <2>. QED BY <2>1, <2>2 DEF HookIs
<1>13. ASSUME NEW h \in Hooks, Commit(h) PROVE TopUpInv'
  <2>1. HookIs(h, "mark", hook[h].t)
    BY <1>13, <1>0, MovesHook, EndsHook DEF Commit
  <2>2. hook[h].pc = "audit" /\ credits' = [credits EXCEPT ![hook[h].t] = @ + 1]
        /\ UNCHANGED <<event, account, job, acked, dropped, silent, faults>>
    BY <1>13 DEF Commit
  <2>3. hook[h].t \in Txns /\ credits[hook[h].t] = 0
    BY <2>2 DEF HookType
  <2>4. /\ credits' \in [Txns -> Nat]
        /\ credits'[hook[h].t] = 1
        /\ \A t \in Txns \ {hook[h].t} : credits'[t] = credits[t]
    BY <2>2, <2>3
  <2>5. \A g \in Hooks \ {h} : HoldsEntry(g) => hook[g].t # hook[h].t
    BY <2>2
  <2>6. \A g \in Hooks : hook[g].pc # "idle" => hook[g].t \in Txns
    BY DEF HookType
  <2>7. TopUpTypeOK' /\ MarksSettled' /\ AckedIsSettled'
    BY <2>1, <2>2, <2>3, <2>4, <2>6 DEF HookIs
  <2>8. EntryIsUnique'
    BY <2>1, <2>3, <2>4, <2>5, <2>6 DEF HookIs
  <2>9. CreditedOnce'
    BY <2>3, <2>4
  <2>. QED BY <2>7, <2>8, <2>9
<1>14. ASSUME NEW h \in Hooks, DeadlockVictim(h) PROVE TopUpInv'
  <2>1. HookIs(h, "mark", hook[h].t)
    BY <1>14, <1>0, MovesHook DEF DeadlockVictim
  <2>2. hook[h].pc = "audit" /\ faults' \in 0 .. MaxFaults /\ silent' = silent \cup {hook[h].t}
        /\ UNCHANGED <<event, account, credits, job, acked, dropped>>
    BY <1>14, FaultCounts DEF DeadlockVictim
  <2>3. hook[h].t \in Txns
    BY <2>2 DEF HookType
  <2>. QED BY <2>1, <2>2, <2>3 DEF HookIs
<1>15. ASSUME NEW h \in Hooks, MarkProcessed(h) PROVE TopUpInv'
  <2>1. HookIs(h, "idle", NoTxn)
    BY <1>15, <1>0, MovesHook, EndsHook DEF MarkProcessed
  <2>2. hook[h].pc = "mark" /\ event' = [event EXCEPT ![hook[h].t] = "processed"] /\ acked' = acked \cup {hook[h].t}
        /\ UNCHANGED <<account, credits, job, dropped, silent, faults>>
    BY <1>15 DEF MarkProcessed
  <2>3. hook[h].t \in Txns
    BY <2>2 DEF HookType
  <2>4. /\ event' \in [Txns -> EventStatuses]
        /\ event'[hook[h].t] = "processed"
        /\ \A t \in Txns \ {hook[h].t} : event'[t] = event[t]
    BY <2>2, <2>3 DEF EventStatuses
  <2>. QED BY <2>1, <2>2, <2>3, <2>4 DEF HookIs
<1>16. ASSUME NEW h \in Hooks, MarkFailed(h) PROVE TopUpInv'
  <2>1. HookIs(h, "idle", NoTxn)
    BY <1>16, <1>0, MovesHook, EndsHook DEF MarkFailed
  <2>2. hook[h].pc = "failed" /\ event' = [event EXCEPT ![hook[h].t] = "failed"]
        /\ UNCHANGED <<account, credits, job, acked, dropped, silent, faults>>
    BY <1>16 DEF MarkFailed
  <2>3. hook[h].t \in Txns
    BY <2>2 DEF HookType
  <2>4. /\ event' \in [Txns -> EventStatuses]
        /\ event'[hook[h].t] = "failed"
        /\ \A t \in Txns \ {hook[h].t} : event'[t] = event[t]
    BY <2>2, <2>3 DEF EventStatuses
  <2>. QED BY <2>1, <2>2, <2>3, <2>4 DEF HookIs
<1>17. ASSUME AccountExpires \/ JobAudits \/ JobStep PROVE TopUpInv'
  <2>1. account' \in {"live", "gone"} /\ job' \in {"idle", "audited", "wants", "paid"}
    BY <1>17 DEF AccountExpires, JobAudits, JobStep, JobWantsWallet, JobTakesWallet, JobCommits, JobIsVictim
  <2>2. UNCHANGED <<event, credits, hook, acked, dropped, silent, faults>>
    BY <1>17 DEF AccountExpires, JobAudits, JobStep, JobWantsWallet, JobTakesWallet, JobCommits, JobIsVictim
  <2>. QED BY <2>1, <2>2
<1>18. ASSUME UNCHANGED topUpVars PROVE TopUpInv'
  BY <1>18 DEF topUpVars
<1>. QED
  BY <1>1, <1>2, <1>3, <1>4, <1>5, <1>6, <1>7, <1>8, <1>9, <1>10,
     <1>11, <1>12, <1>13, <1>14, <1>15, <1>16, <1>17, <1>18
     DEF TopUpNext, HookStep, HookFault

(* The wallet gets a transfer at most once, whatever is redelivered, repeated at
   the same time, retried after a failure or interrupted. *)
THEOREM TransfersCreditedOnce == TopUpSpec => []CreditedOnce
<1>1. TopUpInv => CreditedOnce
  BY DEF TopUpInv
<1>. QED BY <1>1, TopUpInitInv, TopUpStepInv, PTL DEF TopUpSpec

(* The provider is told 200 only once the transfer was credited, ignored or
   silently rolled back. *)
THEOREM AcknowledgedTransfersAreSettled == TopUpSpec => []AckedIsSettled
<1>1. TopUpInv => AckedIsSettled
  BY DEF TopUpInv
<1>. QED BY <1>1, TopUpInitInv, TopUpStepInv, PTL DEF TopUpSpec
-----------------------------------------------------------------------------
(* Both *)

\* A step of the instance is one of Inbound or of TopUp and leaves the other's state alone.
LEMMA IntakeStep ==
    ASSUME [Next]_vars
    PROVE  [InboundNext]_inboundVars /\ [TopUpNext]_topUpVars
<1>1. CASE UNCHANGED vars BY <1>1 DEF vars
<1>2. CASE Next
  <2>1. \/ InboundNext /\ UNCHANGED topUpVars
        \/ TopUpNext /\ UNCHANGED inboundVars
    BY <1>2 DEF Next, Talk, Pay, InboundNext, TopUpNext, TaskStep, HookStep, HookFault, JobStep
  <2> QED BY <2>1
<1> QED BY <1>1, <1>2

(* Claims, locks and tasks, events, credits and requests keep their types for any
   messages, tasks, transfers, requests and number of faults. *)
THEOREM IntakeTypes == Spec => []TypesOK
<1>1. Init => InboundInv /\ TopUpInv BY InboundInitInv, TopUpInitInv DEF Init
<1>2. InboundInv /\ TopUpInv /\ [Next]_vars => InboundInv' /\ TopUpInv'
  BY IntakeStep, InboundStepInv, TopUpStepInv
<1>3. InboundInv /\ TopUpInv => TypesOK BY DEF InboundInv, TopUpInv, TypesOK
<1> QED BY <1>1, <1>2, <1>3, PTL DEF Spec
=============================================================================
