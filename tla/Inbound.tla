------------------------------ MODULE Inbound ------------------------------
(* Inbound chat messages of one member: the dedupe claim taken before anything
   is done (lib/inbound-dedupe.ts), the per-phone Redis mutex that serializes
   the handlers (lib/redis-mutex.ts), the handler in its one transaction, and
   what is undone when it fails (routes/webhook.ts, services/telegram-bot.ts,
   lib/webhook-failures.ts).

   The provider is answered before the handler runs, and it may deliver a
   message any number of times: Receive is always possible. Each handling is a
   task of some process; tasks meet only in the dedupe rows and the mutex. *)
EXTENDS Naturals

CONSTANTS
    Texts,       \* text messages
    Documents,   \* documents and photos, which take the upload path
    Tasks,       \* concurrent handlings of the member's messages
    NoMsg        \* the message of an idle task

Msgs == Texts \cup Documents

ASSUME InboundConstants ==
    /\ NoMsg \notin Msgs
    /\ Tasks \cap {"free", "ghost"} = {}

VARIABLES
    claimed,     \* ids with a committed ProcessedInbound row
    lock,        \* the owner of mutex:user:<phone>: "free", "ghost" (a dead task's
                 \* token) or a task
    task,        \* per task: pc, the message it handles, and whether it lost the lease
    done,        \* history: committed handlings of a message
    failed,      \* messages with a WebhookFailure row
    orphans      \* history: messages whose task died, or whose failure could not be recorded

inboundVars == <<claimed, lock, task, done, failed, orphans>>

IdleTask == [pc |-> "idle", m |-> NoMsg, lost |-> FALSE]

InboundInit ==
    /\ claimed = {}
    /\ lock = "free"
    /\ task = [k \in Tasks |-> IdleTask]
    /\ done = [m \in Msgs |-> 0]
    /\ failed = {}
    /\ orphans = {}

At(k, pc) == task[k].pc = pc
Goto(k, pc) == task' = [task EXCEPT ![k].pc = pc]
End(k) == task' = [task EXCEPT ![k] = IdleTask]

-----------------------------------------------------------------------------
(* A delivery arrives. *)
Receive(k, m) ==
    /\ At(k, "idle")
    /\ task' = [task EXCEPT ![k] = [IdleTask EXCEPT !.pc = "find", !.m = m]]
    /\ UNCHANGED <<claimed, lock, done, failed, orphans>>

(* The fast path: an id that has a row is a duplicate. *)
FindClaim(k) ==
    /\ At(k, "find")
    /\ IF task[k].m \in claimed THEN End(k) ELSE Goto(k, "create")
    /\ UNCHANGED <<claimed, lock, done, failed, orphans>>

(* Mutant: the unique key is not asked. *)
CreateClaimBlind(k) ==
    /\ At(k, "create")
    /\ Goto(k, "wait")
    /\ claimed' = claimed \cup {task[k].m}
    /\ UNCHANGED <<lock, done, failed, orphans>>

(* The insert; the unique key decides between two deliveries that both found
   no row. *)
CreateClaim(k) ==
    /\ At(k, "create")
    /\ IF task[k].m \in claimed THEN End(k) ELSE Goto(k, "wait")
    /\ claimed' = claimed \cup {task[k].m}
    /\ UNCHANGED <<lock, done, failed, orphans>>

(* The claim throws because the database cannot be reached: the webhook answers
   500, the poll loop sleeps. *)
ClaimThrows(k) ==
    /\ task[k].pc \in {"find", "create"}
    /\ End(k)
    /\ UNCHANGED <<claimed, lock, done, failed, orphans>>

(* SET NX, tried every 50 ms. *)
Acquire(k) ==
    /\ At(k, "wait")
    /\ lock = "free"
    /\ lock' = k
    /\ Goto(k, "run")
    /\ UNCHANGED <<claimed, done, failed, orphans>>

(* Mutant: a text that gets no lock is only logged, like a document. *)
AcquireFailsLogged(k) ==
    /\ At(k, "wait")
    /\ End(k)
    /\ UNCHANGED <<claimed, lock, done, failed, orphans>>

(* No lock within 10 s, or no Redis: withMutex throws. A text is failed; a
   document's error is only logged, its claim stays. *)
AcquireFails(k) ==
    /\ At(k, "wait")
    /\ IF task[k].m \in Texts THEN Goto(k, "fail") ELSE End(k)
    /\ UNCHANGED <<claimed, lock, done, failed, orphans>>

(* Mutant: the claim is freed whether the handler failed or not. *)
HandleThenFree(k) ==
    /\ At(k, "run")
    /\ done' = [done EXCEPT ![task[k].m] = @ + 1]
    /\ Goto(k, "unwind")
    /\ UNCHANGED <<claimed, lock, failed, orphans>>

(* The handler commits: its one transaction, or the one batch row an upload
   makes. Replies are sent after the commit and cannot fail it. *)
Handle(k) ==
    /\ At(k, "run")
    /\ done' = [done EXCEPT ![task[k].m] = @ + 1]
    /\ Goto(k, "unlock")
    /\ UNCHANGED <<claimed, lock, failed, orphans>>

(* The handler throws and its transaction rolls back. A text's error leaves
   withMutex first; a document's is handled inside it. *)
HandlerThrows(k) ==
    /\ At(k, "run")
    /\ Goto(k, IF task[k].m \in Texts THEN "unwind" ELSE "fail")
    /\ UNCHANGED <<claimed, lock, done, failed, orphans>>

Holds(k) == lock = k

(* Mutant: the key is deleted whoever owns it. *)
FreeAny(k) == lock' = "free"

(* Compare-and-delete: only the owner's own token is deleted. *)
FreeOwn(k) == lock' = IF Holds(k) THEN "free" ELSE lock

Release(k) ==
    /\ task[k].pc \in {"unlock", "unwind"}
    /\ FreeOwn(k)
    /\ IF At(k, "unlock") THEN End(k) ELSE Goto(k, "fail")
    /\ UNCHANGED <<claimed, done, failed, orphans>>

(* Mutant: a document's failure leaves without the release. *)
NeverInsideMutex(k) == FALSE

(* Whether the task still has to release the mutex after failInbound. *)
InsideMutex(k) == task[k].m \in Documents

(* failInbound: the claim is deleted by id and a failure row is written. Either
   write may be lost (Promise.allSettled, both errors swallowed). *)
FailInbound(k) ==
    /\ At(k, "fail")
    /\ \E freed, recorded \in BOOLEAN :
        /\ claimed' = IF freed THEN claimed \ {task[k].m} ELSE claimed
        /\ failed' = IF recorded THEN failed \cup {task[k].m} ELSE failed
        /\ orphans' = IF freed \/ recorded THEN orphans ELSE orphans \cup {task[k].m}
    /\ IF InsideMutex(k) THEN Goto(k, "unlock") ELSE End(k)
    /\ UNCHANGED <<lock, done>>

-----------------------------------------------------------------------------
(* The process dies; its token stays in Redis. *)
Dies(k) ==
    /\ ~At(k, "idle")
    /\ lock' = IF Holds(k) THEN "ghost" ELSE lock
    /\ orphans' = orphans \cup {task[k].m}
    /\ End(k)
    /\ UNCHANGED <<claimed, done, failed>>

(* A dead task's token runs out after 30 s. *)
TokenExpires ==
    /\ lock = "ghost"
    /\ lock' = "free"
    /\ UNCHANGED <<claimed, task, done, failed, orphans>>

(* A live task's token runs out: its event loop was blocked for 30 s, or every
   renewal failed (renew swallows its errors). *)
LeaseLost(k) ==
    /\ Holds(k)
    /\ lock' = "free"
    /\ task' = [task EXCEPT ![k].lost = TRUE]
    /\ UNCHANGED <<claimed, done, failed, orphans>>

TaskStep(k) ==
    \/ FindClaim(k)
    \/ CreateClaim(k)
    \/ Acquire(k)
    \/ AcquireFails(k)
    \/ Handle(k)
    \/ HandlerThrows(k)
    \/ Release(k)
    \/ FailInbound(k)

InboundNext ==
    \/ \E k \in Tasks, m \in Msgs : Receive(k, m)
    \/ \E k \in Tasks :
        \/ TaskStep(k)
        \/ ClaimThrows(k)
        \/ Dies(k)
        \/ LeaseLost(k)
    \/ TokenExpires

InboundSpec == InboundInit /\ [][InboundNext]_inboundVars

-----------------------------------------------------------------------------
(* Properties *)

TaskPcs == {"idle", "find", "create", "wait", "run", "unlock", "unwind", "fail"}
TaskType == [pc : TaskPcs, m : Msgs \cup {NoMsg}, lost : BOOLEAN]

(* Types: a task has a message exactly while it works, and the lock's owner is a
   task that is between its acquisition and its release. *)
InboundTypeOK ==
    /\ claimed \subseteq Msgs
    /\ lock \in Tasks \cup {"free", "ghost"}
    /\ task \in [Tasks -> TaskType]
    /\ \A k \in Tasks : At(k, "idle") <=> task[k].m = NoMsg
    /\ \A k \in Tasks : Holds(k) => task[k].pc \in {"run", "unlock", "unwind", "fail"}
    /\ done \in [Msgs -> Nat]
    /\ failed \subseteq Msgs
    /\ orphans \subseteq Msgs

(* The stretch in which a task works on the strength of its claim. *)
Claiming(k) == task[k].pc \in {"wait", "run", "unwind", "fail"}

(* However often a message is delivered, retried and failed, its handler commits
   at most once (claimInboundMessage, failInbound). A commit whose acknowledgement
   is lost with the connection is outside the model: the code takes it for a
   failure and gives the message back. *)
HandledOnce == \A m \in Msgs : done[m] <= 1

(* Two tasks never work on the strength of one claim, so the claim that
   failInbound deletes by id is the failing task's own: the race described at
   inbound-dedupe.ts:28-31 cannot happen. *)
ClaimIsExclusive ==
    \A k, l \in Tasks : Claiming(k) /\ Claiming(l) /\ task[k].m = task[l].m => k = l

(* A task that runs the handler owns the mutex unless its lease ran out under
   it: no other task's release, expiry or death frees it (redis-mutex.ts). *)
RunnerHoldsLease == \A k \in Tasks : At(k, "run") /\ ~task[k].lost => Holds(k)

(* A text that was claimed is handled, or its failure is recorded or its claim
   freed, unless its process died or the database lost both writes. *)
TextIsAnswered ==
    \A m \in Texts :
        m \in claimed ~> (done[m] = 1 \/ m \in failed \/ m \notin claimed \/ m \in orphans)
=============================================================================
