----------------------------- MODULE Scheduling -----------------------------
(* Which process runs a scheduled job, and what keeps its notices from going out
   twice: the boot in index.ts, lib/queue.ts, withDistributedLock and claimOnce of
   lib/cache.ts, and the jobs of services/scheduler.ts that only send.

   A process that reaches Redis when it boots is a BullMQ worker, one that does not
   runs loops, which take a Redis lock whenever Redis is there. "tick" stands for
   its two kinds of reminders: claimed once per period in Redis, and read, sent and
   stamped on the member's row in one transaction. "digest" checks a marker, sends,
   and sets it. Each behaviour is of one of the two, "job", for one cooperative, one
   member and one period. *)
EXTENDS Naturals, FiniteSets

CONSTANTS
    Procs,      \* the processes of the deployment
    NoProc,
    MaxStarts   \* bound on the runs of jobs

Jobs == {"tick", "digest"}
Shares == {"queue", "lock"}   \* what keeps others out: BullMQ's job lock, or the Redis lock

VARIABLES
    job,
    mode,       \* of each process: "off", or what it chose when it booted
    link,       \* whether it is connected to Redis
    run,        \* its run of the job
    token,      \* who holds the queue's or the lock's token
    once, memo, \* the period's claim: in Redis, and in the memory of processes
    mark, memMark, \* the digest's marker, likewise
    stamp,      \* autoSaveNextDue, lastStatementSentAt and the like, committed
    sent, told, digests, \* history: claimed notices, stamped ones, digests that went out
    fell,       \* history: claims made in memory
    excused,    \* history: a run met a death, an expiry, a rollback, or one with which it shares no lock
    starts

redis == <<token, once, mark>>
counts == <<sent, told, digests, fell>>
vars == <<job, mode, link, run, redis, memo, memMark, stamp, counts, excused, starts>>

Idle == [pc |-> "idle", via |-> "none"]
Running(p) == run[p].pc # "idle"
Goes(p, pc) == run' = [run EXCEPT ![p].pc = pc]

Init ==
    /\ job \in Jobs
    /\ mode = [p \in Procs |-> "off"]
    /\ link = [p \in Procs |-> FALSE]
    /\ run = [p \in Procs |-> Idle]
    /\ token = [v \in Shares |-> NoProc]
    /\ once = FALSE /\ mark = FALSE /\ stamp = FALSE
    /\ memo = {} /\ memMark = {} /\ excused = FALSE
    /\ sent = 0 /\ told = 0 /\ digests = 0 /\ fell = 0 /\ starts = 0

-----------------------------------------------------------------------------
(* Processes and Redis *)

Boot(p) ==
    /\ mode[p] = "off"
    /\ \E reached \in BOOLEAN :
        /\ link' = [link EXCEPT ![p] = reached]
        /\ mode' = [mode EXCEPT ![p] = IF reached THEN "worker" ELSE "loops"]
    /\ UNCHANGED <<job, run, redis, memo, memMark, stamp, counts, excused, starts>>

\* A kill, or the shutdown that an unhandled rejection causes: a loop whose SET
\* fails, or whose backup or digest does.
Dies(p) ==
    /\ mode[p] # "off"
    /\ mode' = [mode EXCEPT ![p] = "off"]
    /\ link' = [link EXCEPT ![p] = FALSE]
    /\ run' = [run EXCEPT ![p] = Idle]
    /\ memo' = memo \ {p} /\ memMark' = memMark \ {p}
    /\ excused' = (excused \/ Running(p))
    /\ UNCHANGED <<job, redis, stamp, counts, starts>>

LinkCut(p) ==
    /\ link[p]
    /\ link' = [link EXCEPT ![p] = FALSE]
    /\ excused' = (excused \/ (job = "digest" /\ Running(p)))
    /\ UNCHANGED <<job, mode, run, redis, memo, memMark, stamp, counts, starts>>

LinkBack(p) ==
    /\ mode[p] # "off" /\ ~link[p]
    /\ link' = [link EXCEPT ![p] = TRUE]
    /\ UNCHANGED <<job, mode, run, redis, memo, memMark, stamp, counts, excused, starts>>

\* A token expires, of a process that is dead or of one that is slow: then the lock
\* is free, or BullMQ hands the stalled job, or the next one, to somebody else.
Lapse(v) ==
    /\ token[v] # NoProc
    /\ token' = [token EXCEPT ![v] = NoProc]
    /\ excused' = (excused \/ run[token[v]].via = v)
    /\ UNCHANGED <<job, mode, link, run, once, mark, memo, memMark, stamp, counts, starts>>

-----------------------------------------------------------------------------
(* Starting and ending a run *)

First == IF job = "tick" THEN "claim" ELSE "check"

\* Another run, with which it shares no token.
Apart(via) ==
    \E q \in Procs : Running(q) /\ (via = "alone" \/ run[q].via # via)

Starts(p, via) ==
    /\ starts < MaxStarts /\ starts' = starts + 1
    /\ run' = [run EXCEPT ![p] = [pc |-> First, via |-> via]]
    /\ excused' = (excused \/ Apart(via) \/ (via = "alone" /\ job = "digest"))
    /\ UNCHANGED <<job, mode, link, once, mark, memo, memMark, stamp, counts>>

\* Mutant: the lock is set whether it is there or not.
FreeOrNot(v) == v = "lock" \/ token[v] = NoProc

Free(v) == token[v] = NoProc

\* A worker is given the next job; a loop's interval passes, and it sets the key
\* unless it exists, or goes on without when it has no Redis.
StartJob(p) ==
    /\ ~Running(p)
    /\ \/ \E v \in Shares :
            /\ mode[p] = IF v = "queue" THEN "worker" ELSE "loops"
            /\ link[p] /\ Free(v)
            /\ token' = [token EXCEPT ![v] = p]
            /\ Starts(p, v)
       \/ /\ mode[p] = "loops" /\ ~link[p]
          /\ Starts(p, "alone")
          /\ UNCHANGED token

\* The lock is read, and deleted in a second command if it was one's own.
Release(p) ==
    /\ run[p].pc = "release"
    /\ LET v == run[p].via
           own == v \in Shares /\ link[p] /\ token[v] = p
       IN run' = [run EXCEPT ![p] = IF own THEN [@ EXCEPT !.pc = "delete"] ELSE Idle]
    /\ UNCHANGED <<job, mode, link, redis, memo, memMark, stamp, counts, excused, starts>>

Delete(p) ==
    /\ run[p].pc = "delete"
    /\ LET v == run[p].via IN
        /\ token' = IF link[p] THEN [token EXCEPT ![v] = NoProc] ELSE token
        /\ excused' = (excused \/ (link[p] /\ token[v] \notin {p, NoProc}))
    /\ run' = [run EXCEPT ![p] = Idle]
    /\ UNCHANGED <<job, mode, link, once, mark, memo, memMark, stamp, counts, starts>>

-----------------------------------------------------------------------------
(* The tick *)

\* Mutant: the key is set whether it is there or not.
UnclaimedOrNot == TRUE

\* SET NX.
Unclaimed == ~once

(* claimOnce. A command that fails may have been carried out all the same, and the
   process then claims in its own memory; when ioredis repeats it, the answer is
   that the claim exists. *)
ClaimOnce(p) ==
    /\ run[p].pc = "claim"
    /\ \/ /\ link[p]
          /\ once' = TRUE
          /\ \/ Unclaimed /\ Goes(p, "send")
             \/ Goes(p, "look")
          /\ UNCHANGED <<memo, counts>>
       \/ /\ once' \in {once, once \/ link[p]}
          /\ IF p \in memo
             THEN Goes(p, "look") /\ UNCHANGED <<memo, counts>>
             ELSE /\ memo' = memo \cup {p} /\ fell' = fell + 1
                  /\ Goes(p, "send")
                  /\ UNCHANGED <<sent, told, digests>>
    /\ UNCHANGED <<job, mode, link, token, mark, memMark, stamp, excused, starts>>

Send(p) ==
    /\ run[p].pc = "send"
    /\ sent' = sent + 1
    /\ Goes(p, "look")
    /\ UNCHANGED <<job, mode, link, redis, memo, memMark, stamp, told, digests, fell, excused, starts>>

\* forEachCoop: one transaction per cooperative reads who is due...
ReadDue(p) ==
    /\ run[p].pc = "look"
    /\ Goes(p, IF stamp THEN "release" ELSE "tell")
    /\ UNCHANGED <<job, mode, link, redis, memo, memMark, stamp, counts, excused, starts>>

\* ... writes to him...
Tell(p) ==
    /\ run[p].pc = "tell"
    /\ told' = told + 1
    /\ Goes(p, "stamp")
    /\ UNCHANGED <<job, mode, link, redis, memo, memMark, stamp, sent, digests, fell, excused, starts>>

\* ... and stamps his row, unless it took longer than a transaction may.
Stamp(p) ==
    /\ run[p].pc = "stamp"
    /\ \/ stamp' = TRUE /\ UNCHANGED excused
       \/ excused' = TRUE /\ UNCHANGED stamp
    /\ Goes(p, "release")
    /\ UNCHANGED <<job, mode, link, redis, memo, memMark, counts, starts>>

-----------------------------------------------------------------------------
(* The digest *)

CheckMarker(p) ==
    /\ run[p].pc = "check"
    /\ Goes(p, IF p \in memMark \/ (link[p] /\ mark) THEN "release" ELSE "digest")
    /\ UNCHANGED <<job, mode, link, redis, memo, memMark, stamp, counts, excused, starts>>

\* It goes out within a transaction: when that ends in an error, the job does.
SendDigest(p) ==
    /\ run[p].pc = "digest"
    /\ digests' = digests + 1
    /\ \/ Goes(p, "mark") /\ UNCHANGED excused
       \/ Goes(p, "release") /\ excused' = TRUE
    /\ UNCHANGED <<job, mode, link, redis, memo, memMark, stamp, sent, told, fell, starts>>

SetMarker(p) ==
    /\ run[p].pc = "mark"
    /\ memMark' = memMark \cup {p}
    /\ mark' = (mark \/ link[p])
    /\ Goes(p, "release")
    /\ UNCHANGED <<job, mode, link, token, once, memo, stamp, counts, excused, starts>>

Next ==
    \/ \E p \in Procs :
        \/ Boot(p) \/ Dies(p) \/ LinkCut(p) \/ LinkBack(p)
        \/ ClaimOnce(p) \/ Send(p) \/ ReadDue(p) \/ Tell(p) \/ Stamp(p)
        \/ CheckMarker(p) \/ SendDigest(p) \/ SetMarker(p)
        \/ StartJob(p) \/ Release(p) \/ Delete(p)
    \/ \E v \in Shares : Lapse(v)

Spec == Init /\ [][Next]_vars

-----------------------------------------------------------------------------
(* Properties *)

Steps == {"idle", "claim", "send", "look", "tell", "stamp", "check", "digest", "mark",
          "release", "delete"}

TypeOK ==
    /\ job \in Jobs
    /\ mode \in [Procs -> {"off", "worker", "loops"}]
    /\ link \in [Procs -> BOOLEAN]
    /\ run \in [Procs -> [pc : Steps, via : Shares \cup {"alone", "none"}]]
    /\ token \in [Shares -> Procs \cup {NoProc}]
    /\ {once, mark, stamp, excused} \subseteq BOOLEAN
    /\ memo \subseteq Procs /\ memMark \subseteq Procs
    /\ {sent, told, digests, fell, starts} \subseteq 0..MaxStarts

(* A notice claimed for a period goes out once in the deployment, and once more for
   each process that had to claim it in its own memory. A statement and a digest go
   out once as long as no run died, was rolled back or outlived its token and all
   runs of the job shared one; and none is recorded as sent that never was. *)
NoticesGoOutOnce ==
    /\ sent <= fell + (IF once THEN 1 ELSE 0)
    /\ excused \/ (told <= 1 /\ digests <= 1)
    /\ stamp => told > 0
    /\ mark \/ memMark # {} => digests > 0

(* index.ts: "with multiple instances, exactly one runs the tick"; lib/queue.ts:
   "exactly one worker processes each job". *)
ExactlyOneRuns ==
    \A p, q \in Procs : Running(p) /\ Running(q) => p = q
=============================================================================
