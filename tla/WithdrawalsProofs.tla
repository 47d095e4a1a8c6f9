------------------------- MODULE WithdrawalsProofs -------------------------
(***************************************************************************)
(* Theorems about Withdrawals, for every value of its constants: the types *)
(* and references, the dual control, and, in the deployed program (one     *)
(* transaction per handler), what each request takes from the wallet and   *)
(* the books, who moves a held request, that decisions are final, and the  *)
(* refinement of WithdrawalContract.                                       *)
(*                                                                         *)
(* The first part says what every step does, field by field: the lemmas on *)
(* updates, where Is<X>(n, old, ...) names one EXCEPT of the model and the *)
(* lemma which fields n has then; HandlerEffect and OutsideEffect give     *)
(* each action as a formula without an EXCEPT.                             *)
(***************************************************************************)
EXTENDS Withdrawals, TLAPS

WdType == [Requests -> WdRow]
MemType == [Members -> MemRow]
FinType == [Supers -> FinRow]
ProvType == [Requests -> {"none", "accepted", "sent", "failed"}]
SesType == [Sessions -> SesRow]
PollType == [r : Requests \cup {NoRequest}, saw : {"none", "sent", "failed"}]
Results == {"none", "ok", "failed", "unsure"}

\* TypeOK in terms of the named types.
LEMMA Types ==
    TypeOK <=> /\ wd \in WdType /\ mem \in MemType /\ payouts \subseteq Requests
               /\ prov \in ProvType /\ fin \in FinType /\ ses \in SesType /\ poll \in PollType
BY DEF TypeOK, WdType, MemType, ProvType, FinType, SesType, PollType

\* n is w but for the row of r, which keeps its owner and amount.
RowIs(n, w, r, st, a, b, c, k) ==
    /\ n \in WdType /\ \A q \in Requests \ {r} : n[q] = w[q]
    /\ n[r].owner = w[r].owner /\ n[r].amount = w[r].amount
    /\ n[r].status = st /\ n[r].adminBy = a /\ n[r].finalBy = b
    /\ n[r].taken = c /\ n[r].booked = k

\* The status alone is written.
IsStatus(n, w, r, st) == n = [w EXCEPT ![r].status = st]
LEMMA SetStatus ==
    ASSUME NEW w \in WdType, NEW r \in Requests, NEW st \in Statuses, NEW n, IsStatus(n, w, r, st)
    PROVE  RowIs(n, w, r, st, w[r].adminBy, w[r].finalBy, w[r].taken, w[r].booked)
BY DEF IsStatus, WdRow, WdType, RowIs

\* An admin's approval: the status and the approver.
IsApproved(n, w, r, st, a) == n = [w EXCEPT ![r].status = st, ![r].adminBy = a]
LEMMA SetApproved ==
    ASSUME NEW w \in WdType, NEW r \in Requests, NEW st \in Statuses, NEW a \in Actors,
           NEW n, IsApproved(n, w, r, st, a)
    PROVE  RowIs(n, w, r, st, a, w[r].finalBy, w[r].taken, w[r].booked)
BY DEF IsApproved, WdRow, WdType, RowIs

\* The status, the finalizer and the wallet's share are written.
IsCount(n, w, r, st, b, c) ==
    n = [w EXCEPT ![r].status = st, ![r].finalBy = b, ![r].taken = c]
LEMMA SetCount ==
    ASSUME NEW w \in WdType, NEW r \in Requests, NEW st \in Statuses, NEW b \in Actors,
           NEW c \in Int, NEW n, IsCount(n, w, r, st, b, c)
    PROVE  RowIs(n, w, r, st, w[r].adminBy, b, c, w[r].booked)
BY DEF IsCount, WdRow, WdType, RowIs

\* The same with the ledger entry.
IsSettled(n, w, r, st, b, c, k) ==
    n = [w EXCEPT ![r].status = st, ![r].finalBy = b, ![r].taken = c, ![r].booked = k]
LEMMA SetSettled ==
    ASSUME NEW w \in WdType, NEW r \in Requests, NEW st \in Statuses, NEW b \in Actors,
           NEW c \in Int, NEW k \in Nat, NEW n, IsSettled(n, w, r, st, b, c, k)
    PROVE  RowIs(n, w, r, st, w[r].adminBy, b, c, k)
<1> DEFINE row == [w[r] EXCEPT !.status = st, !.finalBy = b, !.taken = c, !.booked = k]
<1>1. w[r] \in WdRow
    BY DEF WdType
<1>2. /\ row \in WdRow /\ row.owner = w[r].owner /\ row.amount = w[r].amount
      /\ row.adminBy = w[r].adminBy /\ row.status = st
      /\ row.finalBy = b /\ row.taken = c /\ row.booked = k
    BY <1>1 DEF WdRow
<1>3. n = [w EXCEPT ![r] = row]
    BY DEF IsSettled, WdType
<1> HIDE DEF row
<1>4. n \in WdType /\ n[r] = row /\ \A q \in Requests \ {r} : n[q] = w[q]
    BY <1>2, <1>3 DEF WdType
<1>5. QED BY <1>2, <1>4 DEF RowIs

\* The poller's settlement: the status and the ledger entry.
IsBooked(n, w, r, st, k) == n = [w EXCEPT ![r].status = st, ![r].booked = k]
LEMMA SetBooked ==
    ASSUME NEW w \in WdType, NEW r \in Requests, NEW st \in Statuses, NEW k \in Nat,
           NEW n, IsBooked(n, w, r, st, k)
    PROVE  RowIs(n, w, r, st, w[r].adminBy, w[r].finalBy, w[r].taken, k)
BY DEF IsBooked, WdRow, WdType, RowIs

\* A new request: every field of the row is set.
IsNew(n, w, r, row) == n = [w EXCEPT ![r] = row]
LEMMA SetNew ==
    ASSUME NEW w \in WdType, NEW r \in Requests, NEW row \in WdRow, NEW n, IsNew(n, w, r, row)
    PROVE  n \in WdType /\ n[r] = row /\ \A q \in Requests \ {r} : n[q] = w[q]
BY DEF IsNew, WdType

\* The fields of a new request.
IsRequest(row, base, st, m, a) == row = [base EXCEPT !.status = st, !.owner = m, !.amount = a]
LEMMA NewRequest ==
    ASSUME NEW base \in WdRow, NEW st \in Statuses, NEW m \in Members, NEW a \in Nat,
           NEW row, IsRequest(row, base, st, m, a)
    PROVE  /\ row \in WdRow /\ row.status = st /\ row.owner = m /\ row.amount = a
           /\ row.adminBy = base.adminBy /\ row.finalBy = base.finalBy
           /\ row.taken = base.taken /\ row.booked = base.booked
BY DEF IsRequest, WdRow

\* The types of a request's fields.
LEMMA RowFields ==
    ASSUME NEW w \in WdType, NEW r \in Requests
    PROVE  /\ w[r].status \in Statuses /\ w[r].amount \in Nat /\ w[r].taken \in Int
           /\ w[r].booked \in Nat /\ w[r].adminBy \in Actors /\ w[r].finalBy \in Actors
           /\ w[r].owner \in Members \cup {Nobody}
BY DEF WdRow, WdType

\* n is f but for the row of m.
MemIs(n, f, m, b, h, v, x) ==
    /\ n \in MemType /\ \A p \in Members \ {m} : n[p] = f[p]
    /\ n[m].bal = b /\ n[m].hot = h /\ n[m].waived = v /\ n[m].blocked = x

\* The balance alone is written.
IsBalance(n, f, m, b) == n = [f EXCEPT ![m].bal = b]
LEMMA SetBalance ==
    ASSUME NEW f \in MemType, NEW m \in Members, NEW b \in Int, NEW n, IsBalance(n, f, m, b)
    PROVE  MemIs(n, f, m, b, f[m].hot, f[m].waived, f[m].blocked)
BY DEF IsBalance, MemRow, MemType, MemIs

\* A new six-month window starts and the override is used up.
IsWindow(n, f, m) == n = [f EXCEPT ![m].hot = TRUE, ![m].waived = FALSE]
LEMMA SetWindow ==
    ASSUME NEW f \in MemType, NEW m \in Members, NEW n, IsWindow(n, f, m)
    PROVE  MemIs(n, f, m, f[m].bal, TRUE, FALSE, f[m].blocked)
BY DEF IsWindow, MemRow, MemType, MemIs

\* Both at once: the poller's payout.
IsPaidOut(n, f, m, b) ==
    n = [f EXCEPT ![m].bal = b, ![m].hot = TRUE, ![m].waived = FALSE]
LEMMA SetPaidOut ==
    ASSUME NEW f \in MemType, NEW m \in Members, NEW b \in Int, NEW n, IsPaidOut(n, f, m, b)
    PROVE  MemIs(n, f, m, b, TRUE, FALSE, f[m].blocked)
BY DEF IsPaidOut, MemRow, MemType, MemIs

\* The types of a member's fields.
LEMMA MemFields ==
    ASSUME NEW f \in MemType, NEW m \in Members
    PROVE  /\ f[m] \in MemRow /\ f[m].bal \in Int /\ f[m].hot \in BOOLEAN
           /\ f[m].waived \in BOOLEAN /\ f[m].blocked \in BOOLEAN
BY DEF MemRow, MemType

\* n is f but for the handler of s.
FinIs(n, f, s, pc, r, ov, cov, res, st, d) ==
    /\ n \in FinType /\ \A t \in Supers \ {s} : n[t] = f[t]
    /\ n[s].pc = pc /\ n[s].r = r /\ n[s].ov = ov /\ n[s].covered = cov
    /\ n[s].res = res /\ n[s].st = st /\ n[s].debit = d

\* The record of handler s is replaced.
IsFinPut(n, f, s, row) == n = [f EXCEPT ![s] = row]
LEMMA FinPut ==
    ASSUME NEW f \in FinType, NEW s \in Supers, NEW row \in FinRow, NEW n, IsFinPut(n, f, s, row)
    PROVE  FinIs(n, f, s, row.pc, row.r, row.ov, row.covered, row.res, row.st, row.debit)
BY DEF IsFinPut, FinType, FinIs

\* Handler s moves on.
IsGoto(n, f, s, pc) == n = [f EXCEPT ![s].pc = pc]
LEMMA FinGoto ==
    ASSUME NEW f \in FinType, NEW s \in Supers, NEW pc \in FinPcs, NEW n, IsGoto(n, f, s, pc)
    PROVE  FinIs(n, f, s, pc, f[s].r, f[s].ov, f[s].covered, f[s].res, f[s].st, f[s].debit)
BY DEF IsGoto, FinRow, FinType, FinIs

\* Handler s moves on with its transfer covered or not.
IsCovered(n, f, s, pc, c) == n = [f EXCEPT ![s].pc = pc, ![s].covered = c]
LEMMA FinCovered ==
    ASSUME NEW f \in FinType, NEW s \in Supers, NEW pc \in FinPcs, NEW c \in BOOLEAN,
           NEW n, IsCovered(n, f, s, pc, c)
    PROVE  FinIs(n, f, s, pc, f[s].r, f[s].ov, c, f[s].res, f[s].st, f[s].debit)
BY DEF IsCovered, FinRow, FinType, FinIs

\* Handler s has the provider's answer.
IsResult(n, f, s, pc, res) == n = [f EXCEPT ![s].pc = pc, ![s].res = res]
LEMMA FinResult ==
    ASSUME NEW f \in FinType, NEW s \in Supers, NEW pc \in FinPcs, NEW res \in Results,
           NEW n, IsResult(n, f, s, pc, res)
    PROVE  FinIs(n, f, s, pc, f[s].r, f[s].ov, f[s].covered, res, f[s].st, f[s].debit)
BY DEF IsResult, FinRow, FinType, FinIs, Results

\* The types of a handler's fields.
LEMMA FinFields ==
    ASSUME NEW f \in FinType, NEW s \in Supers
    PROVE  /\ f[s] \in FinRow /\ f[s].pc \in FinPcs /\ f[s].r \in Requests \cup {NoRequest}
           /\ f[s].ov \in BOOLEAN /\ f[s].covered \in BOOLEAN /\ f[s].res \in Results
           /\ f[s].st \in Statuses /\ f[s].debit \in Int
BY DEF FinRow, FinType, Results

\* One handler's record; what a Statement goes on with.
FinRowIs(n, pc, r, ov, cov, res, st, d) ==
    /\ n \in FinRow
    /\ n.pc = pc /\ n.r = r /\ n.ov = ov /\ n.covered = cov
    /\ n.res = res /\ n.st = st /\ n.debit = d

\* A handler's record that moves on.
IsStep(n, f, pc) == n = [f EXCEPT !.pc = pc]
LEMMA FinStep ==
    ASSUME NEW f \in FinRow, NEW pc \in FinPcs, NEW n, IsStep(n, f, pc)
    PROVE  FinRowIs(n, pc, f.r, f.ov, f.covered, f.res, f.st, f.debit)
BY DEF IsStep, FinRow, FinRowIs

\* A handler's record that moves on, not covered.
IsStepCovered(n, f, pc) == n = [f EXCEPT !.pc = pc, !.covered = FALSE]
LEMMA FinStepCovered ==
    ASSUME NEW f \in FinRow, NEW pc \in FinPcs, NEW n, IsStepCovered(n, f, pc)
    PROVE  FinRowIs(n, pc, f.r, f.ov, FALSE, f.res, f.st, f.debit)
BY DEF IsStepCovered, FinRow, FinRowIs

\* A handler's record that is sent to a request.
IsAt(n, f, pc, r) == n = [f EXCEPT !.pc = pc, !.r = r]
LEMMA FinAt ==
    ASSUME NEW f \in FinRow, NEW pc \in FinPcs, NEW r \in Requests, NEW n, IsAt(n, f, pc, r)
    PROVE  FinRowIs(n, pc, r, f.ov, f.covered, f.res, f.st, f.debit)
BY DEF IsAt, FinRow, FinRowIs

\* A handler's record that remembers an uncommitted write.
IsBuffered(n, f, st, c) == n = [f EXCEPT !.st = st, !.debit = c]
LEMMA FinBuffer ==
    ASSUME NEW f \in FinRow, NEW st \in Statuses, NEW c \in Int, NEW n, IsBuffered(n, f, st, c)
    PROVE  FinRowIs(n, f.pc, f.r, f.ov, f.covered, f.res, st, c)
BY DEF IsBuffered, FinRow, FinRowIs

\* A handler's record at its first check.
IsBegun(n, f, pc, r, ov) == n = [f EXCEPT !.pc = pc, !.r = r, !.ov = ov]
LEMMA FinBegin ==
    ASSUME NEW f \in FinRow, NEW pc \in FinPcs, NEW r \in Requests, NEW ov \in BOOLEAN,
           NEW n, IsBegun(n, f, pc, r, ov)
    PROVE  FinRowIs(n, pc, r, ov, f.covered, f.res, f.st, f.debit)
BY DEF IsBegun, FinRow, FinRowIs

\* The first values, and the members of the enumerations the actions use.
LEMMA FirstRows ==
    /\ NoRow \in WdRow /\ NoRow.status = "none" /\ NoRow.owner = Nobody /\ NoRow.amount = 0
    /\ NoRow.adminBy = Nobody /\ NoRow.finalBy = Nobody /\ NoRow.taken = 0 /\ NoRow.booked = 0
    /\ FinRowIs(IdleFin, "idle", NoRequest, FALSE, FALSE, "none", "none", 0)
BY ConstantsAssumption DEF NoRow, IdleFin, WdRow, FinRow, FinRowIs, Statuses, Actors, FinPcs

\* The members of the enumerated types.
LEMMA Enums ==
    /\ {"none", "pending", "admin_approved", "processing", "aml_review", "investigating",
        "paid", "rejected"} = Statuses
    /\ {"idle", "claim", "gate", "debit", "send", "call", "record", "settle", "orphan"} = FinPcs
    /\ {"none", "ok", "failed", "unsure"} = Results
BY DEF Statuses, FinPcs, Results

-----------------------------------------------------------------------------
(* The type invariant, strengthened: what rows and handlers point at exists. *)

OwnersExist == \A r \in Requests : wd[r].status # "none" => wd[r].owner \in Members
HandlersRefer ==
    \A s \in Supers : fin[s].pc # "idle" => fin[s].r \in Requests /\ wd[fin[s].r].status # "none"
SessionsRefer == \A x \in Sessions : ses[x].pc = "lock" => ses[x].m \in Members
PollRefers == poll.saw # "none" => poll.r \in Requests /\ wd[poll.r].status # "none"
Refs == OwnersExist /\ HandlersRefer /\ SessionsRefer /\ PollRefers

TypeInv == TypeOK /\ Refs

\* What a commit makes of the rows, whoever commits.
Stored(r, b, st, d) ==
    LET m == wd[r].owner IN
    /\ RowIs(wd', wd, r, st, wd[r].adminBy, b, wd[r].taken + d, wd[r].booked)
    /\ MemIs(mem', mem, m, mem[m].bal - d, mem[m].hot, mem[m].waived, mem[m].blocked)
    /\ IsBalance(mem', mem, m, mem[m].bal - d)

\* What Store leaves in the rows.
LEMMA StoreEffect ==
    ASSUME TypeOK, NEW r \in Requests, wd[r].owner \in Members, NEW st \in Statuses,
           NEW b \in Actors, NEW d \in Int, Store(r, b, st, d)
    PROVE  Stored(r, b, st, d)
<1> DEFINE m == wd[r].owner
           c == wd[r].taken + d
           e == mem[m].bal - d
<1>1. wd \in WdType /\ mem \in MemType
    BY Types
<1>2. c \in Int /\ e \in Int
    BY <1>1, RowFields, MemFields
<1>3. IsCount(wd', wd, r, st, b, c) /\ IsBalance(mem', mem, m, e)
    BY DEF Store, IsCount, IsBalance
<1> HIDE DEF c, e
<1>4. RowIs(wd', wd, r, st, wd[r].adminBy, b, c, wd[r].booked)
    BY <1>1, <1>2, <1>3, SetCount
<1>5. MemIs(mem', mem, m, e, mem[m].hot, mem[m].waived, mem[m].blocked)
    BY <1>1, <1>2, <1>3, SetBalance
<1>6. QED BY <1>3, <1>4, <1>5 DEF Stored, c, e

\* What a running handler works on.
LEMMA HandlerFacts ==
    ASSUME TypeInv, NEW s \in Supers, fin[s].pc # "idle"
    PROVE  /\ s \in Actors /\ Claimer(s) \in Actors
           /\ fin[s].r \in Requests /\ wd[fin[s].r].status # "none"
           /\ Owner(s) \in Members /\ Amount(s) \in Nat /\ fin[s].debit \in Int
           /\ Own(s) \in Statuses \ {"none"}
<1>1. wd \in WdType /\ fin \in FinType
    BY Types DEF TypeInv
<1>2. fin[s].r \in Requests /\ wd[fin[s].r].status # "none" /\ Owner(s) \in Members
    BY DEF TypeInv, Refs, HandlersRefer, OwnersExist, Owner
<1>3. /\ wd[fin[s].r].status \in Statuses /\ wd[fin[s].r].finalBy \in Actors
      /\ Amount(s) \in Nat
    BY <1>1, <1>2, RowFields DEF Amount
<1>4. fin[s].st \in Statuses /\ fin[s].debit \in Int
    BY <1>1, FinFields
<1>5. QED BY <1>2, <1>3, <1>4 DEF Own, Claimer, Actors

\* The handler of s is idle again.
Idle(s) == FinIs(fin', fin, s, "idle", NoRequest, FALSE, FALSE, "none", "none", 0)

\* A handler that is made idle.
LEMMA IdleEffect ==
    ASSUME TypeOK, NEW s \in Supers, fin' = [fin EXCEPT ![s] = IdleFin]
    PROVE  Idle(s)
<1>1. fin \in FinType /\ IsFinPut(fin', fin, s, IdleFin)
    BY Types DEF IsFinPut
<1>2. FinIs(fin', fin, s, IdleFin.pc, IdleFin.r, IdleFin.ov, IdleFin.covered, IdleFin.res,
            IdleFin.st, IdleFin.debit)
    BY <1>1, FinPut, FirstRows DEF FinRowIs
<1>3. QED BY <1>2, FirstRows DEF Idle, FinRowIs

\* What the end of a handler leaves in the rows.
LEMMA FinishEffect ==
    ASSUME TypeInv, NEW s \in Supers, fin[s].pc # "idle", NEW b \in Actors, NEW st \in Statuses,
           NEW d \in Int, Finish(s, b, st, d)
    PROVE  Idle(s) /\ Stored(fin[s].r, b, st, fin[s].debit + d)
<1> DEFINE c == fin[s].debit + d
<1>1. /\ fin[s].r \in Requests /\ wd[fin[s].r].owner \in Members /\ c \in Int
    BY HandlerFacts DEF Owner
<1>2. Store(fin[s].r, b, st, c) /\ fin' = [fin EXCEPT ![s] = IdleFin]
    BY DEF Finish
<1> HIDE DEF c
<1>3. Stored(fin[s].r, b, st, c)
    BY <1>1, <1>2, StoreEffect DEF TypeInv
<1>4. Idle(s)
    BY <1>2, IdleEffect DEF TypeInv
<1>5. QED BY <1>3, <1>4 DEF c

\* What a statement in the middle of a handler's work does: f is its record
\* without the buffer.
Stated(s, f, b, st, d) ==
    \/ /\ Ambient
       /\ FinIs(fin', fin, s, f.pc, f.r, f.ov, f.covered, f.res, st, f.debit + d)
       /\ wd' = wd /\ mem' = mem
    \/ /\ ~Ambient
       /\ FinIs(fin', fin, s, f.pc, f.r, f.ov, f.covered, f.res, f.st, f.debit)
       /\ Stored(f.r, b, st, d)

\* What a statement leaves in the rows and in the handler.
LEMMA StatementEffect ==
    ASSUME TypeInv, NEW s \in Supers, fin[s].pc # "idle", NEW b \in Actors, NEW st \in Statuses,
           NEW d \in Int, NEW f \in FinRow, f.r = fin[s].r, Statement(s, f, b, st, d)
    PROVE  Stated(s, f, b, st, d)
<1>1. fin \in FinType /\ TypeOK
    BY Types DEF TypeInv
<1>2. f.r \in Requests /\ wd[f.r].owner \in Members /\ f.debit \in Int
    BY HandlerFacts DEF Owner, FinRow
<1>3. CASE Ambient
    <2> DEFINE c == f.debit + d
               g == [f EXCEPT !.st = st, !.debit = c]
    <2>1. c \in Int
        BY <1>2
    <2>2. fin' = [fin EXCEPT ![s] = g] /\ wd' = wd /\ mem' = mem
        BY <1>3 DEF Statement
    <2>3. IsBuffered(g, f, st, c)
        BY DEF IsBuffered
    <2> HIDE DEF c, g
    <2>4. FinRowIs(g, f.pc, f.r, f.ov, f.covered, f.res, st, c)
        BY <2>1, <2>3, FinBuffer
    <2>5. FinIs(fin', fin, s, g.pc, g.r, g.ov, g.covered, g.res, g.st, g.debit)
        BY <1>1, <2>2, <2>4, FinPut DEF IsFinPut, FinRowIs
    <2>6. QED BY <1>3, <2>2, <2>4, <2>5 DEF Stated, FinRowIs, c
<1>4. CASE ~Ambient
    <2>1. fin' = [fin EXCEPT ![s] = f] /\ Store(f.r, b, st, d)
        BY <1>4 DEF Statement
    <2>2. FinIs(fin', fin, s, f.pc, f.r, f.ov, f.covered, f.res, f.st, f.debit)
        BY <1>1, <2>1, FinPut DEF IsFinPut
    <2>3. Stored(f.r, b, st, d)
        BY <1>1, <1>2, <2>1, StoreEffect
    <2>4. QED BY <1>4, <2>2, <2>3 DEF Stated
<1>5. QED BY <1>3, <1>4

\* The paid settlement: n ledger entries are posted.
Paid(s) ==
    LET r == fin[s].r
        m == Owner(s)
    IN
    /\ Idle(s)
    /\ \E n \in {0, 1} :
         /\ Ambient => n = 1
         /\ RowIs(wd', wd, r, IfProcessing(s, "paid"), wd[r].adminBy,
                  IF Own(s) = "processing" THEN s ELSE wd[r].finalBy,
                  wd[r].taken + fin[s].debit, wd[r].booked + n)
    /\ MemIs(mem', mem, m, mem[m].bal - fin[s].debit, TRUE, FALSE, mem[m].blocked)
    /\ IsPaidOut(mem', mem, m, mem[m].bal - fin[s].debit)

\* What a confirmed payout leaves in the rows.
LEMMA PaidEffect ==
    ASSUME TypeInv, NEW s \in Supers, fin[s].pc # "idle", SettlePaid(s)
    PROVE  Paid(s)
<1> DEFINE r == fin[s].r
           m == Owner(s)
           st == IfProcessing(s, "paid")
           b == IF Own(s) = "processing" THEN s ELSE wd[r].finalBy
           c == wd[r].taken + fin[s].debit
           e == mem[m].bal - fin[s].debit
<1>1. wd \in WdType /\ mem \in MemType /\ TypeOK
    BY Types DEF TypeInv
<1>2. r \in Requests /\ m \in Members /\ fin[s].debit \in Int /\ s \in Actors
    BY HandlerFacts
<1>3. c \in Int /\ e \in Int /\ b \in Actors /\ wd[r].booked \in Nat
    BY <1>1, <1>2, RowFields, MemFields
<1>4. st \in Statuses
    BY HandlerFacts, Enums DEF IfProcessing
<1>5. PICK n \in (IF Ambient THEN {1} ELSE {0, 1}) :
         wd' = [wd EXCEPT ![r].status = st, ![r].finalBy = IF Own(s) = "processing" THEN s ELSE @,
                          ![r].taken = @ + fin[s].debit, ![r].booked = @ + n]
    BY DEF SettlePaid
<1> DEFINE k == wd[r].booked + n
<1>6. n \in {0, 1} /\ (Ambient => n = 1) /\ k \in Nat
    BY <1>3
<1>7. IsSettled(wd', wd, r, st, b, c, k)
    BY <1>5 DEF IsSettled
<1>8. IsPaidOut(mem', mem, m, e) /\ fin' = [fin EXCEPT ![s] = IdleFin]
    BY DEF SettlePaid, IsPaidOut
<1> HIDE DEF b, c, e, k, st
<1>9. RowIs(wd', wd, r, st, wd[r].adminBy, b, c, k)
    BY <1>1, <1>2, <1>3, <1>4, <1>6, <1>7, SetSettled
<1>10. MemIs(mem', mem, m, e, TRUE, FALSE, mem[m].blocked)
    BY <1>1, <1>2, <1>3, <1>8, SetPaidOut
<1>11. Idle(s)
    BY <1>1, <1>8, IdleEffect
<1>12. QED BY <1>6, <1>8, <1>9, <1>10, <1>11 DEF Paid, b, c, e, k, st

-----------------------------------------------------------------------------
(* What a step of handler s does to the rows and to its own record.        *)

\* It goes on to its next point.
Moves(s) ==
    /\ wd' = wd /\ mem' = mem
    /\ \E pc \in FinPcs, cov \in BOOLEAN, res \in Results :
         /\ \/ pc = "debit" /\ fin[s].pc = "gate"
            \/ pc \in {"call", "record", "settle"} /\ fin[s].pc \in {"send", "call", "record"}
         /\ FinIs(fin', fin, s, pc, fin[s].r, fin[s].ov, cov, res, fin[s].st, fin[s].debit)

\* It ends, and nothing is committed.
Quits(s) == wd' = wd /\ mem' = mem /\ Idle(s)

\* It loses its transaction but not its next call.
Orphans(s) ==
    /\ wd' = wd /\ mem' = mem
    /\ FinIs(fin', fin, s, "orphan", fin[s].r, FALSE, FALSE, "none", "none", 0)

\* It claims its row.
Claims(s) ==
    /\ fin[s].pc = "claim" /\ ~RowLocked(fin[s].r)
    /\ wd[fin[s].r].status \in Claimable(fin[s].ov)
    /\ \E f \in FinRow :
         /\ f.pc = "gate" /\ f.r = fin[s].r /\ f.ov = fin[s].ov /\ f.st = fin[s].st /\ f.debit = fin[s].debit
         /\ Stated(s, f, s, "processing", 0)

\* It debits the wallet.
Debits(s) ==
    /\ fin[s].pc = "debit" /\ ~WalletLocked(Owner(s)) /\ mem[Owner(s)].bal >= Amount(s)
    /\ \E f \in FinRow :
         /\ f.pc = "send" /\ f.r = fin[s].r /\ f.ov = fin[s].ov /\ f.st = fin[s].st /\ f.debit = fin[s].debit
         /\ Stated(s, f, Claimer(s), Own(s), Amount(s))

\* It ends with status st and d more taken than it debited before.
SettlesAs(s, st, d) ==
    \/ fin[s].pc = "gate" /\ st = IfProcessing(s, "aml_review") /\ d = 0
    \/ fin[s].pc = "debit" /\ st = IfProcessing(s, "rejected") /\ d = 0
    \/ fin[s].pc = "settle" /\ st = "investigating" /\ d = 0
    \/ fin[s].pc = "settle" /\ st = "admin_approved" /\ d = -Amount(s)
    \/ ~Ambient /\ fin[s].pc \in {"debit", "send", "settle"} /\ st = "investigating" /\ d = 0
Settles(s) ==
    /\ Idle(s)
    /\ \E st \in Statuses \ {"none"}, d \in Int :
         SettlesAs(s, st, d) /\ Stored(fin[s].r, Claimer(s), st, fin[s].debit + d)

Pays(s) == fin[s].pc = "settle" /\ Paid(s)

Effect(s) ==
    /\ Moves(s) \/ Quits(s) \/ Orphans(s) \/ Claims(s) \/ Debits(s) \/ Settles(s) \/ Pays(s)
    /\ fin[s].pc # "idle" /\ payouts' \subseteq Requests /\ prov' \in ProvType
    /\ ses' = ses /\ poll' = poll

\* A handler step that ends in Finish settles.
LEMMA FinishSettles ==
    ASSUME TypeInv, NEW s \in Supers, fin[s].pc # "idle", NEW st \in Statuses \ {"none"},
           NEW d \in Int, SettlesAs(s, st, d), Finish(s, Claimer(s), st, d)
    PROVE  Settles(s)
<1>1. Idle(s) /\ Stored(fin[s].r, Claimer(s), st, fin[s].debit + d)
    BY HandlerFacts, FinishEffect
<1>2. QED BY <1>1 DEF Settles

\* Every step of a finalize handler is one of the effects.
LEMMA HandlerEffect ==
    ASSUME TypeInv, NEW s \in Supers, Handler(s)
    PROVE  Effect(s)
<1>1. /\ wd \in WdType /\ mem \in MemType /\ payouts \subseteq Requests
      /\ prov \in ProvType /\ fin \in FinType /\ TypeOK
    BY Types DEF TypeInv
<1>2. fin[s].pc # "idle"
    BY DEF Handler, Claim, AmlPass, AmlHold, Debit, HoldPayout, ReadyToPay, CallProvider,
           RecordPayout, SettleUnsure, SettleFailed, SettlePaid, Crash, Expire, OrphanCall,
           StatementThrows
<1>3. /\ s \in Actors /\ Claimer(s) \in Actors
      /\ fin[s].r \in Requests /\ wd[fin[s].r].status # "none"
      /\ Owner(s) \in Members /\ Amount(s) \in Nat /\ fin[s].debit \in Int
      /\ Own(s) \in Statuses \ {"none"} /\ fin[s] \in FinRow
    BY <1>1, <1>2, HandlerFacts, FinFields
<1>4. {"processing", "rejected", "aml_review", "paid", "investigating", "admin_approved"}
         \subseteq Statuses \ {"none"}
    BY Enums
<1>5. \A st \in Statuses \ {"none"} : IfProcessing(s, st) \in Statuses \ {"none"}
    BY <1>3 DEF IfProcessing
<1>6. fin[s].ov \in BOOLEAN /\ fin[s].covered \in BOOLEAN /\ fin[s].res \in Results
    BY <1>1, FinFields
<1>7. CASE Claim(s)
    <2> DEFINE f == [fin[s] EXCEPT !.pc = "gate"]
    <2>1. CASE wd[fin[s].r].status \in Claimable(fin[s].ov)
        <3>1. Statement(s, f, s, "processing", 0)
            BY <1>7, <2>1 DEF Claim
        <3>2. IsStep(f, fin[s], "gate") /\ "gate" \in FinPcs
            BY Enums DEF IsStep
        <3> HIDE DEF f
        <3>3. f \in FinRow /\ f.pc = "gate" /\ f.r = fin[s].r /\ f.ov = fin[s].ov /\ f.st = fin[s].st /\ f.debit = fin[s].debit
            BY <1>3, <3>2, FinStep DEF FinRowIs
        <3>4. "processing" \in Statuses /\ 0 \in Int
            BY <1>4
        <3>5. Stated(s, f, s, "processing", 0)
            BY <1>2, <1>3, <3>1, <3>3, <3>4, StatementEffect
        <3>6. Claims(s)
            BY <1>7, <2>1, <3>3, <3>5 DEF Claim, Claims
        <3>7. QED BY <1>1, <1>2, <1>7, <3>6 DEF Claim, Effect
    <2>2. CASE wd[fin[s].r].status \notin Claimable(fin[s].ov)
        BY <1>1, <1>2, <1>7, <2>2, IdleEffect DEF Claim, Effect, Quits
    <2>3. QED BY <2>1, <2>2
<1>8. CASE AmlPass(s)
    <2> DEFINE c == mem[Owner(s)].bal >= Amount(s)
    <2>1. c \in BOOLEAN /\ IsCovered(fin', fin, s, "debit", c) /\ "debit" \in FinPcs
        BY <1>8, Enums DEF AmlPass, IsCovered
    <2> HIDE DEF c
    <2>2. FinIs(fin', fin, s, "debit", fin[s].r, fin[s].ov, c, fin[s].res, fin[s].st, fin[s].debit)
        BY <1>1, <2>1, FinCovered
    <2>3. Moves(s)
        BY <1>6, <1>8, <2>1, <2>2 DEF AmlPass, Moves
    <2>4. QED BY <1>1, <1>2, <1>8, <2>3 DEF AmlPass, Effect
<1>9. CASE AmlHold(s)
    <2>1. Finish(s, Claimer(s), IfProcessing(s, "aml_review"), 0)
        BY <1>9 DEF AmlHold
    <2>2. IfProcessing(s, "aml_review") \in Statuses \ {"none"} /\ 0 \in Int
        BY <1>4, <1>5
    <2>3. SettlesAs(s, IfProcessing(s, "aml_review"), 0)
        BY <1>9 DEF AmlHold, SettlesAs
    <2>4. Settles(s)
        BY <1>2, <2>1, <2>2, <2>3, FinishSettles
    <2>5. QED BY <1>1, <1>2, <1>9, <2>4 DEF AmlHold, Effect
<1>10. CASE Debit(s)
    <2> DEFINE f == [fin[s] EXCEPT !.pc = "send", !.covered = FALSE]
    <2>1. CASE /\ fin[s].covered /\ mem[Owner(s)].bal >= Amount(s) /\ ~WalletLocked(Owner(s))
               /\ Statement(s, f, Claimer(s), Own(s), Amount(s))
        <3>1. IsStepCovered(f, fin[s], "send") /\ "send" \in FinPcs
            BY Enums DEF IsStepCovered
        <3> HIDE DEF f
        <3>2. FinRowIs(f, "send", fin[s].r, fin[s].ov, FALSE, fin[s].res, fin[s].st, fin[s].debit)
            BY <1>3, <3>1, FinStepCovered
        <3>3. Stated(s, f, Claimer(s), Own(s), Amount(s))
            BY <1>2, <1>3, <2>1, <3>2, StatementEffect DEF FinRowIs
        <3>4. Debits(s)
            BY <1>10, <2>1, <3>2, <3>3 DEF Debit, Debits, FinRowIs
        <3>5. QED BY <1>1, <1>2, <1>10, <3>4 DEF Debit, Effect
    <2>2. CASE Finish(s, Claimer(s), IfProcessing(s, "rejected"), 0)
        <3>1. IfProcessing(s, "rejected") \in Statuses \ {"none"} /\ 0 \in Int
            BY <1>4, <1>5
        <3>2. SettlesAs(s, IfProcessing(s, "rejected"), 0)
            BY <1>10 DEF Debit, SettlesAs
        <3>3. Settles(s)
            BY <1>2, <2>2, <3>1, <3>2, FinishSettles
        <3>4. QED BY <1>1, <1>2, <1>10, <3>3 DEF Debit, Effect
    <2>3. QED BY <1>10, <2>1, <2>2 DEF Debit
<1>11. CASE HoldPayout(s)
    <2>1. IsResult(fin', fin, s, "settle", "failed") /\ "settle" \in FinPcs /\ "failed" \in Results
        BY <1>11, Enums DEF HoldPayout, IsResult
    <2>2. FinIs(fin', fin, s, "settle", fin[s].r, fin[s].ov, fin[s].covered, "failed", fin[s].st,
                fin[s].debit)
        BY <1>1, <2>1, FinResult
    <2>3. Moves(s)
        BY <1>6, <1>11, <2>1, <2>2 DEF HoldPayout, Moves
    <2>4. QED BY <1>1, <1>2, <1>11, <2>3 DEF HoldPayout, Effect
<1>12. CASE ReadyToPay(s)
    <2>1. IsGoto(fin', fin, s, "call") /\ "call" \in FinPcs
        BY <1>12, Enums DEF ReadyToPay, Goto, IsGoto
    <2>2. FinIs(fin', fin, s, "call", fin[s].r, fin[s].ov, fin[s].covered, fin[s].res, fin[s].st,
                fin[s].debit)
        BY <1>1, <2>1, FinGoto
    <2>3. Moves(s)
        BY <1>6, <1>12, <2>1, <2>2 DEF ReadyToPay, Moves
    <2>4. QED BY <1>1, <1>2, <1>12, <2>3 DEF ReadyToPay, Effect
<1>13. CASE CallProvider(s)
    <2>1. PICK ans \in Answers(fin[s].r) :
            /\ prov' = [prov EXCEPT ![fin[s].r] = ans.p]
            /\ fin' = [fin EXCEPT ![s].pc = IF ans.res = "ok" THEN "record" ELSE "settle",
                                  ![s].res = ans.res]
        BY <1>13 DEF CallProvider
    <2>2. ans.p \in {"none", "accepted", "sent", "failed"} /\ ans.res \in Results
        BY <1>1, <1>3 DEF Answers, ProvType, Results
    <2> DEFINE pc == IF ans.res = "ok" THEN "record" ELSE "settle"
    <2>3. IsResult(fin', fin, s, pc, ans.res) /\ pc \in FinPcs /\ pc \in {"record", "settle"}
        BY <2>1, Enums DEF IsResult
    <2> HIDE DEF pc
    <2>4. FinIs(fin', fin, s, pc, fin[s].r, fin[s].ov, fin[s].covered, ans.res, fin[s].st,
                fin[s].debit)
        BY <1>1, <2>2, <2>3, FinResult
    <2>5. prov' \in ProvType
        BY <1>1, <1>3, <2>1, <2>2 DEF ProvType
    <2>6. UNCHANGED <<wd, mem, payouts, ses, poll>> /\ fin[s].pc = "call"
        BY <1>13 DEF CallProvider
    <2>7. Moves(s)
        BY <1>6, <2>2, <2>3, <2>4, <2>6 DEF Moves
    <2>8. QED BY <1>1, <1>2, <2>5, <2>6, <2>7 DEF Effect
<1>14. CASE RecordPayout(s)
    <2> DEFINE res == IF fin[s].r \in payouts THEN "failed" ELSE "ok"
    <2>1. IsResult(fin', fin, s, "settle", res) /\ "settle" \in FinPcs /\ res \in Results
        BY <1>14, Enums DEF RecordPayout, IsResult
    <2> HIDE DEF res
    <2>2. FinIs(fin', fin, s, "settle", fin[s].r, fin[s].ov, fin[s].covered, res, fin[s].st,
                fin[s].debit)
        BY <1>1, <2>1, FinResult
    <2>3. /\ payouts' \subseteq Requests /\ UNCHANGED <<wd, mem, prov, ses, poll>>
          /\ fin[s].pc = "record"
        BY <1>1, <1>3, <1>14 DEF RecordPayout
    <2>4. Moves(s)
        BY <1>6, <2>1, <2>2, <2>3 DEF Moves
    <2>5. QED BY <1>1, <1>2, <2>3, <2>4 DEF Effect
<1>15. CASE SettleUnsure(s)
    <2>1. Finish(s, Claimer(s), "investigating", 0) /\ SettlesAs(s, "investigating", 0)
        BY <1>15 DEF SettleUnsure, SettlesAs
    <2>2. "investigating" \in Statuses \ {"none"} /\ 0 \in Int
        BY <1>4
    <2>3. Settles(s)
        BY <1>2, <2>1, <2>2, FinishSettles
    <2>4. QED BY <1>1, <1>2, <1>15, <2>3 DEF SettleUnsure, Effect
<1>16. CASE SettleFailed(s)
    <2>1. /\ Finish(s, Claimer(s), "admin_approved", -Amount(s))
          /\ SettlesAs(s, "admin_approved", -Amount(s))
        BY <1>16 DEF SettleFailed, SettlesAs
    <2>2. "admin_approved" \in Statuses \ {"none"} /\ -Amount(s) \in Int
        BY <1>3, <1>4
    <2>3. Settles(s)
        BY <1>2, <2>1, <2>2, FinishSettles
    <2>4. QED BY <1>1, <1>2, <1>16, <2>3 DEF SettleFailed, Effect
<1>17. CASE SettlePaid(s)
    <2>1. Pays(s)
        BY <1>17, <1>2, PaidEffect DEF SettlePaid, Pays
    <2>2. payouts' \subseteq Requests /\ UNCHANGED <<prov, ses, poll>>
        BY <1>1, <1>3, <1>17 DEF SettlePaid
    <2>3. QED BY <1>1, <1>2, <2>1, <2>2 DEF Effect
<1>18. CASE Crash(s)
    BY <1>1, <1>2, <1>18, IdleEffect DEF Crash, Quits, Effect
<1>19. CASE Expire(s)
    <2> DEFINE f == [IdleFin EXCEPT !.pc = "orphan", !.r = fin[s].r]
    <2>1. FinRowIs(f, "orphan", fin[s].r, FALSE, FALSE, "none", "none", 0)
        <3>1. IsAt(f, IdleFin, "orphan", fin[s].r) /\ "orphan" \in FinPcs
            BY Enums DEF IsAt
        <3> HIDE DEF f
        <3>2. QED BY <1>3, <3>1, FirstRows, FinAt DEF FinRowIs
    <2>2. IsFinPut(fin', fin, s, f)
        BY <1>19 DEF Expire, IsFinPut
    <2> HIDE DEF f
    <2>3. FinIs(fin', fin, s, f.pc, f.r, f.ov, f.covered, f.res, f.st, f.debit)
        BY <1>1, <2>1, <2>2, FinPut DEF FinRowIs
    <2>4. Orphans(s)
        BY <1>19, <2>1, <2>3 DEF Expire, Orphans, FinRowIs
    <2>5. QED BY <1>1, <1>2, <1>19, <2>4 DEF Expire, Effect
<1>20. CASE OrphanCall(s)
    <2>1. PICK ans \in Answers(fin[s].r) : prov' = [prov EXCEPT ![fin[s].r] = ans.p]
        BY <1>20 DEF OrphanCall
    <2>2. ans.p \in {"none", "accepted", "sent", "failed"}
        BY <1>1, <1>3 DEF Answers, ProvType
    <2>3. prov' \in ProvType
        BY <1>1, <1>3, <2>1, <2>2 DEF ProvType
    <2>4. Quits(s) /\ UNCHANGED <<payouts, ses, poll>>
        BY <1>1, <1>20, IdleEffect DEF OrphanCall, Quits
    <2>5. QED BY <1>1, <1>2, <2>3, <2>4 DEF Effect
<1>21. CASE StatementThrows(s)
    <2>1. CASE Finish(s, Claimer(s), "investigating", 0) /\ fin[s].pc \in {"debit", "send", "settle"}
        <3>1. SettlesAs(s, "investigating", 0)
            BY <1>21, <2>1 DEF StatementThrows, SettlesAs
        <3>2. "investigating" \in Statuses \ {"none"} /\ 0 \in Int
            BY <1>4
        <3>3. Settles(s)
            BY <1>2, <2>1, <3>1, <3>2, FinishSettles
        <3>4. QED BY <1>1, <1>2, <1>21, <3>3 DEF StatementThrows, Effect
    <2>2. CASE /\ fin' = [fin EXCEPT ![s].pc = "settle", ![s].res = "unsure"]
               /\ UNCHANGED <<wd, mem>> /\ fin[s].pc = "record"
        <3>1. /\ IsResult(fin', fin, s, "settle", "unsure") /\ "settle" \in FinPcs
              /\ "unsure" \in Results
            BY <2>2, Enums DEF IsResult
        <3>2. FinIs(fin', fin, s, "settle", fin[s].r, fin[s].ov, fin[s].covered, "unsure",
                    fin[s].st, fin[s].debit)
            BY <1>1, <3>1, FinResult
        <3>3. Moves(s)
            BY <1>6, <2>2, <3>1, <3>2 DEF Moves
        <3>4. QED BY <1>1, <1>2, <1>21, <3>3 DEF StatementThrows, Effect
    <2>3. QED BY <1>21, <2>1, <2>2 DEF StatementThrows
<1>22. QED BY <1>7, <1>8, <1>9, <1>10, <1>11, <1>12, <1>13, <1>14, <1>15, <1>16, <1>17, <1>18,
              <1>19, <1>20, <1>21 DEF Handler

-----------------------------------------------------------------------------
(* What the other steps do: a handler begins; a member asks, an admin or a  *)
(* super admin decides; the poller settles; other flows touch a member row. *)

Begins(s) ==
    /\ wd' = wd /\ mem' = mem /\ fin[s].pc = "idle"
    /\ \E r \in Requests, ov \in BOOLEAN :
         /\ wd[r].owner # s /\ wd[r].status # "none"
         /\ FinIs(fin', fin, s, "claim", r, ov, FALSE, "none", "none", 0)

Asks(r) ==
    /\ wd[r].status = "none" /\ mem' = mem
    /\ wd' \in WdType /\ \A q \in Requests \ {r} : wd'[q] = wd[q]
    /\ wd'[r].owner \in Members /\ ~HasOpen(wd'[r].owner) /\ wd'[r].amount \in Amounts
    /\ wd'[r].status = "pending" /\ wd'[r].adminBy = Nobody /\ wd'[r].finalBy = Nobody
    /\ wd'[r].taken = 0 /\ wd'[r].booked = 0
    /\ IsNew(wd', wd, r, wd'[r])
    /\ IsRequest(wd'[r], NoRow, "pending", wd'[r].owner, wd'[r].amount)

Approves(a, r) ==
    /\ a # wd[r].owner /\ wd[r].status = "pending" /\ ~RowLocked(r) /\ mem' = mem
    /\ RowIs(wd', wd, r, "admin_approved", a, wd[r].finalBy, wd[r].taken, wd[r].booked)
    /\ IsApproved(wd', wd, r, "admin_approved", a)

Rejects(r) ==
    /\ wd[r].status \in {"pending", "admin_approved", "aml_review"} /\ ~RowLocked(r) /\ mem' = mem
    /\ RowIs(wd', wd, r, "rejected", wd[r].adminBy, wd[r].finalBy, wd[r].taken, wd[r].booked)
    /\ IsStatus(wd', wd, r, "rejected")

PolledPaid(r) ==
    LET m == wd[r].owner IN
    /\ wd[r].status # "none"
    /\ \/ wd' = wd
       \/ /\ wd[r].status = "processing" /\ ~RowLocked(r)
          /\ RowIs(wd', wd, r, "paid", wd[r].adminBy, wd[r].finalBy, wd[r].taken, wd[r].booked + 1)
    /\ MemIs(mem', mem, m, mem[m].bal, TRUE, FALSE, mem[m].blocked)

PolledRefund(r) ==
    /\ wd[r].status = "processing" /\ ~RowLocked(r)
    /\ Stored(r, wd[r].finalBy, "admin_approved", -wd[r].amount)

Elsewhere(m) ==
    /\ wd' = wd /\ mem' \in MemType /\ \A p \in Members \ {m} : mem'[p] = mem[p]
    /\ \/ mem'[m].bal = mem[m].bal
       \/ mem'[m].bal = mem[m].bal + 1 /\ ~WalletLocked(m)
       \/ mem'[m].bal = mem[m].bal - 1 /\ mem[m].bal > 0 /\ ~WalletLocked(m)

RowsStep ==
    \/ wd' = wd /\ mem' = mem
    \/ \E r \in Requests : \/ Asks(r) \/ Rejects(r) \/ PolledPaid(r) \/ PolledRefund(r)
                          \/ \E a \in Admins : Approves(a, r)
    \/ \E m \in Members : Elsewhere(m)

\* A finalize begins only for a super admin other than the member who asked.
LEMMA BeginEffect ==
    ASSUME TypeInv, NEW s \in Supers, NEW r \in Requests, NEW ov \in BOOLEAN, BeginFinalize(s, r, ov)
    PROVE  Begins(s) /\ payouts' = payouts /\ prov' = prov /\ ses' = ses /\ poll' = poll
<1> DEFINE f == [IdleFin EXCEPT !.pc = "claim", !.r = r, !.ov = ov]
<1>1. fin \in FinType
    BY Types DEF TypeInv
<1>2. IsBegun(f, IdleFin, "claim", r, ov) /\ "claim" \in FinPcs
    BY Enums DEF IsBegun
<1>3. IsFinPut(fin', fin, s, f)
    BY DEF BeginFinalize, IsFinPut
<1> HIDE DEF f
<1>4. FinRowIs(f, "claim", r, ov, FALSE, "none", "none", 0)
    BY <1>2, FirstRows, FinBegin DEF FinRowIs
<1>5. FinIs(fin', fin, s, f.pc, f.r, f.ov, f.covered, f.res, f.st, f.debit)
    BY <1>1, <1>3, <1>4, FinPut DEF FinRowIs
<1>6. FinIs(fin', fin, s, "claim", r, ov, FALSE, "none", "none", 0)
    BY <1>4, <1>5 DEF FinRowIs
<1>7. QED BY <1>6 DEF BeginFinalize, MayFinalize, Begins

\* Every step that is no handler's is one of the row steps.
LEMMA OutsideEffect ==
    ASSUME TypeInv, Outside
    PROVE  RowsStep /\ fin' = fin
<1>1. wd \in WdType /\ mem \in MemType /\ fin \in FinType
    BY Types DEF TypeInv
<1>2. ASSUME NEW x \in Sessions, NEW r \in Requests, NEW a \in Amounts, RequestCreate(x, r, a)
      PROVE RowsStep /\ fin' = fin
    <2> DEFINE row == [NoRow EXCEPT !.status = "pending", !.owner = ses[x].m, !.amount = a]
    <2>1. ses[x].m \in Members /\ a \in Nat /\ "pending" \in Statuses
        BY <1>2, ConstantsAssumption, Enums DEF RequestCreate, TypeInv, Refs, SessionsRefer
    <2>2. IsRequest(row, NoRow, "pending", ses[x].m, a)
        BY DEF IsRequest
    <2>3. wd[r].status = "none" /\ IsNew(wd', wd, r, row)
        BY <1>2 DEF RequestCreate, IsNew
    <2> HIDE DEF row
    <2>4. /\ row \in WdRow /\ row.status = "pending" /\ row.owner = ses[x].m /\ row.amount = a
          /\ row.adminBy = Nobody /\ row.finalBy = Nobody /\ row.taken = 0 /\ row.booked = 0
        BY <2>1, <2>2, FirstRows, NewRequest
    <2>5. wd' \in WdType /\ wd'[r] = row /\ \A q \in Requests \ {r} : wd'[q] = wd[q]
        BY <1>1, <2>3, <2>4, SetNew
    <2>6. ~HasOpen(ses[x].m) /\ mem' = mem /\ fin' = fin
        BY <1>2 DEF RequestCreate
    <2>7. Asks(r)
        BY <2>1, <2>2, <2>3, <2>4, <2>5, <2>6 DEF Asks
    <2>8. QED BY <2>6, <2>7 DEF RowsStep
<1>3. ASSUME NEW a \in Admins, NEW r \in Requests, AdminApprove(a, r) PROVE RowsStep /\ fin' = fin
    <2>1. IsApproved(wd', wd, r, "admin_approved", a)
        BY <1>3 DEF AdminApprove, IsApproved
    <2>2. a \in Actors /\ "admin_approved" \in Statuses
        BY Enums DEF Actors
    <2>3. RowIs(wd', wd, r, "admin_approved", a, wd[r].finalBy, wd[r].taken, wd[r].booked)
        BY <1>1, <2>1, <2>2, SetApproved
    <2>4. Approves(a, r) /\ fin' = fin
        BY <1>3, <2>1, <2>3 DEF AdminApprove, Approves
    <2>5. QED BY <2>4 DEF RowsStep
<1>4. ASSUME NEW r \in Requests, Reject(r) PROVE RowsStep /\ fin' = fin
    <2>1. IsStatus(wd', wd, r, "rejected") /\ "rejected" \in Statuses
        BY <1>4, Enums DEF Reject, IsStatus
    <2>2. RowIs(wd', wd, r, "rejected", wd[r].adminBy, wd[r].finalBy, wd[r].taken, wd[r].booked)
        BY <1>1, <2>1, SetStatus
    <2>3. Rejects(r) /\ fin' = fin
        BY <1>4, <2>1, <2>2 DEF Reject, Rejects
    <2>4. QED BY <2>3 DEF RowsStep
<1>5. ASSUME NEW m \in Members, MemberRow(m) PROVE RowsStep /\ fin' = fin
    <2>1. wd' = wd /\ fin' = fin
        BY <1>5 DEF MemberRow, OverrideRule, CooldownEnds, SetBlocked, OtherCredit, OtherDebit
    <2>2. Elsewhere(m)
        <3>1. CASE OverrideRule(m)
            BY <1>1, <3>1 DEF OverrideRule, MemType, MemRow, Elsewhere
        <3>2. CASE CooldownEnds(m)
            BY <1>1, <3>2 DEF CooldownEnds, MemType, MemRow, Elsewhere
        <3>3. ASSUME NEW b \in BOOLEAN, SetBlocked(m, b) PROVE Elsewhere(m)
            BY <1>1, <3>3 DEF SetBlocked, MemType, MemRow, Elsewhere
        <3>4. CASE OtherCredit(m)
            <4> DEFINE e == mem[m].bal + 1
            <4>1. e \in Int /\ IsBalance(mem', mem, m, e) /\ wd' = wd /\ ~WalletLocked(m)
                BY <1>1, <3>4, MemFields DEF OtherCredit, IsBalance
            <4> HIDE DEF e
            <4>2. MemIs(mem', mem, m, e, mem[m].hot, mem[m].waived, mem[m].blocked)
                BY <1>1, <4>1, SetBalance
            <4>3. QED BY <4>1, <4>2 DEF MemIs, Elsewhere, e
        <3>5. CASE OtherDebit(m)
            <4> DEFINE e == mem[m].bal - 1
            <4>1. /\ e \in Int /\ IsBalance(mem', mem, m, e) /\ wd' = wd /\ ~WalletLocked(m)
                  /\ mem[m].bal > 0
                BY <1>1, <3>5, MemFields DEF OtherDebit, IsBalance
            <4> HIDE DEF e
            <4>2. MemIs(mem', mem, m, e, mem[m].hot, mem[m].waived, mem[m].blocked)
                BY <1>1, <4>1, SetBalance
            <4>3. QED BY <4>1, <4>2 DEF MemIs, Elsewhere, e
        <3>6. QED BY <1>5, <3>1, <3>2, <3>3, <3>4, <3>5 DEF MemberRow
    <2>3. QED BY <2>1, <2>2 DEF RowsStep
<1>6. ASSUME PollerPaid PROVE RowsStep /\ fin' = fin
    <2> DEFINE r == poll.r
    <2>1. r \in Requests /\ wd[r].status # "none" /\ wd[r].owner \in Members
        BY <1>6 DEF PollerPaid, TypeInv, Refs, PollRefers, OwnersExist
    <2>2. IsWindow(mem', mem, wd[r].owner) /\ ~RowLocked(r) /\ fin' = fin
        BY <1>6 DEF PollerPaid, IsWindow
    <2>3. MemIs(mem', mem, wd[r].owner, mem[wd[r].owner].bal, TRUE, FALSE, mem[wd[r].owner].blocked)
        BY <1>1, <2>1, <2>2, SetWindow
    <2>4. CASE wd[r].status = "processing"
        <3>1. IsBooked(wd', wd, r, "paid", wd[r].booked + 1)
            BY <1>6, <2>4 DEF PollerPaid, IsBooked
        <3>2. wd[r].booked + 1 \in Nat /\ "paid" \in Statuses
            BY <1>1, <2>1, RowFields, Enums
        <3>3. RowIs(wd', wd, r, "paid", wd[r].adminBy, wd[r].finalBy, wd[r].taken, wd[r].booked + 1)
            BY <1>1, <2>1, <3>1, <3>2, SetBooked
        <3>4. QED BY <2>1, <2>2, <2>3, <2>4, <3>3 DEF PolledPaid, RowsStep
    <2>5. CASE wd[r].status # "processing"
        <3>1. wd' = wd
            BY <1>6, <2>5 DEF PollerPaid
        <3>2. QED BY <2>1, <2>2, <2>3, <3>1 DEF PolledPaid, RowsStep
    <2>6. QED BY <2>4, <2>5
<1>7. ASSUME PollerRefund PROVE RowsStep /\ fin' = fin
    <2> DEFINE r == poll.r
    <2>1. /\ r \in Requests /\ wd[r].status # "none" /\ wd[r].owner \in Members
          /\ ~RowLocked(r) /\ fin' = fin
        BY <1>7 DEF PollerRefund, TypeInv, Refs, PollRefers, OwnersExist
    <2>2. CASE wd[r].status = "processing"
        <3>1. Store(r, wd[r].finalBy, "admin_approved", -wd[r].amount)
            BY <1>7, <2>2 DEF PollerRefund
        <3>2. /\ wd[r].finalBy \in Actors /\ -wd[r].amount \in Int
              /\ "admin_approved" \in Statuses
            BY <1>1, <2>1, RowFields, Enums
        <3>3. Stored(r, wd[r].finalBy, "admin_approved", -wd[r].amount)
            BY <2>1, <3>1, <3>2, StoreEffect DEF TypeInv
        <3>4. QED BY <2>1, <2>2, <3>3 DEF PolledRefund, RowsStep
    <2>3. CASE wd[r].status # "processing"
        BY <1>7, <2>1, <2>3 DEF PollerRefund, RowsStep
    <2>4. QED BY <2>2, <2>3
<1>8. ASSUME UNCHANGED <<wd, mem, fin>> PROVE RowsStep /\ fin' = fin
    BY <1>8 DEF RowsStep
<1>9. ASSUME NEW x \in Sessions, (\E m \in Members : RequestRead(x, m)) \/ RequestRefused(x)
      PROVE UNCHANGED <<wd, mem, fin>>
    BY <1>9 DEF RequestRead, RequestRefused
<1>10. ASSUME NEW r \in Requests, ProviderSettles(r) \/ PollerAsk(r) PROVE UNCHANGED <<wd, mem, fin>>
    BY <1>10 DEF ProviderSettles, PollerAsk
<1>11. QED BY <1>2, <1>3, <1>4, <1>5, <1>6, <1>7, <1>8, <1>9, <1>10 DEF Outside

-----------------------------------------------------------------------------
(* The proofs *)


\* The next-state relation, by the actors of the previous module.
LEMMA NextSteps ==
    ASSUME Next
    PROVE  \/ Outside
           \/ \E s \in Supers, r \in Requests, ov \in BOOLEAN : BeginFinalize(s, r, ov)
           \/ \E s \in Supers : Handler(s)
<1>1. ASSUME NEW s \in Supers, NEW r \in Requests, SuperApprove(s, r)
      PROVE \E ov \in BOOLEAN : BeginFinalize(s, r, ov)
    BY <1>1, Zenon DEF SuperApprove
<1>2. ASSUME NEW s \in Supers, NEW r \in Requests,
             SuperApprove(s, r) \/ \E ov \in BOOLEAN : BeginFinalize(s, r, ov)
      PROVE \E t \in Supers, q \in Requests, ov \in BOOLEAN : BeginFinalize(t, q, ov)
    BY <1>1, <1>2, Zenon
<1>3. QED BY <1>2 DEF Next

-----------------------------------------------------------------------------
(* Types and references                                                    *)

\* Rows are never deleted and keep their owner.
Kept ==
    /\ wd' \in WdType /\ OwnersExist'
    /\ \A q \in Requests :
          wd[q].status # "none" => wd'[q].status # "none" /\ wd'[q].owner = wd[q].owner

\* A step that rewrites one existing row keeps the rows.
LEMMA RowKept ==
    ASSUME TypeInv, NEW r \in Requests, wd[r].status # "none",
           NEW st, st # "none", NEW a, NEW b, NEW c, NEW k, RowIs(wd', wd, r, st, a, b, c, k)
    PROVE  Kept
BY DEF TypeInv, Refs, OwnersExist, RowIs, Kept

\* So does a step that leaves them alone.
LEMMA RowsUnchanged ==
    ASSUME TypeInv, wd' = wd
    PROVE  Kept
BY Types DEF TypeInv, Refs, OwnersExist, Kept

\* A handler's step keeps the rows; its record stays typed and refers to a row.
LEMMA EffectKeeps ==
    ASSUME TypeInv, NEW s \in Supers, Effect(s)
    PROVE  /\ Kept /\ mem' \in MemType /\ fin' \in FinType
           /\ \A t \in Supers \ {s} : fin'[t] = fin[t]
           /\ fin'[s].pc = "idle" \/ fin'[s].r = fin[s].r
<1>1. wd \in WdType /\ mem \in MemType /\ fin \in FinType
    BY Types DEF TypeInv
<1>2. /\ fin[s].r \in Requests /\ wd[fin[s].r].status # "none"
      /\ Own(s) \in Statuses \ {"none"}
    BY HandlerFacts DEF Effect
<1>3. CASE Moves(s) \/ Quits(s) \/ Orphans(s)
    BY <1>1, <1>3, RowsUnchanged DEF Moves, Quits, Orphans, Idle, FinIs
<1>4. ASSUME NEW f, f.r = fin[s].r, NEW b, NEW st \in Statuses \ {"none"}, NEW d,
             Stated(s, f, b, st, d)
      PROVE  /\ Kept /\ mem' \in MemType /\ fin' \in FinType
             /\ \A t \in Supers \ {s} : fin'[t] = fin[t]
             /\ fin'[s].r = fin[s].r
    <2>1. CASE Ambient
        BY <1>1, <1>4, <2>1, RowsUnchanged DEF Stated, FinIs
    <2>2. CASE ~Ambient
        <3>1. Kept
            BY <1>2, <1>4, <2>2, RowKept DEF Stated, Stored
        <3>2. QED BY <1>4, <2>2, <3>1 DEF Stated, Stored, FinIs, MemIs
    <2>3. QED BY <2>1, <2>2
<1>5. CASE Claims(s)
    <2>1. "processing" \in Statuses \ {"none"}
        BY Enums
    <2>2. QED BY <1>4, <1>5, <2>1 DEF Claims
<1>6. CASE Debits(s)
    BY <1>2, <1>4, <1>6 DEF Debits
<1>7. CASE Settles(s)
    <2>1. Kept
        BY <1>2, <1>7, RowKept DEF Settles, Stored
    <2>2. QED BY <1>7, <2>1 DEF Settles, Stored, Idle, FinIs, MemIs
<1>8. CASE Pays(s)
    <2>1. IfProcessing(s, "paid") # "none"
        BY <1>2 DEF IfProcessing
    <2>2. Kept
        BY <1>2, <1>8, <2>1, RowKept DEF Pays, Paid
    <2>3. QED BY <1>8, <2>2 DEF Pays, Paid, Idle, FinIs, MemIs
<1>9. QED BY <1>3, <1>5, <1>6, <1>7, <1>8 DEF Effect

\* Every other step keeps the rows.
LEMMA RowsStepKeeps ==
    ASSUME TypeInv, RowsStep
    PROVE  Kept /\ mem' \in MemType
<1>1. wd \in WdType /\ mem \in MemType
    BY Types DEF TypeInv
<1>2. CASE wd' = wd /\ mem' = mem
    BY <1>1, <1>2, RowsUnchanged
<1>3. ASSUME NEW r \in Requests, Asks(r) PROVE Kept /\ mem' \in MemType
    BY <1>1, <1>3 DEF Asks, Kept, TypeInv, Refs, OwnersExist
<1>4. ASSUME NEW r \in Requests, Rejects(r) PROVE Kept /\ mem' \in MemType
    BY <1>1, <1>4, RowKept DEF Rejects
<1>5. ASSUME NEW r \in Requests, PolledPaid(r) PROVE Kept /\ mem' \in MemType
    BY <1>5, RowKept, RowsUnchanged DEF PolledPaid, MemIs
<1>6. ASSUME NEW r \in Requests, PolledRefund(r) PROVE Kept /\ mem' \in MemType
    BY <1>6, RowKept DEF PolledRefund, Stored, MemIs
<1>7. ASSUME NEW r \in Requests, NEW a \in Admins, Approves(a, r) PROVE Kept /\ mem' \in MemType
    BY <1>1, <1>7, RowKept DEF Approves
<1>8. ASSUME NEW m \in Members, Elsewhere(m) PROVE Kept /\ mem' \in MemType
    BY <1>8, RowsUnchanged DEF Elsewhere
<1>9. QED BY <1>2, <1>3, <1>4, <1>5, <1>6, <1>7, <1>8 DEF RowsStep

\* The chat sessions, the poller and the provider stay typed.
LEMMA SideTypes ==
    ASSUME TypeInv, Outside
    PROVE  /\ payouts' = payouts /\ prov' \in ProvType
           /\ ses' \in SesType /\ SessionsRefer' /\ poll' \in PollType
           /\ poll'.saw # "none" => poll'.r \in Requests /\ wd[poll'.r].status # "none"
<1>1. /\ wd \in WdType /\ mem \in MemType
      /\ prov \in ProvType /\ ses \in SesType /\ poll \in PollType
      /\ SessionsRefer /\ PollRefers
    BY Types DEF TypeInv, Refs
<1>2. ASSUME UNCHANGED <<payouts, prov, ses, poll>>
      PROVE  /\ payouts' = payouts /\ prov' \in ProvType
             /\ ses' \in SesType /\ SessionsRefer' /\ poll' \in PollType
             /\ poll'.saw # "none" => poll'.r \in Requests /\ wd[poll'.r].status # "none"
    BY <1>1, <1>2 DEF SessionsRefer, PollRefers
<1>3. ASSUME NEW x \in Sessions, NEW m \in Members, RequestRead(x, m)
      PROVE ses' \in SesType /\ SessionsRefer' /\ UNCHANGED <<payouts, prov, poll>>
    <2> DEFINE row == [pc |-> "lock", m |-> m, max |-> Limit(mem[m].bal),
                       hot |-> mem[m].hot /\ ~mem[m].waived, blocked |-> mem[m].blocked]
    <2>1. row \in SesRow /\ row.m \in Members
        BY <1>1, MemFields DEF SesRow, Limit
    <2>2. ses' = [ses EXCEPT ![x] = row] /\ UNCHANGED <<payouts, prov, poll>>
        BY <1>3 DEF RequestRead
    <2> HIDE DEF row
    <2>3. QED BY <1>1, <2>1, <2>2 DEF SesType, SessionsRefer
<1>4. ASSUME NEW x \in Sessions,
             RequestRefused(x) \/ \E r \in Requests, a \in Amounts : RequestCreate(x, r, a)
      PROVE ses' \in SesType /\ SessionsRefer' /\ UNCHANGED <<payouts, prov, poll>>
    <2>1. ses' = [ses EXCEPT ![x] = IdleSes] /\ UNCHANGED <<payouts, prov, poll>>
        BY <1>4 DEF RequestRefused, RequestCreate
    <2>2. IdleSes \in SesRow /\ IdleSes.pc = "idle"
        BY DEF IdleSes, SesRow
    <2>3. QED BY <1>1, <2>1, <2>2 DEF SesType, SessionsRefer
<1>5. ASSUME NEW a \in Admins, NEW r \in Requests, AdminApprove(a, r)
      PROVE UNCHANGED <<payouts, prov, ses, poll>>
    BY <1>5 DEF AdminApprove
<1>6. ASSUME NEW r \in Requests, Reject(r) PROVE UNCHANGED <<payouts, prov, ses, poll>>
    BY <1>6 DEF Reject
<1>7. ASSUME NEW r \in Requests, ProviderSettles(r)
      PROVE prov' \in ProvType /\ UNCHANGED <<payouts, ses, poll>>
    BY <1>1, <1>7 DEF ProviderSettles, ProvType
<1>8. ASSUME NEW r \in Requests, PollerAsk(r)
      PROVE  /\ poll' \in PollType /\ UNCHANGED <<payouts, prov, ses>>
             /\ poll'.r \in Requests /\ wd[poll'.r].status # "none"
    BY <1>1, <1>8 DEF PollerAsk, PollType, ProvType
<1>9. ASSUME NEW m \in Members, MemberRow(m) PROVE UNCHANGED <<payouts, prov, ses, poll>>
    BY <1>9 DEF MemberRow, OverrideRule, CooldownEnds, SetBlocked, OtherCredit, OtherDebit
<1>10. ASSUME PollerPaid \/ PollerRefund
       PROVE poll' \in PollType /\ poll'.saw = "none" /\ UNCHANGED <<payouts, prov, ses>>
    BY <1>10 DEF PollerPaid, PollerRefund, IdlePoll, PollType
<1>11. QED BY <1>1, <1>2, <1>3, <1>4, <1>5, <1>6, <1>7, <1>8, <1>9, <1>10
           DEF Outside, SessionsRefer, PollRefers

\* The first state is typed and refers to nothing.
LEMMA TypeInit == Init => TypeInv
<1> SUFFICES ASSUME Init PROVE TypeInv
    OBVIOUS
<1>1. wd \in WdType /\ \A r \in Requests : wd[r].status = "none"
    BY FirstRows DEF Init, WdType
<1>2. mem \in MemType
    BY ConstantsAssumption DEF Init, MemType, MemRow
<1>3. fin \in FinType /\ \A s \in Supers : fin[s].pc = "idle"
    BY FirstRows DEF Init, FinType, FinRowIs
<1>4. ses \in SesType /\ \A x \in Sessions : ses[x].pc = "idle"
    BY DEF Init, SesType, SesRow, IdleSes
<1>5. payouts \subseteq Requests /\ prov \in ProvType /\ poll \in PollType /\ poll.saw = "none"
    BY DEF Init, ProvType, PollType, IdlePoll
<1>6. TypeOK
    BY <1>1, <1>2, <1>3, <1>4, <1>5, Types
<1>7. Refs
    BY <1>1, <1>3, <1>4, <1>5 DEF Refs, OwnersExist, HandlersRefer, SessionsRefer, PollRefers
<1>8. QED BY <1>6, <1>7 DEF TypeInv

\* Every step keeps the types and the references.
LEMMA TypeStep == TypeInv /\ [Next]_vars => TypeInv'
<1> SUFFICES ASSUME TypeInv, [Next]_vars PROVE TypeInv'
    OBVIOUS
<1>1. /\ wd \in WdType /\ mem \in MemType /\ payouts \subseteq Requests
      /\ prov \in ProvType /\ fin \in FinType /\ ses \in SesType /\ poll \in PollType
      /\ HandlersRefer /\ SessionsRefer /\ PollRefers
    BY Types DEF TypeInv, Refs
<1>2. ASSUME wd' \in WdType, mem' \in MemType, payouts' \subseteq Requests, prov' \in ProvType,
             fin' \in FinType, ses' \in SesType, poll' \in PollType
      PROVE  TypeOK'
    BY <1>2 DEF TypeOK, WdType, MemType, ProvType, FinType, SesType, PollType
<1>3. CASE Outside
    <2>1. Kept /\ mem' \in MemType /\ fin' = fin
        BY <1>3, OutsideEffect, RowsStepKeeps
    <2>2. HandlersRefer' /\ PollRefers' /\ OwnersExist' /\ SessionsRefer'
        BY <1>1, <1>3, <2>1, SideTypes DEF Kept, HandlersRefer, PollRefers
    <2>3. TypeOK'
        BY <1>1, <1>2, <1>3, <2>1, SideTypes DEF Kept
    <2>4. QED BY <2>2, <2>3 DEF TypeInv, Refs
<1>4. ASSUME NEW s \in Supers, NEW r \in Requests, NEW ov \in BOOLEAN, BeginFinalize(s, r, ov)
      PROVE TypeInv'
    <2>1. Begins(s) /\ payouts' = payouts /\ prov' = prov /\ ses' = ses /\ poll' = poll
        BY <1>4, BeginEffect
    <2>2. Kept /\ mem' = mem
        BY <2>1, RowsUnchanged DEF Begins
    <2>3. fin' \in FinType /\ HandlersRefer'
        BY <1>1, <2>1 DEF Begins, FinIs, HandlersRefer
    <2>4. TypeOK'
        BY <1>1, <1>2, <2>1, <2>2, <2>3 DEF Kept
    <2>5. PollRefers' /\ OwnersExist' /\ SessionsRefer'
        BY <1>1, <2>1, <2>2 DEF Kept, PollRefers, SessionsRefer
    <2>6. QED BY <2>3, <2>4, <2>5 DEF TypeInv, Refs
<1>5. ASSUME NEW s \in Supers, Handler(s) PROVE TypeInv'
    <2>1. Effect(s)
        BY <1>5, HandlerEffect
    <2>2. /\ Kept /\ mem' \in MemType /\ fin' \in FinType
          /\ \A t \in Supers \ {s} : fin'[t] = fin[t]
          /\ fin'[s].pc = "idle" \/ fin'[s].r = fin[s].r
        BY <2>1, EffectKeeps
    <2>3. fin[s].pc # "idle" /\ payouts' \subseteq Requests /\ prov' \in ProvType /\ ses' = ses /\ poll' = poll
        BY <2>1 DEF Effect
    <2>4. HandlersRefer'
        BY <1>1, <2>2, <2>3 DEF HandlersRefer, Kept
    <2>5. PollRefers' /\ OwnersExist' /\ SessionsRefer'
        BY <1>1, <2>2, <2>3 DEF Kept, PollRefers, SessionsRefer
    <2>6. TypeOK'
        BY <1>1, <1>2, <2>2, <2>3 DEF Kept
    <2>7. QED BY <2>4, <2>5, <2>6 DEF TypeInv, Refs
<1>6. CASE UNCHANGED vars
    BY <1>6 DEF vars, TypeInv, TypeOK, Refs, OwnersExist, HandlersRefer, SessionsRefer, PollRefers
<1>7. QED BY <1>3, <1>4, <1>5, <1>6, NextSteps

\* Rows, wallets, handlers, sessions, poller and provider hold what their
\* types say in every state of the program.
THEOREM TypeCorrect == Spec => []TypeOK
<1>1. Spec => []TypeInv
    BY TypeInit, TypeStep, PTL DEF Spec
<1>2. TypeInv => TypeOK
    BY DEF TypeInv
<1>3. QED BY <1>1, <1>2, PTL

-----------------------------------------------------------------------------
(* Dual control.  The invariant follows the claim: whoever works on a       *)
(* request is not its owner, and a request in a decided status was claimed. *)

RowsDual ==
    \A r \in Requests :
        /\ wd[r].adminBy # Nobody => wd[r].adminBy # wd[r].owner
        /\ wd[r].finalBy # Nobody => wd[r].finalBy \in Supers \ {wd[r].owner}
        /\ wd[r].status \in {"processing", "paid", "investigating"} => wd[r].finalBy # Nobody
HandlersDual == \A s \in Supers : fin[s].pc # "idle" => Owner(s) # s
BufferState ==
    \A s \in Supers : fin[s].st = IF Ambient /\ Working(s) THEN "processing" ELSE "none"
Claimed == \A s \in Supers : ~Ambient /\ Working(s) => wd[fin[s].r].finalBy # Nobody

DualInv == TypeInv /\ RowsDual /\ HandlersDual /\ BufferState /\ Claimed

\* A handler has a buffer exactly between its claim and its end.
LEMMA BufferStep ==
    ASSUME TypeInv, BufferState, NEW s \in Supers, Effect(s)
    PROVE  BufferState'
<1>1. \A t \in Supers \ {s} : fin'[t] = fin[t]
    BY EffectKeeps
<1>2. CASE Moves(s)
    <2>1. PICK pc \in FinPcs, cov \in BOOLEAN, res \in Results :
             /\ \/ pc = "debit" /\ fin[s].pc = "gate"
                \/ pc \in {"call", "record", "settle"} /\ fin[s].pc \in {"send", "call", "record"}
             /\ FinIs(fin', fin, s, pc, fin[s].r, fin[s].ov, cov, res, fin[s].st, fin[s].debit)
        BY <1>2 DEF Moves
    <2>2. Working(s) /\ Working(s)' /\ fin'[s].st = fin[s].st
        BY <2>1 DEF Working, FinIs
    <2>3. QED BY <1>1, <2>2 DEF BufferState, Working
<1>3. CASE Quits(s) \/ Orphans(s) \/ Settles(s) \/ Pays(s)
    <2>1. fin'[s].st = "none" /\ ~Working(s)'
        BY <1>3 DEF Quits, Orphans, Settles, Pays, Paid, Idle, FinIs, Working
    <2>2. QED BY <1>1, <2>1 DEF BufferState, Working
<1>4. CASE Claims(s)
    <2>1. PICK f \in FinRow : /\ f.pc = "gate" /\ f.r = fin[s].r /\ f.st = fin[s].st
                              /\ Stated(s, f, s, "processing", 0)
        BY <1>4 DEF Claims
    <2>2. fin[s].st = "none"
        BY <1>4 DEF Claims, BufferState, Working
    <2>3. /\ Working(s)' /\ fin'[s].st = IF Ambient THEN "processing" ELSE "none"
        BY <2>1, <2>2 DEF Stated, FinIs, Working
    <2>4. QED BY <1>1, <2>3 DEF BufferState, Working
<1>5. CASE Debits(s)
    <2>1. PICK f \in FinRow : /\ f.pc = "send" /\ f.r = fin[s].r /\ f.st = fin[s].st
                              /\ Stated(s, f, Claimer(s), Own(s), Amount(s))
        BY <1>5 DEF Debits
    <2>2. fin[s].st = IF Ambient THEN "processing" ELSE "none"
        BY <1>5 DEF Debits, BufferState, Working
    <2>3. Ambient => Own(s) = "processing"
        BY <2>2 DEF Own
    <2>4. /\ Working(s)' /\ fin'[s].st = IF Ambient THEN "processing" ELSE "none"
        BY <2>1, <2>2, <2>3 DEF Stated, FinIs, Working
    <2>5. QED BY <1>1, <2>4 DEF BufferState, Working
<1>6. QED BY <1>2, <1>3, <1>4, <1>5 DEF Effect

\* A handler's step leaves a claimed row claimed, and claims for itself.
LEMMA DualEffect ==
    ASSUME DualInv, NEW s \in Supers, Effect(s)
    PROVE  /\ RowsDual'
           /\ \A q \in Requests : wd[q].finalBy # Nobody => wd'[q].finalBy # Nobody
           /\ ~Ambient /\ Working(s)' => wd'[fin'[s].r].finalBy # Nobody
<1> DEFINE r == fin[s].r
           Goal == /\ RowsDual'
                   /\ \A q \in Requests : wd[q].finalBy # Nobody => wd'[q].finalBy # Nobody
                   /\ ~Ambient /\ Working(s)' => wd'[fin'[s].r].finalBy # Nobody
<1>1. r \in Requests /\ s # wd[r].owner /\ s # Nobody
    BY HandlerFacts, ConstantsAssumption DEF Effect, DualInv, HandlersDual, Owner
<1>2. Working(s) => /\ Claimer(s) \in Supers \ {wd[r].owner} /\ Claimer(s) # Nobody
                    /\ Own(s) # "processing" => wd[r].finalBy # Nobody
    BY <1>1 DEF DualInv, RowsDual, BufferState, Claimed, Claimer, Own
\* One row rewritten with claimer b.
<1>3. ASSUME NEW st, NEW b \in Supers \ {wd[r].owner}, b # Nobody, NEW c, NEW k,
             RowIs(wd', wd, r, st, wd[r].adminBy, b, c, k)
      PROVE  /\ RowsDual' /\ wd'[r].finalBy # Nobody
             /\ \A q \in Requests : wd[q].finalBy # Nobody => wd'[q].finalBy # Nobody
    BY <1>1, <1>3 DEF DualInv, RowsDual, RowIs
<1>4. CASE Moves(s)
    BY <1>4 DEF Moves, FinIs, DualInv, RowsDual, Claimed, Working
<1>5. CASE Quits(s) \/ Orphans(s)
    BY <1>5 DEF Quits, Orphans, Idle, FinIs, DualInv, RowsDual, Working
<1>6. ASSUME NEW f, f.r = r, NEW b \in Supers \ {wd[r].owner}, b # Nobody, NEW st, NEW d,
             Stated(s, f, b, st, d)
      PROVE  Goal
    <2>1. CASE Ambient
        BY <1>6, <2>1 DEF Stated, DualInv, RowsDual
    <2>2. CASE ~Ambient
        <3>1. RowIs(wd', wd, r, st, wd[r].adminBy, b, wd[r].taken + d, wd[r].booked) /\ fin'[s].r = r
            BY <1>6, <2>2 DEF Stated, Stored, FinIs
        <3>2. QED BY <1>3, <1>6, <3>1
    <2>3. QED BY <2>1, <2>2
<1>7. CASE Claims(s)
    BY <1>1, <1>6, <1>7 DEF Claims
<1>8. CASE Debits(s)
    BY <1>2, <1>6, <1>8 DEF Debits, Working
<1>9. CASE Settles(s)
    <2>1. PICK st \in Statuses \ {"none"}, d \in Int :
             SettlesAs(s, st, d) /\ Stored(r, Claimer(s), st, fin[s].debit + d)
        BY <1>9 DEF Settles
    <2>2. Working(s) /\ fin'[s].pc = "idle"
        BY <1>9, <2>1 DEF Settles, SettlesAs, Working, Idle, FinIs
    <2>3. RowsDual' /\ \A q \in Requests : wd[q].finalBy # Nobody => wd'[q].finalBy # Nobody
        BY <1>2, <1>3, <2>1, <2>2 DEF Stored
    <2>4. QED BY <2>2, <2>3 DEF Working
<1>10. CASE Pays(s)
    <2>1. Working(s) /\ fin'[s].pc = "idle"
        BY <1>10 DEF Pays, Paid, Working, Idle, FinIs
    <2> DEFINE b == IF Own(s) = "processing" THEN s ELSE wd[r].finalBy
    <2>2. b \in Supers \ {wd[r].owner} /\ b # Nobody
        BY <1>1, <1>2, <2>1 DEF DualInv, RowsDual
    <2>3. PICK n \in {0, 1} :
             RowIs(wd', wd, r, IfProcessing(s, "paid"), wd[r].adminBy, b,
                   wd[r].taken + fin[s].debit, wd[r].booked + n)
        BY <1>10 DEF Pays, Paid
    <2> HIDE DEF b
    <2>4. RowsDual' /\ \A q \in Requests : wd[q].finalBy # Nobody => wd'[q].finalBy # Nobody
        BY <1>3, <2>2, <2>3
    <2>5. QED BY <2>1, <2>4 DEF Working
<1>11. QED BY <1>4, <1>5, <1>7, <1>8, <1>9, <1>10 DEF Effect

\* The humans and the poller neither unclaim a row nor approve their own.
LEMMA DualRows ==
    ASSUME DualInv, RowsStep
    PROVE  /\ RowsDual'
           /\ \A q \in Requests : wd[q].status # "none" =>
                 (wd[q].finalBy # Nobody => wd'[q].finalBy # Nobody)
<1> DEFINE Goal == /\ RowsDual'
                   /\ \A q \in Requests : wd[q].status # "none" =>
                         (wd[q].finalBy # Nobody => wd'[q].finalBy # Nobody)
<1>1. ASSUME wd' = wd PROVE Goal
    BY <1>1 DEF DualInv, RowsDual
<1>2. ASSUME NEW r \in Requests, Asks(r) PROVE Goal
    BY <1>2 DEF Asks, DualInv, RowsDual
<1>3. ASSUME NEW r \in Requests, NEW st, NEW a, a # Nobody => a # wd[r].owner, NEW c, NEW k,
             RowIs(wd', wd, r, st, a, wd[r].finalBy, c, k),
             st \in {"processing", "paid", "investigating"} => wd[r].finalBy # Nobody
      PROVE Goal
    BY <1>3 DEF RowIs, DualInv, RowsDual
<1> HIDE DEF Goal
<1>4. ASSUME NEW r \in Requests, Rejects(r) PROVE Goal
    <2>1. wd[r].adminBy # Nobody => wd[r].adminBy # wd[r].owner
        BY DEF DualInv, RowsDual
    <2>2. RowIs(wd', wd, r, "rejected", wd[r].adminBy, wd[r].finalBy, wd[r].taken, wd[r].booked)
        BY <1>4 DEF Rejects
    <2>3. "rejected" \notin {"processing", "paid", "investigating"}
        OBVIOUS
    <2>4. QED BY <1>3, <2>1, <2>2, <2>3
<1>5. ASSUME NEW r \in Requests, PolledPaid(r) PROVE Goal
    <2>1. CASE wd' = wd
        BY <1>1, <2>1
    <2>2. CASE wd' # wd
        <3>1. /\ wd[r].adminBy # Nobody => wd[r].adminBy # wd[r].owner
              /\ wd[r].status = "processing" => wd[r].finalBy # Nobody
            BY DEF DualInv, RowsDual
        <3>2. /\ wd[r].status = "processing"
              /\ RowIs(wd', wd, r, "paid", wd[r].adminBy, wd[r].finalBy, wd[r].taken, wd[r].booked + 1)
            BY <1>5, <2>2 DEF PolledPaid
        <3> DEFINE k == wd[r].booked + 1
        <3> HIDE DEF k
        <3>3. RowIs(wd', wd, r, "paid", wd[r].adminBy, wd[r].finalBy, wd[r].taken, k)
            BY <3>2 DEF k
        <3>4. QED BY <1>3, <3>1, <3>2, <3>3
    <2>3. QED BY <2>1, <2>2
<1>6. ASSUME NEW r \in Requests, PolledRefund(r) PROVE Goal
    <2>1. wd[r].adminBy # Nobody => wd[r].adminBy # wd[r].owner
        BY DEF DualInv, RowsDual
    <2> DEFINE c == wd[r].taken + (-wd[r].amount)
    <2> HIDE DEF c
    <2>2. RowIs(wd', wd, r, "admin_approved", wd[r].adminBy, wd[r].finalBy, c, wd[r].booked)
        BY <1>6 DEF PolledRefund, Stored, c
    <2>3. "admin_approved" \notin {"processing", "paid", "investigating"}
        OBVIOUS
    <2>4. QED BY <1>3, <2>1, <2>2, <2>3
<1>7. ASSUME NEW r \in Requests, NEW a \in Admins, Approves(a, r) PROVE Goal
    <2>1. "admin_approved" \notin {"processing", "paid", "investigating"}
        OBVIOUS
    <2>2. a # wd[r].owner
        BY <1>7 DEF Approves
    <2>3. RowIs(wd', wd, r, "admin_approved", a, wd[r].finalBy, wd[r].taken, wd[r].booked)
        BY <1>7 DEF Approves
    <2>4. QED BY <1>3, <2>1, <2>2, <2>3
<1>8. ASSUME NEW m \in Members, Elsewhere(m) PROVE Goal
    BY <1>1, <1>8 DEF Elsewhere
<1>9. QED BY <1>1, <1>2, <1>4, <1>5, <1>6, <1>7, <1>8 DEF RowsStep, Goal

\* Every step keeps the dual control.
LEMMA DualStep == DualInv /\ [Next]_vars => DualInv'
<1> SUFFICES ASSUME DualInv, [Next]_vars PROVE DualInv'
    OBVIOUS
<1>1. TypeInv /\ TypeInv'
    BY TypeStep DEF DualInv
<1>2. HandlersRefer
    BY <1>1 DEF TypeInv, Refs
<1>3. CASE Outside
    <2>1. RowsStep /\ fin' = fin /\ Kept
        BY <1>1, <1>3, OutsideEffect, RowsStepKeeps
    <2>2. /\ RowsDual'
          /\ \A q \in Requests : wd[q].status # "none" =>
                (wd[q].finalBy # Nobody => wd'[q].finalBy # Nobody)
        BY <2>1, DualRows
    <2>3. HandlersDual' /\ BufferState' /\ Claimed'
        BY <1>2, <2>1, <2>2 DEF DualInv, HandlersDual, BufferState, Claimed, Working, Owner,
                                HandlersRefer, Kept
    <2>4. QED BY <1>1, <2>2, <2>3 DEF DualInv
<1>4. ASSUME NEW s \in Supers, NEW r \in Requests, NEW ov \in BOOLEAN, BeginFinalize(s, r, ov)
      PROVE DualInv'
    <2>1. Begins(s)
        BY <1>1, <1>4, BeginEffect
    <2>2. HandlersDual' /\ BufferState' /\ Claimed' /\ RowsDual'
        BY <2>1 DEF Begins, FinIs, DualInv, HandlersDual, BufferState, Claimed, Working, Owner,
                    RowsDual
    <2>3. QED BY <1>1, <2>2 DEF DualInv
<1>5. ASSUME NEW s \in Supers, Handler(s) PROVE DualInv'
    <2>1. Effect(s)
        BY <1>1, <1>5, HandlerEffect
    <2>2. /\ Kept /\ \A t \in Supers \ {s} : fin'[t] = fin[t]
          /\ fin'[s].pc = "idle" \/ fin'[s].r = fin[s].r
          /\ fin[s].pc # "idle"
        BY <1>1, <2>1, EffectKeeps DEF Effect
    <2>3. /\ RowsDual'
          /\ \A q \in Requests : wd[q].finalBy # Nobody => wd'[q].finalBy # Nobody
          /\ ~Ambient /\ Working(s)' => wd'[fin'[s].r].finalBy # Nobody
        BY <2>1, DualEffect
    <2>4. BufferState'
        BY <2>1, BufferStep DEF DualInv
    <2>5. HandlersDual'
        BY <1>2, <2>2 DEF DualInv, HandlersDual, Owner, HandlersRefer, Kept
    <2>6. Claimed'
        BY <1>2, <2>2, <2>3 DEF DualInv, Claimed, Working, HandlersRefer
    <2>7. QED BY <1>1, <2>3, <2>4, <2>5, <2>6 DEF DualInv
<1>6. CASE UNCHANGED vars
    BY <1>1, <1>6 DEF vars, DualInv, RowsDual, HandlersDual, BufferState, Claimed, Working, Owner
<1>7. QED BY <1>3, <1>4, <1>5, <1>6, NextSteps

\* Nothing is approved, claimed or worked on in the first state.
LEMMA DualInit ==
    ASSUME Init
    PROVE  DualInv
<1>1. \A r \in Requests : wd[r] = NoRow
    BY DEF Init
<1>2. \A s \in Supers : fin[s] = IdleFin
    BY DEF Init
<1>3. RowsDual /\ HandlersDual /\ BufferState /\ Claimed
    BY <1>1, <1>2, FirstRows
       DEF RowsDual, HandlersDual, BufferState, Claimed, Working, FinRowIs
<1>4. QED BY <1>3, TypeInit DEF DualInv

\* No admin approves and no super admin finalizes a withdrawal of their own,
\* and only a super admin's claim leads to a payment.
THEOREM DualControlHolds == Spec => []DualControl
<1>1. Init => DualInv
    BY DualInit
<1>2. DualInv => DualControl
    BY DEF DualInv, RowsDual, DualControl
<1>3. QED BY <1>1, <1>2, DualStep, PTL DEF Spec

-----------------------------------------------------------------------------
(* The deployed program: every handler runs in one transaction. *)

Unsettled == {"pending", "admin_approved", "aml_review"}

\* Committed rows are never in processing, and taken and booked follow the status.
RowsSettled ==
    \A r \in Requests :
        /\ wd[r].status # "processing"
        /\ wd[r].taken = IF wd[r].status \in {"paid", "investigating"} THEN wd[r].amount ELSE 0
        /\ wd[r].booked = IF wd[r].status = "paid" THEN 1 ELSE 0
\* A working handler holds its row's lock: nobody else has touched the row.
LocksHeld ==
    /\ \A s \in Supers : Working(s) => wd[fin[s].r].status \in Unsettled
    /\ OneFinalizer
\* The debit in a handler's buffer is its request's amount, or not made yet.
DebitState ==
    \A s \in Supers :
        fin[s].debit = IF fin[s].pc \in {"send", "call", "record", "settle"} THEN Amount(s) ELSE 0
\* A debited wallet is locked and covers the debit.
Funded ==
    /\ \A m \in Members : mem[m].bal >= 0
    /\ \A s \in Supers : fin[s].debit # 0 => mem[Owner(s)].bal >= fin[s].debit
    /\ \A s, t \in Supers :
          s # t /\ fin[s].debit # 0 /\ fin[t].debit # 0 => Owner(s) # Owner(t)

DeployedInv == DualInv /\ RowsSettled /\ LocksHeld /\ DebitState /\ Funded

\* What a handler that works holds.
LEMMA WorkingFacts ==
    ASSUME Ambient, DeployedInv, NEW s \in Supers, fin[s].pc # "idle"
    PROVE  /\ fin[s].r \in Requests /\ Owner(s) \in Members /\ Amount(s) \in Nat
           /\ mem[Owner(s)].bal \in Nat /\ fin[s].debit \in Nat
           /\ Working(s) => /\ Own(s) = "processing" /\ wd[fin[s].r].status \in Unsettled
                            /\ wd[fin[s].r].taken = 0 /\ wd[fin[s].r].booked = 0
<1>1. /\ fin[s].r \in Requests /\ Owner(s) \in Members /\ Amount(s) \in Nat /\ TypeInv
    BY HandlerFacts DEF DeployedInv, DualInv
<1>2. mem[Owner(s)].bal \in Nat
    BY <1>1, Types, MemFields DEF DeployedInv, TypeInv, Funded
<1>3. fin[s].debit \in Nat
    BY <1>1 DEF DeployedInv, DebitState
<1>4. Working(s) => Own(s) = "processing"
    BY DEF DeployedInv, DualInv, BufferState, Own
<1>5. Working(s) => /\ wd[fin[s].r].status \in Unsettled
                    /\ wd[fin[s].r].taken = 0 /\ wd[fin[s].r].booked = 0
    BY <1>1 DEF DeployedInv, LocksHeld, RowsSettled, Unsettled
<1>6. QED BY <1>1, <1>2, <1>3, <1>4, <1>5

\* A row no handler works on is not locked, and conversely.
LEMMA Unlocked ==
    ASSUME Ambient, DeployedInv, NEW r \in Requests, ~RowLocked(r)
    PROVE  \A s \in Supers : Working(s) => fin[s].r # r
BY DEF DeployedInv, DualInv, BufferState, RowLocked

\* The outcome of a handler that commits: its status, what was taken, what was
\* booked.  This is the decision of WithdrawalContract.
Outcome(s, st, cost, k) ==
    /\ st \in {"paid", "investigating", "admin_approved", "rejected", "aml_review"}
    /\ cost = IF st \in {"paid", "investigating"} THEN Amount(s) ELSE 0
    /\ k = IF st = "paid" THEN 1 ELSE 0
    /\ cost <= mem[Owner(s)].bal
    /\ RowIs(wd', wd, fin[s].r, st, wd[fin[s].r].adminBy, s, cost, k)
    /\ MemIs(mem', mem, Owner(s), mem[Owner(s)].bal - cost,
             IF st = "paid" THEN TRUE ELSE mem[Owner(s)].hot,
             IF st = "paid" THEN FALSE ELSE mem[Owner(s)].waived, mem[Owner(s)].blocked)
    /\ IF st = "paid" THEN IsPaidOut(mem', mem, Owner(s), mem[Owner(s)].bal - cost)
                      ELSE IsBalance(mem', mem, Owner(s), mem[Owner(s)].bal - cost)
    /\ Idle(s) /\ Working(s) /\ cost \in {0, fin[s].debit}

\* A committing handler decides once: what it takes is what its status says.
LEMMA Decision ==
    ASSUME Ambient, DeployedInv, NEW s \in Supers, fin[s].pc # "idle", Settles(s) \/ Pays(s)
    PROVE  \E st, cost, k : Outcome(s, st, cost, k)
<1> DEFINE r == fin[s].r
<1>1. /\ r \in Requests /\ Owner(s) \in Members /\ Amount(s) \in Nat
      /\ mem[Owner(s)].bal \in Nat /\ fin[s].debit \in Nat /\ TypeInv
      /\ Working(s) => /\ Own(s) = "processing" /\ wd[r].status \in Unsettled
                       /\ wd[r].taken = 0 /\ wd[r].booked = 0
    BY WorkingFacts DEF DeployedInv, DualInv
<1>2. Claimer(s) = s /\ Owner(s) = wd[r].owner
    BY DEF Claimer, Owner
<1>3. /\ fin[s].debit = IF fin[s].pc \in {"send", "call", "record", "settle"} THEN Amount(s) ELSE 0
      /\ fin[s].debit <= mem[Owner(s)].bal
    BY <1>1 DEF DeployedInv, DebitState, Funded
<1>4. ASSUME NEW st \in {"investigating", "admin_approved", "rejected", "aml_review"},
             NEW d \in Int, Idle(s), Working(s), Stored(r, s, st, fin[s].debit + d),
             fin[s].debit + d = IF st = "investigating" THEN fin[s].debit ELSE 0,
             st = "investigating" => fin[s].debit = Amount(s)
      PROVE  Outcome(s, st, fin[s].debit + d, 0)
    <2> DEFINE cost == fin[s].debit + d
    <2>1. cost \in Nat /\ cost = (IF st = "investigating" THEN Amount(s) ELSE 0)
          /\ cost <= mem[Owner(s)].bal /\ cost \in {0, fin[s].debit}
        BY <1>1, <1>3, <1>4
    <2>2. Stored(r, s, st, cost) /\ wd[r].taken + cost = cost /\ wd[r].booked = 0
        BY <1>1, <1>4, <2>1
    <2> HIDE DEF cost
    <2>3. RowIs(wd', wd, r, st, wd[r].adminBy, s, cost, 0)
        BY <2>2 DEF Stored
    <2>4. MemIs(mem', mem, Owner(s), mem[Owner(s)].bal - cost, mem[Owner(s)].hot,
                mem[Owner(s)].waived, mem[Owner(s)].blocked)
          /\ IsBalance(mem', mem, Owner(s), mem[Owner(s)].bal - cost)
        BY <1>2, <2>2 DEF Stored
    <2>5. st # "paid"
        BY <1>4
    <2>6. Outcome(s, st, cost, 0)
        BY <1>4, <2>1, <2>3, <2>4, <2>5 DEF Outcome
    <2>7. QED BY <2>6 DEF cost
<1>5. CASE Settles(s)
    <2>1. PICK st \in Statuses \ {"none"}, d \in Int :
             SettlesAs(s, st, d) /\ Stored(r, s, st, fin[s].debit + d)
        BY <1>2, <1>5 DEF Settles
    <2>2. Idle(s) /\ Working(s)
        BY <1>5, <2>1 DEF Settles, SettlesAs, Working
    <2>3. CASE fin[s].pc = "gate" /\ st = IfProcessing(s, "aml_review") /\ d = 0
        <3>1. st = "aml_review" /\ fin[s].debit + d = 0
            BY <1>1, <1>3, <2>2, <2>3 DEF IfProcessing
        <3>2. QED BY <1>4, <2>1, <2>2, <3>1
    <2>4. CASE fin[s].pc = "debit" /\ st = IfProcessing(s, "rejected") /\ d = 0
        <3>1. st = "rejected" /\ fin[s].debit + d = 0
            BY <1>1, <1>3, <2>2, <2>4 DEF IfProcessing
        <3>2. QED BY <1>4, <2>1, <2>2, <3>1
    <2>5. CASE fin[s].pc = "settle" /\ st = "investigating" /\ d = 0
        <3>1. fin[s].debit = Amount(s) /\ fin[s].debit + d = fin[s].debit
            BY <1>1, <1>3, <2>5
        <3>2. QED BY <1>4, <2>1, <2>2, <2>5, <3>1
    <2>6. CASE fin[s].pc = "settle" /\ st = "admin_approved" /\ d = -Amount(s)
        <3>1. fin[s].debit + d = 0
            BY <1>1, <1>3, <2>6
        <3>2. QED BY <1>4, <2>1, <2>2, <2>6, <3>1
    <2>7. QED BY <2>1, <2>3, <2>4, <2>5, <2>6 DEF SettlesAs
<1>6. CASE Pays(s)
    <2> DEFINE cost == fin[s].debit
    <2>1. Idle(s) /\ Working(s) /\ cost = Amount(s) /\ cost <= mem[Owner(s)].bal
        BY <1>3, <1>6 DEF Pays, Paid, Working
    <2>2. IfProcessing(s, "paid") = "paid" /\ Own(s) = "processing"
        BY <1>1, <2>1 DEF IfProcessing
    <2>3. wd[r].taken + fin[s].debit = cost /\ wd[r].booked + 1 = 1
        BY <1>1, <2>1
    <2>4. RowIs(wd', wd, r, "paid", wd[r].adminBy, s, cost, 1)
        BY <1>6, <2>2, <2>3 DEF Pays, Paid
    <2>5. MemIs(mem', mem, Owner(s), mem[Owner(s)].bal - cost, TRUE, FALSE, mem[Owner(s)].blocked)
          /\ IsPaidOut(mem', mem, Owner(s), mem[Owner(s)].bal - cost)
        BY <1>6 DEF Pays, Paid
    <2>6. Outcome(s, "paid", cost, 1)
        BY <2>1, <2>4, <2>5 DEF Outcome
    <2>7. QED BY <2>6
<1>7. QED BY <1>5, <1>6

DepRest == RowsSettled /\ LocksHeld /\ DebitState /\ Funded

\* A handler that moves on, ends or loses its transaction leaves the rows alone.
LEMMA QuietHandler ==
    ASSUME Ambient, DeployedInv, NEW s \in Supers, fin[s].pc # "idle",
           Moves(s) \/ Quits(s) \/ Orphans(s)
    PROVE  DepRest'
<1>1. wd' = wd /\ mem' = mem /\ \A t \in Supers \ {s} : fin'[t] = fin[t]
    BY DEF Moves, Quits, Orphans, Idle, FinIs
<1>2. Working(s)' => Working(s) /\ fin'[s].r = fin[s].r
    BY DEF Moves, Quits, Orphans, Idle, FinIs, Working
<1>3. fin'[s].debit = 0 \/ (fin'[s].debit = fin[s].debit /\ fin'[s].r = fin[s].r)
    BY DEF Moves, Quits, Orphans, Idle, FinIs
<1>4. fin'[s].debit = IF fin'[s].pc \in {"send", "call", "record", "settle"} THEN Amount(s)' ELSE 0
    <2>1. CASE Moves(s)
        <3>1. PICK pc \in FinPcs, cov \in BOOLEAN, res \in Results :
                 /\ \/ pc = "debit" /\ fin[s].pc = "gate"
                    \/ pc \in {"call", "record", "settle"} /\ fin[s].pc \in {"send", "call", "record"}
                 /\ FinIs(fin', fin, s, pc, fin[s].r, fin[s].ov, cov, res, fin[s].st, fin[s].debit)
            BY <2>1 DEF Moves
        <3>2. Amount(s)' = Amount(s)
            BY <1>1, <3>1 DEF Amount, FinIs
        <3>3. QED BY <3>1, <3>2 DEF FinIs, DeployedInv, DebitState
    <2>2. CASE Quits(s) \/ Orphans(s)
        BY <2>2 DEF Quits, Orphans, Idle, FinIs
    <2>3. QED BY <2>1, <2>2
<1>5. RowsSettled'
    BY <1>1 DEF DeployedInv, RowsSettled
<1>6. LocksHeld'
    BY <1>1, <1>2 DEF DeployedInv, LocksHeld, OneFinalizer, Working
<1>7. DebitState'
    BY <1>1, <1>4 DEF DeployedInv, DebitState, Amount
<1>8. Funded'
    BY <1>1, <1>3 DEF DeployedInv, Funded, Owner
<1>9. QED BY <1>5, <1>6, <1>7, <1>8 DEF DepRest

\* A claim takes the row's lock.
LEMMA ClaimLocks ==
    ASSUME Ambient, DeployedInv, NEW s \in Supers, fin[s].pc # "idle", Claims(s)
    PROVE  DepRest' /\ wd' = wd /\ mem' = mem
<1>1. PICK f \in FinRow : /\ f.pc = "gate" /\ f.r = fin[s].r /\ f.debit = fin[s].debit
                          /\ Stated(s, f, s, "processing", 0)
    BY DEF Claims
<1>2. /\ wd' = wd /\ mem' = mem /\ \A t \in Supers \ {s} : fin'[t] = fin[t]
      /\ fin'[s].pc = "gate" /\ fin'[s].r = fin[s].r /\ fin'[s].debit = fin[s].debit + 0
    BY <1>1 DEF Stated, FinIs
<1>3. fin[s].debit = 0 /\ fin'[s].debit = 0
    BY <1>2 DEF Claims, DeployedInv, DebitState
<1>4. \A t \in Supers : Working(t) => fin[t].r # fin[s].r
    BY WorkingFacts, Unlocked DEF Claims
<1>5. wd[fin[s].r].status \in Unsettled
    BY DEF Claims, Claimable, Unsettled
<1>6. LocksHeld'
    BY <1>2, <1>4, <1>5 DEF DeployedInv, LocksHeld, OneFinalizer, Working
<1>7. RowsSettled' /\ DebitState' /\ Funded'
    BY <1>2, <1>3 DEF DeployedInv, RowsSettled, DebitState, Funded, Owner, Amount
<1>8. QED BY <1>2, <1>6, <1>7 DEF DepRest

\* A debit takes the wallet's lock and is covered.
LEMMA DebitLocks ==
    ASSUME Ambient, DeployedInv, NEW s \in Supers, fin[s].pc # "idle", Debits(s)
    PROVE  DepRest' /\ wd' = wd /\ mem' = mem
<1>1. PICK f \in FinRow : /\ f.pc = "send" /\ f.r = fin[s].r /\ f.debit = fin[s].debit
                          /\ Stated(s, f, Claimer(s), Own(s), Amount(s))
    BY DEF Debits
<1>2. /\ wd' = wd /\ mem' = mem /\ \A t \in Supers \ {s} : fin'[t] = fin[t]
      /\ fin'[s].pc = "send" /\ fin'[s].r = fin[s].r /\ fin'[s].debit = fin[s].debit + Amount(s)
    BY <1>1 DEF Stated, FinIs
<1>3. fin[s].debit = 0 /\ fin'[s].debit = Amount(s) /\ Amount(s) \in Nat
    BY <1>2, WorkingFacts DEF Debits, DeployedInv, DebitState
<1>4. \A t \in Supers : fin[t].debit # 0 => Owner(t) # Owner(s)
    BY DEF Debits, WalletLocked, Owner
<1>5. LocksHeld' /\ RowsSettled'
    BY <1>2 DEF Debits, DeployedInv, LocksHeld, OneFinalizer, Working, RowsSettled
<1>6. DebitState'
    BY <1>2, <1>3 DEF DeployedInv, DebitState, Amount
<1>7. Funded'
    BY <1>2, <1>3, <1>4 DEF Debits, DeployedInv, Funded, Owner
<1>8. QED BY <1>2, <1>5, <1>6, <1>7 DEF DepRest

\* A decision frees both locks and leaves taken and booked as its status says.
LEMMA DecisionKeeps ==
    ASSUME Ambient, DeployedInv, NEW s \in Supers, fin[s].pc # "idle",
           NEW st, NEW cost, NEW k, Outcome(s, st, cost, k)
    PROVE  DepRest'
<1> DEFINE r == fin[s].r
           m == Owner(s)
<1>1. /\ r \in Requests /\ m \in Members /\ Amount(s) \in Nat /\ mem[m].bal \in Nat
      /\ fin[s].debit \in Nat /\ TypeInv
    BY WorkingFacts DEF DeployedInv, DualInv
<1>2. /\ \A q \in Requests \ {r} : wd'[q] = wd[q]
      /\ wd'[r].owner = m /\ wd'[r].amount = Amount(s)
      /\ wd'[r].status = st /\ wd'[r].taken = cost /\ wd'[r].booked = k
    BY DEF Outcome, RowIs, Owner, Amount
<1>3. /\ \A p \in Members \ {m} : mem'[p] = mem[p]
      /\ mem'[m].bal = mem[m].bal - cost
    BY DEF Outcome, MemIs
<1>4. /\ \A t \in Supers \ {s} : fin'[t] = fin[t]
      /\ fin'[s].pc = "idle" /\ fin'[s].debit = 0
    BY DEF Outcome, Idle, FinIs
<1>5. /\ st \in {"paid", "investigating", "admin_approved", "rejected", "aml_review"}
      /\ cost = IF st \in {"paid", "investigating"} THEN Amount(s) ELSE 0
      /\ k = IF st = "paid" THEN 1 ELSE 0
      /\ cost <= mem[m].bal /\ Working(s) /\ cost \in {0, fin[s].debit}
    BY DEF Outcome
<1>6. RowsSettled'
    BY <1>2, <1>5 DEF DeployedInv, RowsSettled
<1>7. \A t \in Supers \ {s} : Working(t) => fin[t].r # r
    BY <1>5 DEF DeployedInv, LocksHeld, OneFinalizer
<1>8. LocksHeld'
    <2>1. \A t \in Supers : Working(t)' => t # s /\ Working(t) /\ fin'[t].r = fin[t].r
        BY <1>4 DEF Working
    <2>2. \A t \in Supers : Working(t) => fin[t].r \in Requests
        BY <1>1 DEF TypeInv, Refs, HandlersRefer, Working
    <2>3. QED BY <1>2, <1>7, <2>1, <2>2 DEF DeployedInv, LocksHeld, OneFinalizer
<1>9. DebitState'
    <2>1. \A t \in Supers \ {s} : fin[t].pc # "idle" => wd'[fin[t].r].amount = wd[fin[t].r].amount
        BY <1>1, <1>2 DEF TypeInv, Refs, HandlersRefer, Amount
    <2>2. QED BY <1>4, <2>1 DEF DeployedInv, DebitState, Amount
<1>10. Funded'
    <2>1. \A t \in Supers \ {s} : fin[t].debit # 0 =>
             wd'[fin[t].r].owner = wd[fin[t].r].owner /\ Owner(t) \in Members
        BY <1>1, <1>2 DEF TypeInv, Refs, HandlersRefer, OwnersExist, Owner, DeployedInv, DebitState
    <2>2. \A p \in Members : mem'[p].bal >= 0
        BY <1>1, <1>3, <1>5 DEF DeployedInv, Funded
    <2>3. \A t \in Supers \ {s} : fin[t].debit # 0 /\ Owner(t) = m => cost = 0
        BY <1>5 DEF DeployedInv, Funded
    <2>4. \A t \in Supers \ {s} : fin[t].debit # 0 => mem'[Owner(t)].bal >= fin[t].debit
        BY <1>1, <1>3, <2>1, <2>3 DEF DeployedInv, Funded
    <2>5. \A t \in Supers : fin'[t].debit # 0 =>
             t # s /\ fin'[t].debit = fin[t].debit /\ Owner(t)' = Owner(t)
        BY <1>4, <2>1 DEF Owner
    <2>6. QED BY <2>2, <2>4, <2>5 DEF DeployedInv, Funded
<1>11. QED BY <1>6, <1>8, <1>9, <1>10 DEF DepRest

\* The humans, the poller and the other flows respect both locks.
LEMMA RowsStepDeployed ==
    ASSUME Ambient, DeployedInv, RowsStep, fin' = fin
    PROVE  DepRest'
<1>1. /\ wd \in WdType /\ mem \in MemType /\ TypeInv /\ HandlersRefer /\ OwnersExist
    BY Types DEF DeployedInv, DualInv, TypeInv, Refs
<1>2. \A s \in Supers : Working(s) => fin[s].r \in Requests /\ wd[fin[s].r].status # "none"
    BY <1>1 DEF HandlersRefer, Working
<1>3. \A s \in Supers : fin[s].debit # 0 => Working(s)
    BY DEF DeployedInv, DebitState, Working
\* One row changes, no handler works on it, and it is settled as it says.
<1>4. ASSUME NEW r \in Requests, \A q \in Requests \ {r} : wd'[q] = wd[q], mem' = mem,
             \A s \in Supers : Working(s) => fin[s].r # r,
             wd'[r].status \in {"pending", "admin_approved", "rejected"},
             wd'[r].taken = 0, wd'[r].booked = 0
      PROVE  DepRest'
    <2>1. \A s \in Supers : Working(s) => wd'[fin[s].r] = wd[fin[s].r]
        BY <1>2, <1>4
    <2>2. RowsSettled'
        BY <1>4 DEF DeployedInv, RowsSettled
    <2>3. LocksHeld'
        BY <1>4, <2>1 DEF DeployedInv, LocksHeld, OneFinalizer, Working
    <2>4. DebitState'
        BY <1>4, <2>1 DEF DeployedInv, DebitState, Amount, Working
    <2>5. Funded'
        BY <1>3, <1>4, <2>1 DEF DeployedInv, Funded, Owner
    <2>6. QED BY <2>2, <2>3, <2>4, <2>5 DEF DepRest
\* Only balances change, and no locked one.
<1>5. ASSUME wd' = wd, mem' \in MemType, \A m \in Members : mem'[m].bal >= 0,
             \A m \in Members : WalletLocked(m) => mem'[m].bal = mem[m].bal
      PROVE  DepRest'
    <2>1. RowsSettled' /\ LocksHeld' /\ DebitState'
        BY <1>5 DEF DeployedInv, RowsSettled, LocksHeld, OneFinalizer, Working, DebitState, Amount
    <2>2. \A s \in Supers : fin[s].debit # 0 => WalletLocked(Owner(s)) /\ Owner(s) \in Members
        BY <1>1, <1>2, <1>3 DEF WalletLocked, Owner, OwnersExist
    <2>3. Funded'
        BY <1>5, <2>2 DEF DeployedInv, Funded, Owner
    <2>4. QED BY <2>1, <2>3 DEF DepRest
<1>6. CASE wd' = wd /\ mem' = mem
    BY <1>1, <1>5, <1>6 DEF DeployedInv, Funded
<1>7. ASSUME NEW r \in Requests, Asks(r) PROVE DepRest'
    BY <1>2, <1>4, <1>7 DEF Asks
<1>8. ASSUME NEW r \in Requests, Rejects(r) PROVE DepRest'
    <2>1. \A s \in Supers : Working(s) => fin[s].r # r
        BY <1>8, Unlocked DEF Rejects
    <2>2. wd[r].taken = 0 /\ wd[r].booked = 0
        BY <1>8 DEF Rejects, DeployedInv, RowsSettled
    <2>3. QED BY <1>4, <1>8, <2>1, <2>2 DEF Rejects, RowIs
<1>9. ASSUME NEW r \in Requests, NEW a \in Admins, Approves(a, r) PROVE DepRest'
    <2>1. \A s \in Supers : Working(s) => fin[s].r # r
        BY <1>9, Unlocked DEF Approves
    <2>2. wd[r].taken = 0 /\ wd[r].booked = 0
        BY <1>9 DEF Approves, DeployedInv, RowsSettled
    <2>3. QED BY <1>4, <1>9, <2>1, <2>2 DEF Approves, RowIs
<1>10. ASSUME NEW r \in Requests, PolledPaid(r) PROVE DepRest'
    <2>1. wd' = wd
        BY <1>10 DEF PolledPaid, DeployedInv, RowsSettled
    <2>2. wd[r].owner \in Members
        BY <1>1, <1>10 DEF PolledPaid, OwnersExist
    <2>3. mem' \in MemType /\ \A m \in Members : mem'[m].bal = mem[m].bal
        BY <1>10, <2>2 DEF PolledPaid, MemIs
    <2>4. QED BY <1>5, <2>1, <2>3 DEF DeployedInv, Funded
<1>11. ASSUME NEW r \in Requests, PolledRefund(r) PROVE FALSE
    BY <1>11 DEF PolledRefund, DeployedInv, RowsSettled
<1>12. ASSUME NEW m \in Members, Elsewhere(m) PROVE DepRest'
    <2>1. mem[m].bal \in Int /\ \A p \in Members : mem[p].bal >= 0
        BY <1>1, MemFields DEF DeployedInv, Funded
    <2>2. /\ wd' = wd /\ mem' \in MemType
          /\ \A p \in Members : mem'[p].bal >= 0
          /\ \A p \in Members : WalletLocked(p) => mem'[p].bal = mem[p].bal
        BY <1>12, <2>1 DEF Elsewhere
    <2>3. QED BY <1>5, <2>2
<1>13. QED BY <1>6, <1>7, <1>8, <1>9, <1>10, <1>11, <1>12 DEF RowsStep

\* Every step of the deployed program keeps the locks, the debits and the funds.
LEMMA DeployedStep ==
    ASSUME Ambient, DeployedInv, [Next]_vars
    PROVE  DeployedInv'
<1>1. DualInv' /\ TypeInv
    BY DualStep DEF DeployedInv, DualInv
<1>2. CASE Outside
    <2>1. RowsStep /\ fin' = fin
        BY <1>1, <1>2, OutsideEffect
    <2>2. QED BY <1>1, <2>1, RowsStepDeployed DEF DepRest, DeployedInv
<1>3. ASSUME NEW s \in Supers, NEW r \in Requests, NEW ov \in BOOLEAN, BeginFinalize(s, r, ov)
      PROVE  DeployedInv'
    <2>1. Begins(s)
        BY <1>1, <1>3, BeginEffect
    <2>2. /\ wd' = wd /\ mem' = mem /\ \A t \in Supers \ {s} : fin'[t] = fin[t]
          /\ fin'[s].pc = "claim" /\ fin'[s].debit = 0
        BY <2>1 DEF Begins, FinIs
    <2>3. RowsSettled' /\ LocksHeld' /\ DebitState' /\ Funded'
        BY <2>2 DEF DeployedInv, RowsSettled, LocksHeld, OneFinalizer, Working, DebitState, Amount,
                    Funded, Owner
    <2>4. QED BY <1>1, <2>3 DEF DeployedInv
<1>4. ASSUME NEW s \in Supers, Handler(s) PROVE DeployedInv'
    <2>1. Effect(s) /\ fin[s].pc # "idle"
        BY <1>1, <1>4, HandlerEffect DEF Effect
    <2>2. DepRest'
        BY <2>1, QuietHandler, ClaimLocks, DebitLocks, Decision, DecisionKeeps DEF Effect
    <2>3. QED BY <1>1, <2>2 DEF DepRest, DeployedInv
<1>5. CASE UNCHANGED vars
    BY <1>1, <1>5 DEF vars, DeployedInv, RowsSettled, LocksHeld, OneFinalizer, Working, DebitState,
                      Amount, Funded, Owner
<1>6. QED BY <1>2, <1>3, <1>4, <1>5, NextSteps

\* In the first state nothing is asked, locked or taken.
LEMMA DeployedInit ==
    ASSUME Init
    PROVE  DeployedInv
<1>1. DualInv
    BY DualInit
<1>2. \A r \in Requests : wd[r] = NoRow
    BY DEF Init
<1>3. \A s \in Supers : fin[s] = IdleFin
    BY DEF Init
<1>4. \A m \in Members : mem[m].bal = Balance0
    BY DEF Init
<1>5. RowsSettled /\ LocksHeld /\ DebitState /\ Funded
    BY <1>2, <1>3, <1>4, FirstRows, ConstantsAssumption
       DEF RowsSettled, LocksHeld, OneFinalizer, Working, DebitState, Funded, FinRowIs
<1>6. QED BY <1>1, <1>5 DEF DeployedInv

\* The deployed invariant holds in every state.
LEMMA DeployedAlways ==
    ASSUME Ambient
    PROVE  Spec => []DeployedInv
<1>1. Init => DeployedInv
    BY DeployedInit
<1>2. DeployedInv /\ [Next]_vars => DeployedInv'
    BY DeployedStep
<1>3. QED BY <1>1, <1>2, PTL DEF Spec

\* In the deployed program a paid request, or one under investigation, holds its
\* amount once and any other holds nothing.
THEOREM DeployedTaken ==
    ASSUME Ambient
    PROVE  Spec => []TakenMatchesStatus
<1>1. DeployedInv => TakenMatchesStatus
    BY DEF DeployedInv, RowsSettled, TakenMatchesStatus
<1>2. QED BY <1>1, DeployedAlways, PTL

\* In the deployed program each paid request is booked exactly once.
THEOREM DeployedBooked ==
    ASSUME Ambient
    PROVE  Spec => []BookedOnce
<1>1. DeployedInv => BookedOnce
    BY DEF DeployedInv, RowsSettled, BookedOnce
<1>2. QED BY <1>1, DeployedAlways, PTL

\* In the deployed program two handlers never work on one request.
THEOREM DeployedOneFinalizer ==
    ASSUME Ambient
    PROVE  Spec => []OneFinalizer
<1>1. DeployedInv => OneFinalizer
    BY DEF DeployedInv, LocksHeld
<1>2. QED BY <1>1, DeployedAlways, PTL

\* In the deployed program no wallet is overdrawn, counting what open
\* transactions are about to take.
THEOREM DeployedSolvent ==
    ASSUME Ambient
    PROVE  Spec => []Solvent
<1>1. DeployedInv => Solvent
    BY DEF DeployedInv, Funded, Solvent
<1>2. QED BY <1>1, DeployedAlways, PTL

-----------------------------------------------------------------------------
(* What becomes of a request that is held, and of one that is decided. *)

\* A handler that works on a held request was given the override.
HoldInv ==
    DeployedInv /\ \A s \in Supers : Working(s) /\ wd[fin[s].r].status = "aml_review" => fin[s].ov

\* Outside the handlers a request is asked for, approved or rejected, and only
\* while no handler works on it.
LEMMA RowsMove ==
    ASSUME Ambient, DeployedInv, RowsStep, NEW r \in Requests, wd'[r].status # wd[r].status
    PROVE  /\ \/ wd[r].status \in {"none", "pending"}
              \/ wd[r].status \in Unsettled /\ wd'[r].status = "rejected"
           /\ \A s \in Supers : Working(s) => fin[s].r # r
<1>1. wd \in WdType /\ \A s \in Supers : Working(s) => wd[fin[s].r].status \in Unsettled
    BY Types DEF DeployedInv, DualInv, TypeInv, LocksHeld
<1>2. ASSUME NEW q \in Requests, Asks(q) PROVE q = r /\ wd[r].status = "none"
    BY <1>2 DEF Asks
<1>3. ASSUME NEW q \in Requests, Rejects(q)
      PROVE  q = r /\ ~RowLocked(r) /\ wd[r].status \in Unsettled /\ wd'[r].status = "rejected"
    BY <1>3 DEF Rejects, RowIs, Unsettled
<1>4. ASSUME NEW q \in Requests, NEW a \in Admins, Approves(a, q)
      PROVE  q = r /\ ~RowLocked(r) /\ wd[r].status = "pending"
    BY <1>4 DEF Approves, RowIs
<1>5. ASSUME NEW q \in Requests, PolledPaid(q) \/ PolledRefund(q) PROVE FALSE
    BY <1>5 DEF PolledPaid, PolledRefund, DeployedInv, RowsSettled
<1>6. (\E m \in Members : Elsewhere(m)) => FALSE
    BY DEF Elsewhere
<1>7. PICK q \in Requests : Asks(q) \/ Rejects(q) \/ \E a \in Admins : Approves(a, q)
    BY <1>5, <1>6 DEF RowsStep
<1>8. CASE Asks(q)
    BY <1>1, <1>2, <1>8 DEF Unsettled
<1>9. CASE Rejects(q) \/ \E a \in Admins : Approves(a, q)
    BY <1>3, <1>4, <1>9, Unlocked
<1>10. QED BY <1>7, <1>8, <1>9

\* A handler either leaves the rows alone or decides the request it works on.
LEMMA HandlerMoves ==
    ASSUME Ambient, DeployedInv, NEW s \in Supers, Effect(s)
    PROVE  \/ wd' = wd
           \/ /\ Working(s) /\ Idle(s) /\ \A q \in Requests \ {fin[s].r} : wd'[q] = wd[q]
              /\ wd[fin[s].r].status \in Unsettled
<1>1. CASE Settles(s) \/ Pays(s)
    <2>1. PICK st, cost, k : Outcome(s, st, cost, k)
        BY <1>1, Decision DEF Effect
    <2>2. QED BY <2>1, WorkingFacts DEF Outcome, RowIs, Effect
<1>2. CASE Moves(s) \/ Quits(s) \/ Orphans(s)
    BY <1>2 DEF Moves, Quits, Orphans
<1>3. CASE Claims(s) \/ Debits(s)
    BY <1>3, ClaimLocks, DebitLocks DEF Effect
<1>4. QED BY <1>1, <1>2, <1>3 DEF Effect

\* A handler works from its claim on, which needs the override on a held request,
\* and keeps it.
LEMMA OverrideKept ==
    ASSUME Ambient, HoldInv, NEW s \in Supers, Effect(s), Working(s)',
           wd'[fin'[s].r].status = "aml_review"
    PROVE  fin'[s].ov
<1>1. DeployedInv
    BY DEF HoldInv
<1>2. CASE Claims(s)
    <2>1. wd' = wd
        BY <1>1, <1>2, ClaimLocks DEF Effect
    <2>2. fin'[s].r = fin[s].r /\ fin'[s].ov = fin[s].ov /\ wd[fin[s].r].status \in Claimable(fin[s].ov)
        BY <1>2 DEF Claims, Stated, FinIs
    <2>3. QED BY <2>1, <2>2 DEF Claimable
<1>3. CASE Debits(s)
    <2>1. wd' = wd
        BY <1>1, <1>3, DebitLocks DEF Effect
    <2>2. fin'[s].r = fin[s].r /\ fin'[s].ov = fin[s].ov /\ Working(s)
        BY <1>3 DEF Debits, Stated, FinIs, Working
    <2>3. QED BY <2>1, <2>2 DEF HoldInv
<1>4. CASE Moves(s) \/ Quits(s) \/ Orphans(s)
    <2>1. wd' = wd /\ fin'[s].r = fin[s].r /\ fin'[s].ov = fin[s].ov /\ Working(s)
        BY <1>4 DEF Moves, Quits, Orphans, Idle, FinIs, Working
    <2>2. QED BY <2>1 DEF HoldInv
<1>5. CASE Settles(s) \/ Pays(s)
    BY <1>5 DEF Settles, Pays, Paid, Idle, FinIs, Working
<1>6. QED BY <1>2, <1>3, <1>4, <1>5 DEF Effect

\* The override stays with those who work on held requests.
LEMMA HoldStep ==
    ASSUME Ambient, HoldInv, [Next]_vars
    PROVE  HoldInv'
<1>1. DeployedInv /\ DeployedInv' /\ TypeInv
    BY DeployedStep DEF HoldInv, DeployedInv, DualInv
<1>2. \A s \in Supers : Working(s) => fin[s].r \in Requests
    BY <1>1 DEF TypeInv, Refs, HandlersRefer, Working
<1>3. CASE Outside
    <2>1. RowsStep /\ fin' = fin
        BY <1>1, <1>3, OutsideEffect
    <2>2. \A s \in Supers : Working(s) => wd'[fin[s].r].status = wd[fin[s].r].status
        BY <1>1, <1>2, <2>1, RowsMove
    <2>3. QED BY <1>1, <2>1, <2>2 DEF HoldInv, Working
<1>4. ASSUME NEW s \in Supers, NEW r \in Requests, NEW ov \in BOOLEAN, BeginFinalize(s, r, ov)
      PROVE  HoldInv'
    <2>1. Begins(s)
        BY <1>1, <1>4, BeginEffect
    <2>2. wd' = wd /\ fin'[s].pc = "claim" /\ \A t \in Supers \ {s} : fin'[t] = fin[t]
        BY <2>1 DEF Begins, FinIs
    <2>3. QED BY <1>1, <2>2 DEF HoldInv, Working
<1>5. ASSUME NEW s \in Supers, Handler(s) PROVE HoldInv'
    <2>1. Effect(s)
        BY <1>1, <1>5, HandlerEffect
    <2>2. \A t \in Supers \ {s} : fin'[t] = fin[t]
        BY <2>1 DEF Effect, Moves, Quits, Orphans, Claims, Debits, Settles, Pays, Paid, Stated, Idle, FinIs
    <2>3. \A t \in Supers \ {s} : Working(t) => wd'[fin[t].r].status = wd[fin[t].r].status
        BY <1>1, <1>2, <2>1, HandlerMoves DEF DeployedInv, LocksHeld, OneFinalizer
    <2>4. QED BY <1>1, <2>1, <2>2, <2>3, OverrideKept DEF HoldInv, Working
<1>6. CASE UNCHANGED vars
    BY <1>1, <1>6 DEF vars, HoldInv, Working
<1>7. QED BY <1>3, <1>4, <1>5, <1>6, NextSteps

\* Who may move a request, and from where.
LEMMA StatusMoves ==
    ASSUME Ambient, HoldInv, [Next]_vars, NEW r \in Requests, wd'[r].status # wd[r].status
    PROVE  \/ wd[r].status \in {"none", "pending"}
           \/ wd[r].status \in Unsettled /\ wd'[r].status = "rejected"
           \/ /\ wd[r].status \in Unsettled
              /\ \E s \in Supers : fin[s].r = r /\ fin'[s] # fin[s]
                                   /\ (wd[r].status = "aml_review" => fin[s].ov)
<1>1. DeployedInv /\ TypeInv
    BY DEF HoldInv, DeployedInv, DualInv
<1>2. CASE Outside
    BY <1>1, <1>2, OutsideEffect, RowsMove
<1>3. ASSUME NEW s \in Supers, NEW q \in Requests, NEW ov \in BOOLEAN, BeginFinalize(s, q, ov)
      PROVE  FALSE
    BY <1>3 DEF BeginFinalize
<1>4. CASE \E s \in Supers : Handler(s)
    <2>1. PICK s \in Supers : Effect(s)
        BY <1>1, <1>4, HandlerEffect
    <2>2. Working(s) /\ Idle(s) /\ fin[s].r = r /\ wd[r].status \in Unsettled
        BY <1>1, <2>1, HandlerMoves
    <2>3. fin'[s] # fin[s]
        BY <2>2 DEF Idle, FinIs, Working
    <2>4. QED BY <2>2, <2>3 DEF HoldInv
<1>5. CASE UNCHANGED vars
    BY <1>5 DEF vars
<1>6. QED BY <1>2, <1>3, <1>4, <1>5, NextSteps

\* The invariant of the holds, in every state.
LEMMA HoldAlways ==
    ASSUME Ambient
    PROVE  Spec => []HoldInv
<1>1. Init => HoldInv
    BY DeployedInit, FirstRows DEF Init, HoldInv, Working, FinRowIs
<1>2. HoldInv /\ [Next]_vars => HoldInv'
    BY HoldStep
<1>3. QED BY <1>1, <1>2, PTL DEF Spec

\* In the deployed program a request held for AML review leaves the hold by a
\* rejection or by the handler of a super admin who gave the override, however
\* the reads of the others lie.
THEOREM DeployedHold ==
    ASSUME Ambient
    PROVE  Spec => AmlHoldNeedsOverride
<1>1. ASSUME HoldInv, [Next]_vars
      PROVE  \A r \in Requests :
                wd[r].status = "aml_review" /\ wd'[r].status \notin {"aml_review", "rejected"}
                => \E s \in Supers : fin[s].r = r /\ fin[s].ov /\ fin'[s] # fin[s]
    BY <1>1, StatusMoves
<1>2. QED BY <1>1, HoldAlways, PTL DEF Spec, AmlHoldNeedsOverride

\* In the deployed program paid and rejected are final: no handler that read the
\* request before, no poll and no rejection moves it again.
THEOREM DeployedFinal ==
    ASSUME Ambient
    PROVE  Spec => DecidedIsFinal
<1>1. ASSUME HoldInv, [Next]_vars
      PROVE  \A r \in Requests :
                wd[r].status \in {"paid", "rejected"} => wd'[r].status = wd[r].status
    BY <1>1, StatusMoves DEF Unsettled
<1>2. QED BY <1>1, HoldAlways, PTL DEF Spec, DecidedIsFinal

-----------------------------------------------------------------------------
(* Refinement: every step maps to a step of WithdrawalContract or leaves    *)
(* the committed rows alone.                                                *)

\* The fields of a rewritten row determine it.
LEMMA OneRow ==
    ASSUME NEW w \in WdType, NEW n, NEW p, NEW r \in Requests, NEW st, NEW a, NEW b, NEW c, NEW k,
           RowIs(n, w, r, st, a, b, c, k), RowIs(p, w, r, st, a, b, c, k)
    PROVE  n = p
<1>1. n[r] = p[r]
    BY DEF WdRow, WdType, RowIs
<1>2. QED BY <1>1 DEF RowIs, WdType

\* A row with the fields of a decision is the old one updated as the contract does.
LEMMA RowDecided ==
    ASSUME NEW w \in WdType, NEW n, NEW r \in Requests, NEW st \in Statuses, NEW b \in Actors,
           NEW c \in Int, NEW k \in Nat, RowIs(n, w, r, st, w[r].adminBy, b, c, k)
    PROVE  IsSettled(n, w, r, st, b, c, k)
<1> DEFINE p == [w EXCEPT ![r].status = st, ![r].finalBy = b, ![r].taken = c, ![r].booked = k]
<1>1. IsSettled(p, w, r, st, b, c, k)
    BY DEF IsSettled
<1> HIDE DEF p
<1>2. RowIs(p, w, r, st, w[r].adminBy, b, c, k)
    BY <1>1, SetSettled
<1>3. QED BY <1>1, <1>2, OneRow

\* A change to one member's row, as an EXCEPT.
LEMMA OneMember ==
    ASSUME NEW f \in MemType, NEW n \in MemType, NEW m \in Members,
           \A p \in Members \ {m} : n[p] = f[p]
    PROVE  n = [f EXCEPT ![m] = n[m]]
BY DEF MemType

\* A balance that is never negative is the contract's.
LEMMA ContractRow ==
    ASSUME NEW x \in MemRow, x.bal >= 0
    PROVE  x \in Contract!MemberRows
BY DEF MemRow, Contract!MemberRows

\* The same for all members.
LEMMA ContractRows ==
    ASSUME NEW f \in MemType, \A m \in Members : f[m].bal >= 0
    PROVE  \A m \in Members : f[m] \in Contract!MemberRows
<1> TAKE m \in Members
<1>1. f[m] \in MemRow /\ f[m].bal >= 0
    BY MemFields
<1>2. QED BY <1>1, ContractRow

\* The updates of a settled request, put together, are the contract's decision.
LEMMA DecidesAs ==
    ASSUME NEW r, NEW s \in Supers \ {wd[r].owner}, NEW cost, NEW k,
           NEW st \in {"paid", "investigating", "admin_approved", "rejected", "aml_review"},
           wd[r].status \in {"pending", "admin_approved", "aml_review"},
           cost = IF st \in {"paid", "investigating"} THEN wd[r].amount ELSE 0,
           k = IF st = "paid" THEN 1 ELSE 0,
           mem[wd[r].owner].bal >= cost,
           IsSettled(wd', wd, r, st, s, cost, k),
           IF st = "paid" THEN IsPaidOut(mem', mem, wd[r].owner, mem[wd[r].owner].bal - cost)
                          ELSE IsBalance(mem', mem, wd[r].owner, mem[wd[r].owner].bal - cost)
    PROVE  Contract!Decide(r)
<1>1. wd' = [wd EXCEPT ![r].status = st, ![r].finalBy = s,
                       ![r].taken = IF st \in {"paid", "investigating"} THEN wd[r].amount ELSE 0,
                       ![r].booked = IF st = "paid" THEN 1 ELSE 0]
    BY Zenon DEF IsSettled
<1>2. mem' = IF st = "paid"
             THEN [mem EXCEPT ![wd[r].owner].bal = mem[wd[r].owner].bal
                                 - (IF st \in {"paid", "investigating"} THEN wd[r].amount ELSE 0),
                              ![wd[r].owner].hot = TRUE, ![wd[r].owner].waived = FALSE]
             ELSE [mem EXCEPT ![wd[r].owner].bal = mem[wd[r].owner].bal
                                 - (IF st \in {"paid", "investigating"} THEN wd[r].amount ELSE 0)]
    BY Zenon DEF IsPaidOut, IsBalance
<1>3. st \in {"paid", "investigating"} => mem[wd[r].owner].bal >=
                                 (IF st \in {"paid", "investigating"} THEN wd[r].amount ELSE 0)
    BY Zenon
<1>4. QED BY <1>1, <1>2, <1>3, Zenon DEF Contract!Decide, Contract!Decidable

\* A handler that commits is the contract's decision.
LEMMA DecisionImplements ==
    ASSUME Ambient, DeployedInv, NEW s \in Supers, fin[s].pc # "idle",
           NEW st, NEW cost, NEW k, Outcome(s, st, cost, k)
    PROVE  Contract!Decide(fin[s].r)
<1> DEFINE r == fin[s].r
           m == wd[r].owner
<1>1. /\ r \in Requests /\ wd[r].status \in Unsettled /\ wd \in WdType /\ TypeInv
    BY WorkingFacts, Types DEF DeployedInv, DualInv, TypeInv, Outcome
<1>2. s \in Supers \ {m}
    BY <1>1 DEF DeployedInv, DualInv, HandlersDual, Outcome, Working, Owner
<1>3. RowIs(wd', wd, r, st, wd[r].adminBy, s, cost, k)
    BY DEF Outcome
<1>4. IsSettled(wd', wd, r, st, s, cost, k)
    <2>1. st \in Statuses /\ cost \in Int /\ k \in Nat /\ s \in Actors
        BY WorkingFacts, Enums DEF Outcome, Actors
    <2>2. QED BY <1>1, <1>3, <2>1, RowDecided
<1>5. /\ st \in {"paid", "investigating", "admin_approved", "rejected", "aml_review"}
      /\ cost = IF st \in {"paid", "investigating"} THEN wd[r].amount ELSE 0
      /\ k = IF st = "paid" THEN 1 ELSE 0
      /\ mem[m].bal >= cost
    BY WorkingFacts DEF Outcome, Amount, Owner
<1>6. IF st = "paid" THEN IsPaidOut(mem', mem, m, mem[m].bal - cost)
                   ELSE IsBalance(mem', mem, m, mem[m].bal - cost)
    BY DEF Outcome, Owner
<1> HIDE DEF r, m
<1>7. QED BY <1>1, <1>2, <1>4, <1>5, <1>6, DecidesAs DEF Unsettled, r, m

\* The humans, the poller and the other flows take the contract's other steps.
LEMMA RowsImplement ==
    ASSUME Ambient, DeployedInv, DeployedInv', RowsStep
    PROVE  Contract!CNext \/ UNCHANGED <<wd, mem>>
<1>1. wd \in WdType /\ mem \in MemType /\ mem' \in MemType /\ OwnersExist
    BY Types DEF DeployedInv, DualInv, TypeInv, Refs, TypeOK, MemType
<1>2. \A m \in Members : mem'[m] \in Contract!MemberRows
    BY <1>1, ContractRows DEF DeployedInv, Funded
<1>3. ASSUME NEW m \in Members, wd' = wd, \A p \in Members \ {m} : mem'[p] = mem[p]
      PROVE  Contract!CNext
    <2>1. mem' = [mem EXCEPT ![m] = mem'[m]]
        BY <1>1, <1>3, OneMember
    <2>2. QED BY <1>2, <1>3, <2>1, Zenon DEF Contract!OtherChange, Contract!CNext
<1>4. ASSUME NEW r \in Requests, Asks(r) PROVE Contract!CNext
    <2>1. wd'[r].amount \in Nat \ {0}
        BY <1>4, ConstantsAssumption DEF Asks
    <2>2. \A q \in Requests : wd[q].owner = wd'[r].owner => wd[q].status \notin Contract!Open
        BY <1>4 DEF Asks, HasOpen, OpenStatuses, Contract!Open
    <2>3. wd' = [wd EXCEPT ![r] = [Contract!Unasked EXCEPT !.status = "pending",
                               !.owner = wd'[r].owner, !.amount = wd'[r].amount]]
        <3>1. wd' = [wd EXCEPT ![r] = wd'[r]]
            BY <1>4, Zenon DEF Asks, IsNew
        <3>2. wd'[r] = [NoRow EXCEPT !.status = "pending", !.owner = wd'[r].owner,
                                     !.amount = wd'[r].amount]
            BY <1>4, Zenon DEF Asks, IsRequest
        <3>3. NoRow = Contract!Unasked
            BY DEF NoRow, Contract!Unasked
        <3>4. QED BY <3>1, <3>2, <3>3, Zenon
    <2>4. QED BY <1>4, <2>1, <2>2, <2>3, Zenon DEF Asks, Contract!Ask, Contract!CNext
<1>5. ASSUME NEW r \in Requests, NEW a \in Admins, Approves(a, r) PROVE Contract!CNext
    <2>1. wd' = [wd EXCEPT ![r].status = "admin_approved", ![r].adminBy = a]
        BY <1>5, Zenon DEF Approves, IsApproved
    <2>2. a \in Admins \ {wd[r].owner} /\ wd[r].status = "pending" /\ mem' = mem
        BY <1>5 DEF Approves
    <2>3. QED BY <2>1, <2>2, Zenon DEF Contract!Approve, Contract!CNext
<1>6. ASSUME NEW r \in Requests, Rejects(r) PROVE Contract!CNext
    <2>1. wd' = [wd EXCEPT ![r].status = "rejected"]
        BY <1>6, Zenon DEF Rejects, IsStatus
    <2>2. wd[r].status \in Contract!Decidable /\ mem' = mem
        BY <1>6 DEF Rejects, Contract!Decidable
    <2>3. QED BY <2>1, <2>2, Zenon DEF Contract!Turndown, Contract!CNext
<1>7. ASSUME NEW r \in Requests, PolledPaid(r) PROVE Contract!CNext
    <2>1. wd' = wd
        BY <1>7 DEF PolledPaid, DeployedInv, RowsSettled
    <2>2. wd[r].owner \in Members /\ \A p \in Members \ {wd[r].owner} : mem'[p] = mem[p]
        BY <1>1, <1>7 DEF PolledPaid, OwnersExist, MemIs
    <2>3. QED BY <1>3, <2>1, <2>2
<1>8. ASSUME NEW r \in Requests, PolledRefund(r) PROVE FALSE
    BY <1>8 DEF PolledRefund, DeployedInv, RowsSettled
<1>9. ASSUME NEW m \in Members, Elsewhere(m) PROVE Contract!CNext
    BY <1>3, <1>9 DEF Elsewhere
<1>10. QED BY <1>4, <1>5, <1>6, <1>7, <1>8, <1>9 DEF RowsStep

\* Every step of the deployed program is a step of the contract, or changes
\* none of the committed rows.
LEMMA StepImplements ==
    ASSUME Ambient, DeployedInv, DeployedInv', [Next]_vars
    PROVE  [Contract!CNext]_(Contract!cvars)
<1>1. TypeInv
    BY DEF DeployedInv, DualInv
<1>2. CASE Outside
    BY <1>1, <1>2, OutsideEffect, RowsImplement DEF Contract!cvars
<1>3. ASSUME NEW s \in Supers, NEW r \in Requests, NEW ov \in BOOLEAN, BeginFinalize(s, r, ov)
      PROVE  UNCHANGED <<wd, mem>>
    BY <1>3 DEF BeginFinalize
<1>4. ASSUME NEW s \in Supers, Handler(s) PROVE Contract!CNext \/ UNCHANGED <<wd, mem>>
    <2>1. Effect(s) /\ fin[s].pc # "idle"
        BY <1>1, <1>4, HandlerEffect DEF Effect
    <2>2. CASE Settles(s) \/ Pays(s)
        <3>1. Contract!Decide(fin[s].r) /\ fin[s].r \in Requests
            BY <2>1, <2>2, Decision, DecisionImplements, WorkingFacts
        <3>2. QED BY <3>1 DEF Contract!CNext
    <2>3. CASE Moves(s) \/ Quits(s) \/ Orphans(s)
        BY <2>3 DEF Moves, Quits, Orphans
    <2>4. CASE Claims(s)
        BY <2>1, <2>4, ClaimLocks
    <2>5. CASE Debits(s)
        BY <2>1, <2>5, DebitLocks
    <2>6. QED BY <2>1, <2>2, <2>3, <2>4, <2>5 DEF Effect
<1>5. CASE UNCHANGED vars
    BY <1>5 DEF vars, Contract!cvars
<1>6. QED BY <1>2, <1>3, <1>4, <1>5, NextSteps DEF Contract!cvars

\* The deployed program implements the contract: its claims, debits, transfers,
\* refunds and crashes, seen from the committed rows, are single decisions.
THEOREM DeployedImplements ==
    ASSUME Ambient
    PROVE  Spec => ImplementsContract
<1>1. Init => Contract!CInit
    <2> SUFFICES ASSUME Init PROVE Contract!CInit
        OBVIOUS
    <2>1. wd = [r \in Requests |-> Contract!Unasked]
        BY DEF Init, NoRow, Contract!Unasked
    <2>2. mem \in [Members -> Contract!MemberRows]
        BY ConstantsAssumption DEF Init, Contract!MemberRows
    <2>3. QED BY <2>1, <2>2 DEF Contract!CInit
<1>2. DeployedInv /\ DeployedInv' /\ [Next]_vars => [Contract!CNext]_(Contract!cvars)
    BY StepImplements
<1>3. QED BY <1>1, <1>2, DeployedAlways, PTL DEF Spec, ImplementsContract, Contract!CSpec
=============================================================================
